----------------------------- MODULE MCLineTable -----------------------------
EXTENDS LineTable

ShortSteps == {-128, -3, 0, 1, 127}
FarSteps == {-200, -128, -3, 0, 1, 127, 130, 300}
Bytes == {1, 3, 60}
=============================================================================
