------------------------------ MODULE MCRepl ------------------------------
EXTENDS Repl

LOCAL S == INSTANCE LoxSyntax

One == S!Literal(Num(1))

\* print 1;
\* { var a = 1; print a; }
\* fun f(x) { print nope; } f(1);
Inputs ==
    << << S!PrintStmt(One) >>,
       << S!Block(<< S!Var("a", One), S!PrintStmt(S!Variable("a")) >>) >>,
       << S!Function("f", <<"x">>, << S!PrintStmt(S!Variable("nope")) >>),
          S!Expression(S!Call(S!Variable("f"), <<One>>)) >> >>
=============================================================================
