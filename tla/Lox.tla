-------------------------------- MODULE Lox --------------------------------
(***************************************************************************)
(* The interpreter next to the meaning of what it runs.  When a program has*)
(* been compiled and before it is executed its meaning is computed, for the*)
(* comparison with what the execution does.                                *)
(*                                                                         *)
(* The history variable seen keeps, for each instruction that has run, the *)
(* height of the stack above its frame when it ran first.                  *)
(***************************************************************************)
EXTENDS Interpreter

VARIABLES
    meaning,        \* the evaluation of the program
    seen

M == INSTANCE Semantics
R == INSTANCE Rules

loxVars == <<runVars, meaning, seen>>

LoxInit == RunInit /\ meaning = M!Begin(Sources[source]) /\ seen = Nothing

Compile == CompileStep /\ UNCHANGED <<meaning, seen>>

Evaluate ==
    /\ CompilerDone /\ ~cs.failed /\ M!Running(meaning)
    /\ meaning' = M!Step(meaning)
    /\ UNCHANGED <<runVars, seen>>

Load == ~M!Running(meaning) /\ ExecuteOutput /\ UNCHANGED <<meaning, seen>>

\* The height of the stack above the frame.
Height == top - Frame.slot

Run ==
    /\ MachineStep
    /\ seen' = IF <<fn, ip>> \in DOMAIN seen THEN seen
               ELSE Put(seen, <<fn, ip>>, Height)
    /\ UNCHANGED meaning

LoxNext == Compile \/ Evaluate \/ Load \/ Run

\* The compiler and the loop of execute go on until they return or throw.
LoxSpec == LoxInit /\ [][LoxNext]_loxVars /\ WF_loxVars(LoxNext)

-----------------------------------------------------------------------------
\* The compiled program does what the program means: at every moment it has
\* printed a beginning of the output it must print, and when it has stopped it
\* has printed all of it and ended the way it must.
Correct ==
    /\ status # "idle" =>
           output = SubSeq(meaning.output, 1, Len(output))
    /\ status \in {"done", "error"} =>
           status = meaning.status /\ output = meaning.output

\* How many bytes lie before an instruction of a function, and whether a jump
\* crosses more of them than its operand can say.  A loop may not use the last
\* value.
Offset(code, i) ==
    LET bytes[k \in 0 .. Len(code)] ==
            IF k = 0 THEN 0 ELSE bytes[k - 1] + Bytes(cs, code[k])
    IN  bytes[i - 1]

JumpTooFar(code) ==
    \E i \in DOMAIN code :
        /\ code[i][1] \in {"Jump", "ConditionalJump"}
        /\ LET ahead == Offset(code, code[i][2]) - Offset(code, i + 1)
           IN  ahead > MaxJump \/ -ahead >= MaxJump

\* When the compiler returns, and before anything else happens, it has reported
\* an error exactly if the program breaks a rule of the language, has more
\* literals in one function than fit, or has a jump that is too far.
RejectsExactly ==
    CompilerDone /\ meaning = M!Begin(Sources[source]) =>
        (cs.failed <=> \/ R!BreaksRule(Sources[source])
                       \/ R!TooManyLiterals(Sources[source])
                       \/ \E f \in DOMAIN Output :
                              JumpTooFar(Output[f].code))

\* Whichever way control takes to an instruction, and however often, the stack
\* has the same height there, so that the slots the compiler gave to the locals
\* are the cells they are in.
HeightsAgree ==
    status = "running" /\ <<fn, ip>> \in DOMAIN seen =>
        seen[<<fn, ip>>] = Height

\* Every program of the instance is compiled and executed to its end.
Ends == <>(status \in {"done", "error"})
=============================================================================
