----------------------------- MODULE Interpreter -----------------------------
(***************************************************************************)
(* The compiler and the virtual machine together, as run in main.cpp puts  *)
(* them: a program is compiled and, if that reports no error, executed.    *)
(***************************************************************************)
EXTENDS VirtualMachine, Compiler

CONSTANT Sources    \* the programs, as a sequence of lists of statements

VARIABLE source     \* the number of the program

runVars == <<vars, source, todo, cs>>

RunInit ==
    /\ Init
    /\ \E i \in DOMAIN Sources : source = i /\ CompilerInit(Sources[i])

CompileStep == CompilerNext /\ UNCHANGED <<vars, source>>

\* run: nothing is executed after an error of the compiler.
ExecuteOutput ==
    /\ CompilerDone /\ ~cs.failed
    /\ Execute(Output)
    /\ UNCHANGED <<source, todo, cs>>

MachineStep == Instruction /\ UNCHANGED <<source, todo, cs>>

RunNext == CompileStep \/ ExecuteOutput \/ MachineStep
RunSpec == RunInit /\ [][RunNext]_runVars
=============================================================================
