--------------------------------- MODULE Repl ---------------------------------
(***************************************************************************)
(* The prompt (run_prompt in src/src/main.cpp): one input after the other  *)
(* is compiled by a new compiler and executed by the one virtual machine,  *)
(* which is a static variable of run.  The machine is idle between inputs. *)
(***************************************************************************)
EXTENDS Lox

CONSTANT MaxInputs  \* bound: inputs of a session

VARIABLES
    inputs,     \* how many inputs there have been
    executed    \* whether execute has been called for the last one

replVars == <<loxVars, inputs, executed>>

ReplInit == LoxInit /\ inputs = 1 /\ executed = FALSE

Turn ==
    \/ Compile /\ UNCHANGED executed
    \/ Evaluate /\ UNCHANGED executed
    \/ ~executed /\ Load /\ executed' = TRUE
    \/ Run /\ UNCHANGED executed

\* run has returned: an input with an error was not executed, and a runtime error
\* is caught and printed.  had_error is reset, the machine is left as it is.
NextInput ==
    /\ CompilerDone /\ (cs.failed \/ ~M!Running(meaning))
    /\ cs.failed \/ status \in {"done", "error"}
    /\ inputs < MaxInputs /\ inputs' = inputs + 1
    /\ executed' = FALSE
    /\ status' = "idle"
    /\ \E i \in DOMAIN Sources :
           source' = i /\ Restart(Sources[i]) /\ meaning' = M!Begin(Sources[i])
    /\ UNCHANGED <<program, cells, top, frames, open, heap, globals, fn, ip,
                   output, seen>>

ReplNext == (Turn /\ UNCHANGED inputs) \/ NextInput

ReplSpec == ReplInit /\ [][ReplNext]_replVars

-----------------------------------------------------------------------------
\* Between two inputs nothing of the last one is left on the stacks, however it
\* ended: execute starts its frame at the bottom of the stack, and takes it that
\* the frame is the only one.
MachineClean ==
    status = "idle" => top = 0 /\ frames = <<>> /\ open = <<>>
=============================================================================
