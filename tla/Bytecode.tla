------------------------------ MODULE Bytecode ------------------------------
(***************************************************************************)
(* What the compiler promises of the code it makes and the virtual machine *)
(* takes on trust.  A program is a sequence of functions, the first of     *)
(* which is its top-level code.  An instruction is a tuple of its name and *)
(* operands; a constant stands in the place of its index, and a jump has   *)
(* the instruction it leads to in the place of the distance in bytes.      *)
(***************************************************************************)
EXTENDS Values, AnySequence

IsJump(ins) == ins[1] \in {"Jump", "ConditionalJump"}

\* Upvalue u is of a closure made in a function with these upvalues: it is a local
\* of the function or one of them.
InReach(u, ups) == u.is_local \/ u.index + 1 \in 1 .. Len(ups)

\* What an instruction refers to exists: upvalues of its function, functions of p
\* that capture no more than its function has.
RefersWell(ins, ups, p) ==
    /\ ins[1] \in {"GetUpvalue", "SetUpvalue"} => ins[2] + 1 \in 1 .. Len(ups)
    /\ ins[1] = "Literal" => ~Is(ins[2], "obj")
    /\ ins[1] = "Call" => ins[2] \in Nat
    /\ ins[1] = "Invoke" => ins[3] \in Nat
    /\ ins[1] = "CreateClosure" =>
           /\ ins[2] \in 1 .. Len(p)
           /\ \A k \in 1 .. Len(p[ins[2]].ups) : InReach(p[ins[2]].ups[k], ups)

\* Control stays in this code, which ends with a return.
ControlStays(code) ==
    /\ 1 \in 1 .. Len(code)
    /\ \A i \in 1 .. Len(code) :
           /\ code[i][1] # "Return" => i + 1 \in 1 .. Len(code)
           /\ IsJump(code[i]) => code[i][2] \in 1 .. Len(code)

\* CodeObject with its name and what FuncObject says of it.
IsCodeObject(x) ==
    /\ x = [name |-> x.name, arity |-> x.arity, ups |-> x.ups, code |-> x.code]
    /\ IsSeq(x.ups) /\ IsSeq(x.code)

FunctionFits(p, f) ==
    /\ IsCodeObject(p[f]) /\ ControlStays(p[f].code)
    /\ \A i \in 1 .. Len(p[f].code) : RefersWell(p[f].code[i], p[f].ups, p)

\* The code of every function ends with a return, its jumps stay in it, and its
\* upvalues are ones of the closure that runs it.
ProgramFits(p) ==
    /\ IsSeq(p) /\ 1 \in 1 .. Len(p) /\ p[1].ups = <<>>
    /\ \A f \in 1 .. Len(p) : FunctionFits(p, f)
=============================================================================
