--------------------------- MODULE VirtualMachine ---------------------------
(***************************************************************************)
(* The bytecode interpreter of loxx (src/src/VirtualMachine.cpp): its      *)
(* value stack, call frames, open upvalues, globals and objects, with one  *)
(* action per instruction, or per group of instructions that differ in the *)
(* operator only.                                                          *)
(*                                                                         *)
(* Programs and instructions are those of Bytecode; ip counts instructions.*)
(* The stack is the array of cells and the height top, as in Stack.hpp: a  *)
(* popped value stays in its cell.  Memory is not limited here: the        *)
(* collector is the subject of ObjectTracker.                              *)
(***************************************************************************)
EXTENDS Bytecode, SequencesExt

CONSTANTS
    MaxFrames,  \* max_call_frames
    MaxStack    \* max_stack_size, which nothing checks at run time

ASSUME VirtualMachineAssumption ==
    /\ MaxFrames \in Nat \ {0}
    /\ MaxStack \in Nat \ {0}

VARIABLES
    program,    \* the functions of the program that runs
    cells,      \* stack_, the array
    top,        \* stack_, top_; -1 stands for 2^64 - 1
    frames,     \* call_stack_
    open,       \* open_upvalues_
    heap,       \* the objects, in the order of their creation
    globals,    \* globals_
    fn,         \* code_object_: the function that runs
    ip,         \* ip_
    output,     \* what has been printed
    status      \* "idle", "running", "done" or "error"

vars ==
    <<program, cells, top, frames, open, heap, globals, fn, ip, output, status>>

-----------------------------------------------------------------------------
Garbage == <<"garbage">>    \* a cell that was never written

IsObj(v, type) == Is(v, "obj") /\ heap[v[2]].type = type

\* What operator<< prints of a value: objects by their names.
Show(v) ==
    IF ~Is(v, "obj") THEN v
    ELSE LET o == heap[v[2]]
         IN  CASE o.type = "class" -> <<"class", o.name>>
               [] o.type = "instance" -> <<"instance", heap[o.cls].name>>
               [] o.type = "closure" -> <<"fn", program[o.fn].name>>
               [] o.type = "method" ->
                      <<"fn", program[heap[o.closure].fn].name>>
               [] OTHER -> <<"native">>

-----------------------------------------------------------------------------
Init ==
    /\ program = <<>>
    /\ cells = [i \in 1 .. MaxStack |-> Garbage]
    /\ top = 0
    /\ heap = << [type |-> "native", arity |-> 0] >>
    /\ frames = <<>>
    /\ open = <<>>
    /\ globals = [x \in {"clock"} |-> Obj(1)]
    /\ fn = 1 /\ ip = 1
    /\ output = <<>>
    /\ status = "idle"

\* The functions of p as they are numbered after those of earlier programs.
Relocated(p) ==
    LET base == Len(program)
        New(ins) == IF ins[1] = "CreateClosure"
                    THEN <<ins[1], ins[2] + base>> ELSE ins
    IN  [i \in DOMAIN p |->
            [p[i] EXCEPT !.code = [j \in DOMAIN @ |-> New(@[j])]]]

\* The beginning of execute: a closure and a frame for the top-level code.  What
\* earlier calls of execute left in the machine is still there.
Execute(p) ==
    LET entry == Len(program) + 1
    IN  /\ status = "idle" /\ status' = "running"
        /\ program' = program \o Relocated(p)
        /\ heap' = Append(heap, [type |-> "closure", fn |-> entry, ups |-> <<>>])
        /\ frames' = Append(frames, [ip |-> 1, fn |-> entry, slot |-> 1,
                                     closure |-> Len(heap) + 1])
        /\ fn' = entry /\ ip' = 1
        /\ UNCHANGED <<cells, top, open, globals, output>>

Ins == program[fn].code[ip]
Frame == Last(frames)

Top(n) == cells[top - n]

\* stack_.top(i) for i > 0 counts downwards from the top.
Replace(n, v) ==
    /\ top' = top - n + 1
    /\ cells' = [cells EXCEPT ![top - n + 1] = v]
Push(v) == Replace(0, v)
Discard(n) == top' = top - n /\ UNCHANGED cells

\* The instruction at ip is op; ip moves past it and its operands.
Fetch(op) == status = "running" /\ Ins[1] = op /\ UNCHANGED program
Advance == ip' = ip + 1 /\ UNCHANGED <<fn, frames>>
Running == UNCHANGED status
Quiet == UNCHANGED output
NoObjects == UNCHANGED <<heap, open, globals>>

\* throw make_runtime_error, after n values have been popped.
Fail(n) ==
    /\ status' = "error"
    /\ Discard(n)
    /\ Advance

-----------------------------------------------------------------------------
(* Operators and values.                                                   *)

Arithmetic ==
    \E op \in {"Subtract", "Multiply", "Divide", "Less", "Greater"} :
        /\ Fetch(op) /\ Quiet /\ NoObjects
        /\ IF Is(Top(1), "num") /\ Is(Top(0), "num")
           THEN Replace(2, Compute(op, Top(1)[2], Top(0)[2])) /\ Advance /\ Running
           ELSE Fail(2)

Add ==
    /\ Fetch("Add") /\ Quiet /\ NoObjects
    /\ \/ /\ Is(Top(1), "num") /\ Is(Top(0), "num")
          /\ Replace(2, Num(Top(1)[2] + Top(0)[2]))
          /\ Advance /\ Running
       \/ /\ Is(Top(1), "str") /\ Is(Top(0), "str")
          /\ Replace(2, Str(Top(1)[2] \o Top(0)[2]))
          /\ Advance /\ Running
       \/ /\ ~(Is(Top(1), "num") /\ Is(Top(0), "num"))
          /\ ~(Is(Top(1), "str") /\ Is(Top(0), "str"))
          /\ Fail(2)

Equal ==
    /\ Fetch("Equal") /\ Quiet /\ NoObjects
    /\ Replace(2, Bool(Top(1) = Top(0)))
    /\ Advance /\ Running

Not ==
    /\ Fetch("Not") /\ Quiet /\ NoObjects
    /\ Replace(1, Bool(~Truthy(Top(0))))
    /\ Advance /\ Running

Negate ==
    /\ Fetch("Negate") /\ Quiet /\ NoObjects
    /\ IF Is(Top(0), "num")
       THEN Replace(1, Num(-Top(0)[2])) /\ Advance /\ Running
       ELSE Fail(0)

\* True, False, Nil and LoadConstant: the operand is the value.
Literal ==
    /\ Fetch("Literal") /\ Quiet /\ NoObjects
    /\ Push(Ins[2])
    /\ Advance /\ Running

Pop ==
    /\ Fetch("Pop") /\ Quiet /\ NoObjects
    /\ Discard(1)
    /\ Advance /\ Running

PrintTop ==
    /\ Fetch("Print") /\ NoObjects
    /\ output' = Append(output, Show(Top(0)))
    /\ Discard(1)
    /\ Advance /\ Running

-----------------------------------------------------------------------------
(* Jumps.                                                                  *)

Goto(target) == ip' = target /\ UNCHANGED <<fn, frames>>

BadConditionalJump ==               \* takes the condition off the stack
    /\ Fetch("ConditionalJump") /\ Quiet /\ NoObjects
    /\ IF Truthy(Top(0)) THEN Advance ELSE Goto(Ins[2])
    /\ Discard(1) /\ Running

ConditionalJump ==
    /\ Fetch("ConditionalJump") /\ Quiet /\ NoObjects
    /\ IF Truthy(Top(0)) THEN Advance ELSE Goto(Ins[2])
    /\ Discard(0) /\ Running

\* Jump and Loop.
Jump ==
    /\ Fetch("Jump") /\ Quiet /\ NoObjects
    /\ Goto(Ins[2])
    /\ Discard(0) /\ Running

-----------------------------------------------------------------------------
(* Variables.                                                              *)

DefineGlobal ==
    /\ Fetch("DefineGlobal") /\ Quiet
    /\ globals' = Put(globals, Ins[2], Top(0))
    /\ Discard(1)
    /\ Advance /\ Running
    /\ UNCHANGED <<heap, open>>

GetGlobal ==
    /\ Fetch("GetGlobal") /\ Quiet /\ NoObjects
    /\ IF Ins[2] \in DOMAIN globals
       THEN Push(globals[Ins[2]]) /\ Advance /\ Running
       ELSE Fail(0)

SetGlobal ==
    /\ Fetch("SetGlobal") /\ Quiet
    /\ UNCHANGED <<heap, open>>
    /\ IF Ins[2] \in DOMAIN globals
       THEN /\ globals' = Put(globals, Ins[2], Top(0))
            /\ Discard(0) /\ Advance /\ Running
       ELSE Fail(0) /\ UNCHANGED globals

GetLocal ==
    /\ Fetch("GetLocal") /\ Quiet /\ NoObjects
    /\ Push(cells[Frame.slot + Ins[2]])
    /\ Advance /\ Running

BadSetLocal ==                      \* writes the next cell
    /\ Fetch("SetLocal") /\ Quiet /\ NoObjects
    /\ cells' = [cells EXCEPT ![Frame.slot + Ins[2] + 1] = Top(0)]
    /\ UNCHANGED top
    /\ Advance /\ Running

SetLocal ==
    /\ Fetch("SetLocal") /\ Quiet /\ NoObjects
    /\ cells' = [cells EXCEPT ![Frame.slot + Ins[2]] = Top(0)]
    /\ UNCHANGED top
    /\ Advance /\ Running

\* An upvalue reads and writes the stack cell it was made for until it is
\* closed, and a cell of its own from then on.
Upvalue(i) == heap[Frame.closure].ups[i + 1]
UpvalueValue(u) == IF heap[u].slot > 0 THEN cells[heap[u].slot] ELSE heap[u].val

GetUpvalue ==
    /\ Fetch("GetUpvalue") /\ Quiet /\ NoObjects
    /\ Push(UpvalueValue(Upvalue(Ins[2])))
    /\ Advance /\ Running

SetUpvalue ==
    LET u == Upvalue(Ins[2])
    IN  /\ Fetch("SetUpvalue") /\ Quiet
        /\ IF heap[u].slot > 0
           THEN /\ cells' = [cells EXCEPT ![heap[u].slot] = Top(0)]
                /\ UNCHANGED heap
           ELSE /\ heap' = [heap EXCEPT ![u].val = Top(0)]
                /\ UNCHANGED cells
        /\ UNCHANGED <<top, open, globals>>
        /\ Advance /\ Running

-----------------------------------------------------------------------------
(* Upvalues that are captured and closed.                                  *)

\* The list is searched from its front for the first upvalue of cell s or of a
\* lower one.
BadInsertionPoint(acc, s) ==        \* new upvalues go to the front
    LET At == {i \in DOMAIN acc.open : acc.heap[acc.open[i]].slot = s}
    IN  IF At = {} THEN 1 ELSE Min(At)

InsertionPoint(acc, s) ==
    LET At == {i \in DOMAIN acc.open : acc.heap[acc.open[i]].slot <= s}
    IN  IF At = {} THEN Len(acc.open) + 1 ELSE Min(At)

\* capture_upvalue: the upvalue of cell s, if there is one, or else a new one at
\* its place in the list.
Capture(acc, s) ==
    LET i == InsertionPoint(acc, s)
        new == Len(acc.heap) + 1
    IN  IF i \in DOMAIN acc.open /\ acc.heap[acc.open[i]].slot = s
        THEN [acc EXCEPT !.ups = Append(@, acc.open[i])]
        ELSE [heap |-> Append(acc.heap, [type |-> "upvalue", slot |-> s,
                                         val |-> Nil]),
              open |-> InsertAt(acc.open, i, new),
              ups |-> Append(acc.ups, new)]

\* The upvalues of a new closure are captured from the frame or taken from
\* the closure that runs.
CaptureOne(acc, u) ==
    IF u.is_local THEN Capture(acc, Frame.slot + u.index)
    ELSE [acc EXCEPT !.ups = Append(@, Upvalue(u.index))]

\* The new closure of function f, which has no upvalues yet, and what the loop
\* over the upvalues of f has made of it after k rounds.
WithClosure(f) ==
    [heap |-> Append(heap, [type |-> "closure", fn |-> f, ups |-> <<>>]),
     open |-> open, ups |-> <<>>]

Captured(f) ==
    LET captured[k \in 0 .. Len(program[f].ups)] ==
            IF k = 0 THEN WithClosure(f)
            ELSE CaptureOne(captured[k - 1], program[f].ups[k])
    IN  captured

CreateClosure ==
    LET f == Ins[2]
        closure == Len(heap) + 1
        acc == Captured(f)[Len(program[f].ups)]
    IN  /\ Fetch("CreateClosure") /\ Quiet
        /\ heap' = [acc.heap EXCEPT ![closure].ups = acc.ups]
        /\ open' = acc.open
        /\ Push(Obj(closure))
        /\ UNCHANGED globals
        /\ Advance /\ Running

\* close_upvalues(last): those at the front of the list, down to cell s.
Leading(s) ==
    {i \in DOMAIN open : \A j \in 1 .. i : heap[open[j]].slot >= s}

CloseFrom(s) ==
    LET closing == {open[i] : i \in Leading(s)}
    IN  /\ heap' = [o \in DOMAIN heap |->
                       IF o \in closing
                       THEN [type |-> "upvalue", slot |-> 0,
                             val |-> cells[heap[o].slot]]
                       ELSE heap[o]]
        /\ open' = SubSeq(open, Cardinality(Leading(s)) + 1, Len(open))

CloseUpvalue ==
    /\ Fetch("CloseUpvalue") /\ Quiet
    /\ CloseFrom(top)
    /\ Discard(1)
    /\ UNCHANGED globals
    /\ Advance /\ Running

-----------------------------------------------------------------------------
(* Classes and properties.                                                 *)

NewClass(name, super) ==
    [type |-> "class", name |-> name, methods |-> Nothing, super |-> super]

CreateClass ==
    /\ Fetch("CreateClass") /\ Quiet
    /\ heap' = Append(heap, NewClass(Ins[2], 0))
    /\ Push(Obj(Len(heap) + 1))
    /\ UNCHANGED <<open, globals>>
    /\ Advance /\ Running

CreateSubclass ==
    /\ Fetch("CreateSubclass") /\ Quiet
    /\ UNCHANGED <<open, globals>>
    /\ IF IsObj(Top(0), "class")
       THEN /\ heap' = Append(heap, NewClass(Ins[2], Top(0)[2]))
            /\ Push(Obj(Len(heap) + 1))
            /\ Advance /\ Running
       ELSE Fail(0) /\ UNCHANGED heap

CreateMethod ==
    LET cls == Top(1)[2]
    IN  /\ Fetch("CreateMethod") /\ Quiet
        /\ heap' = [heap EXCEPT ![cls].methods = Put(@, Ins[2], Top(0)[2])]
        /\ Discard(1)
        /\ UNCHANGED <<open, globals>>
        /\ Advance /\ Running

\* ClassObject::method: the closure of the nearest class of the chain that has
\* the method, 0 when none has.
Classes == {o \in DOMAIN heap : heap[o].type = "class"}
Method(cls, name) ==
    LET find[c \in Classes \cup {0}] ==
            IF c = 0 THEN 0
            ELSE IF name \in DOMAIN heap[c].methods THEN heap[c].methods[name]
            ELSE find[heap[c].super]
    IN  find[cls]

\* The top n values are replaced by method m bound to instance o.
BadBind(n, m, o) ==                 \* the two references swapped
    /\ heap' = Append(heap, [type |-> "method", closure |-> o, instance |-> m])
    /\ Replace(n, Obj(Len(heap) + 1))
    /\ UNCHANGED <<open, globals>>
    /\ Advance /\ Running

Bind(n, m, o) ==
    /\ heap' = Append(heap, [type |-> "method", closure |-> m, instance |-> o])
    /\ Replace(n, Obj(Len(heap) + 1))
    /\ UNCHANGED <<open, globals>>
    /\ Advance /\ Running

GetProperty ==
    /\ Fetch("GetProperty") /\ Quiet
    /\ IF ~IsObj(Top(0), "instance") THEN Fail(0) /\ NoObjects
       ELSE LET o == Top(0)[2]
                m == Method(heap[o].cls, Ins[2])
            IN  IF Ins[2] \in DOMAIN heap[o].fields
                THEN /\ Replace(1, heap[o].fields[Ins[2]])
                     /\ NoObjects /\ Advance /\ Running
                ELSE IF m # 0 THEN Bind(1, m, o)
                ELSE Fail(0) /\ NoObjects

SetProperty ==
    /\ Fetch("SetProperty") /\ Quiet
    /\ UNCHANGED <<open, globals>>
    /\ IF IsObj(Top(1), "instance")
       THEN /\ heap' = [heap EXCEPT ![Top(1)[2]].fields =
                                        Put(@, Ins[2], Top(0))]
            /\ Replace(2, Top(0))
            /\ Advance /\ Running
       ELSE Fail(0) /\ UNCHANGED heap

\* The superclass is on top of the instance.
GetSuperFunc ==
    LET m == Method(Top(0)[2], Ins[2])
    IN  /\ Fetch("GetSuperFunc") /\ Quiet
        /\ IF m # 0 THEN Bind(2, m, Top(1)[2])
           ELSE Fail(1) /\ NoObjects

-----------------------------------------------------------------------------
(* Calls.                                                                  *)

BadSlotBase(n) == top - n - 1       \* one cell too low
SlotBase(n) == top - n

\* call: a frame whose slot 0 is the cell of the callee.
CallClosure(closure, n) ==
    LET f == heap[closure].fn
    IN  /\ UNCHANGED <<top, open, globals>>
        /\ IF program[f].arity # n \/ Len(frames) = MaxFrames
           THEN status' = "error" /\ Advance
           ELSE /\ frames' = Append(frames, [ip |-> ip + 1, fn |-> fn,
                                             slot |-> SlotBase(n),
                                             closure |-> closure])
                /\ fn' = f /\ ip' = 1
                /\ Running

BadSetCallee(n, v) == UNCHANGED cells       \* the callee stays in its cell
SetCallee(n, v) == cells' = [cells EXCEPT ![top - n] = v]

CallClass(cls, n) ==
    LET init == Method(cls, "init")
    IN  /\ heap' = Append(heap, [type |-> "instance", cls |-> cls,
                                 fields |-> Nothing])
        /\ SetCallee(n, Obj(Len(heap) + 1))
        /\ IF init # 0 THEN CallClosure(init, n)
           ELSE /\ UNCHANGED <<top, open, globals>> /\ Advance
                /\ IF n = 0 THEN Running ELSE status' = "error"

CallNative(native, n) ==
    /\ NoObjects
    /\ Advance
    /\ IF heap[native].arity = n
       THEN /\ top' = top - n
            /\ cells' = [cells EXCEPT ![top - n - n] = Num(0)]
            /\ Running
       ELSE status' = "error" /\ Discard(0)

\* call_object.  The time that clock returns is Num(0).
CallObject(v, n) ==
    CASE IsObj(v, "class") -> CallClass(v[2], n)
      [] IsObj(v, "closure") ->
            CallClosure(v[2], n) /\ UNCHANGED <<cells, heap>>
      [] IsObj(v, "method") ->
            /\ SetCallee(n, Obj(heap[v[2]].instance))
            /\ CallClosure(heap[v[2]].closure, n)
            /\ UNCHANGED heap
      [] IsObj(v, "native") -> CallNative(v[2], n)
      [] OTHER -> Fail(0) /\ NoObjects

Call ==
    /\ Fetch("Call") /\ Quiet
    /\ CallObject(Top(Ins[2]), Ins[2])

Invoke ==
    LET name == Ins[2]
        n == Ins[3]
    IN  /\ Fetch("Invoke") /\ Quiet
        /\ IF ~IsObj(Top(n), "instance") THEN Fail(0) /\ NoObjects
           ELSE LET o == Top(n)[2]
                    m == Method(heap[o].cls, name)
                IN  IF name \in DOMAIN heap[o].fields
                    THEN CallObject(heap[o].fields[name], n)
                    ELSE IF m # 0
                    THEN CallClosure(m, n) /\ UNCHANGED <<cells, heap>>
                    ELSE Fail(0) /\ NoObjects

BadResume == fn' = fn /\ ip' = Frame.ip     \* the code stays that of the callee
Resume == fn' = Frame.fn /\ ip' = Frame.ip

BadResultCell == Frame.slot - 1     \* one cell too many is discarded
ResultCell == Frame.slot

\* The stack is cut at the cell of the callee, which the result replaces.
\* Code at top level has pushed no result: pop takes top below zero.
Return ==
    /\ Fetch("Return") /\ Quiet
    /\ CloseFrom(Frame.slot)
    /\ frames' = Front(frames)
    /\ UNCHANGED globals
    /\ \/ /\ Len(frames) = 1
          /\ status' = "done"
          /\ Discard(1)
          /\ ip' = ip + 1 /\ UNCHANGED fn
       \/ /\ Len(frames) > 1
          /\ cells' = [cells EXCEPT ![ResultCell] = Top(0)]
          /\ top' = ResultCell
          /\ Resume
          /\ Running

-----------------------------------------------------------------------------
\* An instruction of the loop of execute.
Instruction ==
    \/ Arithmetic \/ Add \/ Equal \/ Not \/ Negate \/ Literal \/ Pop \/ PrintTop
    \/ ConditionalJump \/ Jump
    \/ DefineGlobal \/ GetGlobal \/ SetGlobal \/ GetLocal \/ SetLocal
    \/ GetUpvalue \/ SetUpvalue \/ CloseUpvalue
    \/ CreateClosure \/ CreateClass \/ CreateSubclass \/ CreateMethod
    \/ GetProperty \/ SetProperty \/ GetSuperFunc
    \/ Call \/ Invoke \/ Return

\* The machine when it is given one of these programs.
Machine(Programs) ==
    Init /\ [][(\E p \in Programs : Execute(p)) \/ Instruction]_vars

-----------------------------------------------------------------------------
(* What the machine takes on trust: nothing at run time checks it.         *)

\* The code of every function ends with a return, its jumps stay in it, and its
\* upvalues are ones of the closure that runs it.
CodeFits == status # "idle" => ProgramFits(program)

\* The stack of the running frame ends above this cell.  In a function the callee
\* stays in slot 0; a method that ends without a return drops "this" from there.
Base ==
    IF Len(frames) = 1 THEN 0
    ELSE IF \E o \in DOMAIN heap :
                /\ heap[o].type = "class"
                /\ \E name \in DOMAIN heap[o].methods :
                       heap[o].methods[name] = Frame.closure
    THEN Frame.slot - 1
    ELSE Frame.slot

\* How many values an instruction takes from its frame.
Operands(ins) ==
    CASE ins[1] \in {"Add", "Subtract", "Multiply", "Divide", "Less", "Greater",
                     "Equal", "SetProperty", "CreateMethod", "GetSuperFunc"} -> 2
      [] ins[1] \in {"Not", "Negate", "Pop", "Print", "ConditionalJump",
                     "DefineGlobal", "SetGlobal", "SetUpvalue", "SetLocal",
                     "CloseUpvalue", "CreateSubclass", "GetProperty"} -> 1
      [] ins[1] = "Call" -> ins[2] + 1
      [] ins[1] = "Invoke" -> ins[3] + 1
      [] ins[1] = "Return" /\ Len(frames) > 1 -> 1
      [] OTHER -> 0

\* Every instruction finds its operands, and every local it names, in the part
\* of the stack that belongs to its frame, and operands whose type it does not
\* check are of that type.
OperandsPresent ==
    status = "running" =>
        /\ top - Operands(Ins) >= Base
        /\ Ins[1] \in {"Call", "Invoke"} /\ Len(frames) > 1 =>
               top - Operands(Ins) >= Frame.slot
        /\ Ins[1] \in {"GetLocal", "SetLocal"} =>
               Frame.slot + Ins[2] \in Frame.slot .. top
        /\ Ins[1] = "CreateClosure" =>
               \A k \in 1 .. Len(program[Ins[2]].ups) :
                   LET u == program[Ins[2]].ups[k]
                   IN  u.is_local =>
                           Frame.slot + u.index \in Frame.slot .. top + 1
        /\ Ins[1] = "CreateMethod" =>
               IsObj(Top(1), "class") /\ IsObj(Top(0), "closure")
        /\ Ins[1] = "GetSuperFunc" =>
               IsObj(Top(1), "instance") /\ IsObj(Top(0), "class")

\* The stack does not grow over the end of its array.
StackFits == top <= MaxStack

-----------------------------------------------------------------------------
\* Every variable has values of its type.
TypeOK ==
    /\ DOMAIN cells = 1 .. MaxStack
    /\ top \in -1 .. MaxStack
    /\ \A i \in 1 .. Len(frames) :
           /\ frames[i].slot \in 1 .. MaxStack
           /\ heap[frames[i].closure].type = "closure"
    /\ \A i \in 1 .. Len(open) : heap[open[i]].type = "upvalue"
    /\ status \in {"idle", "running", "done", "error"}
    /\ status # "idle" => fn \in 1 .. Len(program)

\* The list of open upvalues holds each upvalue that still reads the stack, and
\* only those, from the highest cell to the lowest and no cell twice, which
\* close_upvalues and the search of capture_upvalue rely on.
OpenUpvaluesOrdered ==
    /\ \A i, j \in 1 .. Len(open) :
           i < j => heap[open[i]].slot > heap[open[j]].slot
    /\ {open[i] : i \in 1 .. Len(open)} =
           {o \in 1 .. Len(heap) : heap[o].type = "upvalue" /\ heap[o].slot > 0}

\* Every cell that an open upvalue reads is below the top of the stack while the
\* program runs.
OpenUpvaluesLive ==
    status = "running" =>
        \A i \in 1 .. Len(open) : heap[open[i]].slot <= top

\* The frames of the active calls lie above one another on the stack, the code
\* that runs is that of the frame on top, and each frame returns behind a call
\* in the code of the frame below it.
FramesLinked ==
    status = "running" =>
        /\ fn = heap[Frame.closure].fn
        /\ Base <= top
        /\ \A i \in 2 .. Len(frames) :
               LET caller == frames[i - 1]
                   code == program[frames[i].fn].code
               IN  /\ frames[i].fn = heap[caller.closure].fn
                   /\ frames[i].ip \in 2 .. Len(code)
                   /\ code[frames[i].ip - 1][1] \in {"Call", "Invoke"}
                   /\ i > 2 => frames[i].slot > caller.slot

\* A step leaves the cells below its frame alone: the variables of the callers
\* change through upvalues only.
CallersUntouched ==
    [][ status = "running" =>
          \/ Ins[1] = "SetUpvalue"
          \/ \A c \in 1 .. Frame.slot - 1 : cells'[c] = cells[c] ]_vars

-----------------------------------------------------------------------------
(* The inductive invariant, for the functions p, the objects h, and so on.     *)

Ref(h, type) == {o \in 1 .. Len(h) : h[o].type = type}

\* A value that is no object, or one of h.
Good(h, v) == Is(v, "obj") => v[2] \in 1 .. Len(h)

\* An object of each type has the fields of the type, and refers to objects of
\* the types that the machine takes them to have.  A superclass is older than its
\* subclasses.
NativeOK(x) == x = [type |-> "native", arity |-> 0]
ClosureOK(p, h, x) ==
    /\ x = [type |-> "closure", fn |-> x.fn, ups |-> x.ups]
    /\ x.fn \in 1 .. Len(p)
    /\ \A k \in 1 .. Len(p[x.fn].ups) : x.ups[k] \in Ref(h, "upvalue")
UpvalueOK(h, x) ==
    /\ x = [type |-> "upvalue", slot |-> x.slot, val |-> x.val]
    /\ x.slot \in 0 .. MaxStack
    /\ Good(h, x.val)
ClassOK(h, o, x) ==
    /\ x = [type |-> "class", name |-> x.name, methods |-> x.methods,
            super |-> x.super]
    /\ \A m \in DOMAIN x.methods : x.methods[m] \in Ref(h, "closure")
    /\ x.super = 0 \/ (x.super \in Ref(h, "class") /\ x.super < o)
InstanceOK(h, x) ==
    /\ x = [type |-> "instance", cls |-> x.cls, fields |-> x.fields]
    /\ x.cls \in Ref(h, "class")
    /\ \A f \in DOMAIN x.fields : Good(h, x.fields[f])
MethodOK(h, x) ==
    /\ x = [type |-> "method", closure |-> x.closure, instance |-> x.instance]
    /\ x.closure \in Ref(h, "closure")
    /\ x.instance \in 1 .. Len(h)

ObjectOK(p, h, o, x) ==
    \/ x.type = "native" /\ NativeOK(x)
    \/ x.type = "closure" /\ ClosureOK(p, h, x)
    \/ x.type = "upvalue" /\ UpvalueOK(h, x)
    \/ x.type = "class" /\ ClassOK(h, o, x)
    \/ x.type = "instance" /\ InstanceOK(h, x)
    \/ x.type = "method" /\ MethodOK(h, x)

HeapOK(p, h) == IsSeq(h) /\ \A o \in 1 .. Len(h) : ObjectOK(p, h, o, h[o])

\* The values on the stack and of the globals are good.
CellsOK(h, c) ==
    /\ c = [i \in 1 .. MaxStack |-> c[i]]
    /\ \A i \in 1 .. MaxStack : Good(h, c[i])
GlobalsOK(h, g) == \A x \in DOMAIN g : Good(h, g[x])

\* OpenUpvaluesOrdered of a list s.
IsOpen(h, o) == h[o].type = "upvalue" /\ h[o].slot > 0
OpenOK(h, s) ==
    /\ IsSeq(s)
    /\ \A i, j \in 1 .. Len(s) : i < j => h[s[i]].slot > h[s[j]].slot
    /\ \A i \in 1 .. Len(s) : s[i] \in 1 .. Len(h) /\ IsOpen(h, s[i])
    /\ \A o \in 1 .. Len(h) : IsOpen(h, o) => \E i \in 1 .. Len(s) : s[i] = o

FramesOK(h, fs) ==
    /\ IsSeq(fs)
    /\ \A i \in 1 .. Len(fs) :
           /\ fs[i].slot \in 1 .. MaxStack
           /\ fs[i].closure \in Ref(h, "closure")

\* The frame above frame i returns behind a call in the code of frame i.
LinkOK(p, h, fs, i) ==
    LET above == fs[i + 1]
        code == p[above.fn].code
    IN  /\ above.fn = h[fs[i].closure].fn
        /\ above.ip \in 2 .. Len(code)
        /\ code[above.ip - 1][1] \in {"Call", "Invoke"}
        /\ i > 1 => above.slot > fs[i].slot

\* The frames of a running program, and the place in the code of the last one.
ChainOK(p, h, fs, f, i) ==
    /\ Len(fs) > 0 /\ fs[1].slot = 1
    /\ f = h[fs[Len(fs)].closure].fn
    /\ i \in 1 .. Len(p[f].code)
    /\ \A j \in 1 .. Len(fs) - 1 : LinkOK(p, h, fs, j)

ControlOK ==
    /\ top \in Int /\ top >= -1
    /\ status \in {"idle", "running", "done", "error"}
    /\ status = "idle" => top = 0 /\ program = <<>> /\ frames = <<>>
    /\ status # "idle" => fn \in 1 .. Len(program)
    /\ status = "running" => ChainOK(program, heap, frames, fn, ip)

IInv ==
    /\ HeapOK(program, heap) /\ CellsOK(heap, cells) /\ GlobalsOK(heap, globals)
    /\ FramesOK(heap, frames) /\ OpenOK(heap, open) /\ ControlOK
=============================================================================
