------------------------------ MODULE Compiler ------------------------------
(***************************************************************************)
(* The bytecode compiler of loxx (src/src/Compiler.cpp, FunctionScope.cpp).*)
(* The call stack of its visitors is the list todo: the syntax trees still *)
(* to visit and, between them, what the visitors do when the visit of a    *)
(* subtree has returned.  A step visits a tree or does one such task.  The *)
(* state of the compiler is the record cs:                                 *)
(*                                                                         *)
(*   scopes   func_ and its enclosing_ scopes, the innermost last          *)
(*   funs     the functions compiled so far; the first is the top level    *)
(*   cls      class_type_                                                  *)
(*   marks    first_jump_pos, second_jump_pos and first_label_pos of the   *)
(*            visitors under way, the innermost last                       *)
(*   failed   whether an error was reported: main.cpp then runs nothing    *)
(*   looping  whether a search with a one-byte counter goes on for ever    *)
(*                                                                         *)
(* In the code an instruction carries its constant or, if it jumps, the    *)
(* index of the instruction it leads to; see VirtualMachine.               *)
(***************************************************************************)
EXTENDS Bytecode, SequencesExt

CONSTANTS
    ByteSize,       \* how many values the index of a local or an upvalue has
    MaxConstants,   \* max_scope_constants
    MaxJump         \* the longest distance of a jump, in bytes

ASSUME CompilerAssumption ==
    /\ ByteSize \in Nat \ {0}
    /\ MaxConstants \in Nat
    /\ MaxJump \in Nat

VARIABLES todo, cs

Local(name, defined, depth) ==
    [name |-> name, defined |-> defined, is_upvalue |-> FALSE, depth |-> depth]

\* A function has slot 0 for the closure that runs; in a method it is "this".
Scope(type, depth) ==
    [type |-> type, depth |-> depth, ups |-> <<>>, code |-> <<>>,
     constants |-> {},
     locals |-> IF type = "Function" THEN <<Local("", FALSE, 0)>> ELSE <<>>]

func(c) == Last(c.scopes)
Update(c, f) == [c EXCEPT !.scopes[Len(c.scopes)] = f]
Failed(c) == [c EXCEPT !.failed = TRUE]

\* The key under which the constant of an instruction is kept: equal literals
\* and equal names share a constant, a function is always a new one.
Constant(ins) ==
    CASE ins[1] = "Literal" /\ (Is(ins[2], "num") \/ Is(ins[2], "str")) -> {ins[2]}
      [] ins[1] \in {"DefineGlobal", "GetGlobal", "SetGlobal", "GetProperty",
                     "SetProperty", "Invoke", "GetSuperFunc", "CreateClass",
                     "CreateSubclass", "CreateMethod"} -> {<<"name", ins[2]>>}
      [] ins[1] = "CreateClosure" -> {ins}
      [] OTHER -> {}

BadNoRoom(f, keys) ==               \* one constant fewer has room
    keys \ f.constants # {} /\ Cardinality(f.constants) = MaxConstants - 1

NoRoom(f, keys) ==
    keys \ f.constants # {} /\ Cardinality(f.constants) = MaxConstants

\* add_instruction, after add_named_constant or add_constant
Emit(c, instruction) ==
    LET f == func(c)
        keys == Constant(instruction)
    IN  [c EXCEPT !.scopes[Len(c.scopes)] =
                      [f EXCEPT !.code = Append(@, instruction),
                                !.constants = @ \cup keys],
                  !.failed = @ \/ NoRoom(f, keys)]
Size(c) == Len(func(c).code)

\* The bytes an instruction of c takes with its operands.
Bytes(c, ins) ==
    CASE ins[1] \in {"Jump", "ConditionalJump", "Invoke"} -> 3
      [] ins[1] = "CreateClosure" -> 2 + 2 * Len(c.funs[ins[2]].ups)
      [] Len(ins) = 1 \/ (ins[1] = "Literal" /\ Constant(ins) = {}) -> 1
      [] OTHER -> 2

\* The bytes of the instructions from i on.
Distance(c, i) ==
    LET code == func(c).code
    IN  FoldLeft(LAMBDA n, ins : n + Bytes(c, ins), 0, SubSeq(code, i, Len(code)))

-----------------------------------------------------------------------------
(* Scopes and variables.                                                   *)

BeginScope(c) == Update(c, [func(c) EXCEPT !.depth = @ + 1])

\* A captured local leaves the stack by way of its upvalue.
BadPopOf(local) == <<"Pop">>       \* captured locals are not closed
PopOf(local) == IF local.is_upvalue THEN <<"CloseUpvalue">> ELSE <<"Pop">>

\* Whether a local is in scope after the innermost one of f.
Outlives(local, f) == local.depth < f.depth

\* end_scope drops the locals at the end of the list that belong to the scope.
EndScope(c) ==
    LET f == func(c)
        kept == Max({0} \cup {i \in DOMAIN f.locals :
                                  Outlives(f.locals[i], f)})
        left == SubSeq(f.locals, kept + 1, Len(f.locals))
    IN  Update(c, [f EXCEPT !.depth = @ - 1,
                            !.locals = SubSeq(@, 1, kept),
                            !.code = @ \o Reverse([i \in DOMAIN left |->
                                                      PopOf(left[i])])])

AddLocal(c, name) ==
    Update(c, [func(c) EXCEPT !.locals = Append(@, Local(name, FALSE, 0))])

\* declare_local looks for the name down to the first local of an outer scope.
Clash(f, name) ==
    \E i \in DOMAIN f.locals :
        /\ f.locals[i].name = name
        /\ \A j \in i .. Len(f.locals) :
               ~ (f.locals[j].defined /\ f.locals[j].depth < f.depth)

IsGlobal(c) == func(c).depth = 0

Declare(c, name) ==
    IF IsGlobal(c) THEN c
    ELSE AddLocal(IF Clash(func(c), name) THEN Failed(c) ELSE c, name)

EmitDefineGlobal(c, name) == Emit(c, <<"DefineGlobal", name>>)

Define(c, name) ==
    IF IsGlobal(c) THEN EmitDefineGlobal(c, name)
    ELSE LET f == func(c)
             n == Len(f.locals)
         IN  Update(c, [f EXCEPT !.locals[n].defined = TRUE,
                                 !.locals[n].depth = f.depth])

\* The position of the innermost local of this name, 0 if there is none.
ResolveLocal(f, name) ==
    Max({0} \cup {i \in DOMAIN f.locals : f.locals[i].name = name})

\* The index of the local at this position, cast to a byte.
BadSlot(i) == IF i = ByteSize THEN 0 ELSE i - 1     \* wraps one too early
Slot(i) == (i - 1) % ByteSize

\* add_upvalue of scope k.  The counter of the search is a byte: when it cannot
\* reach the number of the upvalues, only a find ends the search.
BadAddUpvalue(c, k, upvalue) ==     \* the index behind the new upvalue
    LET ups == c.scopes[k].ups
        at == {i \in DOMAIN ups : ups[i] = upvalue /\ i <= ByteSize}
    IN  IF at # {} THEN [cs |-> c, index |-> Min(at) - 1]
        ELSE [cs |-> [c EXCEPT !.scopes[k].ups = Append(@, upvalue),
                               !.looping = @ \/ Len(ups) >= ByteSize],
              index |-> Len(ups) + 1]

AddUpvalue(c, k, upvalue) ==
    LET ups == c.scopes[k].ups
        at == {i \in DOMAIN ups : ups[i] = upvalue /\ i <= ByteSize}
    IN  IF at # {} THEN [cs |-> c, index |-> Min(at) - 1]
        ELSE [cs |-> [c EXCEPT !.scopes[k].ups = Append(@, upvalue),
                               !.looping = @ \/ Len(ups) >= ByteSize],
              index |-> Len(ups)]

\* resolve_upvalue: the innermost enclosing scope k with such a local marks it
\* as captured, and every scope from there inwards gets an upvalue.  The index
\* is -1 if no scope has one.
Marked(c, k, slot) == [c EXCEPT !.scopes[k].locals[slot + 1].is_upvalue = TRUE]
Inwards(acc, j, is_local) ==
    AddUpvalue(acc.cs, j, [is_local |-> is_local, index |-> acc.index])

Chain(c, k, slot) ==
    LET chain[j \in k .. Len(c.scopes)] ==
            IF j = k THEN [cs |-> Marked(c, k, slot), index |-> slot]
            ELSE Inwards(chain[j - 1], j, j = k + 1)
    IN  chain

ResolveUpvalue(c, name) ==
    LET n == Len(c.scopes)
        holders == {k \in 1 .. n - 1 : ResolveLocal(c.scopes[k], name) > 0}
        k == Max(holders)
    IN  IF holders = {} THEN [cs |-> c, index |-> -1]
        ELSE Chain(c, k, Slot(ResolveLocal(c.scopes[k], name)))[n]

\* handle_variable_reference: a local, else an upvalue, else a global.  A local
\* must not be read in its own initialiser.
Reference(c, name, write) ==
    LET f == func(c)
        i == ResolveLocal(f, name)
        up == ResolveUpvalue(c, name)
        op(set, get) == IF write THEN set ELSE get
    IN  IF i > 0
        THEN Emit(IF f.locals[i].defined THEN c ELSE Failed(c),
                  <<op("SetLocal", "GetLocal"), Slot(i)>>)
        ELSE IF up.index >= 0
        THEN Emit(up.cs, <<op("SetUpvalue", "GetUpvalue"), up.index>>)
        ELSE Emit(c, <<op("SetGlobal", "GetGlobal"), name>>)

ThisReturn(c) == Emit(Reference(c, "this", FALSE), <<"Return">>)

-----------------------------------------------------------------------------
(* The steps.                                                              *)

Visiting(kind) == todo # <<>> /\ ~cs.looping /\ Head(todo).is = kind
Node == Head(todo)

\* The state becomes c, and the tasks come before the rest.
Do(c, tasks) ==
    /\ cs' = c
    /\ todo' = tasks \o Tail(todo)

Adding(ins) == [is |-> "Add", ins |-> ins]
AddingJump(op) == [is |-> "AddJump", op |-> op]
PatchingJump(n) == [is |-> "PatchJump", n |-> n]
Task(name) == [is |-> name]

\* add_instruction
AddInstruction == Visiting("Add") /\ Do(Emit(cs, Node.ins), <<>>)

\* add_jump: the jump is the last mark until it gets its target.
AddJump ==
    /\ Visiting("AddJump")
    /\ LET c == Emit(cs, <<Node.op, 0>>)
       IN  Do([c EXCEPT !.marks = Append(@, Size(c))], <<>>)

\* patch_jump: the n-th mark from the end leads to the next instruction.
PatchJump ==
    /\ Visiting("PatchJump")
    /\ LET i == Len(cs.marks) + 1 - Node.n
           far == Distance(cs, cs.marks[i] + 1) > MaxJump
           f == [func(cs) EXCEPT !.code[cs.marks[i]][2] = Size(cs) + 1]
       IN  Do([Update(IF far THEN Failed(cs) ELSE cs, f)
                  EXCEPT !.marks = RemoveAt(@, i)], <<>>)

\* add_loop: back to the label that was marked before the jump out of the loop.
AddLoop ==
    /\ Visiting("AddLoop")
    /\ LET i == Len(cs.marks) - 1
           c == Emit(cs, <<"Jump", cs.marks[i]>>)
           far == Distance(c, cs.marks[i]) >= MaxJump
       IN  Do([(IF far THEN Failed(c) ELSE c) EXCEPT !.marks = RemoveAt(@, i)],
              <<>>)

-----------------------------------------------------------------------------
(* Expressions.                                                            *)

VisitLiteral == Visiting("Literal") /\ Do(Emit(cs, <<"Literal", Node.value>>), <<>>)

VisitVariable == Visiting("Variable") /\ Do(Reference(cs, Node.name, FALSE), <<>>)

VisitAssign ==
    /\ Visiting("Assign")
    /\ Do(cs, <<Node.value, [is |-> "Assigned", name |-> Node.name]>>)
Assigned == Visiting("Assigned") /\ Do(Reference(cs, Node.name, TRUE), <<>>)

VisitGrouping == Visiting("Grouping") /\ Do(cs, <<Node.expression>>)

VisitUnary ==
    /\ Visiting("Unary")
    /\ Do(cs, <<Node.right,
                Adding(IF Node.op = "Bang" THEN <<"Not">> ELSE <<"Negate">>)>>)

Opcode(op) ==
    CASE op = "Plus" -> "Add"
      [] op = "Minus" -> "Subtract"
      [] op = "Star" -> "Multiply"
      [] op = "Slash" -> "Divide"
      [] op \in {"Less", "GreaterEqual"} -> "Less"
      [] op \in {"Greater", "LessEqual"} -> "Greater"
      [] op \in {"EqualEqual", "BangEqual"} -> "Equal"

VisitBinary ==
    LET negated == Node.op \in {"LessEqual", "GreaterEqual", "BangEqual"}
    IN  /\ Visiting("Binary")
        /\ Do(cs, <<Node.left, Node.right, Adding(<<Opcode(Node.op)>>)>>
                      \o IF negated THEN <<Adding(<<"Not">>)>> ELSE <<>>)

\* The left operand stays on the stack under the right one of an "or".
VisitLogical ==
    /\ Visiting("Logical")
    /\ Do(cs, <<Node.left, AddingJump("ConditionalJump")>>
                  \o IF Node.op = "Or"
                     THEN <<AddingJump("Jump"), PatchingJump(2), Node.right,
                            PatchingJump(1)>>
                     ELSE <<Adding(<<"Pop">>), Node.right, PatchingJump(1)>>)

\* The callee o.m is not a value: the object is, and Invoke looks m up after the
\* arguments, the number of which must fit a byte.
VisitCall ==
    LET n == Len(Node.arguments)
        checked == IF n > ByteSize - 1 THEN Failed(cs) ELSE cs
    IN  /\ Visiting("Call")
        /\ IF Node.callee.is = "Get"
           THEN Do(checked, <<Node.callee.object>> \o Node.arguments
                                \o <<Adding(<<"Invoke", Node.callee.name, n>>)>>)
           ELSE Do(checked, <<Node.callee>> \o Node.arguments
                                \o <<Adding(<<"Call", n>>)>>)

VisitGet ==
    /\ Visiting("Get")
    /\ Do(cs, <<Node.object, Adding(<<"GetProperty", Node.name>>)>>)

VisitSet ==
    /\ Visiting("Set")
    /\ Do(cs, <<Node.object, Node.value, Adding(<<"SetProperty", Node.name>>)>>)

VisitThis ==
    /\ Visiting("This")
    /\ Do(Reference(IF cs.cls = "None" THEN Failed(cs) ELSE cs, "this", FALSE),
          <<>>)

VisitSuper ==
    LET checked == IF cs.cls = "Subclass" THEN cs ELSE Failed(cs)
        this == Reference(checked, "this", FALSE)
    IN  /\ Visiting("Super")
        /\ Do(Emit(Reference(this, "super", FALSE),
                   <<"GetSuperFunc", Node.method>>), <<>>)

-----------------------------------------------------------------------------
(* Statements.                                                             *)

VisitBlock ==
    /\ Visiting("Block")
    /\ Do(BeginScope(cs), Node.statements \o <<Task("EndBlock")>>)
EndBlock == Visiting("EndBlock") /\ Do(EndScope(cs), <<>>)

\* The superclass is the local "super".  It is never defined and keeps the depth
\* 0, so that no end_scope drops it.
BadOpenSuper(c) ==                  \* it is defined, and dropped with the class
    Define(AddLocal(BeginScope(c), "super"), "super")
OpenSuper(c) == AddLocal(BeginScope(c), "super")

VisitClass ==
    LET sub == Node.superclass # Absent
        type == IF Node.superclass = Absent THEN "Superclass" ELSE "Subclass"
        named == [cs EXCEPT !.cls = type]
        Method(fn) == [is |-> "Method", fn |-> fn]
        end == [is |-> "EndClass", name |-> Node.name, sub |-> sub,
                cls |-> cs.cls]
        rest == [i \in DOMAIN Node.methods |-> Method(Node.methods[i])] \o <<end>>
    IN  /\ Visiting("Class")
        /\ IF sub
           THEN Do(OpenSuper(named),
                   <<Node.superclass, Adding(<<"CreateSubclass", Node.name>>)>>
                       \o rest)
           ELSE Do(named, <<Adding(<<"CreateClass", Node.name>>)>> \o rest)

\* The name of a class is a global whatever the scope.
EndClass ==
    LET c == IF Node.sub THEN EndScope(cs) ELSE cs
    IN  /\ Visiting("EndClass")
        /\ Do([EmitDefineGlobal(c, Node.name) EXCEPT !.cls = Node.cls], <<>>)

\* compile_function up to the body.  The scope of a function is two levels below
\* the enclosing one.
Opened(c, type) ==
    BeginScope([c EXCEPT !.scopes = Append(@, Scope(type, func(c).depth + 1))])
Parameter(c, name) == Define(Declare(c, name), name)

Named(c, names) ==
    LET named[i \in 0 .. Len(names)] ==
            IF i = 0 THEN c ELSE Parameter(named[i - 1], names[i])
    IN  named

BeginFunction(c, fn, type) ==
    LET names == (IF type = "Function" THEN <<>> ELSE <<"this">>) \o fn.parameters
    IN  Named(Opened(c, type), names)[Len(names)]

\* num_upvalues of the function object is one byte.
Upvalues(ups) == SubSeq(ups, 1, Len(ups) % ByteSize)

\* compile_function from the end of the body.  CreateClosure goes to the
\* enclosing function.
EndBody(c) ==
    LET body == IF func(c).type = "Initialiser" THEN ThisReturn(c) ELSE c
    IN  Emit(Emit(EndScope(body), <<"Literal", Nil>>), <<"Return">>)

EndFunction ==
    LET fn == Node.fn
        done == EndBody(cs)
        new == [name |-> fn.name, arity |-> Len(fn.parameters),
                ups |-> Upvalues(func(done).ups), code |-> func(done).code]
    IN  /\ Visiting("EndFunction")
        /\ Do(Emit([done EXCEPT !.scopes = Front(@), !.funs = Append(@, new)],
                   <<"CreateClosure", Len(done.funs) + 1>>), <<>>)

\* The condition under which that byte holds the number of the upvalues.
FewUpvalues == Visiting("EndFunction") => Len(func(EndBody(cs)).ups) < ByteSize

Body(fn) == fn.body \o <<[is |-> "EndFunction", fn |-> fn]>>

\* One round of the loop over the methods in visit_class_stmt.
CompileMethod ==
    LET fn == Node.fn
        type == IF fn.name = "init" THEN "Initialiser" ELSE "Method"
    IN  /\ Visiting("Method")
        /\ Do(BeginFunction(cs, fn, type),
              Body(fn) \o <<Adding(<<"CreateMethod", fn.name>>)>>)

VisitFunction ==
    /\ Visiting("Function")
    /\ Do(BeginFunction(Declare(cs, Node.name), Node, "Function"),
          Body(Node) \o <<[is |-> "Define", name |-> Node.name]>>)

VisitVar ==
    /\ Visiting("Var")
    /\ Do(Declare(cs, Node.name),
          << IF Node.initialiser = Absent THEN Adding(<<"Literal", Nil>>)
             ELSE Node.initialiser,
             [is |-> "Define", name |-> Node.name] >>)

\* define_variable at the end of visit_function_stmt and visit_var_stmt.
DefineVariable == Visiting("Define") /\ Do(Define(cs, Node.name), <<>>)

VisitExpression ==
    Visiting("Expression") /\ Do(cs, <<Node.expression, Adding(<<"Pop">>)>>)

VisitPrint ==
    Visiting("Print") /\ Do(cs, <<Node.expression, Adding(<<"Print">>)>>)

VisitIf ==
    /\ Visiting("If")
    /\ Do(cs, <<Node.condition, AddingJump("ConditionalJump"),
                Adding(<<"Pop">>), Node.then,
                AddingJump("Jump"), PatchingJump(2), Adding(<<"Pop">>)>>
                  \o (IF Node.else = Absent THEN <<>> ELSE <<Node.else>>)
                  \o <<PatchingJump(1)>>)

\* The label of the loop is the first mark.
BadVisitWhile ==                    \* the loop leaves its condition behind
    /\ Visiting("While")
    /\ Do([cs EXCEPT !.marks = Append(@, Size(cs) + 1)],
          <<Node.condition, AddingJump("ConditionalJump"),
            Adding(<<"Pop">>), Node.body,
            Task("AddLoop"), PatchingJump(1)>>)

VisitWhile ==
    /\ Visiting("While")
    /\ Do([cs EXCEPT !.marks = Append(@, Size(cs) + 1)],
          <<Node.condition, AddingJump("ConditionalJump"),
            Adding(<<"Pop">>), Node.body,
            Task("AddLoop"), PatchingJump(1), Adding(<<"Pop">>)>>)

VisitReturn ==
    LET type == func(cs).type
        checked == IF \/ type = "None"
                      \/ type = "Initialiser" /\ Node.value # Absent
                   THEN Failed(cs) ELSE cs
    IN  /\ Visiting("Return")
        /\ IF type = "Initialiser" THEN Do(ThisReturn(checked), <<>>)
           ELSE Do(checked, << IF Node.value = Absent
                               THEN Adding(<<"Literal", Nil>>) ELSE Node.value,
                               Adding(<<"Return">>) >>)

-----------------------------------------------------------------------------
\* A compiler at the beginning of Compiler::compile, for these statements.
Fresh == [scopes |-> <<Scope("None", 0)>>, funs |-> << <<>> >>,
          cls |-> "None", marks |-> <<>>, failed |-> FALSE, looping |-> FALSE]
TopLevel(stmts) == stmts \o <<Adding(<<"Return">>)>>

CompilerInit(stmts) == cs = Fresh /\ todo = TopLevel(stmts)
Restart(stmts) == cs' = Fresh /\ todo' = TopLevel(stmts)

CompilerNext ==
    \/ AddInstruction \/ AddJump \/ PatchJump \/ AddLoop
    \/ VisitLiteral \/ VisitVariable \/ VisitAssign \/ Assigned \/ VisitGrouping
    \/ VisitUnary \/ VisitBinary \/ VisitLogical \/ VisitCall \/ VisitGet
    \/ VisitSet \/ VisitThis \/ VisitSuper
    \/ VisitBlock \/ EndBlock \/ VisitClass \/ EndClass \/ CompileMethod
    \/ VisitFunction \/ EndFunction \/ VisitVar \/ DefineVariable
    \/ VisitExpression \/ VisitPrint \/ VisitIf \/ VisitWhile \/ VisitReturn

CompilerDone == todo = <<>>

\* release_output: the functions of the program, with its top level first.
Output ==
    [cs.funs EXCEPT ![1] = [name |-> "top level", arity |-> 0, ups |-> <<>>,
                            code |-> func(cs).code]]
=============================================================================
