----------------------------- MODULE Semantics -----------------------------
(***************************************************************************)
(* What a Lox program means: the output and the outcome that compiling and *)
(* running it must have.  This is an evaluator of syntax trees with block  *)
(* structure in the usual sense: a scope maps names to locations, a        *)
(* closure keeps the scope it was made in, and nothing here knows of       *)
(* slots, upvalues or jumps.  It follows the language the repository's     *)
(* tests describe (src/tests), and loxx in three choices: the name of a    *)
(* class is always global, the method of a call o.m(...) is looked up      *)
(* after the arguments, and MaxFrames calls may be active.                 *)
(*                                                                         *)
(* The state m of an evaluation has what is left to do (syntax trees and   *)
(* the work that follows their subtrees), the values of the expressions    *)
(* under evaluation, the scope, the globals, the locations, the objects,   *)
(* the number of active calls, the output and the status.                  *)
(***************************************************************************)
EXTENDS LoxSyntax

CONSTANT MaxFrames

LOCAL INSTANCE FiniteSetsExt
LOCAL INSTANCE SequencesExt

Node(m) == Head(m.todo)

\* m with the tasks in the place of the first one.
Then(m, tasks) == [m EXCEPT !.todo = tasks \o Tail(@)]
Error(m) == [m EXCEPT !.status = "error"]

\* The last k values become v.
Yield(m, k, v) == [m EXCEPT !.vals = SubSeq(@, 1, Len(@) - k) \o <<v>>]
Give(m, k, v) == Then(Yield(m, k, v), <<>>)
Arg(m, n) == m.vals[Len(m.vals) - n]
Drop(m) == [m EXCEPT !.vals = Front(@)]

Add(m, o) == [m EXCEPT !.objs = Append(@, o)]
New(m) == Obj(Len(m.objs) + 1)
IsA(m, v, type) == Is(v, "obj") /\ m.objs[v[2]].type = type

\* How a value is printed.
Show(m, v) ==
    IF ~Is(v, "obj") THEN v
    ELSE LET o == m.objs[v[2]]
         IN  CASE o.type = "class" -> <<"class", o.name>>
               [] o.type = "instance" -> <<"instance", m.objs[o.cls].name>>
               [] o.type \in {"function", "method"} -> <<"fn", o.fn.name>>
               [] o.type = "native" -> <<"native">>

-----------------------------------------------------------------------------
(* Variables.                                                              *)

\* The scope with a new variable of that name.
Bind(m, name, v) ==
    [m EXCEPT !.scope = [global |-> FALSE,
                         names |-> Put(@.names, name, Len(m.store) + 1)],
              !.store = Append(@, v)]

DefineVar(m, name, v) ==
    IF m.scope.global THEN [m EXCEPT !.globals = Put(@, name, v)]
    ELSE Bind(m, name, v)

Known(m, name) == name \in DOMAIN m.scope.names \cup DOMAIN m.globals
Value(m, name) ==
    IF name \in DOMAIN m.scope.names THEN m.store[m.scope.names[name]]
    ELSE m.globals[name]
SetVar(m, name, v) ==
    IF name \in DOMAIN m.scope.names
    THEN [m EXCEPT !.store[m.scope.names[name]] = v]
    ELSE [m EXCEPT !.globals[name] = v]

Lookup(m, name) ==
    IF Known(m, name) THEN Give(m, 0, Value(m, name)) ELSE Error(m)

-----------------------------------------------------------------------------
(* Methods.  A method is a function and the scope of its class; a class    *)
(* has those it declares and, under other names, those of its superclass.  *)

\* Method "name" of the class bound to the instance takes the place of k values.
GiveMethod(m, k, cls, name, this) ==
    LET methods == m.objs[cls].methods
    IN  IF name \notin DOMAIN methods THEN Error(m)
        ELSE Give(Add(m, [type |-> "method", fn |-> methods[name].fn,
                          scope |-> methods[name].scope, this |-> this]),
                  k, New(m))

\* The field or else the method of the instance on top.
GiveProperty(m, name) ==
    LET this == Arg(m, 0)
        o == m.objs[this[2]]
    IN  IF ~IsA(m, this, "instance") THEN Error(m)
        ELSE IF name \in DOMAIN o.fields THEN Give(m, 1, o.fields[name])
        ELSE GiveMethod(m, 1, o.cls, name, this)

-----------------------------------------------------------------------------
(* Calls.                                                                  *)

Task(name, x) == [is |-> name, x |-> x]

\* Runs function f in its own scope, to which the n arguments on top are added,
\* in place of them and the callee.  What runs after the body, Caller, restores
\* the scope and the values of the caller.
Enter(m, f, n) ==
    LET method == f.type = "method"
        inner == [m EXCEPT !.scope = [f.scope EXCEPT !.global = FALSE],
                           !.depth = @ + 1]
        bound == IF method THEN Bind(inner, "this", f.this) ELSE inner
        entered == FoldLeftDomain(
                       LAMBDA k, i : Bind(k, f.fn.parameters[i],
                                          Arg(m, n - i)),
                       bound, f.fn.parameters)
        caller == [scope |-> m.scope, vals |-> Len(m.vals) - n - 1,
                   result |-> IF method /\ f.fn.name = "init" THEN f.this
                              ELSE Absent]
    IN  IF n # Len(f.fn.parameters) \/ m.depth = MaxFrames THEN Error(m)
        ELSE Then(entered, f.fn.body \o << Literal(Nil), Task("Caller", caller) >>)

\* The initialiser of a new instance runs like a call of it.
Instantiate(m, cls, n) ==
    LET this == New(m)
        made == Add(m, [type |-> "instance", cls |-> cls, fields |-> Nothing])
        methods == m.objs[cls].methods
    IN  IF "init" \in DOMAIN methods
        THEN Enter(made, [type |-> "method", fn |-> methods["init"].fn,
                          scope |-> methods["init"].scope, this |-> this], n)
        ELSE IF n = 0 THEN Give(made, 1, this) ELSE Error(m)

\* The callee lies below its n arguments.
CallValue(m, n) ==
    LET v == Arg(m, n)
    IN  CASE IsA(m, v, "class") -> Instantiate(m, v[2], n)
          [] IsA(m, v, "function") \/ IsA(m, v, "method") ->
                 Enter(m, m.objs[v[2]], n)
          [] IsA(m, v, "native") ->
                 IF n = 0 THEN Give(m, 1, Num(0)) ELSE Error(m)
          [] OTHER -> Error(m)

\* The call o.m(...): the property takes the place of the object.
InvokeMethod(m, name, n) ==
    LET args == SubSeq(m.vals, Len(m.vals) - n + 1, Len(m.vals))
        got == GiveProperty([m EXCEPT !.vals = SubSeq(@, 1, Len(@) - n)], name)
        called == [got EXCEPT !.vals = @ \o args, !.todo = m.todo]
    IN  IF got.status = "error" THEN got ELSE CallValue(called, n)

\* A return skips what is left of the body; at top level there is none to skip.
Unwind(m) ==
    LET calls == {i \in DOMAIN m.todo : m.todo[i].is = "Caller"}
    IN  [m EXCEPT !.todo = SubSeq(@, Min(calls), Len(@))]

Leave(m, caller) ==
    Then([m EXCEPT !.scope = caller.scope, !.depth = @ - 1,
                   !.vals = Append(SubSeq(@, 1, caller.vals),
                                   IF caller.result = Absent THEN Last(m.vals)
                                   ELSE caller.result)], <<>>)

-----------------------------------------------------------------------------
(* Operators.                                                              *)

Operate(m, op) ==
    LET x == Arg(m, 1)
        y == Arg(m, 0)
        numbers == Is(x, "num") /\ Is(y, "num")
        Arith(name) == IF numbers THEN Give(m, 2, Compute(name, x[2], y[2]))
                       ELSE Error(m)
        Not(name) == IF numbers
                     THEN Give(m, 2, Bool(~Truthy(Compute(name, x[2], y[2]))))
                     ELSE Error(m)
    IN  CASE op = "Plus" ->
               IF numbers THEN Give(m, 2, Num(x[2] + y[2]))
               ELSE IF Is(x, "str") /\ Is(y, "str")
               THEN Give(m, 2, Str(x[2] \o y[2])) ELSE Error(m)
          [] op = "Minus" -> Arith("Subtract")
          [] op = "Star" -> Arith("Multiply")
          [] op = "Slash" -> Arith("Divide")
          [] op = "Less" -> Arith("Less")
          [] op = "Greater" -> Arith("Greater")
          [] op = "LessEqual" -> Not("Greater")
          [] op = "GreaterEqual" -> Not("Less")
          [] op = "EqualEqual" -> Give(m, 2, Bool(x = y))
          [] op = "BangEqual" -> Give(m, 2, Bool(x # y))

Unary1(m, op) ==
    IF op = "Bang" THEN Give(m, 1, Bool(~Truthy(Arg(m, 0))))
    ELSE IF Is(Arg(m, 0), "num") THEN Give(m, 1, Num(-Arg(m, 0)[2]))
    ELSE Error(m)

-----------------------------------------------------------------------------
(* A step of the evaluation: an expression leaves its value on top.        *)

\* The tree e is replaced by its subtrees and what follows them.
Expand(m, e) ==
    CASE e.is = "Grouping" -> Then(m, <<e.expression>>)
      [] e.is = "Assign" -> Then(m, <<e.value, Task("assign", e.name)>>)
      [] e.is = "Unary" -> Then(m, <<e.right, Task("unary", e.op)>>)
      [] e.is = "Binary" -> Then(m, <<e.left, e.right, Task("binary", e.op)>>)
      [] e.is = "Logical" -> Then(m, <<e.left, Task("logical", e)>>)
      [] e.is = "Get" -> Then(m, <<e.object, Task("get", e.name)>>)
      [] e.is = "Set" -> Then(m, <<e.object, e.value, Task("set", e.name)>>)
      [] e.is = "Call" ->
             IF e.callee.is = "Get"
             THEN Then(m, <<e.callee.object>> \o e.arguments
                              \o <<Task("invoke", e)>>)
             ELSE Then(m, <<e.callee>> \o e.arguments \o <<Task("call", e)>>)
      [] e.is = "Expression" -> Then(m, <<e.expression, Task("drop", e)>>)
      [] e.is = "Print" -> Then(m, <<e.expression, Task("print", e)>>)
      [] e.is = "If" -> Then(m, <<e.condition, Task("choose", e)>>)
      [] e.is = "While" -> Then(m, <<e.condition, Task("repeat", e)>>)
      [] e.is = "Return" ->
             Then(m, <<IF e.value = Absent THEN Literal(Nil) ELSE e.value,
                       Task("return", e)>>)
      [] e.is = "Var" ->
             Then(m, <<IF e.initialiser = Absent THEN Literal(Nil)
                       ELSE e.initialiser, Task("define", e.name)>>)
      [] e.is = "Block" ->
             Then([m EXCEPT !.scope.global = FALSE],
                  e.statements \o <<Task("leave", m.scope)>>)
      [] e.is = "Class" ->
             Then(m, IF e.superclass = Absent THEN <<Task("class", e)>>
                     ELSE <<e.superclass, Task("subclass", e)>>)

\* A function sees its own name.
MakeFunction(m, fn) ==
    LET declared == DefineVar(m, fn.name, Nil)
        made == Add(declared, [type |-> "function", fn |-> fn,
                               scope |-> declared.scope])
    IN  Then(SetVar(made, fn.name, New(m)), <<>>)

\* The methods of a class are in the given scope, next to those it inherits.
MakeClass(m, s, scope, inherited) ==
    LET Method(f, fn) == Put(f, fn.name, [fn |-> fn, scope |-> scope])
        cls == [type |-> "class", name |-> s.name,
                methods |-> FoldLeft(Method, inherited, s.methods)]
    IN  Then([Add(m, cls) EXCEPT !.globals = Put(@, s.name, New(m))], <<>>)

MakeSubclass(m, s) ==
    LET super == Arg(m, 0)
        inner == Bind(m, "super", super)
    IN  IF ~IsA(m, super, "class") THEN Error(m)
        ELSE MakeClass(Drop([inner EXCEPT !.scope = m.scope]), s, inner.scope,
                       m.objs[super[2]].methods)

\* What follows the subtrees of an expression or a statement.
Finish(m, task, x) ==
    LET v == Arg(m, 0)
    IN  CASE task = "assign" ->
               IF Known(m, x) THEN Then(SetVar(m, x, v), <<>>) ELSE Error(m)
          [] task = "unary" -> Unary1(m, x)
          [] task = "binary" -> Operate(m, x)
          [] task = "logical" ->
               IF Truthy(v) = (x.op = "Or") THEN Then(m, <<>>)
               ELSE Then(Drop(m), <<x.right>>)
          [] task = "get" -> GiveProperty(m, x)
          [] task = "set" ->
               IF ~IsA(m, Arg(m, 1), "instance") THEN Error(m)
               ELSE Give([m EXCEPT !.objs[Arg(m, 1)[2]].fields = Put(@, x, v)],
                         2, v)
          [] task = "call" -> CallValue(m, Len(x.arguments))
          [] task = "invoke" -> InvokeMethod(m, x.callee.name, Len(x.arguments))
          [] task = "Caller" -> Leave(m, x)
          [] task = "drop" -> Then(Drop(m), <<>>)
          [] task = "print" ->
               Then([Drop(m) EXCEPT !.output = Append(@, Show(m, v))], <<>>)
          [] task = "choose" ->
               Then(Drop(m), IF Truthy(v) THEN <<x.then>>
                             ELSE IF x.else = Absent THEN <<>> ELSE <<x.else>>)
          [] task = "repeat" ->
               Then(Drop(m), IF Truthy(v) THEN <<x.body, x>> ELSE <<>>)
          [] task = "return" -> Unwind(m)
          [] task = "define" -> Then(DefineVar(Drop(m), x, v), <<>>)
          [] task = "leave" -> Then([m EXCEPT !.scope = x], <<>>)
          [] task = "class" -> MakeClass(m, x, m.scope, Nothing)
          [] task = "subclass" -> MakeSubclass(m, x)

Evaluate(m, e) ==
    CASE e.is = "Literal" -> Give(m, 0, e.value)
      [] e.is = "Variable" -> Lookup(m, e.name)
      [] e.is = "This" -> Lookup(m, "this")
      [] e.is = "Super" ->
             GiveMethod(m, 0, Value(m, "super")[2], e.method, Value(m, "this"))
      [] e.is = "Function" -> MakeFunction(m, e)
      [] "x" \in DOMAIN e -> Finish(m, e.is, e.x)
      [] OTHER -> Expand(m, e)

Running(m) == m.todo # <<>> /\ m.status # "error"
Step(m) == Evaluate(m, Node(m))

\* The evaluation of these statements before its first step.
Begin(stmts) ==
    [todo |-> stmts, vals |-> <<>>,
     scope |-> [global |-> TRUE, names |-> Nothing],
     globals |-> [x \in {"clock"} |-> Obj(1)],
     store |-> <<>>, objs |-> << [type |-> "native"] >>,
     depth |-> 1, output |-> <<>>, status |-> "done"]
=============================================================================
