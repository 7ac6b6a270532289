------------------------------- MODULE Values -------------------------------
(***************************************************************************)
(* The values of Lox (src/src/Value.hpp), shared by the compiler, the      *)
(* virtual machine and the semantics they are compared with.  A value is   *)
(* a tag and what the tag leaves to tell apart.  Strings are interned      *)
(* (ObjectTracker), so their content stands for their address.  The        *)
(* numbers of the programs are integers, and their quotients are exact.    *)
(***************************************************************************)
EXTENDS Integers, Sequences

Num(n) == <<"num", n>>
Bool(b) == <<"bool", b>>
Nil == <<"nil">>
Str(s) == <<"str", s>>
Obj(o) == <<"obj", o>>      \* o: the index of an object

Is(v, tag) == v[1] = tag

\* What stands in a syntax tree for a null pointer.
Absent == [is |-> "Absent"]

\* is_truthy
Truthy(v) == v # Nil /\ v # Bool(FALSE)

\* The operators that want two numbers.
Compute(op, x, y) ==
    CASE op = "Subtract" -> Num(x - y)
      [] op = "Multiply" -> Num(x * y)
      [] op = "Divide" -> Num(x \div y)
      [] op = "Less" -> Bool(x < y)
      [] op = "Greater" -> Bool(x > y)

\* Function f with the value of k set to v, as an entry of a hash table.
Put(f, k, v) == [x \in DOMAIN f \cup {k} |-> IF x = k THEN v ELSE f[x]]
Nothing == [x \in {} |-> x]
=============================================================================
