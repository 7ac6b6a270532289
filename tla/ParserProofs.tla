---------------------------- MODULE ParserProofs ----------------------------
(***************************************************************************)
(* The parser on any tokens: the nodes it makes have the parts that their  *)
(* constructors take, and an error that is thrown is caught.  The          *)
(* invariant, Sound, gives each of the tasks that remain the sorts of the  *)
(* values that are held before it: a plan, along which each task leads     *)
(* from one list of sorts to the next.                                     *)
(***************************************************************************)
EXTENDS Parser, SequenceLemmas, TLAPS

-----------------------------------------------------------------------------
(* What has been made.                                                     *)

Well(m) ==
    /\ IsSeq(m.tokens) /\ Len(m.tokens) > 0
    /\ IsSeq(m.nodes)
    /\ \A i \in 1 .. Len(m.nodes) : IsSeq(m.nodes[i].parts) /\ Formed(m, i)
    /\ IsSeq(m.errors)
    /\ \A i \in 1 .. Len(m.errors) :
           /\ m.errors[i].kind \in {"syntax", "target", "limit"}
           /\ m.errors[i].at \in 1 .. Len(m.tokens)

Prefix(s, t) == Len(s) <= Len(t) /\ \A i \in 1 .. Len(s) : t[i] = s[i]
Grown(m, k) ==
    Prefix(m.tokens, k.tokens) /\ Prefix(m.nodes, k.nodes) /\ Prefix(m.errors, k.errors)

\* What a value of a sort can be used as.
Uses(sort) ==
    CASE sort = "Expr" -> {"Expr", "OptionalExpr"}
      [] sort = "Stmt" -> {"Stmt", "OptionalStmt", "Declared"}
      [] sort = "Function" -> {"Function", "Stmt", "OptionalStmt", "Declared"}
      [] OTHER -> {sort}

LEMMA UsesAre ==
    /\ \A x : x \in Uses(x)
    /\ Uses("Expr") = {"Expr", "OptionalExpr"}
    /\ Uses("Stmt") = {"Stmt", "OptionalStmt", "Declared"}
    /\ Uses("Function") = {"Function", "Stmt", "OptionalStmt", "Declared"}
    /\ \A x \in {"Token", "OptionalExpr", "OptionalStmt", "Declared"} : Uses(x) = {x}
    /\ \A x \in Sorts : Uses(x) \subseteq Sorts
BY DEF Uses, Sorts

LEMMA UsesHave ==
    ASSUME NEW m, NEW v, NEW n, NEW x \in Sorts, Has(m, v, x, n), NEW y \in Uses(x)
    PROVE  y \in Sorts /\ Has(m, v, y, n)
<1>1. PointsTo(m, v, {"Function"}, n) => PointsTo(m, v, Commands, n)
  BY DEF PointsTo, Commands
<1>2. CASE y = x
  BY <1>2
<1>3. CASE x = "Expr"
  BY <1>3, UsesAre DEF Has, Sorts
<1>4. CASE x = "Stmt"
  BY <1>4, UsesAre DEF Has, Sorts
<1>5. CASE x = "Function"
  BY <1>1, <1>5, UsesAre DEF Has, Sorts
<1>6. x \notin {"Expr", "Stmt", "Function"} => y = x
  BY UsesAre DEF Sorts
<1> QED  BY <1>2, <1>3, <1>4, <1>5, <1>6

Lists(m) == IsSeq(m.tokens) /\ IsSeq(m.nodes) /\ IsSeq(m.errors)

LEMMA StillHas ==
    ASSUME NEW m, Lists(m), NEW k, Lists(k), Grown(m, k),
           NEW i \in 0 .. Len(m.nodes), NEW j \in 0 .. Len(k.nodes), i <= j,
           NEW v, NEW x \in Sorts, Has(m, v, x, i)
    PROVE  Has(k, v, x, j)
<1>1. /\ Len(m.tokens) \in Nat /\ Len(k.tokens) \in Nat
      /\ Len(m.nodes) \in Nat /\ Len(k.nodes) \in Nat
      /\ Len(m.errors) \in Nat /\ Len(k.errors) \in Nat
      /\ DOMAIN m.tokens = 1 .. Len(m.tokens) /\ DOMAIN k.tokens = 1 .. Len(k.tokens)
      /\ DOMAIN m.errors = 1 .. Len(m.errors) /\ DOMAIN k.errors = 1 .. Len(k.errors)
  BY SeqIs DEF Lists
<1>2. ASSUME NEW types, PointsTo(m, v, types, i) PROVE PointsTo(k, v, types, j)
  <2>1. PICK o \in 1 .. i : v = Tree(o) /\ m.nodes[o].type \in types
    BY <1>2 DEF PointsTo
  <2>2. o \in 1 .. j /\ o \in 1 .. Len(m.nodes)
    BY <1>1
  <2>3. k.nodes[o] = m.nodes[o]
    BY <2>2 DEF Grown, Prefix
  <2> QED  BY <2>1, <2>2, <2>3 DEF PointsTo
<1>3. ASSUME NEW o \in DOMAIN m.tokens PROVE o \in DOMAIN k.tokens
  BY <1>1 DEF Grown, Prefix
<1>4. ASSUME NEW o \in DOMAIN m.errors, m.errors[o].kind = "syntax"
      PROVE  \E q \in DOMAIN k.errors : k.errors[q].kind = "syntax"
  <2>1. o \in DOMAIN k.errors /\ k.errors[o] = m.errors[o]
    BY <1>1 DEF Grown, Prefix
  <2> QED  BY <1>4, <2>1
<1>5. CASE x = "Token"
  BY <1>3, <1>5 DEF Has
<1>6. CASE x = "Expr"
  BY <1>2, <1>6 DEF Has
<1>7. CASE x = "Stmt"
  BY <1>2, <1>7 DEF Has
<1>8. CASE x = "Function"
  BY <1>2, <1>8 DEF Has
<1>9. CASE x = "OptionalExpr"
  BY <1>2, <1>9 DEF Has
<1>10. CASE x = "OptionalStmt"
  BY <1>2, <1>10 DEF Has
<1>11. CASE x = "Declared"
  BY <1>2, <1>4, <1>11 DEF Has
<1> QED  BY <1>5, <1>6, <1>7, <1>8, <1>9, <1>10, <1>11 DEF Sorts

LEMMA TakesMore ==
    ASSUME NEW type, NEW n \in Nat, NEW f, NEW g,
           \A j \in 1 .. n : f[j] \subseteq g[j],
           Takes(type, n, f)
    PROVE  Takes(type, n, g)
<1>1. CASE /\ type \in DOMAIN Fields /\ n = Len(Fields[type])
           /\ \A j \in 1 .. n : Fields[type][j] \in f[j]
  BY <1>1 DEF Takes
<1>2. CASE type = "Literal" /\ n = 0
  BY <1>2 DEF Takes
<1>3. CASE type = "Block" /\ \A j \in 1 .. n : "Declared" \in f[j]
  BY <1>3 DEF Takes
<1>4. CASE /\ type = "Call" /\ n >= 2 /\ "Token" \in f[n]
           /\ \A j \in 1 .. n - 1 : "Expr" \in f[j]
  <2>1. n \in 1 .. n /\ \A j \in 1 .. n - 1 : j \in 1 .. n
    BY <1>4
  <2> QED  BY <1>4, <2>1 DEF Takes
<1>5. CASE /\ type = "Function"
           /\ \E k \in 1 .. n : \A j \in 1 .. n :
                  (IF j <= k THEN "Token" ELSE "Declared") \in f[j]
  BY <1>5 DEF Takes
<1>6. CASE /\ type = "Class" /\ n >= 2
           /\ "Token" \in f[1] /\ "OptionalExpr" \in f[2]
           /\ \A j \in 3 .. n : "Function" \in f[j]
  <2>1. 1 \in 1 .. n /\ 2 \in 1 .. n /\ \A j \in 3 .. n : j \in 1 .. n
    BY <1>6
  <2> QED  BY <1>6, <2>1 DEF Takes
<1> QED  BY <1>1, <1>2, <1>3, <1>4, <1>5, <1>6 DEF Takes

\* A node that is added.
LEMMA PlusWell ==
    ASSUME NEW m, Well(m), NEW type, NEW parts, IsSeq(parts),
           Takes(type, Len(parts), SortsOf(m, parts, Len(m.nodes))),
           NEW k, k.tokens = m.tokens, k.errors = m.errors,
           k.nodes = Append(m.nodes, [type |-> type, parts |-> parts])
    PROVE  /\ Well(k) /\ Grown(m, k)
           /\ Len(k.nodes) = Len(m.nodes) + 1
           /\ k.nodes[Len(k.nodes)].type = type
<1> DEFINE n == Len(m.nodes)
    node == [type |-> type, parts |-> parts]
<1>1. /\ IsSeq(m.nodes) /\ n \in Nat /\ IsSeq(m.tokens) /\ IsSeq(m.errors)
      /\ Len(m.tokens) \in Nat /\ Len(m.errors) \in Nat
      /\ DOMAIN m.tokens = 1 .. Len(m.tokens)
  BY SeqIs DEF Well
<1>2. /\ IsSeq(k.nodes) /\ Len(k.nodes) = n + 1 /\ k.nodes[n + 1] = node
      /\ \A i \in 1 .. n : k.nodes[i] = m.nodes[i]
  BY <1>1, AppendIs
<1>3. Grown(m, k)
  BY <1>1, <1>2 DEF Grown, Prefix
<1>4. ASSUME NEW i \in 0 .. n, NEW v, NEW x
      PROVE  Has(m, v, x, i) <=> Has(k, v, x, i)
  <2>1. \A types : PointsTo(m, v, types, i) <=> PointsTo(k, v, types, i)
    <3>1. \A j \in 1 .. i : k.nodes[j] = m.nodes[j]
      BY <1>1, <1>2
    <3> QED  BY <3>1 DEF PointsTo
  <2> QED  BY <2>1 DEF Has
<1>5. \A i \in 0 .. n : \A values : SortsOf(m, values, i) = SortsOf(k, values, i)
  BY <1>4 DEF SortsOf
<1>6. ASSUME NEW i \in 1 .. n + 1
      PROVE  IsSeq(k.nodes[i].parts) /\ Formed(k, i)
  <2>1. CASE i = n + 1
    <3>1. k.nodes[i].type = type /\ k.nodes[i].parts = parts
      BY <1>2, <2>1
    <3>2. i - 1 = n /\ n \in 0 .. n
      BY <1>1, <2>1
    <3>3. SortsOf(k, parts, i - 1) = SortsOf(m, parts, n)
      BY <1>5, <3>2
    <3> QED  BY <3>1, <3>3 DEF Formed
  <2>2. CASE i # n + 1
    <3>1. i \in 1 .. n /\ i - 1 \in 0 .. n
      BY <1>1, <2>2
    <3>2. k.nodes[i] = m.nodes[i] /\ IsSeq(m.nodes[i].parts) /\ Formed(m, i)
      BY <1>2, <3>1 DEF Well
    <3>3. SortsOf(k, k.nodes[i].parts, i - 1) = SortsOf(m, m.nodes[i].parts, i - 1)
      BY <1>5, <3>1, <3>2
    <3> QED  BY <3>2, <3>3 DEF Formed
  <2> QED  BY <2>1, <2>2
<1>7. Well(k)
  BY <1>1, <1>2, <1>6 DEF Well
<1> QED  BY <1>2, <1>3, <1>7

-----------------------------------------------------------------------------
(* What the tasks do to the values that are held.                          *)

\* A list of sorts t is s with one of this sort in the place of the last n.
Gives(s, t, n, sort) ==
    /\ n \in 0 .. Len(s) /\ IsSeq(t) /\ Len(t) = Len(s) - n + 1
    /\ \A j \in 1 .. Len(s) - n : t[j] = s[j]
    /\ t[Len(s) - n + 1] \in Uses(sort)
\* The sort of value j from the end.
Nth(s, j) == s[Len(s) + 1 - j]
TopUses(s, n) == [j \in 1 .. n |-> Uses(s[Len(s) - n + j])]

SortOf(type) ==
    IF type \in Expressions THEN "Expr"
    ELSE IF type = "Function" THEN "Function" ELSE "Stmt"

Makes(s, t, type, n) ==
    n \in 0 .. Len(s) /\ Takes(type, n, TopUses(s, n)) /\ Gives(s, t, n, SortOf(type))

\* The values of a list that is being read: a callee and arguments, or a name and
\* parameters.
Reads(s, t, type, n) ==
    /\ n \in 1 .. Len(s) /\ type \in {"Call", "Function"}
    /\ \A j \in 1 .. n : Nth(s, j) = IF type = "Call" THEN "Expr" ELSE "Token"
    /\ Gives(s, t, n, SortOf(type))

Works(task, s, t) ==
    \/ /\ task.is \in {"expression", "unary", "primary"}
       /\ Gives(s, t, 0, "Expr")
    \/ /\ task.is \in {"statement", "expression_statement", "var_declaration",
                       "class_declaration"}
       /\ Gives(s, t, 0, "Stmt")
    \/ task.is = "function" /\ Gives(s, t, 0, "Function")
    \/ task.is = "declaration" /\ Gives(s, t, 0, "Declared")
    \/ task.is = "for_initialiser" /\ Gives(s, t, 0, "OptionalStmt")
    \/ /\ task.is \in {"call", "operators", "assignment"}
       /\ task.is = "operators" => task.level \in 1 .. 6
       /\ Len(s) > 0 /\ Nth(s, 1) = "Expr" /\ Gives(s, t, 1, "Expr")
    \/ /\ task.is = "assign"
       /\ Len(s) >= 3 /\ Nth(s, 3) = "Expr" /\ Nth(s, 2) = "Token"
       /\ Nth(s, 1) = "Expr" /\ Gives(s, t, 3, "Expr")
    \/ task.is = "consume" /\ task.keep = TRUE /\ Gives(s, t, 0, "Token")
    \/ task.is = "consume" /\ task.keep = FALSE /\ t = s
    \/ task.is = "make" /\ Makes(s, t, task.type, task.n)
    \/ task.is = "unless" /\ Gives(s, t, 0, "OptionalExpr")
    \/ /\ task.is = "match" /\ Gives(s, t, 0, "OptionalExpr")
       /\ \/ task.tasks = <<Rule("expression")>>
          \/ task.tasks = <<Keep("Identifier"), Make("Variable", 1)>>
    \/ /\ task.is = "match" /\ Gives(s, t, 0, "OptionalStmt")
       /\ task.tasks = <<Rule("statement")>>
    \/ /\ task.is = "caught" /\ task.n \in Nat /\ Len(s) = task.n + 1
       /\ Gives(s, t, 1, "Declared")
       /\ "Declared" \in Uses(Nth(s, 1))
    \/ task.is = "methods" /\ Makes(s, t, "Class", task.n)
    \/ /\ task.is = "statements" /\ task.type \in {"Block", "Function"}
       /\ Makes(s, t, task.type, task.n)
    \/ task.is \in {"list", "item", "comma"} /\ Reads(s, t, task.type, task.n)
    \/ /\ task.is = "for_desugared"
       /\ Len(s) >= 4 /\ Nth(s, 4) = "OptionalStmt" /\ Nth(s, 3) = "OptionalExpr"
       /\ Nth(s, 2) = "OptionalExpr" /\ Nth(s, 1) = "Stmt" /\ Gives(s, t, 4, "Stmt")
    \/ task.is \in {"synchronise", "synchronising"} /\ t = s
    \/ /\ task.is = "parse"
       /\ \A j \in 1 .. Len(s) : s[j] = "Declared"
       /\ \A j \in 1 .. Len(t) : t[j] = "Declared"

\* The first n values are the same.
Agree(s, t, n) == n <= Len(s) /\ n <= Len(t) /\ \A j \in 1 .. n : s[j] = t[j]

\* Tasks that throw nothing, or catch it.
Safe == {"caught", "synchronise", "synchronising", "declaration", "parse"}

\* Along p each of the tasks counts on what the ones before it leave.  The catch of
\* a declaration finds what was held when it began, and whatever may throw has a
\* catch behind it.
Plan(tasks, p) ==
    /\ IsSeq(tasks)
    /\ \A i \in 0 .. Len(tasks) : IsSeq(p[i])
    /\ \A i \in 1 .. Len(tasks) :
           /\ Works(tasks[i], p[i - 1], p[i])
           /\ tasks[i].is = "caught" =>
                  \A k \in 0 .. i - 1 : Agree(p[k], p[i], tasks[i].n)
           /\ tasks[i].is \notin Safe =>
                  \E j \in i + 1 .. Len(tasks) : tasks[j].is = "caught"
           /\ tasks[i].is = "parse" => i = Len(tasks)
    /\ \A j \in 1 .. Len(p[Len(tasks)]) : p[Len(tasks)][j] = "Declared"

Holds(m, values, s) ==
    /\ IsSeq(values) /\ IsSeq(s) /\ Len(values) = Len(s)
    /\ \A j \in 1 .. Len(s) : s[j] \in Sorts /\ Has(m, values[j], s[j], Len(m.nodes))

Sound(p) == Well(Made) /\ Plan(todo, p) /\ Holds(Made, held, p[0])

\* New tasks, each on top of what s has.
Over(s, x) == IsSeq(x) /\ Prefix(s, x)
Leads(s, tasks, a, b) ==
    \E e : /\ e[0] = a /\ e[Len(tasks)] = b
           /\ \A i \in 1 .. Len(tasks) :
                  Over(s, e[i - 1]) /\ Works(tasks[i], e[i - 1], e[i])

LEMMA LeadsNone ==
    ASSUME NEW s, NEW a
    PROVE  Leads(s, <<>>, a, a)
<1> DEFINE e == [i \in 0 .. 0 |-> a]
<1>1. e[0] = a
  OBVIOUS
<1>2. Len(<<>>) = 0 /\ \A i \in 1 .. 0 : FALSE
  OBVIOUS
<1> HIDE DEF e
<1> QED  BY <1>1, <1>2 DEF Leads

LEMMA LeadsOne ==
    ASSUME NEW s, NEW t, NEW a, NEW b, Over(s, a), Works(t, a, b)
    PROVE  IsSeq(<<t>>) /\ Len(<<t>>) = 1 /\ Leads(s, <<t>>, a, b)
<1> DEFINE e == [i \in 0 .. 1 |-> IF i = 0 THEN a ELSE b]
<1>1. e[0] = a /\ e[1] = b
  OBVIOUS
<1> HIDE DEF e
<1> QED  BY <1>1 DEF Leads, IsSeq

LEMMA LeadsConcat ==
    ASSUME NEW r, NEW s, IsSeq(s), NEW t, IsSeq(t), NEW a, NEW b, NEW c,
           Leads(r, s, a, b), Leads(r, t, b, c)
    PROVE  IsSeq(s \o t) /\ Len(s \o t) = Len(s) + Len(t) /\ Leads(r, s \o t, a, c)
<1> DEFINE m == Len(s)
    n == Len(t)
    u == s \o t
<1>1. PICK e : /\ e[0] = a /\ e[m] = b
               /\ \A i \in 1 .. m : Over(r, e[i - 1]) /\ Works(s[i], e[i - 1], e[i])
  BY DEF Leads
<1>2. PICK f : /\ f[0] = b /\ f[n] = c
               /\ \A i \in 1 .. n : Over(r, f[i - 1]) /\ Works(t[i], f[i - 1], f[i])
  BY DEF Leads
<1>3. /\ m \in Nat /\ n \in Nat /\ IsSeq(u) /\ Len(u) = m + n
      /\ \A i \in 1 .. m : u[i] = s[i]
      /\ \A i \in 1 .. n : u[m + i] = t[i]
  BY ConcatIs DEF IsSeq
<1> DEFINE g == [i \in 0 .. m + n |-> IF i <= m THEN e[i] ELSE f[i - m]]
<1>4. /\ g[0] = a
      /\ \A i \in 0 .. m : g[i] = e[i]
      /\ \A i \in 0 .. n : g[m + i] = f[i]
  <2>1. \A i \in 0 .. m : i \in 0 .. m + n /\ i <= m
    BY <1>3
  <2>2. \A i \in 0 .. m : g[i] = e[i]
    BY <2>1
  <2>3. ASSUME NEW i \in 0 .. n PROVE g[m + i] = f[i]
    <3>1. CASE i = 0
      <4>1. m + i = m /\ m \in 0 .. m
        BY <1>3, <3>1
      <4> QED  BY <1>1, <1>2, <2>2, <3>1, <4>1
    <3>2. CASE i # 0
      <4>1. m + i \in 0 .. m + n /\ ~ (m + i <= m) /\ m + i - m = i
        BY <1>3, <3>2
      <4> QED  BY <4>1
    <3> QED  BY <3>1, <3>2
  <2>4. 0 \in 0 .. m
    BY <1>3
  <2> QED  BY <1>1, <2>2, <2>3, <2>4
<1> HIDE DEF g
<1>5. g[m + n] = c
  BY <1>2, <1>3, <1>4
<1>6. ASSUME NEW i \in 1 .. m + n
      PROVE  Over(r, g[i - 1]) /\ Works(u[i], g[i - 1], g[i])
  <2>1. CASE i <= m
    <3>1. i \in 1 .. m /\ i - 1 \in 0 .. m /\ i \in 0 .. m
      BY <1>3, <2>1
    <3> QED  BY <1>1, <1>3, <1>4, <3>1
  <2>2. CASE i > m
    <3> DEFINE j == i - m
    <3>1. j \in 1 .. n /\ j - 1 \in 0 .. n /\ j \in 0 .. n
          /\ i = m + j /\ i - 1 = m + (j - 1)
      BY <1>3, <2>2
    <3> HIDE DEF j
    <3>2. u[i] = t[j] /\ g[i] = f[j] /\ g[i - 1] = f[j - 1]
      BY <1>3, <1>4, <3>1
    <3> QED  BY <1>2, <3>1, <3>2
  <2> QED  BY <1>3, <2>1, <2>2
<1> HIDE DEF u
<1>7. Leads(r, u, a, c)
  BY <1>3, <1>4, <1>5, <1>6 DEF Leads
<1> QED  BY <1>3, <1>7 DEF u

LEMMA SameSeq ==
    ASSUME NEW s, IsSeq(s), NEW t, IsSeq(t), Len(s) = Len(t),
           \A i \in 1 .. Len(s) : s[i] = t[i]
    PROVE  s = t
BY DEF IsSeq

LEMMA TuplesAre ==
    ASSUME NEW a, NEW b, NEW c, NEW d
    PROVE  /\ IsSeq(<<>>) /\ Len(<<>>) = 0
           /\ IsSeq(<<a>>) /\ Len(<<a>>) = 1
           /\ IsSeq(<<a, b>>) /\ Len(<<a, b>>) = 2
           /\ IsSeq(<<a, b, c>>) /\ Len(<<a, b, c>>) = 3
           /\ IsSeq(<<a, b, c, d>>) /\ Len(<<a, b, c, d>>) = 4
BY DEF IsSeq

LEMMA TuplesJoin ==
    ASSUME NEW a, NEW b, NEW c
    PROVE  /\ <<a>> \o <<b>> = <<a, b>>
           /\ <<a>> \o <<b, c>> = <<a, b, c>>
<1>1. /\ \A x : IsSeq(<<x>>) /\ Len(<<x>>) = 1
      /\ \A x, y : IsSeq(<<x, y>>) /\ Len(<<x, y>>) = 2
      /\ \A x, y, z : IsSeq(<<x, y, z>>) /\ Len(<<x, y, z>>) = 3
  BY DEF IsSeq
<1>2. <<a>> \o <<b>> = <<a, b>>
  <2> DEFINE s == <<a>> \o <<b>>
    r == <<a, b>>
  <2>1. IsSeq(s) /\ Len(s) = 2 /\ s[1] = a /\ s[1 + 1] = b
    BY <1>1, ConcatIs
  <2>2. IsSeq(r) /\ Len(r) = 2 /\ r[1] = a /\ r[2] = b
    BY <1>1
  <2> HIDE DEF r, s
  <2>3. \A i \in 1 .. 2 : i = 1 \/ i = 2
    OBVIOUS
  <2>4. s = r
    BY <2>1, <2>2, <2>3, SameSeq
  <2> QED  BY <2>4 DEF r, s
<1>3. <<a>> \o <<b, c>> = <<a, b, c>>
  <2> DEFINE s == <<a>> \o <<b, c>>
    r == <<a, b, c>>
  <2>1. IsSeq(s) /\ Len(s) = 3 /\ s[1] = a /\ s[1 + 1] = b /\ s[1 + 2] = c
    BY <1>1, ConcatIs
  <2>2. IsSeq(r) /\ Len(r) = 3 /\ r[1] = a /\ r[2] = b /\ r[3] = c
    BY <1>1
  <2> HIDE DEF r, s
  <2>3. \A i \in 1 .. 3 : i = 1 \/ i = 2 \/ i = 3
    OBVIOUS
  <2>4. s = r
    BY <2>1, <2>2, <2>3, SameSeq
  <2> QED  BY <2>4 DEF r, s
<1> QED  BY <1>2, <1>3

LEMMA TuplesJoinFour ==
    ASSUME NEW a, NEW b, NEW c, NEW d
    PROVE  <<a, b>> \o <<c, d>> = <<a, b, c, d>>
<1> DEFINE s == <<a, b>> \o <<c, d>>
    r == <<a, b, c, d>>
<1>0. /\ IsSeq(<<a, b>>) /\ Len(<<a, b>>) = 2
      /\ IsSeq(<<c, d>>) /\ Len(<<c, d>>) = 2
  BY TuplesAre
<1>1. IsSeq(s) /\ Len(s) = 4 /\ s[1] = a /\ s[2] = b /\ s[2 + 1] = c /\ s[2 + 2] = d
  BY <1>0, ConcatIs
<1>2. IsSeq(r) /\ Len(r) = 4 /\ r[1] = a /\ r[2] = b /\ r[3] = c /\ r[4] = d
  BY TuplesAre
<1> HIDE DEF r, s
<1>3. \A i \in 1 .. 4 : i = 1 \/ i = 2 \/ i = 3 \/ i = 4
  OBVIOUS
<1>4. s = r
  BY <1>1, <1>2, <1>3, SameSeq
<1> QED  BY <1>4 DEF r, s

LEMMA TuplesJoinEight ==
    ASSUME NEW a, NEW b, NEW c, NEW d, NEW e, NEW f, NEW g, NEW h
    PROVE  <<a, b, c, d>> \o <<e, f, g, h>> = <<a, b, c, d, e, f, g, h>>
<1> DEFINE s == <<a, b, c, d>>
    t == <<e, f, g, h>>
    u == s \o t
    r == <<a, b, c, d, e, f, g, h>>
<1>1. IsSeq(s) /\ Len(s) = 4 /\ IsSeq(t) /\ Len(t) = 4
  BY TuplesAre
<1>2. /\ s[1] = a /\ s[2] = b /\ s[3] = c /\ s[4] = d
      /\ t[1] = e /\ t[2] = f /\ t[3] = g /\ t[4] = h
  OBVIOUS
<1>3. /\ IsSeq(r) /\ Len(r) = 8 /\ r[1] = a /\ r[2] = b /\ r[3] = c /\ r[4] = d
      /\ r[5] = e /\ r[6] = f /\ r[7] = g /\ r[8] = h
  BY DEF IsSeq
<1>4. /\ IsSeq(u) /\ Len(u) = 8 /\ u[1] = a /\ u[2] = b /\ u[3] = c /\ u[4] = d
      /\ u[4 + 1] = e /\ u[4 + 2] = f /\ u[4 + 3] = g /\ u[4 + 4] = h
  BY <1>1, <1>2, ConcatIs
<1> HIDE DEF s, t, u, r
<1>5. \A i \in 1 .. 8 : \/ i = 1 \/ i = 2 \/ i = 3 \/ i = 4
                        \/ i = 4 + 1 \/ i = 4 + 2 \/ i = 4 + 3 \/ i = 4 + 4
  OBVIOUS
<1>6. Len(u) = 8 /\ \A i \in 1 .. 8 : u[i] = r[i]
  BY <1>3, <1>4, <1>5
<1>7. u = r
  BY <1>3, <1>4, <1>6, SameSeq
<1> QED  BY <1>7 DEF u, r, s, t

LEMMA LeadsTwo ==
    ASSUME NEW s, NEW t, NEW u, NEW a, NEW b, NEW c, Over(s, a), Over(s, b),
           Works(t, a, b), Works(u, b, c)
    PROVE  IsSeq(<<t, u>>) /\ Len(<<t, u>>) = 2 /\ Leads(s, <<t, u>>, a, c)
<1>1. /\ IsSeq(<<t>>) /\ Leads(s, <<t>>, a, b)
      /\ IsSeq(<<u>>) /\ Leads(s, <<u>>, b, c)
  BY LeadsOne
<1>2. <<t>> \o <<u>> = <<t, u>>
  BY TuplesJoin
<1> QED  BY <1>1, <1>2, LeadsConcat, TuplesAre

LEMMA LeadsThree ==
    ASSUME NEW s, NEW t, NEW u, NEW v, NEW a, NEW b, NEW c, NEW d,
           Over(s, a), Over(s, b), Over(s, c),
           Works(t, a, b), Works(u, b, c), Works(v, c, d)
    PROVE  IsSeq(<<t, u, v>>) /\ Len(<<t, u, v>>) = 3 /\ Leads(s, <<t, u, v>>, a, d)
<1>1. /\ IsSeq(<<t>>) /\ Leads(s, <<t>>, a, b)
      /\ IsSeq(<<u, v>>) /\ Leads(s, <<u, v>>, b, d)
  BY LeadsOne, LeadsTwo
<1>2. <<t>> \o <<u, v>> = <<t, u, v>>
  BY TuplesJoin
<1> QED  BY <1>1, <1>2, LeadsConcat, TuplesAre

LEMMA LeadsFour ==
    ASSUME NEW s, NEW t, NEW u, NEW v, NEW w, NEW a, NEW b, NEW c, NEW d, NEW z,
           Over(s, a), Over(s, b), Over(s, c), Over(s, d),
           Works(t, a, b), Works(u, b, c), Works(v, c, d), Works(w, d, z)
    PROVE  /\ IsSeq(<<t, u, v, w>>) /\ Len(<<t, u, v, w>>) = 4
           /\ Leads(s, <<t, u, v, w>>, a, z)
<1>1. /\ IsSeq(<<t, u>>) /\ Leads(s, <<t, u>>, a, c)
      /\ IsSeq(<<v, w>>) /\ Leads(s, <<v, w>>, c, z)
  BY LeadsTwo
<1>2. <<t, u>> \o <<v, w>> = <<t, u, v, w>>
  BY TuplesJoinFour
<1>3. Leads(s, <<t, u>> \o <<v, w>>, a, z)
  BY <1>1, LeadsConcat
<1> QED  BY <1>2, <1>3, TuplesAre

-----------------------------------------------------------------------------
(* The plan of the tasks that remain.                                      *)

Rest(tasks, n) == SubSeq(tasks, n + 1, Len(tasks))

LEMMA PlanRest ==
    ASSUME NEW tasks, NEW p, Plan(tasks, p), NEW n \in 0 .. Len(tasks)
    PROVE  LET rest == Rest(tasks, n)
               q == [i \in 0 .. Len(tasks) - n |-> p[n + i]]
           IN  /\ IsSeq(rest) /\ Len(rest) = Len(tasks) - n
               /\ \A i \in 1 .. Len(rest) : rest[i] = tasks[n + i]
               /\ Plan(rest, q)
<1> DEFINE rest == Rest(tasks, n)
    l == Len(tasks) - n
    q == [i \in 0 .. l |-> p[n + i]]
<1>1. /\ IsSeq(tasks) /\ Len(tasks) \in Nat /\ n \in Nat /\ l \in Nat
      /\ n + l = Len(tasks)
  BY DEF Plan, IsSeq
<1>2. IsSeq(rest) /\ Len(rest) = l /\ \A i \in 1 .. l : rest[i] = tasks[n + i]
  <2> DEFINE k == n + 1
      o == Len(tasks)
  <2>1. k \in Nat \ {0} /\ k <= o + 1 /\ o - k + 1 = l /\ o \in Nat /\ o <= o
    BY <1>1
  <2>2. \A i \in 1 .. l : k + i - 1 = n + i
    BY <1>1
  <2>3. rest = SubSeq(tasks, k, o)
    BY DEF Rest
  <2> HIDE DEF k, rest, l
  <2>4. /\ IsSeq(SubSeq(tasks, k, o)) /\ Len(SubSeq(tasks, k, o)) = o - k + 1
        /\ \A i \in 1 .. o - k + 1 : SubSeq(tasks, k, o)[i] = tasks[k + i - 1]
    BY <1>1, <2>1, CutIs
  <2> QED  BY <2>1, <2>2, <2>3, <2>4
<1>3. /\ \A i \in 0 .. l : q[i] = p[n + i] /\ n + i \in 0 .. Len(tasks)
      /\ \A i \in 1 .. l : /\ q[i] = p[n + i] /\ q[i - 1] = p[n + i - 1]
                           /\ n + i \in 1 .. Len(tasks)
  BY <1>1
<1> HIDE DEF l, q, rest
<1>4. \A i \in 0 .. l : IsSeq(q[i])
  BY <1>3 DEF Plan
<1>5. ASSUME NEW i \in 1 .. l
      PROVE  /\ Works(rest[i], q[i - 1], q[i])
             /\ rest[i].is = "caught" =>
                    \A k \in 0 .. i - 1 : Agree(q[k], q[i], rest[i].n)
             /\ rest[i].is \notin Safe =>
                    \E j \in i + 1 .. l : rest[j].is = "caught"
             /\ rest[i].is = "parse" => i = l
  <2>1. /\ rest[i] = tasks[n + i] /\ n + i \in 1 .. Len(tasks)
        /\ q[i] = p[n + i] /\ q[i - 1] = p[n + i - 1]
    BY <1>2, <1>3
  <2>2. Works(rest[i], q[i - 1], q[i])
    BY <2>1 DEF Plan
  <2>3. ASSUME rest[i].is = "caught", NEW k \in 0 .. i - 1
        PROVE  Agree(q[k], q[i], rest[i].n)
    <3>1. k \in 0 .. l /\ n + k \in 0 .. n + i - 1
      BY <1>1
    <3> QED  BY <1>3, <2>1, <2>3, <3>1 DEF Plan
  <2>4. ASSUME rest[i].is \notin Safe
        PROVE  \E j \in i + 1 .. l : rest[j].is = "caught"
    <3>1. PICK o \in n + i + 1 .. Len(tasks) : tasks[o].is = "caught"
      BY <2>1, <2>4 DEF Plan
    <3>2. o - n \in i + 1 .. l /\ o - n \in 1 .. l /\ n + (o - n) = o
      BY <1>1, <3>1
    <3>3. rest[o - n].is = "caught"
      BY <1>2, <3>1, <3>2
    <3> QED  BY <3>2, <3>3
  <2>5. ASSUME rest[i].is = "parse" PROVE i = l
    <3>1. n + i = Len(tasks)
      BY <2>1, <2>5 DEF Plan
    <3> QED  BY <1>1, <3>1
  <2> QED  BY <2>2, <2>3, <2>4, <2>5
<1>6. \A j \in 1 .. Len(q[l]) : q[l][j] = "Declared"
  <2>1. q[l] = p[Len(tasks)]
    <3>1. l \in 0 .. l
      BY <1>1
    <3> QED  BY <1>1, <1>3, <3>1
  <2> QED  BY <2>1 DEF Plan
<1>7. Plan(rest, q)
  BY <1>2, <1>4, <1>5, <1>6 DEF Plan
<1> QED  BY <1>2, <1>7 DEF q, rest, l

\* What the tasks that are added may be.
Guarded(tasks, rest, s, t) ==
    \A i \in 1 .. Len(tasks) :
        /\ tasks[i].is # "parse"
        /\ tasks[i].is = "caught" =>
               i = Len(tasks) /\ tasks[i].n = Len(s) /\ Agree(s, t, Len(s))
        /\ \/ tasks[i].is \in Safe
           \/ \E j \in i + 1 .. Len(tasks) : tasks[j].is = "caught"
           \/ \E j \in 1 .. Len(rest) : rest[j].is = "caught"

\* What the catches after the first n tasks look for is there.
Kept(tasks, p, s, n) ==
    \A i \in n + 1 .. Len(tasks) :
        tasks[i].is = "caught" => Agree(s, p[i], tasks[i].n)

LEMMA PlanMore ==
    ASSUME NEW rest, NEW p, Plan(rest, p), NEW s, IsSeq(s), Kept(rest, p, s, 0),
           NEW tasks, IsSeq(tasks), NEW a, Leads(s, tasks, a, p[0]),
           Guarded(tasks, rest, s, p[0])
    PROVE  \E q : q[0] = a /\ Plan(tasks \o rest, q)
<1> DEFINE m == Len(tasks)
    n == Len(rest)
    all == tasks \o rest
<1>1. PICK e : /\ e[0] = a /\ e[m] = p[0]
               /\ \A i \in 1 .. m :
                      Over(s, e[i - 1]) /\ Works(tasks[i], e[i - 1], e[i])
  BY DEF Leads
<1>2. /\ IsSeq(all) /\ Len(all) = m + n /\ m \in Nat /\ n \in Nat
      /\ \A i \in 1 .. m : all[i] = tasks[i]
      /\ \A i \in 1 .. n : all[m + i] = rest[i]
  <2>1. IsSeq(rest) /\ m \in Nat /\ n \in Nat
    BY DEF Plan, IsSeq
  <2> QED  BY <2>1, ConcatIs
<1> DEFINE q == [i \in 0 .. m + n |-> IF i < m THEN e[i] ELSE p[i - m]]
<1>3. /\ \A i \in 0 .. m : q[i] = e[i]
      /\ \A i \in 0 .. n : q[m + i] = p[i]
  <2>1. ASSUME NEW i \in 0 .. n PROVE q[m + i] = p[i]
    <3>1. m + i \in 0 .. m + n /\ ~ (m + i < m) /\ m + i - m = i
      BY <1>2
    <3> QED  BY <3>1
  <2>2. ASSUME NEW i \in 0 .. m PROVE q[i] = e[i]
    <3>1. CASE i = m
      <4>1. 0 \in 0 .. n /\ m + 0 = m
        BY <1>2
      <4>2. q[m + 0] = p[0]
        BY <2>1, <4>1
      <4> QED  BY <1>1, <3>1, <4>1, <4>2
    <3>2. CASE i # m
      <4>1. i \in 0 .. m + n /\ i < m
        BY <1>2, <3>2
      <4> QED  BY <4>1
    <3> QED  BY <3>1, <3>2
  <2> QED  BY <2>1, <2>2
<1> HIDE DEF q
<1>4. \A i \in 0 .. m - 1 : Over(s, q[i])
  <2>1. \A i \in 0 .. m - 1 : i + 1 \in 1 .. m /\ i + 1 - 1 = i /\ i \in 0 .. m
    BY <1>2
  <2> QED  BY <1>1, <1>3, <2>1
<1>5. \A i \in 0 .. m + n : i \in 0 .. m - 1 \/ (i - m \in 0 .. n /\ m + (i - m) = i)
  BY <1>2
<1>6. \A i \in 0 .. m + n : IsSeq(q[i])
  BY <1>2, <1>3, <1>4, <1>5 DEF Plan, Over
<1>7. \A i \in 1 .. n : m + i \in 1 .. m + n
  BY <1>2
<1>8. ASSUME NEW i \in 1 .. m
      PROVE  /\ Works(all[i], q[i - 1], q[i])
             /\ all[i].is = "caught" =>
                    \A k \in 0 .. i - 1 : Agree(q[k], q[i], all[i].n)
             /\ all[i].is \notin Safe =>
                    \E j \in i + 1 .. m + n : all[j].is = "caught"
             /\ all[i].is # "parse"
  <2>0. i \in 0 .. m /\ i - 1 \in 0 .. m
    BY <1>2
  <2>1. all[i] = tasks[i] /\ q[i] = e[i] /\ q[i - 1] = e[i - 1]
    BY <1>2, <1>3, <2>0
  <2>2. Works(all[i], q[i - 1], q[i])
    BY <1>1, <2>1
  <2>3. ASSUME all[i].is = "caught", NEW k \in 0 .. i - 1
        PROVE  Agree(q[k], q[i], all[i].n)
    <3>1. i = m /\ all[i].n = Len(s) /\ Agree(s, p[0], Len(s)) /\ q[i] = p[0]
      BY <1>1, <2>1, <2>3 DEF Guarded
    <3>2. Over(s, q[k])
      BY <1>2, <1>4
    <3> QED  BY <3>1, <3>2 DEF Over, Prefix, Agree
  <2>4. ASSUME all[i].is \notin Safe
        PROVE  \E j \in i + 1 .. m + n : all[j].is = "caught"
    <3>1. \/ \E j \in i + 1 .. m : tasks[j].is = "caught"
          \/ \E j \in 1 .. n : rest[j].is = "caught"
      BY <2>1, <2>4 DEF Guarded
    <3>2. CASE \E j \in i + 1 .. m : tasks[j].is = "caught"
      <4>1. PICK j \in i + 1 .. m : tasks[j].is = "caught"
        BY <3>2
      <4>2. j \in 1 .. m /\ j \in i + 1 .. m + n
        BY <1>2
      <4> QED  BY <1>2, <4>1, <4>2
    <3>3. CASE \E j \in 1 .. n : rest[j].is = "caught"
      <4>1. PICK j \in 1 .. n : rest[j].is = "caught"
        BY <3>3
      <4>2. m + j \in i + 1 .. m + n
        BY <1>2
      <4> QED  BY <1>2, <4>1, <4>2
    <3> QED  BY <3>1, <3>2, <3>3
  <2> QED  BY <2>1, <2>2, <2>3, <2>4 DEF Guarded
<1>9. ASSUME NEW i \in 1 .. n
      PROVE  /\ Works(all[m + i], q[m + i - 1], q[m + i])
             /\ all[m + i].is = "caught" =>
                    \A k \in 0 .. m + i - 1 : Agree(q[k], q[m + i], all[m + i].n)
             /\ all[m + i].is \notin Safe =>
                    \E j \in m + i + 1 .. m + n : all[j].is = "caught"
             /\ all[m + i].is = "parse" => m + i = m + n
  <2>1. i - 1 \in 0 .. n /\ i \in 0 .. n /\ m + i - 1 = m + (i - 1)
    BY <1>2
  <2>2. all[m + i] = rest[i] /\ q[m + i] = p[i] /\ q[m + i - 1] = p[i - 1]
    BY <1>2, <1>3, <2>1
  <2>3. Works(all[m + i], q[m + i - 1], q[m + i])
    BY <2>2 DEF Plan
  <2>4. ASSUME all[m + i].is = "caught", NEW k \in 0 .. m + i - 1
        PROVE  Agree(q[k], q[m + i], all[m + i].n)
    <3>1. CASE k \in 0 .. m - 1
      <4>1. Over(s, q[k]) /\ Agree(s, p[i], rest[i].n)
        BY <1>2, <1>4, <2>2, <2>4, <3>1 DEF Kept
      <4>2. IsSeq(s) /\ Len(s) \in Nat /\ Len(q[k]) \in Nat
        BY <4>1 DEF Over, IsSeq
      <4>3. rest[i].n \in Nat
        BY <2>2, <2>3, <2>4 DEF Works
      <4>4. \A j \in 1 .. rest[i].n : j \in 1 .. Len(s)
        BY <4>1, <4>2, <4>3 DEF Agree
      <4> QED  BY <2>2, <4>1, <4>2, <4>3, <4>4 DEF Over, Prefix, Agree
    <3>2. CASE k \notin 0 .. m - 1
      <4>1. k - m \in 0 .. i - 1 /\ k - m \in 0 .. n /\ m + (k - m) = k
        BY <1>2, <3>2
      <4>2. q[k] = p[k - m]
        BY <1>3, <4>1
      <4> QED  BY <2>2, <2>4, <4>1, <4>2 DEF Plan
    <3> QED  BY <3>1, <3>2
  <2>5. ASSUME all[m + i].is \notin Safe
        PROVE  \E j \in m + i + 1 .. m + n : all[j].is = "caught"
    <3>1. PICK j \in i + 1 .. n : rest[j].is = "caught"
      BY <2>2, <2>5 DEF Plan
    <3>2. j \in 1 .. n /\ m + j \in m + i + 1 .. m + n
      BY <1>2
    <3> QED  BY <1>2, <3>1, <3>2
  <2> QED  BY <2>2, <2>3, <2>4, <2>5 DEF Plan
<1>10. ASSUME NEW i \in 1 .. m + n
       PROVE  /\ Works(all[i], q[i - 1], q[i])
              /\ all[i].is = "caught" =>
                     \A k \in 0 .. i - 1 : Agree(q[k], q[i], all[i].n)
              /\ all[i].is \notin Safe =>
                     \E j \in i + 1 .. m + n : all[j].is = "caught"
              /\ all[i].is = "parse" => i = m + n
  <2>1. CASE i \in 1 .. m
    BY <1>8, <2>1
  <2>2. CASE i \notin 1 .. m
    <3> DEFINE o == i - m
    <3>1. o \in 1 .. n /\ i = m + o
      BY <1>2, <2>2
    <3> HIDE DEF o, all
    <3>2. /\ Works(all[m + o], q[m + o - 1], q[m + o])
          /\ all[m + o].is = "caught" =>
                 \A k \in 0 .. m + o - 1 : Agree(q[k], q[m + o], all[m + o].n)
          /\ all[m + o].is \notin Safe =>
                 \E j \in m + o + 1 .. m + n : all[j].is = "caught"
          /\ all[m + o].is = "parse" => m + o = m + n
      BY <1>9, <3>1
    <3> QED  BY <3>1, <3>2
  <2> QED  BY <2>1, <2>2
<1>11. \A j \in 1 .. Len(q[m + n]) : q[m + n][j] = "Declared"
  <2>1. q[m + n] = p[n]
    BY <1>2, <1>3
  <2> QED  BY <2>1 DEF Plan
<1>12. q[0] = a
  BY <1>1, <1>2, <1>3
<1>13. Plan(all, q)
  BY <1>2, <1>6, <1>10, <1>11 DEF Plan
<1> QED  BY <1>12, <1>13

-----------------------------------------------------------------------------
(* A step of the parser.                                                   *)

LEMMA WellIs ==
    ASSUME NEW m, Well(m)
    PROVE  /\ Lists(m)
           /\ Len(m.tokens) \in Nat \ {0} /\ Len(m.nodes) \in Nat
           /\ Len(m.errors) \in Nat
           /\ DOMAIN m.tokens = 1 .. Len(m.tokens)
           /\ DOMAIN m.nodes = 1 .. Len(m.nodes)
           /\ DOMAIN m.errors = 1 .. Len(m.errors)
BY SeqIs DEF Well, Lists

\* A token or an error more.
LEMMA WellMore ==
    ASSUME NEW m, Well(m), NEW k, k.nodes = m.nodes,
           \/ k.tokens = m.tokens
           \/ \E t : k.tokens = Append(m.tokens, t),
           \/ k.errors = m.errors
           \/ \E kind \in {"syntax", "target", "limit"}, at \in 1 .. Len(m.tokens) :
                  k.errors = Append(m.errors, [kind |-> kind, at |-> at])
    PROVE  Well(k) /\ Grown(m, k)
<1>1. /\ Lists(m) /\ Len(m.tokens) \in Nat \ {0} /\ Len(m.nodes) \in Nat
      /\ Len(m.errors) \in Nat
  BY WellIs
<1>2. /\ IsSeq(k.tokens) /\ Prefix(m.tokens, k.tokens)
      /\ Len(k.tokens) \in Nat /\ Len(m.tokens) <= Len(k.tokens)
  <2>1. CASE k.tokens = m.tokens
    BY <1>1, <2>1 DEF Lists, Prefix
  <2>2. ASSUME NEW t, k.tokens = Append(m.tokens, t)
        PROVE  /\ IsSeq(k.tokens) /\ Prefix(m.tokens, k.tokens)
               /\ Len(k.tokens) \in Nat /\ Len(m.tokens) <= Len(k.tokens)
    <3>1. /\ IsSeq(k.tokens) /\ Len(k.tokens) = Len(m.tokens) + 1
          /\ \A i \in 1 .. Len(m.tokens) : k.tokens[i] = m.tokens[i]
      BY <1>1, <2>2, AppendIs DEF Lists
    <3> QED  BY <1>1, <3>1 DEF Prefix
  <2> QED  BY <2>1, <2>2
<1>3. /\ IsSeq(k.errors) /\ Prefix(m.errors, k.errors)
      /\ \A i \in 1 .. Len(k.errors) :
             /\ k.errors[i].kind \in {"syntax", "target", "limit"}
             /\ k.errors[i].at \in 1 .. Len(k.tokens)
  <2>1. \A i \in 1 .. Len(m.errors) :
            /\ m.errors[i].kind \in {"syntax", "target", "limit"}
            /\ m.errors[i].at \in 1 .. Len(k.tokens)
    BY <1>1, <1>2 DEF Well
  <2>2. CASE k.errors = m.errors
    BY <1>1, <2>1, <2>2 DEF Lists, Prefix
  <2>3. ASSUME NEW kind \in {"syntax", "target", "limit"},
               NEW at \in 1 .. Len(m.tokens),
               k.errors = Append(m.errors, [kind |-> kind, at |-> at])
        PROVE  /\ IsSeq(k.errors) /\ Prefix(m.errors, k.errors)
               /\ \A i \in 1 .. Len(k.errors) :
                      /\ k.errors[i].kind \in {"syntax", "target", "limit"}
                      /\ k.errors[i].at \in 1 .. Len(k.tokens)
    <3>1. /\ IsSeq(k.errors) /\ Len(k.errors) = Len(m.errors) + 1
          /\ \A i \in 1 .. Len(m.errors) : k.errors[i] = m.errors[i]
          /\ k.errors[Len(m.errors) + 1] = [kind |-> kind, at |-> at]
      BY <1>1, <2>3, AppendIs DEF Lists
    <3>2. \A i \in 1 .. Len(k.errors) :
              i \in 1 .. Len(m.errors) \/ i = Len(m.errors) + 1
      BY <1>1, <3>1
    <3>3. at \in 1 .. Len(k.tokens)
      BY <1>1, <1>2
    <3> QED  BY <1>1, <2>1, <3>1, <3>2, <3>3 DEF Prefix
  <2> QED  BY <2>2, <2>3
<1>4. Lists(k) /\ Grown(m, k)
  BY <1>1, <1>2, <1>3 DEF Lists, Grown, Prefix
<1>5. ASSUME NEW i \in 1 .. Len(m.nodes)
      PROVE  IsSeq(k.nodes[i].parts) /\ Formed(k, i)
  <2> DEFINE parts == m.nodes[i].parts
      n == Len(parts)
      f == SortsOf(m, parts, i - 1)
      g == SortsOf(k, parts, i - 1)
  <2>1. IsSeq(parts) /\ n \in Nat /\ Takes(m.nodes[i].type, n, f)
    BY DEF Well, Formed, IsSeq
  <2>2. i - 1 \in 0 .. Len(m.nodes) /\ i - 1 \in 0 .. Len(k.nodes) /\ i - 1 <= i - 1
    BY <1>1
  <2>3. \A j \in 1 .. n : f[j] \subseteq g[j]
    <3> SUFFICES ASSUME NEW j \in 1 .. n, NEW x \in f[j] PROVE x \in g[j]
      OBVIOUS
    <3>1. x \in Sorts /\ Has(m, parts[j], x, i - 1)
      BY DEF SortsOf
    <3>2. Has(k, parts[j], x, i - 1)
      BY <1>1, <1>4, <2>2, <3>1, StillHas
    <3> QED  BY <3>1, <3>2 DEF SortsOf
  <2> HIDE DEF f, g, n, parts
  <2>4. Takes(m.nodes[i].type, n, g)
    BY <2>1, <2>3, TakesMore
  <2> QED  BY <2>1, <2>4 DEF Formed, parts, n, g
<1> QED  BY <1>1, <1>2, <1>3, <1>4, <1>5 DEF Well, Lists

LEMMA HoldsStill ==
    ASSUME NEW m, Well(m), NEW k, Well(k), Grown(m, k), NEW values, NEW s,
           Holds(m, values, s)
    PROVE  Holds(k, values, s)
<1>1. /\ Lists(m) /\ Lists(k) /\ Len(m.nodes) \in 0 .. Len(m.nodes)
      /\ Len(k.nodes) \in 0 .. Len(k.nodes) /\ Len(m.nodes) <= Len(k.nodes)
  BY WellIs DEF Grown, Prefix
<1> QED  BY <1>1, StillHas DEF Holds

\* A value in the place of the last n.
LEMMA HoldsPut ==
    ASSUME NEW m, NEW values, NEW s, Holds(m, values, s), NEW x \in Sorts,
           NEW n, NEW t, Gives(s, t, n, x), NEW v, Has(m, v, x, Len(m.nodes)),
           NEW all, IsSeq(all), Len(all) = Len(values) - n + 1,
           \A j \in 1 .. Len(values) - n : all[j] = values[j],
           all[Len(values) - n + 1] = v
    PROVE  Holds(m, all, t)
<1> DEFINE l == Len(s) - n
<1>1. /\ IsSeq(values) /\ IsSeq(s) /\ IsSeq(t) /\ Len(values) = Len(s)
      /\ l \in Nat /\ Len(t) = l + 1 /\ Len(all) = l + 1 /\ l <= Len(s)
  BY DEF Holds, Gives, IsSeq
<1>2. \A j \in 1 .. l : t[j] = s[j] /\ all[j] = values[j] /\ j \in 1 .. Len(s)
  BY <1>1 DEF Gives
<1>3. t[l + 1] \in Uses(x) /\ all[l + 1] = v
  BY <1>1 DEF Gives
<1> HIDE DEF l
<1>4. ASSUME NEW j \in 1 .. l + 1
      PROVE  t[j] \in Sorts /\ Has(m, all[j], t[j], Len(m.nodes))
  <2>1. CASE j \in 1 .. l
    BY <1>2, <2>1 DEF Holds
  <2>2. CASE j \notin 1 .. l
    <3>1. j = l + 1
      BY <1>1, <2>2
    <3> QED  BY <1>3, <3>1, UsesHave
  <2> QED  BY <2>1, <2>2
<1> QED  BY <1>1, <1>4 DEF Holds

LEMMA CallingIs ==
    ASSUME NEW p, Plan(todo, p), NEW name, Calling(name)
    PROVE  /\ IsSeq(todo) /\ Len(todo) \in Nat \ {0}
           /\ Task = todo[1] /\ Task.is = name /\ Works(Task, p[0], p[1])
           /\ IsSeq(p[0]) /\ IsSeq(p[1])
           /\ IsSeq(Tail(todo)) /\ Len(Tail(todo)) = Len(todo) - 1
           /\ \A i \in 1 .. Len(todo) - 1 : Tail(todo)[i] = todo[i + 1]
           /\ Tail(todo) = Rest(todo, 1)
<1>1. IsSeq(todo) /\ Len(todo) \in Nat
  BY DEF Plan, IsSeq
<1>2. Len(todo) # 0
  <2>1. IsSeq(<<>>) /\ Len(<<>>) = 0
    BY TuplesAre
  <2>2. Len(todo) = 0 => todo = <<>>
    BY <1>1, <2>1, SameSeq
  <2> QED  BY <2>2 DEF Calling
<1>3. Task = todo[1]
  BY <1>1, <1>2, SeqIs, HeadTailProperties DEF Task
<1>4. 1 \in 1 .. Len(todo) /\ 0 \in 0 .. Len(todo) /\ 1 \in 0 .. Len(todo)
  BY <1>1, <1>2
<1>5. Works(todo[1], p[1 - 1], p[1]) /\ IsSeq(p[0]) /\ IsSeq(p[1])
  BY <1>4 DEF Plan
<1>6. /\ IsSeq(Tail(todo)) /\ Len(Tail(todo)) = Len(todo) - 1
      /\ \A i \in 1 .. Len(todo) - 1 : Tail(todo)[i] = todo[i + 1]
  BY <1>1, <1>2, TailIs
<1>7. Tail(todo) = Rest(todo, 1)
  <2> DEFINE l == Len(todo)
      u == SubSeq(todo, 2, l)
      w == Tail(todo)
  <2>1. l \in Nat /\ l <= l /\ 2 <= l + 1 /\ 2 \in Nat \ {0} /\ l - 2 + 1 = l - 1
    BY <1>1, <1>2
  <2>2. IsSeq(u) /\ Len(u) = l - 2 + 1 /\ \A i \in 1 .. l - 2 + 1 : u[i] = todo[2 + i - 1]
    BY <1>1, <2>1, CutIs
  <2>3. \A i \in 1 .. l - 1 : 2 + i - 1 = i + 1
    BY <2>1
  <2>4. IsSeq(w) /\ Len(w) = l - 1 /\ \A i \in 1 .. l - 1 : w[i] = todo[i + 1]
    BY <1>6
  <2> HIDE DEF u, w
  <2>5. w = u
    BY <2>1, <2>2, <2>3, <2>4, SameSeq
  <2> QED  BY <2>5 DEF u, w, Rest
<1> QED  BY <1>1, <1>2, <1>3, <1>5, <1>6, <1>7 DEF Calling, Task


\* The first n tasks are replaced by others.
LEMMA PlanReplaced ==
    ASSUME NEW old, NEW p, Plan(old, p), NEW n \in 0 .. Len(old),
           NEW s, IsSeq(s), Kept(old, p, s, n),
           NEW tasks, IsSeq(tasks), NEW a, Leads(s, tasks, a, p[n]),
           Guarded(tasks, Rest(old, n), s, p[n])
    PROVE  \E q : q[0] = a /\ Plan(tasks \o Rest(old, n), q)
<1> DEFINE rest == Rest(old, n)
    l == Len(old) - n
    r == [i \in 0 .. l |-> p[n + i]]
<1>1. /\ IsSeq(rest) /\ Len(rest) = l /\ \A i \in 1 .. l : rest[i] = old[n + i]
      /\ Plan(rest, r)
  BY PlanRest
<1>2. IsSeq(old) /\ Len(old) \in Nat /\ n \in Nat /\ l \in Nat
  BY DEF Plan, IsSeq
<1>3. r[0] = p[n] /\ \A i \in 1 .. l : r[i] = p[n + i] /\ n + i \in n + 1 .. Len(old)
  BY <1>2
<1> HIDE DEF r, l
<1>4. Kept(rest, r, s, 0)
  <2>1. \A i \in 0 + 1 .. Len(rest) : i \in 1 .. l
    BY <1>1
  <2> QED  BY <1>1, <1>3, <2>1 DEF Kept
<1>5. Leads(s, tasks, a, r[0]) /\ Guarded(tasks, rest, s, r[0])
  BY <1>3
<1> HIDE DEF rest
<1>6. \E q : q[0] = a /\ Plan(tasks \o rest, q)
  BY <1>1, <1>4, <1>5, PlanMore
<1> QED  BY <1>6 DEF rest

\* The current task is replaced by others.
LEMMA TaskReplaced ==
    ASSUME NEW old, NEW p, Plan(old, p), Len(old) > 0,
           NEW tasks, IsSeq(tasks), NEW a, Leads(p[0], tasks, a, p[1]),
           Guarded(tasks, Rest(old, 1), p[0], p[1])
    PROVE  \E q : q[0] = a /\ Plan(tasks \o Rest(old, 1), q)
<1>1. IsSeq(old) /\ Len(old) \in Nat /\ 1 \in 0 .. Len(old) /\ 0 \in 0 .. Len(old)
  BY DEF Plan, IsSeq
<1>2. IsSeq(p[0])
  BY <1>1 DEF Plan
<1>3. Kept(old, p, p[0], 1)
  <2> SUFFICES ASSUME NEW i \in 1 + 1 .. Len(old), old[i].is = "caught"
               PROVE  Agree(p[0], p[i], old[i].n)
    BY DEF Kept
  <2>1. i \in 1 .. Len(old) /\ 0 \in 0 .. i - 1
    BY <1>1
  <2> QED  BY <2>1 DEF Plan
<1> QED  BY <1>1, <1>2, <1>3, PlanReplaced

LEMMA Goes ==
    ASSUME NEW p, Sound(p), NEW name, Calling(name),
           NEW tasks, IsSeq(tasks), NEW a, Leads(p[0], tasks, a, p[1]),
           Guarded(tasks, Tail(todo), p[0], p[1]),
           Well(Made'), todo' = tasks \o Tail(todo), Holds(Made', held', a)
    PROVE  (\E q : Sound(q))'
<1>1. /\ Len(todo) > 0 /\ Plan(todo, p)
      /\ Tail(todo) = Rest(todo, 1)
  BY CallingIs DEF Sound
<1>2. PICK q : q[0] = a /\ Plan(tasks \o Rest(todo, 1), q)
  <2>1. Guarded(tasks, Rest(todo, 1), p[0], p[1])
    BY <1>1
  <2> QED  BY <1>1, <2>1, TaskReplaced
<1>3. Plan(todo', q) /\ Holds(Made', held', q[0])
  BY <1>1, <1>2
<1>4. Sound(q)'
  BY <1>3 DEF Sound
<1> QED  BY <1>4

-----------------------------------------------------------------------------
(* Lists of sorts.                                                         *)

LEMMA Pushed ==
    ASSUME NEW s, IsSeq(s), NEW x
    PROVE  /\ IsSeq(Append(s, x)) /\ Len(s) \in Nat
           /\ Len(Append(s, x)) = Len(s) + 1
           /\ Gives(s, Append(s, x), 0, x)
           /\ Nth(Append(s, x), 1) = x
           /\ \A j \in 1 .. Len(s) : Nth(Append(s, x), j + 1) = Nth(s, j)
           /\ \A r : Over(r, s) => Over(r, Append(s, x))
<1> DEFINE a == Append(s, x)
<1>1. /\ IsSeq(a) /\ Len(s) \in Nat /\ Len(a) = Len(s) + 1
      /\ a[Len(s) + 1] = x /\ \A j \in 1 .. Len(s) : a[j] = s[j]
  BY AppendIs DEF IsSeq
<1> HIDE DEF a
<1>2. Gives(s, a, 0, x)
  BY <1>1, UsesAre DEF Gives
<1>3. Nth(a, 1) = x
  <2>1. Len(a) + 1 - 1 = Len(s) + 1
    BY <1>1
  <2> QED  BY <1>1, <2>1 DEF Nth
<1>4. ASSUME NEW j \in 1 .. Len(s) PROVE Nth(a, j + 1) = Nth(s, j)
  <2>1. Len(a) + 1 - (j + 1) = Len(s) + 1 - j /\ Len(s) + 1 - j \in 1 .. Len(s)
    BY <1>1
  <2> QED  BY <1>1, <2>1 DEF Nth
<1>5. ASSUME NEW r, Over(r, s) PROVE Over(r, a)
  <2>1. Len(r) <= Len(s) /\ \A i \in 1 .. Len(r) : s[i] = r[i]
    BY <1>5 DEF Over, Prefix
  <2>2. CASE Len(r) \in Int
    <3>1. Len(r) <= Len(a) /\ \A i \in 1 .. Len(r) : i \in 1 .. Len(s)
      BY <1>1, <2>1, <2>2
    <3> QED  BY <1>1, <2>1, <3>1 DEF Over, Prefix
  <2> QED  BY <2>2
<1> QED  BY <1>1, <1>2, <1>3, <1>4, <1>5 DEF a

LEMMA OverSelf ==
    ASSUME NEW s, IsSeq(s)
    PROVE  Over(s, s)
BY DEF Over, Prefix, IsSeq

\* What is put on a list can be taken off again.
LEMMA PushedGives ==
    ASSUME NEW s, IsSeq(s), NEW t, NEW n, NEW x, Gives(s, t, n, x), NEW y
    PROVE  Gives(Append(s, y), t, n + 1, x)
<1> DEFINE a == Append(s, y)
<1>1. /\ IsSeq(a) /\ Len(s) \in Nat /\ Len(a) = Len(s) + 1
      /\ \A j \in 1 .. Len(s) : a[j] = s[j]
  BY AppendIs DEF IsSeq
<1> HIDE DEF a
<1>2. n \in 0 .. Len(s) /\ Len(a) - (n + 1) = Len(s) - n /\ n + 1 \in 0 .. Len(a)
  BY <1>1 DEF Gives
<1>3. \A j \in 1 .. Len(s) - n : j \in 1 .. Len(s)
  BY <1>1, <1>2
<1>4. Gives(a, t, n + 1, x)
  BY <1>1, <1>2, <1>3 DEF Gives
<1> QED  BY <1>4 DEF a

LEMMA GivesIs ==
    ASSUME NEW s, NEW t, NEW n, NEW x, Gives(s, t, n, x), IsSeq(s)
    PROVE  /\ IsSeq(t) /\ Len(s) \in Nat /\ n \in 0 .. Len(s)
           /\ Len(t) = Len(s) - n + 1 /\ Nth(t, 1) \in Uses(x)
           /\ \A y : x \in Uses(y) /\ Uses(x) \subseteq Uses(y) => Gives(s, t, n, y)
<1>1. Len(s) \in Nat /\ IsSeq(t) /\ n \in 0 .. Len(s) /\ Len(t) = Len(s) - n + 1
  BY DEF Gives, IsSeq
<1>2. Len(t) + 1 - 1 = Len(s) - n + 1
  BY <1>1
<1>3. Nth(t, 1) \in Uses(x)
  BY <1>2 DEF Nth, Gives
<1> QED  BY <1>1, <1>3 DEF Gives

\* The value on top is used as what it is.
LEMMA GivesSelf ==
    ASSUME NEW s, IsSeq(s), NEW x, Len(s) > 0, Nth(s, 1) \in Uses(x)
    PROVE  Gives(s, s, 1, x)
<1>1. Len(s) \in Nat /\ Len(s) + 1 - 1 = Len(s) - 1 + 1
  BY DEF IsSeq
<1> QED  BY <1>1 DEF Gives, Nth

LEMMA TopUsesAre ==
    ASSUME NEW s, IsSeq(s), NEW n \in 0 .. Len(s)
    PROVE  \A j \in 1 .. n : /\ TopUses(s, n)[j] = Uses(Nth(s, n + 1 - j))
                             /\ n + 1 - j \in 1 .. n
<1> SUFFICES ASSUME NEW j \in 1 .. n
             PROVE  /\ TopUses(s, n)[j] = Uses(Nth(s, n + 1 - j))
                    /\ n + 1 - j \in 1 .. n
  OBVIOUS
<1>1. Len(s) + 1 - (n + 1 - j) = Len(s) - n + j /\ n + 1 - j \in 1 .. n
  BY DEF IsSeq
<1> QED  BY <1>1 DEF TopUses, Nth

LEMMA MakesOne ==
    ASSUME NEW s, IsSeq(s), NEW t, NEW type \in DOMAIN Fields, NEW x,
           Fields[type] = <<x>>, x \in Uses(Nth(s, 1)), Gives(s, t, 1, SortOf(type))
    PROVE  Makes(s, t, type, 1)
<1>1. 1 \in 0 .. Len(s)
  BY DEF Gives
<1>2. TopUses(s, 1)[1] = Uses(Nth(s, 1))
  <2>1. 1 \in 1 .. 1 /\ 1 + 1 - 1 = 1
    OBVIOUS
  <2> QED  BY <1>1, <2>1, TopUsesAre
<1>3. Len(<<x>>) = 1 /\ <<x>>[1] = x
  OBVIOUS
<1>4. \A j \in 1 .. 1 : Fields[type][j] \in TopUses(s, 1)[j]
  BY <1>2, <1>3
<1>5. Takes(type, 1, TopUses(s, 1))
  BY <1>3, <1>4 DEF Takes
<1> QED  BY <1>1, <1>5 DEF Makes

LEMMA MakesTwo ==
    ASSUME NEW s, IsSeq(s), NEW t, NEW type \in DOMAIN Fields, NEW x, NEW y,
           Fields[type] = <<x, y>>, x \in Uses(Nth(s, 2)), y \in Uses(Nth(s, 1)),
           Gives(s, t, 2, SortOf(type))
    PROVE  Makes(s, t, type, 2)
<1>1. 2 \in 0 .. Len(s)
  BY DEF Gives
<1>2. TopUses(s, 2)[1] = Uses(Nth(s, 2)) /\ TopUses(s, 2)[2] = Uses(Nth(s, 1))
  <2>1. 1 \in 1 .. 2 /\ 2 + 1 - 1 = 2 /\ 2 \in 1 .. 2 /\ 2 + 1 - 2 = 1
    OBVIOUS
  <2>2. \A j \in 1 .. 2 : TopUses(s, 2)[j] = Uses(Nth(s, 2 + 1 - j))
    BY <1>1, TopUsesAre
  <2> QED  BY <2>1, <2>2
<1>3. Len(<<x, y>>) = 2 /\ <<x, y>>[1] = x /\ <<x, y>>[2] = y
  OBVIOUS
<1>4. \A j \in 1 .. 2 : Fields[type][j] \in TopUses(s, 2)[j]
  <2>1. \A j \in 1 .. 2 : j = 1 \/ j = 2
    OBVIOUS
  <2> QED  BY <1>2, <1>3, <2>1
<1>5. Takes(type, 2, TopUses(s, 2))
  BY <1>3, <1>4 DEF Takes
<1> QED  BY <1>1, <1>5 DEF Makes

LEMMA MakesThree ==
    ASSUME NEW s, IsSeq(s), NEW t, NEW type \in DOMAIN Fields, NEW x, NEW y, NEW z,
           Fields[type] = <<x, y, z>>, x \in Uses(Nth(s, 3)), y \in Uses(Nth(s, 2)),
           z \in Uses(Nth(s, 1)), Gives(s, t, 3, SortOf(type))
    PROVE  Makes(s, t, type, 3)
<1>1. 3 \in 0 .. Len(s)
  BY DEF Gives
<1>2. /\ TopUses(s, 3)[1] = Uses(Nth(s, 3)) /\ TopUses(s, 3)[2] = Uses(Nth(s, 2))
      /\ TopUses(s, 3)[3] = Uses(Nth(s, 1))
  <2>1. /\ 1 \in 1 .. 3 /\ 3 + 1 - 1 = 3 /\ 2 \in 1 .. 3 /\ 3 + 1 - 2 = 2
        /\ 3 \in 1 .. 3 /\ 3 + 1 - 3 = 1
    OBVIOUS
  <2>2. \A j \in 1 .. 3 : TopUses(s, 3)[j] = Uses(Nth(s, 3 + 1 - j))
    BY <1>1, TopUsesAre
  <2> QED  BY <2>1, <2>2
<1>3. /\ Len(<<x, y, z>>) = 3
      /\ <<x, y, z>>[1] = x /\ <<x, y, z>>[2] = y /\ <<x, y, z>>[3] = z
  OBVIOUS
<1>4. \A j \in 1 .. 3 : Fields[type][j] \in TopUses(s, 3)[j]
  <2>1. \A j \in 1 .. 3 : j = 1 \/ j = 2 \/ j = 3
    OBVIOUS
  <2> QED  BY <1>2, <1>3, <2>1
<1>5. Takes(type, 3, TopUses(s, 3))
  BY <1>3, <1>4 DEF Takes
<1> QED  BY <1>1, <1>5 DEF Makes

-----------------------------------------------------------------------------
(* What each task does.                                                    *)

\* What a task of this name expects.
Expects(name, k, s, t) ==
    /\ name \in {"expression", "unary", "primary"} => Gives(s, t, 0, "Expr")
    /\ name \in {"statement", "expression_statement", "var_declaration",
                 "class_declaration"} => Gives(s, t, 0, "Stmt")
    /\ name = "function" => Gives(s, t, 0, "Function")
    /\ name = "declaration" => Gives(s, t, 0, "Declared")
    /\ name = "for_initialiser" => Gives(s, t, 0, "OptionalStmt")
    /\ name \in {"call", "operators", "assignment"} =>
           Len(s) > 0 /\ Nth(s, 1) = "Expr" /\ Gives(s, t, 1, "Expr")
    /\ name = "operators" => k.level \in 1 .. 6
    /\ name = "assign" =>
           /\ Len(s) >= 3 /\ Nth(s, 3) = "Expr" /\ Nth(s, 2) = "Token"
           /\ Nth(s, 1) = "Expr" /\ Gives(s, t, 3, "Expr")
    /\ name = "consume" =>
           \/ k.keep = TRUE /\ Gives(s, t, 0, "Token")
           \/ k.keep = FALSE /\ t = s
    /\ name = "make" => Makes(s, t, k.type, k.n)
    /\ name = "unless" => Gives(s, t, 0, "OptionalExpr")
    /\ name = "match" =>
           \/ /\ Gives(s, t, 0, "OptionalExpr")
              /\ \/ k.tasks = <<Rule("expression")>>
                 \/ k.tasks = <<Keep("Identifier"), Make("Variable", 1)>>
           \/ Gives(s, t, 0, "OptionalStmt") /\ k.tasks = <<Rule("statement")>>
    /\ name = "caught" =>
           /\ k.n \in Nat /\ Len(s) = k.n + 1
           /\ Gives(s, t, 1, "Declared") /\ "Declared" \in Uses(Nth(s, 1))
    /\ name = "methods" => Makes(s, t, "Class", k.n)
    /\ name = "statements" =>
           k.type \in {"Block", "Function"} /\ Makes(s, t, k.type, k.n)
    /\ name \in {"list", "item", "comma"} => Reads(s, t, k.type, k.n)
    /\ name = "for_desugared" =>
           /\ Len(s) >= 4 /\ Nth(s, 4) = "OptionalStmt"
           /\ Nth(s, 3) = "OptionalExpr" /\ Nth(s, 2) = "OptionalExpr"
           /\ Nth(s, 1) = "Stmt" /\ Gives(s, t, 4, "Stmt")
    /\ name \in {"synchronise", "synchronising"} => t = s
    /\ name = "parse" => /\ \A j \in 1 .. Len(s) : s[j] = "Declared"
                         /\ \A j \in 1 .. Len(t) : t[j] = "Declared"

LEMMA WorksOnly ==
    ASSUME NEW k, NEW s, NEW t, Works(k, s, t)
    PROVE  Expects(k.is, k, s, t)
BY SMTT(60) DEF Works, Expects

LEMMA WorksRule ==
    ASSUME NEW s, NEW t
    PROVE  /\ Gives(s, t, 0, "Expr") =>
                  /\ Works(Rule("expression"), s, t) /\ Works(Rule("unary"), s, t)
                  /\ Works(Rule("primary"), s, t)
           /\ Gives(s, t, 0, "Stmt") =>
                  /\ Works(Rule("statement"), s, t)
                  /\ Works(Rule("expression_statement"), s, t)
                  /\ Works(Rule("var_declaration"), s, t)
                  /\ Works(Rule("class_declaration"), s, t)
           /\ Gives(s, t, 0, "Function") => Works(Rule("function"), s, t)
           /\ Gives(s, t, 0, "Declared") => Works(Rule("declaration"), s, t)
           /\ Gives(s, t, 0, "OptionalStmt") => Works(Rule("for_initialiser"), s, t)
           /\ Len(s) > 0 /\ Nth(s, 1) = "Expr" /\ Gives(s, t, 1, "Expr") =>
                  /\ Works(Rule("call"), s, t) /\ Works(Rule("assignment"), s, t)
                  /\ \A i \in 1 .. 6 : Works(Operators(i), s, t)
           /\ /\ Len(s) >= 3 /\ Nth(s, 3) = "Expr" /\ Nth(s, 2) = "Token"
              /\ Nth(s, 1) = "Expr" /\ Gives(s, t, 3, "Expr")
              => Works(Rule("assign"), s, t)
           /\ /\ Len(s) >= 4 /\ Nth(s, 4) = "OptionalStmt"
              /\ Nth(s, 3) = "OptionalExpr" /\ Nth(s, 2) = "OptionalExpr"
              /\ Nth(s, 1) = "Stmt" /\ Gives(s, t, 4, "Stmt")
              => Works(Rule("for_desugared"), s, t)
           /\ Works(Rule("synchronise"), s, s) /\ Works(Rule("synchronising"), s, s)
BY SMTT(60) DEF Works, Rule, Operators

LEMMA WorksTask ==
    ASSUME NEW s, NEW t
    PROVE  /\ \A kind : Works(Want(kind), s, s)
           /\ \A kind : Gives(s, t, 0, "Token") => Works(Keep(kind), s, t)
           /\ \A type, n : Makes(s, t, type, n) => Works(Make(type, n), s, t)
           /\ \A kind : Gives(s, t, 0, "OptionalExpr") =>
                  /\ Works(Unless(kind), s, t)
                  /\ Works(IfMatch(kind, <<Rule("expression")>>), s, t)
                  /\ Works(IfMatch(kind, <<Keep("Identifier"), Make("Variable", 1)>>),
                           s, t)
           /\ \A kind : Gives(s, t, 0, "OptionalStmt") =>
                  Works(IfMatch(kind, <<Rule("statement")>>), s, t)
           /\ \A n \in Nat :
                  /\ Len(s) = n + 1 /\ Gives(s, t, 1, "Declared")
                  /\ "Declared" \in Uses(Nth(s, 1))
                  => Works(Caught(n), s, t)
           /\ \A n : Makes(s, t, "Class", n) => Works(Methods(n), s, t)
           /\ \A n : \A type \in {"Block", "Function"} :
                  Makes(s, t, type, n) => Works(Statements(type, n), s, t)
           /\ \A type, n : Reads(s, t, type, n) =>
                  /\ Works(List(type, n), s, t) /\ Works(Item(type, n), s, t)
                  /\ Works([is |-> "comma", type |-> type, n |-> n], s, t)
<1>1. \A kind : Works(Want(kind), s, s)
  BY DEF Works, Want
<1>2. \A kind : Gives(s, t, 0, "Token") => Works(Keep(kind), s, t)
  BY DEF Works, Keep
<1>3. \A type, n : Makes(s, t, type, n) => Works(Make(type, n), s, t)
  BY DEF Works, Make
<1>4. ASSUME NEW kind, Gives(s, t, 0, "OptionalExpr")
      PROVE  /\ Works(Unless(kind), s, t)
             /\ Works(IfMatch(kind, <<Rule("expression")>>), s, t)
             /\ Works(IfMatch(kind, <<Keep("Identifier"), Make("Variable", 1)>>), s, t)
  <2>1. Works(Unless(kind), s, t)
    BY <1>4 DEF Works, Unless
  <2>2. \A tasks : /\ IfMatch(kind, tasks).is = "match"
                   /\ IfMatch(kind, tasks).tasks = tasks
    BY DEF IfMatch
  <2> QED  BY <1>4, <2>1, <2>2 DEF Works
<1>5. ASSUME NEW kind, Gives(s, t, 0, "OptionalStmt")
      PROVE  Works(IfMatch(kind, <<Rule("statement")>>), s, t)
  <2>1. \A tasks : /\ IfMatch(kind, tasks).is = "match"
                   /\ IfMatch(kind, tasks).tasks = tasks
    BY DEF IfMatch
  <2> QED  BY <1>5, <2>1 DEF Works
<1>6. \A n \in Nat :
          /\ Len(s) = n + 1 /\ Gives(s, t, 1, "Declared")
          /\ "Declared" \in Uses(Nth(s, 1))
          => Works(Caught(n), s, t)
  BY DEF Works, Caught
<1>7. \A n : Makes(s, t, "Class", n) => Works(Methods(n), s, t)
  BY DEF Works, Methods
<1>8. \A n : \A type \in {"Block", "Function"} :
          Makes(s, t, type, n) => Works(Statements(type, n), s, t)
  BY DEF Works, Statements
<1>9. ASSUME NEW type, NEW n, Reads(s, t, type, n)
      PROVE  /\ Works(List(type, n), s, t) /\ Works(Item(type, n), s, t)
             /\ Works([is |-> "comma", type |-> type, n |-> n], s, t)
  <2>1. Works(List(type, n), s, t)
    BY <1>9 DEF Works, List
  <2>2. Works(Item(type, n), s, t)
    BY <1>9 DEF Works, Item
  <2>3. Works([is |-> "comma", type |-> type, n |-> n], s, t)
    BY <1>9 DEF Works
  <2> QED  BY <2>1, <2>2, <2>3
<1> QED  BY <1>1, <1>2, <1>3, <1>4, <1>5, <1>6, <1>7, <1>8, <1>9

\* A task that neither is the loop of parse nor a catch.
Plain(k) == k.is \notin {"parse", "caught"}
Fits(s, k, a, b) == Over(s, a) /\ Plain(k) /\ Works(k, a, b)
Runs(s, tasks, a, b) ==
    /\ IsSeq(tasks) /\ \A i \in 1 .. Len(tasks) : Plain(tasks[i])
    /\ Leads(s, tasks, a, b)

LEMMA PlainAre ==
    /\ \A r : r \notin {"parse", "caught"} => Plain(Rule(r))
    /\ \A x : Plain(Want(x)) /\ Plain(Keep(x)) /\ Plain(Unless(x)) /\ Plain(Methods(x))
    /\ \A x : Plain(Operators(x))
    /\ \A x, y : Plain(Make(x, y)) /\ Plain(IfMatch(x, y)) /\ Plain(Statements(x, y))
    /\ \A x, y : /\ Plain(List(x, y)) /\ Plain(Item(x, y))
                 /\ Plain([is |-> "comma", type |-> x, n |-> y])
BY DEF Plain, Rule, Want, Keep, Unless, Methods, Operators, Make, IfMatch, Statements,
       List, Item

LEMMA RunsNone ==
    ASSUME NEW s, NEW a
    PROVE  Runs(s, <<>>, a, a)
<1> DEFINE e == <<>>
<1>1. Leads(s, e, a, a)
  BY LeadsNone
<1>2. IsSeq(e) /\ Len(e) = 0
  BY TuplesAre
<1> HIDE DEF e
<1>3. Runs(s, e, a, a)
  BY <1>1, <1>2 DEF Runs
<1> QED  BY <1>3 DEF e

LEMMA RunsOne ==
    ASSUME NEW s, NEW t, NEW a, NEW b, Fits(s, t, a, b)
    PROVE  Runs(s, <<t>>, a, b)
<1>1. IsSeq(<<t>>) /\ Len(<<t>>) = 1 /\ Leads(s, <<t>>, a, b)
  BY LeadsOne DEF Fits
<1>2. \A i \in 1 .. 1 : <<t>>[i] = t
  OBVIOUS
<1> QED  BY <1>1, <1>2 DEF Runs, Fits

LEMMA RunsConcat ==
    ASSUME NEW r, NEW s, NEW t, NEW a, NEW b, NEW c, Runs(r, s, a, b), Runs(r, t, b, c)
    PROVE  Runs(r, s \o t, a, c)
<1> DEFINE u == s \o t
<1>1. IsSeq(s) /\ IsSeq(t) /\ Leads(r, s, a, b) /\ Leads(r, t, b, c)
  BY DEF Runs
<1>2. IsSeq(u) /\ Leads(r, u, a, c)
  BY <1>1, LeadsConcat
<1>3. /\ Len(s) \in Nat /\ Len(t) \in Nat /\ Len(u) = Len(s) + Len(t)
      /\ \A i \in 1 .. Len(s) : u[i] = s[i]
      /\ \A i \in 1 .. Len(t) : u[Len(s) + i] = t[i]
  BY <1>1, ConcatIs DEF IsSeq
<1> HIDE DEF u
<1>4. ASSUME NEW i \in 1 .. Len(u) PROVE Plain(u[i])
  <2>1. CASE i \in 1 .. Len(s)
    BY <1>3, <2>1 DEF Runs
  <2>2. CASE i \notin 1 .. Len(s)
    <3>1. i - Len(s) \in 1 .. Len(t) /\ Len(s) + (i - Len(s)) = i
      BY <1>3, <2>2
    <3>2. u[i] = t[i - Len(s)]
      BY <1>3, <3>1
    <3> QED  BY <3>1, <3>2 DEF Runs
  <2> QED  BY <2>1, <2>2
<1>5. Runs(r, u, a, c)
  BY <1>2, <1>4 DEF Runs
<1> QED  BY <1>5 DEF u

LEMMA RunsTwo ==
    ASSUME NEW s, NEW t, NEW u, NEW a, NEW b, NEW c,
           Fits(s, t, a, b), Fits(s, u, b, c)
    PROVE  Runs(s, <<t, u>>, a, c)
<1>1. Runs(s, <<t>>, a, b) /\ Runs(s, <<u>>, b, c)
  BY RunsOne
<1>2. Runs(s, <<t>> \o <<u>>, a, c)
  BY <1>1, RunsConcat
<1> QED  BY <1>2, TuplesJoin

LEMMA RunsThree ==
    ASSUME NEW s, NEW t, NEW u, NEW v, NEW a, NEW b, NEW c, NEW d,
           Fits(s, t, a, b), Fits(s, u, b, c), Fits(s, v, c, d)
    PROVE  Runs(s, <<t, u, v>>, a, d)
<1>1. Runs(s, <<t>>, a, b) /\ Runs(s, <<u, v>>, b, d)
  BY RunsOne, RunsTwo
<1>2. Runs(s, <<t>> \o <<u, v>>, a, d)
  BY <1>1, RunsConcat
<1> QED  BY <1>2, TuplesJoin

LEMMA RunsFour ==
    ASSUME NEW s, NEW t, NEW u, NEW v, NEW w, NEW a, NEW b, NEW c, NEW d, NEW z,
           Fits(s, t, a, b), Fits(s, u, b, c), Fits(s, v, c, d), Fits(s, w, d, z)
    PROVE  Runs(s, <<t, u, v, w>>, a, z)
<1>1. Runs(s, <<t, u>>, a, c) /\ Runs(s, <<v, w>>, c, z)
  BY RunsTwo
<1>2. Runs(s, <<t, u>> \o <<v, w>>, a, z)
  BY <1>1, RunsConcat
<1> QED  BY <1>2, TuplesJoinFour

-----------------------------------------------------------------------------
(* A step of the parser replaces the current task.                         *)

LEMMA Current ==
    ASSUME NEW p, Sound(p), NEW name, Calling(name)
    PROVE  /\ Task.is = name /\ Works(Task, p[0], p[1])
           /\ IsSeq(p[0]) /\ IsSeq(p[1]) /\ Len(p[0]) \in Nat
           /\ Well(Made) /\ Holds(Made, held, p[0])
           /\ IsSeq(held) /\ Len(held) = Len(p[0])
           /\ Over(p[0], p[0])
<1>1. Plan(todo, p)
  BY DEF Sound
<1>2. /\ Task.is = name /\ Works(Task, p[0], p[1])
      /\ IsSeq(p[0]) /\ IsSeq(p[1])
  BY <1>1, CallingIs
<1> QED  BY <1>2, OverSelf DEF Sound, Holds, IsSeq

LEMMA Replaced ==
    ASSUME NEW p, Sound(p), NEW name, Calling(name),
           NEW tasks, NEW a, Runs(p[0], tasks, a, p[1]),
           name \notin Safe \/ \A i \in 1 .. Len(tasks) : tasks[i].is \in Safe,
           Well(Made'), todo' = tasks \o Tail(todo), Holds(Made', held', a)
    PROVE  (\E q : Sound(q))'
<1>1. /\ Plan(todo, p) /\ IsSeq(todo) /\ Len(todo) \in Nat \ {0}
      /\ todo[1].is = name /\ Len(Tail(todo)) = Len(todo) - 1
      /\ \A i \in 1 .. Len(todo) - 1 : Tail(todo)[i] = todo[i + 1]
  BY CallingIs DEF Sound
<1>2. ASSUME name \notin Safe
      PROVE  \E j \in 1 .. Len(Tail(todo)) : Tail(todo)[j].is = "caught"
  <2>1. 1 \in 1 .. Len(todo)
    BY <1>1
  <2>2. PICK j \in 1 + 1 .. Len(todo) : todo[j].is = "caught"
    BY <1>1, <1>2, <2>1 DEF Plan
  <2>3. j - 1 \in 1 .. Len(todo) - 1 /\ (j - 1) + 1 = j
    BY <1>1
  <2> QED  BY <1>1, <2>2, <2>3
<1>3. Guarded(tasks, Tail(todo), p[0], p[1])
  BY <1>2 DEF Guarded, Runs, Plain
<1>4. IsSeq(tasks) /\ Leads(p[0], tasks, a, p[1])
  BY DEF Runs
<1> QED  BY <1>3, <1>4, Goes

LEMMA DoIs ==
    ASSUME NEW p, Sound(p), NEW tasks, NEW values, Do(tasks, values),
           Step(tasks, values) \/ Match(tasks, values)
    PROVE  /\ Well(Made') /\ Grown(Made, Made')
           /\ todo' = tasks \o Tail(todo) /\ held' = held \o values
<1>1. /\ Made.nodes = nodes /\ Made.tokens = tokens /\ Made.errors = errors
      /\ (Made').nodes = nodes' /\ (Made').tokens = tokens' /\ (Made').errors = errors'
  BY DEF Made
<1>2. nodes' = nodes /\ todo' = tasks \o Tail(todo) /\ held' = held \o values
  BY DEF Do
<1>3. errors' = errors /\ (tokens' = tokens \/ \E t : tokens' = Append(tokens, t))
  <2>1. CASE Step(tasks, values)
    BY <2>1 DEF Step, source
  <2>2. CASE Match(tasks, values)
    BY <2>2 DEF Match, Advance, source
  <2> QED  BY <2>1, <2>2
<1>4. Well(Made)
  BY DEF Sound
<1> QED  BY <1>1, <1>2, <1>3, <1>4, WellMore

\* The step leaves these values in variables.
LEMMA Proceeds ==
    ASSUME NEW p, Sound(p), NEW name, Calling(name), NEW tasks, NEW values,
           NEW a, Runs(p[0], tasks, a, p[1]), name \notin Safe,
           Step(tasks, values) \/ Match(tasks, values),
           Holds(Made, held \o values, a)
    PROVE  (\E q : Sound(q))'
<1>1. Do(tasks, values)
  BY DEF Step, Match
<1>2. /\ Well(Made') /\ Grown(Made, Made')
      /\ todo' = tasks \o Tail(todo) /\ held' = held \o values
  BY <1>1, DoIs
<1>3. Holds(Made', held', a)
  BY <1>2, HoldsStill DEF Sound
<1> QED  BY <1>2, <1>3, Replaced

LEMMA ConcatNone ==
    ASSUME NEW s, IsSeq(s)
    PROVE  s \o <<>> = s
<1> DEFINE e == <<>>
    u == s \o e
<1>1. IsSeq(e) /\ Len(e) = 0
  BY TuplesAre
<1> HIDE DEF e
<1>2. IsSeq(u) /\ Len(u) = Len(s) + Len(e) /\ \A i \in 1 .. Len(s) : u[i] = s[i]
  BY <1>1, ConcatIs
<1> HIDE DEF u
<1>3. Len(u) = Len(s)
  BY <1>1, <1>2 DEF IsSeq
<1>4. u = s
  BY <1>2, <1>3, SameSeq
<1> QED  BY <1>4 DEF e, u

LEMMA ProceedsNone ==
    ASSUME NEW p, Sound(p), NEW name, Calling(name), NEW tasks,
           Runs(p[0], tasks, p[0], p[1]), name \notin Safe,
           Step(tasks, <<>>) \/ Match(tasks, <<>>)
    PROVE  (\E q : Sound(q))'
<1>1. IsSeq(held) /\ Holds(Made, held, p[0])
  BY Current
<1>2. held \o <<>> = held
  BY <1>1, ConcatNone
<1>3. Holds(Made, held \o <<>>, p[0])
  BY <1>1, <1>2
<1> QED  BY <1>3, Proceeds

LEMMA ConcatOne ==
    ASSUME NEW s, IsSeq(s), NEW v
    PROVE  s \o <<v>> = Append(s, v)
<1> DEFINE u == s \o <<v>>
    a == Append(s, v)
<1>1. IsSeq(<<v>>) /\ Len(<<v>>) = 1
  BY TuplesAre
<1>2. <<v>>[1] = v /\ 1 \in 1 .. 1
  OBVIOUS
<1>3. /\ IsSeq(u) /\ Len(u) = Len(s) + Len(<<v>>)
      /\ \A i \in 1 .. Len(s) : u[i] = s[i]
      /\ \A i \in 1 .. Len(<<v>>) : u[Len(s) + i] = <<v>>[i]
  BY <1>1, ConcatIs
<1>4. /\ IsSeq(a) /\ Len(a) = Len(s) + 1 /\ a[Len(s) + 1] = v
      /\ \A i \in 1 .. Len(s) : a[i] = s[i]
  BY AppendIs
<1> HIDE DEF u, a
<1>5. u[Len(s) + 1] = v /\ Len(s) \in Nat
  BY <1>1, <1>2, <1>3 DEF IsSeq
<1>6. ASSUME NEW i \in 1 .. Len(u) PROVE u[i] = a[i]
  <2>1. i \in 1 .. Len(s) \/ i = Len(s) + 1
    BY <1>1, <1>3, <1>5
  <2> QED  BY <1>3, <1>4, <1>5, <2>1
<1>7. u = a
  BY <1>1, <1>3, <1>4, <1>6, SameSeq
<1> QED  BY <1>7 DEF u, a

LEMMA HoldsMore ==
    ASSUME NEW m, NEW values, NEW s, Holds(m, values, s), NEW x \in Sorts, NEW t,
           Gives(s, t, 0, x), NEW v, Has(m, v, x, Len(m.nodes))
    PROVE  Holds(m, values \o <<v>>, t) /\ Holds(m, Append(values, v), t)
<1> DEFINE u == Append(values, v)
<1>1. IsSeq(values) /\ Len(values) \in Nat /\ Len(values) - 0 = Len(values)
  BY DEF Holds, IsSeq
<1>2. /\ IsSeq(u) /\ Len(u) = Len(values) - 0 + 1 /\ u[Len(values) - 0 + 1] = v
      /\ \A j \in 1 .. Len(values) - 0 : u[j] = values[j]
  BY <1>1, AppendIs
<1> HIDE DEF u
<1>3. Holds(m, u, t)
  BY <1>2, HoldsPut
<1> QED  BY <1>1, <1>3, ConcatOne DEF u

LEMMA ProceedsOne ==
    ASSUME NEW p, Sound(p), NEW name, Calling(name), NEW tasks, NEW v,
           NEW x \in Sorts, Has(Made, v, x, Len(Made.nodes)),
           NEW a, Gives(p[0], a, 0, x),
           Runs(p[0], tasks, a, p[1]), name \notin Safe,
           Step(tasks, <<v>>) \/ Match(tasks, <<v>>)
    PROVE  (\E q : Sound(q))'
<1>1. Holds(Made, held, p[0])
  BY Current
<1>2. Holds(Made, held \o <<v>>, a)
  BY <1>1, HoldsMore
<1> QED  BY <1>2, Proceeds

\* The value on top is what is to be left.
LEMMA HoldsTop ==
    ASSUME NEW m, NEW values, NEW s, Holds(m, values, s), NEW x \in Sorts, NEW t,
           Gives(s, t, 1, x), x \in Uses(Nth(s, 1))
    PROVE  Holds(m, values, t)
<1> DEFINE n == Len(values)
<1>1. /\ IsSeq(values) /\ n \in Nat /\ Len(s) = n /\ 1 \in 0 .. n
      /\ n = n - 1 + 1 /\ Len(s) + 1 - 1 = n /\ n \in 1 .. n
  BY DEF Holds, IsSeq, Gives
<1>2. s[n] \in Sorts /\ Has(m, values[n], s[n], Len(m.nodes)) /\ Nth(s, 1) = s[n]
  BY <1>1 DEF Holds, Nth
<1>3. Has(m, values[n], x, Len(m.nodes))
  BY <1>2, UsesHave
<1>4. \A j \in 1 .. n - 1 : j \in 1 .. n
  BY <1>1
<1> HIDE DEF n
<1>5. values[n - 1 + 1] = values[n] /\ Len(values) = n
  BY <1>1 DEF n
<1> QED  BY <1>1, <1>3, <1>5, HoldsPut

LEMMA TokenHas ==
    ASSUME NEW m, Well(m), NEW n
    PROVE  Has(m, Token(Len(m.tokens)), "Token", n)
BY WellIs DEF Has

-----------------------------------------------------------------------------
(* The lists of sorts that the actions need.                               *)

LEMMA StackedTwo ==
    ASSUME NEW s, IsSeq(s), NEW w, NEW x
    PROVE  LET a == Append(s, w)
               b == Append(a, x)
           IN  /\ IsSeq(a) /\ IsSeq(b)
               /\ Len(s) \in Nat /\ Len(a) = Len(s) + 1 /\ Len(b) = Len(s) + 2
               /\ Over(s, s) /\ Over(s, a) /\ Over(s, b)
               /\ Gives(s, a, 0, w) /\ Gives(a, b, 0, x)
               /\ Nth(a, 1) = w /\ Nth(b, 1) = x /\ Nth(b, 2) = w
               /\ \A j \in 1 .. Len(s) : /\ Nth(a, j + 1) = Nth(s, j)
                                         /\ Nth(b, j + 2) = Nth(s, j)
               /\ \A n \in Nat : \A t, z : Gives(s, t, n, z) =>
                      Gives(a, t, n + 1, z) /\ Gives(b, t, n + 2, z)
<1> DEFINE a == Append(s, w)
    b == Append(a, x)
<1>1. /\ IsSeq(a) /\ Len(s) \in Nat /\ Len(a) = Len(s) + 1 /\ Gives(s, a, 0, w)
      /\ Nth(a, 1) = w /\ \A j \in 1 .. Len(s) : Nth(a, j + 1) = Nth(s, j)
      /\ Over(s, s) /\ Over(s, a)
      /\ \A t, n, z : Gives(s, t, n, z) => Gives(a, t, n + 1, z)
  <2>1. Over(s, s)
    BY OverSelf
  <2>2. \A t, n, z : Gives(s, t, n, z) => Gives(a, t, n + 1, z)
    BY PushedGives
  <2> QED  BY <2>1, <2>2, Pushed
<1> HIDE DEF a
<1>2. /\ IsSeq(b) /\ Len(b) = Len(a) + 1 /\ Gives(a, b, 0, x)
      /\ Nth(b, 1) = x /\ \A j \in 1 .. Len(a) : Nth(b, j + 1) = Nth(a, j)
      /\ Over(s, b)
  BY <1>1, Pushed
<1>3. \A t, n, z : Gives(a, t, n, z) => Gives(b, t, n + 1, z)
  BY <1>1, PushedGives
<1> HIDE DEF b
<1>4. Nth(b, 2) = w /\ Len(b) = Len(s) + 2
  <2>1. 1 \in 1 .. Len(a) /\ 1 + 1 = 2
    BY <1>1
  <2> QED  BY <1>1, <1>2, <2>1
<1>5. ASSUME NEW j \in 1 .. Len(s) PROVE Nth(b, j + 2) = Nth(s, j)
  <2>1. j + 1 \in 1 .. Len(a) /\ j + 1 + 1 = j + 2
    BY <1>1
  <2> QED  BY <1>1, <1>2, <2>1
<1>6. ASSUME NEW n \in Nat, NEW t, NEW z, Gives(s, t, n, z)
      PROVE  Gives(a, t, n + 1, z) /\ Gives(b, t, n + 2, z)
  <2>1. Gives(a, t, n + 1, z)
    BY <1>1, <1>6
  <2>2. Gives(b, t, n + 1 + 1, z)
    BY <1>3, <2>1
  <2>3. n + 1 + 1 = n + 2
    OBVIOUS
  <2> QED  BY <2>1, <2>2, <2>3
<1> QED  BY <1>1, <1>2, <1>4, <1>5, <1>6 DEF a, b

LEMMA StackedFour ==
    ASSUME NEW s, IsSeq(s), NEW w, NEW x, NEW y, NEW z
    PROVE  LET a == Append(s, w)
               b == Append(a, x)
               c == Append(b, y)
               d == Append(c, z)
           IN  /\ IsSeq(c) /\ IsSeq(d)
               /\ Len(s) \in Nat /\ Len(c) = Len(s) + 3 /\ Len(d) = Len(s) + 4
               /\ Over(s, c) /\ Over(s, d)
               /\ Gives(b, c, 0, y) /\ Gives(c, d, 0, z)
               /\ Nth(c, 1) = y /\ Nth(c, 2) = x /\ Nth(c, 3) = w
               /\ Nth(d, 1) = z /\ Nth(d, 2) = y /\ Nth(d, 3) = x /\ Nth(d, 4) = w
               /\ \A n \in Nat : \A t, u : Gives(s, t, n, u) =>
                      Gives(c, t, n + 3, u) /\ Gives(d, t, n + 4, u)
<1> DEFINE a == Append(s, w)
    b == Append(a, x)
    c == Append(b, y)
    d == Append(c, z)
<1>1. /\ IsSeq(b) /\ Over(s, b) /\ Nth(b, 1) = x /\ Nth(b, 2) = w
      /\ Len(s) \in Nat /\ Len(b) = Len(s) + 2
      /\ \A n \in Nat : \A t, u : Gives(s, t, n, u) => Gives(b, t, n + 2, u)
  BY StackedTwo
<1> HIDE DEF a, b
<1>2. /\ IsSeq(c) /\ IsSeq(d) /\ Len(c) = Len(b) + 1 /\ Len(d) = Len(b) + 2
      /\ Gives(b, c, 0, y) /\ Gives(c, d, 0, z)
      /\ Nth(c, 1) = y /\ Nth(d, 1) = z /\ Nth(d, 2) = y
      /\ \A j \in 1 .. Len(b) : Nth(c, j + 1) = Nth(b, j) /\ Nth(d, j + 2) = Nth(b, j)
      /\ \A n \in Nat : \A t, u : Gives(b, t, n, u) =>
             Gives(c, t, n + 1, u) /\ Gives(d, t, n + 2, u)
  BY <1>1, StackedTwo
<1>3. Over(s, c) /\ Over(s, d)
  <2>1. Over(s, c)
    BY <1>1, Pushed
  <2> HIDE DEF c
  <2>2. Over(s, d)
    BY <1>2, <2>1, Pushed
  <2> QED  BY <2>1, <2>2
<1> HIDE DEF c, d
<1>4. Nth(c, 2) = x /\ Nth(c, 3) = w /\ Nth(d, 3) = x /\ Nth(d, 4) = w
  <2>1. /\ 1 \in 1 .. Len(b) /\ 2 \in 1 .. Len(b)
        /\ 1 + 1 = 2 /\ 2 + 1 = 3 /\ 1 + 2 = 3 /\ 2 + 2 = 4
    BY <1>1
  <2> QED  BY <1>1, <1>2, <2>1
<1>5. Len(c) = Len(s) + 3 /\ Len(d) = Len(s) + 4
  BY <1>1, <1>2
<1>6. ASSUME NEW n \in Nat, NEW t, NEW u, Gives(s, t, n, u)
      PROVE  Gives(c, t, n + 3, u) /\ Gives(d, t, n + 4, u)
  <2>1. Gives(b, t, n + 2, u) /\ n + 2 \in Nat
    BY <1>1, <1>6
  <2>2. Gives(c, t, n + 2 + 1, u) /\ Gives(d, t, n + 2 + 2, u)
    BY <1>2, <2>1
  <2>3. n + 2 + 1 = n + 3 /\ n + 2 + 2 = n + 4
    OBVIOUS
  <2> QED  BY <2>2, <2>3
<1> QED  BY <1>1, <1>2, <1>3, <1>4, <1>5, <1>6 DEF a, b, c, d

LEMMA FieldsAre ==
    /\ {"Assign", "Binary", "Get", "Grouping", "Literal", "Logical", "Set", "Super",
        "This", "Unary", "Variable", "Expression", "If", "Print", "Return", "Var",
        "While"} \subseteq DOMAIN Fields
    /\ Fields["Assign"] = <<"Token", "Expr">>
    /\ Fields["Binary"] = <<"Expr", "Token", "Expr">>
    /\ Fields["Get"] = <<"Expr", "Token">>
    /\ Fields["Grouping"] = <<"Expr">>
    /\ Fields["Literal"] = <<"Token">>
    /\ Fields["Logical"] = <<"Expr", "Token", "Expr">>
    /\ Fields["Set"] = <<"Expr", "Token", "Expr">>
    /\ Fields["Super"] = <<"Token", "Token">>
    /\ Fields["This"] = <<"Token">>
    /\ Fields["Unary"] = <<"Token", "Expr">>
    /\ Fields["Variable"] = <<"Token">>
    /\ Fields["Expression"] = <<"Expr">>
    /\ Fields["If"] = <<"Expr", "Stmt", "OptionalStmt">>
    /\ Fields["Print"] = <<"Expr">>
    /\ Fields["Return"] = <<"Token", "OptionalExpr">>
    /\ Fields["Var"] = <<"Token", "OptionalExpr">>
    /\ Fields["While"] = <<"Expr", "Stmt">>
    /\ \A x \in {"Call", "Class", "Function", "Block"} : x \notin DOMAIN Fields
BY DEF Fields, Expressions, Commands

LEMMA SortsAre ==
    /\ \A x \in {"Assign", "Binary", "Call", "Get", "Grouping", "Literal", "Logical",
                 "Set", "Super", "This", "Unary", "Variable"} : SortOf(x) = "Expr"
    /\ \A x \in {"Block", "Class", "Expression", "If", "Print", "Return", "Var",
                 "While"} : SortOf(x) = "Stmt"
    /\ SortOf("Function") = "Function"
BY DEF SortOf, Expressions

LEMMA NodesMade ==
    ASSUME NEW s, IsSeq(s), NEW t
    PROVE  /\ Nth(s, 1) = "Expr" /\ Gives(s, t, 1, "Stmt") =>
                  Makes(s, t, "Expression", 1) /\ Makes(s, t, "Print", 1)
           /\ Nth(s, 1) = "Expr" /\ Gives(s, t, 1, "Expr") =>
                  Makes(s, t, "Grouping", 1)
           /\ Nth(s, 1) = "Token" /\ Gives(s, t, 1, "Expr") =>
                  \A x \in {"Literal", "This", "Variable"} : Makes(s, t, x, 1)
           /\ Nth(s, 2) = "Expr" /\ Nth(s, 1) = "Token" /\ Gives(s, t, 2, "Expr") =>
                  Makes(s, t, "Get", 2)
           /\ Nth(s, 2) = "Token" /\ Nth(s, 1) = "Token" /\ Gives(s, t, 2, "Expr") =>
                  Makes(s, t, "Super", 2)
           /\ Nth(s, 2) = "Token" /\ Nth(s, 1) = "Expr" /\ Gives(s, t, 2, "Expr") =>
                  Makes(s, t, "Unary", 2)
           /\ /\ Nth(s, 2) = "Token" /\ Nth(s, 1) = "OptionalExpr"
              /\ Gives(s, t, 2, "Stmt")
              => Makes(s, t, "Return", 2) /\ Makes(s, t, "Var", 2)
           /\ Nth(s, 2) = "Expr" /\ Nth(s, 1) = "Stmt" /\ Gives(s, t, 2, "Stmt") =>
                  Makes(s, t, "While", 2)
           /\ /\ Nth(s, 3) = "Expr" /\ Nth(s, 2) = "Token" /\ Nth(s, 1) = "Expr"
              /\ Gives(s, t, 3, "Expr")
              => \A x \in {"Binary", "Logical"} : Makes(s, t, x, 3)
           /\ /\ Nth(s, 3) = "Expr" /\ Nth(s, 2) = "Stmt" /\ Nth(s, 1) = "OptionalStmt"
              /\ Gives(s, t, 3, "Stmt")
              => Makes(s, t, "If", 3)
<1>1. Nth(s, 1) = "Expr" /\ Gives(s, t, 1, "Stmt") =>
          Makes(s, t, "Expression", 1) /\ Makes(s, t, "Print", 1)
  BY FieldsAre, SortsAre, UsesAre, MakesOne
<1>2. Nth(s, 1) = "Expr" /\ Gives(s, t, 1, "Expr") => Makes(s, t, "Grouping", 1)
  BY FieldsAre, SortsAre, UsesAre, MakesOne
<1>3. Nth(s, 1) = "Token" /\ Gives(s, t, 1, "Expr") =>
          \A x \in {"Literal", "This", "Variable"} : Makes(s, t, x, 1)
  BY FieldsAre, SortsAre, UsesAre, MakesOne
<1>4. Nth(s, 2) = "Expr" /\ Nth(s, 1) = "Token" /\ Gives(s, t, 2, "Expr") =>
          Makes(s, t, "Get", 2)
  BY FieldsAre, SortsAre, UsesAre, MakesTwo
<1>5. Nth(s, 2) = "Token" /\ Nth(s, 1) = "Token" /\ Gives(s, t, 2, "Expr") =>
          Makes(s, t, "Super", 2)
  BY FieldsAre, SortsAre, UsesAre, MakesTwo
<1>6. Nth(s, 2) = "Token" /\ Nth(s, 1) = "Expr" /\ Gives(s, t, 2, "Expr") =>
          Makes(s, t, "Unary", 2)
  BY FieldsAre, SortsAre, UsesAre, MakesTwo
<1>7. Nth(s, 2) = "Token" /\ Nth(s, 1) = "OptionalExpr" /\ Gives(s, t, 2, "Stmt") =>
          Makes(s, t, "Return", 2) /\ Makes(s, t, "Var", 2)
  BY FieldsAre, SortsAre, UsesAre, MakesTwo
<1>8. Nth(s, 2) = "Expr" /\ Nth(s, 1) = "Stmt" /\ Gives(s, t, 2, "Stmt") =>
          Makes(s, t, "While", 2)
  BY FieldsAre, SortsAre, UsesAre, MakesTwo
<1>9. /\ Nth(s, 3) = "Expr" /\ Nth(s, 2) = "Token" /\ Nth(s, 1) = "Expr"
      /\ Gives(s, t, 3, "Expr")
      => \A x \in {"Binary", "Logical"} : Makes(s, t, x, 3)
  BY FieldsAre, SortsAre, UsesAre, MakesThree
<1>10. /\ Nth(s, 3) = "Expr" /\ Nth(s, 2) = "Stmt" /\ Nth(s, 1) = "OptionalStmt"
       /\ Gives(s, t, 3, "Stmt")
       => Makes(s, t, "If", 3)
  BY FieldsAre, SortsAre, UsesAre, MakesThree
<1> QED  BY <1>1, <1>2, <1>3, <1>4, <1>5, <1>6, <1>7, <1>8, <1>9, <1>10

-----------------------------------------------------------------------------
(* Declarations and statements.                                            *)

LEMMA ToDo ==
    ASSUME NEW p, Sound(p), NEW name, Calling(name)
    PROVE  /\ Expects(name, Task, p[0], p[1])
           /\ IsSeq(p[0]) /\ IsSeq(p[1]) /\ Over(p[0], p[0])
<1>1. Task.is = name /\ Works(Task, p[0], p[1])
  BY Current
<1>2. Expects(Task.is, Task, p[0], p[1])
  BY <1>1, WorksOnly
<1> QED  BY <1>1, <1>2, Current

LEMMA ExpressionStatementSound ==
    ASSUME NEW p, Sound(p), ExpressionStatement
    PROVE  (\E q : Sound(q))'
<1> DEFINE s == p[0]
    t == p[1]
    a == Append(s, "Expr")
    tasks == <<Rule("expression"), Want("SemiColon"), Make("Expression", 1)>>
<1>1. Calling("expression_statement") /\ Step(tasks, <<>>)
  BY DEF ExpressionStatement
<1>2. IsSeq(s) /\ Gives(s, t, 0, "Stmt")
  BY <1>1, ToDo DEF Expects
<1>3. /\ IsSeq(a) /\ Over(s, s) /\ Over(s, a) /\ Gives(s, a, 0, "Expr")
      /\ Nth(a, 1) = "Expr" /\ Gives(a, t, 0 + 1, "Stmt")
  BY <1>2, StackedTwo
<1> HIDE DEF a
<1>4. Makes(a, t, "Expression", 1)
  BY <1>3, NodesMade
<1>5. /\ Fits(s, Rule("expression"), s, a) /\ Fits(s, Want("SemiColon"), a, a)
      /\ Fits(s, Make("Expression", 1), a, t)
  BY <1>3, <1>4, WorksRule, WorksTask, PlainAre DEF Fits
<1>6. Runs(s, tasks, s, t)
  BY <1>5, RunsThree
<1> QED  BY <1>1, <1>6, ProceedsNone DEF Safe

LEMMA VarDeclarationSound ==
    ASSUME NEW p, Sound(p), VarDeclaration
    PROVE  (\E q : Sound(q))'
<1> DEFINE s == p[0]
    t == p[1]
    a == Append(s, "Token")
    b == Append(a, "OptionalExpr")
    tasks == <<Keep("Identifier"), IfMatch("Equal", <<Rule("expression")>>),
               Want("SemiColon"), Make("Var", 2)>>
<1>1. Calling("var_declaration") /\ Step(tasks, <<>>)
  BY DEF VarDeclaration
<1>2. IsSeq(s) /\ Gives(s, t, 0, "Stmt")
  BY <1>1, ToDo DEF Expects
<1>3. /\ IsSeq(b) /\ Over(s, s) /\ Over(s, a) /\ Over(s, b)
      /\ Gives(s, a, 0, "Token") /\ Gives(a, b, 0, "OptionalExpr")
      /\ Nth(b, 2) = "Token" /\ Nth(b, 1) = "OptionalExpr" /\ Gives(b, t, 0 + 2, "Stmt")
  BY <1>2, StackedTwo
<1> HIDE DEF a, b
<1>4. Makes(b, t, "Var", 2)
  BY <1>3, NodesMade
<1>5. /\ Fits(s, Keep("Identifier"), s, a)
      /\ Fits(s, IfMatch("Equal", <<Rule("expression")>>), a, b)
      /\ Fits(s, Want("SemiColon"), b, b) /\ Fits(s, Make("Var", 2), b, t)
  BY <1>3, <1>4, WorksTask, PlainAre DEF Fits
<1>6. Runs(s, tasks, s, t)
  BY <1>5, RunsFour
<1> QED  BY <1>1, <1>6, ProceedsNone DEF Safe

LEMMA GivesWeaker ==
    ASSUME NEW s, NEW t, NEW n, NEW x, Gives(s, t, n, x)
    PROVE  /\ x = "OptionalStmt" => Gives(s, t, n, "Stmt")
           /\ x = "OptionalExpr" => Gives(s, t, n, "Expr")
           /\ x = "Declared" => Gives(s, t, n, "Stmt") /\ Gives(s, t, n, "Function")
           /\ x = "Stmt" => Gives(s, t, n, "Function")
BY UsesAre DEF Gives

LEMMA NullHas ==
    ASSUME NEW m, NEW n
    PROVE  /\ Has(m, Null, "OptionalExpr", n) /\ Has(m, Null, "OptionalStmt", n)
           /\ {"OptionalExpr", "OptionalStmt", "Token", "Declared", "Expr"} \subseteq Sorts
BY DEF Has, Sorts

LEMMA ForInitialiserSound ==
    ASSUME NEW p, Sound(p), ForInitialiser
    PROVE  (\E q : Sound(q))'
<1> DEFINE s == p[0]
    t == p[1]
<1>1. Calling("for_initialiser")
  BY DEF ForInitialiser
<1>2. IsSeq(s) /\ Gives(s, t, 0, "OptionalStmt") /\ Gives(s, t, 0, "Stmt") /\ Over(s, s)
  BY <1>1, ToDo, GivesWeaker DEF Expects
<1>3. CASE Match(<<>>, <<Null>>)
  <2>1. Runs(s, <<>>, t, t)
    BY RunsNone
  <2>2. /\ Has(Made, Null, "OptionalStmt", Len(Made.nodes)) /\ "OptionalStmt" \in Sorts
        /\ "for_initialiser" \notin Safe
    BY NullHas DEF Safe
  <2> DEFINE v == Null
      e == <<>>
  <2>3. Match(e, <<v>>) /\ Runs(s, e, t, t) /\ Has(Made, v, "OptionalStmt", Len(Made.nodes))
    BY <1>3, <2>1, <2>2
  <2> HIDE DEF v, e
  <2> QED  BY <1>1, <1>2, <2>2, <2>3, ProceedsOne
<1>4. CASE Match(<<Rule("var_declaration")>>, <<>>)
  <2>1. Fits(s, Rule("var_declaration"), s, t)
    BY <1>2, WorksRule, PlainAre DEF Fits
  <2>2. Runs(s, <<Rule("var_declaration")>>, s, t)
    BY <2>1, RunsOne
  <2> QED  BY <1>1, <1>4, <2>2, ProceedsNone DEF Safe
<1>5. CASE Step(<<Rule("expression_statement")>>, <<>>)
  <2>1. Fits(s, Rule("expression_statement"), s, t)
    BY <1>2, WorksRule, PlainAre DEF Fits
  <2>2. Runs(s, <<Rule("expression_statement")>>, s, t)
    BY <2>1, RunsOne
  <2> QED  BY <1>1, <1>5, <2>2, ProceedsNone DEF Safe
<1> QED  BY <1>3, <1>4, <1>5 DEF ForInitialiser

LEMMA TopUsesMore ==
    ASSUME NEW s, IsSeq(s), NEW n \in 0 .. Len(s), NEW x
    PROVE  /\ n + 1 \in 0 .. Len(Append(s, x))
           /\ \A j \in 1 .. n : TopUses(Append(s, x), n + 1)[j] = TopUses(s, n)[j]
           /\ TopUses(Append(s, x), n + 1)[n + 1] = Uses(x)
<1> DEFINE a == Append(s, x)
<1>1. /\ IsSeq(a) /\ Len(s) \in Nat /\ Len(a) = Len(s) + 1
      /\ a[Len(s) + 1] = x /\ \A j \in 1 .. Len(s) : a[j] = s[j]
  BY AppendIs DEF IsSeq
<1> HIDE DEF a
<1>2. n + 1 \in 0 .. Len(a)
  BY <1>1
<1>3. ASSUME NEW j \in 1 .. n PROVE TopUses(a, n + 1)[j] = TopUses(s, n)[j]
  <2>1. /\ j \in 1 .. n + 1 /\ Len(a) - (n + 1) + j = Len(s) - n + j
        /\ Len(s) - n + j \in 1 .. Len(s)
    BY <1>1
  <2> QED  BY <1>1, <2>1 DEF TopUses
<1>4. TopUses(a, n + 1)[n + 1] = Uses(x)
  <2>1. n + 1 \in 1 .. n + 1 /\ Len(a) - (n + 1) + (n + 1) = Len(s) + 1
    BY <1>1
  <2> QED  BY <1>1, <2>1 DEF TopUses
<1> QED  BY <1>2, <1>3, <1>4 DEF a

\* A part more.
LEMMA MakesMore ==
    ASSUME NEW s, IsSeq(s), NEW t, NEW type, NEW n, Makes(s, t, type, n), NEW x,
           \/ type = "Class" /\ x = "Function"
           \/ type \in {"Block", "Function"} /\ x = "Declared"
    PROVE  Makes(Append(s, x), t, type, n + 1)
<1> DEFINE f == TopUses(s, n)
    a == Append(s, x)
    g == TopUses(a, n + 1)
<1>1. /\ n \in 0 .. Len(s) /\ n \in Nat /\ Takes(type, n, f)
      /\ Gives(s, t, n, SortOf(type))
  BY DEF Makes, IsSeq
<1>2. Gives(a, t, n + 1, SortOf(type))
  BY <1>1, PushedGives
<1>3. n + 1 \in 0 .. Len(a) /\ (\A j \in 1 .. n : g[j] = f[j]) /\ g[n + 1] = Uses(x)
  BY <1>1, TopUsesMore
<1> HIDE DEF f, g, a
<1>4. x \in g[n + 1] /\ type \notin DOMAIN Fields /\ type # "Literal" /\ type # "Call"
  BY <1>3, UsesAre, FieldsAre
<1>5. \A j \in 1 .. n + 1 : j \in 1 .. n \/ j = n + 1
  BY <1>1
<1>6. CASE type = "Class" /\ x = "Function"
  <2>1. /\ n >= 2 /\ "Token" \in f[1] /\ "OptionalExpr" \in f[2]
        /\ \A j \in 3 .. n : "Function" \in f[j]
    BY <1>1, <1>4, <1>6 DEF Takes
  <2>2. 1 \in 1 .. n /\ 2 \in 1 .. n /\ n + 1 >= 2 /\ \A j \in 3 .. n : j \in 1 .. n
    BY <1>1, <2>1
  <2>3. \A j \in 3 .. n + 1 : j \in 3 .. n \/ j = n + 1
    BY <1>1
  <2>4. /\ "Token" \in g[1] /\ "OptionalExpr" \in g[2]
        /\ \A j \in 3 .. n + 1 : "Function" \in g[j]
    BY <1>3, <1>4, <1>6, <2>1, <2>2, <2>3
  <2>5. Takes(type, n + 1, g)
    BY <1>6, <2>2, <2>4 DEF Takes
  <2> QED  BY <1>2, <1>3, <2>5 DEF Makes, a, g
<1>7. CASE type = "Block" /\ x = "Declared"
  <2>1. \A j \in 1 .. n : "Declared" \in f[j]
    BY <1>1, <1>4, <1>7 DEF Takes
  <2>2. \A j \in 1 .. n + 1 : "Declared" \in g[j]
    BY <1>3, <1>4, <1>5, <1>7, <2>1
  <2>3. Takes(type, n + 1, g)
    BY <1>7, <2>2 DEF Takes
  <2> QED  BY <1>2, <1>3, <2>3 DEF Makes, a, g
<1>8. CASE type = "Function" /\ x = "Declared"
  <2>1. PICK k \in 1 .. n : \A j \in 1 .. n :
            (IF j <= k THEN "Token" ELSE "Declared") \in f[j]
    BY <1>1, <1>4, <1>8 DEF Takes
  <2>2. k \in 1 .. n + 1 /\ ~ (n + 1 <= k)
    BY <1>1
  <2>3. \A j \in 1 .. n + 1 : (IF j <= k THEN "Token" ELSE "Declared") \in g[j]
    BY <1>3, <1>4, <1>5, <1>8, <2>1, <2>2
  <2>4. Takes(type, n + 1, g)
    BY <1>8, <2>2, <2>3 DEF Takes
  <2> QED  BY <1>2, <1>3, <2>4 DEF Makes, a, g
<1> QED  BY <1>6, <1>7, <1>8

LEMMA MakesFirst ==
    ASSUME NEW s, IsSeq(s), NEW t
    PROVE  /\ Gives(s, t, 0, "Stmt") => Makes(s, t, "Block", 0)
           /\ /\ Nth(s, 2) = "Token" /\ Nth(s, 1) = "OptionalExpr"
              /\ Gives(s, t, 2, "Stmt")
              => Makes(s, t, "Class", 2)
           /\ Nth(s, 1) = "Expr" /\ Gives(s, t, 1, "Expr") => Reads(s, t, "Call", 1)
           /\ Nth(s, 1) = "Token" /\ Gives(s, t, 1, "Function") =>
                  Reads(s, t, "Function", 1)
<1>1. ASSUME Gives(s, t, 0, "Stmt") PROVE Makes(s, t, "Block", 0)
  <2>1. 0 \in 0 .. Len(s) /\ \A j \in 1 .. 0 : FALSE
    BY DEF IsSeq
  <2>2. Takes("Block", 0, TopUses(s, 0))
    BY <2>1 DEF Takes
  <2> QED  BY <1>1, <2>1, <2>2, SortsAre DEF Makes
<1>2. ASSUME Nth(s, 2) = "Token", Nth(s, 1) = "OptionalExpr", Gives(s, t, 2, "Stmt")
      PROVE  Makes(s, t, "Class", 2)
  <2> DEFINE f == TopUses(s, 2)
  <2>1. 2 \in 0 .. Len(s)
    BY <1>2 DEF Gives
  <2>2. f[1] = Uses(Nth(s, 2)) /\ f[2] = Uses(Nth(s, 1))
    <3>1. 1 \in 1 .. 2 /\ 2 + 1 - 1 = 2 /\ 2 \in 1 .. 2 /\ 2 + 1 - 2 = 1
      OBVIOUS
    <3>2. \A j \in 1 .. 2 : f[j] = Uses(Nth(s, 2 + 1 - j))
      BY <2>1, TopUsesAre
    <3> HIDE DEF f
    <3> QED  BY <3>1, <3>2
  <2> HIDE DEF f
  <2>3. "Token" \in f[1] /\ "OptionalExpr" \in f[2] /\ \A j \in 3 .. 2 : FALSE
    BY <1>2, <2>2, UsesAre
  <2>4. Takes("Class", 2, f)
    BY <2>3 DEF Takes
  <2> QED  BY <1>2, <2>1, <2>4, SortsAre DEF Makes, f
<1>3. \A n : Gives(s, t, 1, n) => 1 \in 1 .. Len(s)
  BY DEF Gives, IsSeq
<1>4. ASSUME Nth(s, 1) = "Expr", Gives(s, t, 1, "Expr") PROVE Reads(s, t, "Call", 1)
  <2>1. \A j \in 1 .. 1 : Nth(s, j) = "Expr"
    BY <1>4
  <2> QED  BY <1>3, <1>4, <2>1, SortsAre DEF Reads
<1>5. ASSUME Nth(s, 1) = "Token", Gives(s, t, 1, "Function")
      PROVE  Reads(s, t, "Function", 1)
  <2>1. \A j \in 1 .. 1 : Nth(s, j) = "Token"
    BY <1>5
  <2> QED  BY <1>3, <1>5, <2>1, SortsAre DEF Reads
<1> QED  BY <1>1, <1>2, <1>4, <1>5

LEMMA ReadsMore ==
    ASSUME NEW s, IsSeq(s), NEW t, NEW type, NEW n, Reads(s, t, type, n)
    PROVE  /\ type \in {"Call", "Function"} /\ n \in Nat
           /\ type = "Call" => /\ Reads(Append(s, "Expr"), t, type, n + 1)
                               /\ Makes(Append(s, "Token"), t, type, n + 1)
           /\ type = "Function" => /\ Reads(Append(s, "Token"), t, type, n + 1)
                                   /\ Makes(s, t, type, n)
<1> DEFINE x == IF type = "Call" THEN "Expr" ELSE "Token"
<1>1. /\ type \in {"Call", "Function"} /\ n \in 1 .. Len(s) /\ n \in Nat /\ Len(s) \in Nat
      /\ \A j \in 1 .. n : Nth(s, j) = x
      /\ Gives(s, t, n, SortOf(type)) /\ n \in 0 .. Len(s)
  BY DEF Reads, IsSeq
<1>2. Reads(Append(s, x), t, type, n + 1)
  <2> DEFINE a == Append(s, x)
  <2>1. Len(a) = Len(s) + 1 /\ Nth(a, 1) = x /\ \A j \in 1 .. Len(s) : Nth(a, j + 1) = Nth(s, j)
    BY Pushed
  <2>2. Gives(a, t, n + 1, SortOf(type))
    BY <1>1, PushedGives
  <2> HIDE DEF a
  <2>3. ASSUME NEW j \in 1 .. n + 1 PROVE Nth(a, j) = x
    <3>1. CASE j = 1
      BY <2>1, <3>1
    <3>2. CASE j # 1
      <4>1. j - 1 \in 1 .. n /\ j - 1 \in 1 .. Len(s) /\ j - 1 + 1 = j
        BY <1>1, <3>2
      <4> QED  BY <1>1, <2>1, <4>1
    <3> QED  BY <3>1, <3>2
  <2>4. n + 1 \in 1 .. Len(a)
    BY <1>1, <2>1
  <2> QED  BY <1>1, <2>2, <2>3, <2>4 DEF Reads, a
<1>3. \A j \in 1 .. n : TopUses(s, n)[j] = Uses(x)
  BY <1>1, TopUsesAre
<1>4. ASSUME type = "Call" PROVE Makes(Append(s, "Token"), t, type, n + 1)
  <2> DEFINE a == Append(s, "Token")
      g == TopUses(a, n + 1)
      f == TopUses(s, n)
  <2>1. Gives(a, t, n + 1, SortOf(type))
    BY <1>1, PushedGives
  <2>2. n + 1 \in 0 .. Len(a) /\ (\A j \in 1 .. n : g[j] = f[j]) /\ g[n + 1] = Uses("Token")
    BY <1>1, TopUsesMore
  <2>3. \A j \in 1 .. n : f[j] = Uses("Expr")
    BY <1>3, <1>4
  <2> HIDE DEF a, g, f
  <2>4. "Token" \in g[n + 1] /\ \A j \in 1 .. n : "Expr" \in g[j]
    BY <2>2, <2>3, UsesAre
  <2> DEFINE l == n + 1
  <2>5. l >= 2 /\ \A j \in 1 .. l - 1 : j \in 1 .. n
    BY <1>1
  <2>6. "Token" \in g[l]
    BY <2>4
  <2> HIDE DEF l
  <2>7. Takes(type, l, g)
    BY <1>4, <2>4, <2>5, <2>6 DEF Takes
  <2> QED  BY <2>1, <2>2, <2>7 DEF Makes, a, g, l
<1>5. ASSUME type = "Function" PROVE Makes(s, t, type, n)
  <2> DEFINE f == TopUses(s, n)
  <2>1. \A j \in 1 .. n : f[j] = Uses("Token") /\ j <= n
    BY <1>1, <1>3, <1>5
  <2> HIDE DEF f
  <2>2. \A j \in 1 .. n : (IF j <= n THEN "Token" ELSE "Declared") \in f[j]
    BY <2>1, UsesAre
  <2>3. n \in 1 .. n
    BY <1>1
  <2>4. Takes(type, n, f)
    BY <1>5, <2>2, <2>3 DEF Takes
  <2> QED  BY <1>1, <2>4 DEF Makes, f
<1> QED  BY <1>1, <1>2, <1>4, <1>5

\* A function returns a value, the one on top, or none.
LEMMA Returns ==
    ASSUME NEW p, Sound(p), NEW name, Calling(name), name \notin Safe,
           NEW v, NEW x \in Sorts, Has(Made, v, x, Len(Made.nodes)),
           Gives(p[0], p[1], 0, x), Step(<<>>, <<v>>) \/ Match(<<>>, <<v>>)
    PROVE  (\E q : Sound(q))'
<1> DEFINE e == <<>>
    t == p[1]
<1>1. Runs(p[0], e, t, t)
  BY RunsNone
<1>2. (Step(e, <<v>>) \/ Match(e, <<v>>)) /\ Runs(p[0], e, t, p[1]) /\ Gives(p[0], t, 0, x)
  BY <1>1
<1> HIDE DEF e, t
<1> QED  BY <1>2, ProceedsOne

LEMMA ReturnsNone ==
    ASSUME NEW p, Sound(p), NEW name, Calling(name), p[1] = p[0],
           Step(<<>>, <<>>) \/ Match(<<>>, <<>>)
    PROVE  (\E q : Sound(q))'
<1> DEFINE e == <<>>
    t == p[1]
<1>1. Runs(p[0], e, t, t)
  BY RunsNone
<1>2. Step(e, e) \/ Match(e, e)
  OBVIOUS
<1>3. Do(e, e)
  BY <1>2 DEF Step, Match
<1>4. IsSeq(held) /\ Holds(Made, held, t)
  BY Current
<1>5. IsSeq(e) /\ Len(e) = 0
  BY TuplesAre
<1> HIDE DEF e, t
<1>6. /\ Well(Made') /\ Grown(Made, Made')
      /\ todo' = e \o Tail(todo) /\ held' = held \o e
  BY <1>2, <1>3, DoIs
<1>7. held \o e = held
  BY <1>4, ConcatNone DEF e
<1>8. Holds(Made', held', t)
  BY <1>4, <1>6, <1>7, HoldsStill DEF Sound
<1>9. \A i \in 1 .. Len(e) : e[i].is \in Safe
  BY <1>5
<1> QED  BY <1>1, <1>6, <1>8, <1>9, Replaced DEF t

LEMMA ReturnsTop ==
    ASSUME NEW p, Sound(p), NEW name, Calling(name), NEW x \in Sorts,
           Gives(p[0], p[1], 1, x), x \in Uses(Nth(p[0], 1)),
           Step(<<>>, <<>>)
    PROVE  (\E q : Sound(q))'
<1> DEFINE e == <<>>
    t == p[1]
<1>1. Runs(p[0], e, t, t)
  BY RunsNone
<1>2. Step(e, e)
  OBVIOUS
<1>3. Do(e, e)
  BY <1>2 DEF Step
<1>4. IsSeq(held) /\ Holds(Made, held, p[0])
  BY Current
<1>5. IsSeq(e) /\ Len(e) = 0
  BY TuplesAre
<1>6. Gives(p[0], t, 1, x)
  OBVIOUS
<1> HIDE DEF e, t
<1>7. /\ Well(Made') /\ Grown(Made, Made')
      /\ todo' = e \o Tail(todo) /\ held' = held \o e
  BY <1>2, <1>3, DoIs
<1>8. held \o e = held
  BY <1>4, ConcatNone DEF e
<1>9. Holds(Made, held, t)
  BY <1>4, <1>6, HoldsTop
<1>10. Holds(Made', held', t)
  BY <1>7, <1>8, <1>9, HoldsStill DEF Sound
<1>11. \A i \in 1 .. Len(e) : e[i].is \in Safe
  BY <1>5
<1> QED  BY <1>1, <1>7, <1>10, <1>11, Replaced DEF t

LEMMA ProceedsToken ==
    ASSUME NEW p, Sound(p), NEW name, Calling(name), NEW tasks,
           NEW a, Gives(p[0], a, 0, "Token"),
           Runs(p[0], tasks, a, p[1]), name \notin Safe,
           Match(tasks, <<Token(At)>>)
    PROVE  (\E q : Sound(q))'
<1>1. Made.tokens = tokens
  BY DEF Made
<1>2. Has(Made, Token(At), "Token", Len(Made.nodes)) /\ "Token" \in Sorts
  <2>1. Well(Made)
    BY Current
  <2>2. Has(Made, Token(Len(Made.tokens)), "Token", Len(Made.nodes))
    BY <2>1, TokenHas
  <2> QED  BY <1>1, <2>2, NullHas DEF At
<1> DEFINE v == Token(At)
<1>3. Has(Made, v, "Token", Len(Made.nodes)) /\ Match(tasks, <<v>>)
  BY <1>2
<1> HIDE DEF v
<1> QED  BY <1>2, <1>3, ProceedsOne

LEMMA ClassDeclarationSound ==
    ASSUME NEW p, Sound(p), ClassDeclaration
    PROVE  (\E q : Sound(q))'
<1> DEFINE s == p[0]
    t == p[1]
    a == Append(s, "Token")
    b == Append(a, "OptionalExpr")
    super == IfMatch("Less", <<Keep("Identifier"), Make("Variable", 1)>>)
    tasks == <<Keep("Identifier"), super, Want("LeftBrace"), Methods(2)>>
<1>1. Calling("class_declaration") /\ Step(tasks, <<>>)
  BY DEF ClassDeclaration
<1>2. IsSeq(s) /\ Gives(s, t, 0, "Stmt")
  BY <1>1, ToDo DEF Expects
<1>3. /\ IsSeq(b) /\ Over(s, s) /\ Over(s, a) /\ Over(s, b)
      /\ Gives(s, a, 0, "Token") /\ Gives(a, b, 0, "OptionalExpr")
      /\ Nth(b, 2) = "Token" /\ Nth(b, 1) = "OptionalExpr" /\ Gives(b, t, 0 + 2, "Stmt")
  BY <1>2, StackedTwo
<1> HIDE DEF a, b
<1>4. Makes(b, t, "Class", 2)
  BY <1>3, MakesFirst
<1>5. /\ Fits(s, Keep("Identifier"), s, a) /\ Fits(s, super, a, b)
      /\ Fits(s, Want("LeftBrace"), b, b) /\ Fits(s, Methods(2), b, t)
  BY <1>3, <1>4, WorksTask, PlainAre DEF Fits
<1> HIDE DEF super
<1>6. Runs(s, tasks, s, t)
  BY <1>5, RunsFour
<1> QED  BY <1>1, <1>6, ProceedsNone DEF Safe

LEMMA NextMethodSound ==
    ASSUME NEW p, Sound(p), NextMethod
    PROVE  (\E q : Sound(q))'
<1> DEFINE s == p[0]
    t == p[1]
    a == Append(s, "Function")
    n == Task.n
    more == <<Rule("function"), Methods(n + 1)>>
    end == <<Want("RightBrace"), Make("Class", n)>>
<1>1. Calling("methods") /\ (Step(more, <<>>) \/ Step(end, <<>>))
  BY DEF NextMethod
<1>2. IsSeq(s) /\ Makes(s, t, "Class", n) /\ Over(s, s)
  BY <1>1, ToDo DEF Expects
<1> HIDE DEF n
<1>3. /\ Over(s, a) /\ Gives(s, a, 0, "Function") /\ Makes(a, t, "Class", n + 1)
  BY <1>2, Pushed, MakesMore
<1> HIDE DEF a
<1>4. CASE Step(more, <<>>)
  <2>1. Fits(s, Rule("function"), s, a) /\ Fits(s, Methods(n + 1), a, t)
    BY <1>2, <1>3, WorksRule, WorksTask, PlainAre DEF Fits
  <2>2. Runs(s, more, s, t)
    BY <2>1, RunsTwo
  <2> QED  BY <1>1, <1>4, <2>2, ProceedsNone DEF Safe
<1>5. CASE Step(end, <<>>)
  <2>1. Fits(s, Want("RightBrace"), s, s) /\ Fits(s, Make("Class", n), s, t)
    BY <1>2, WorksTask, PlainAre DEF Fits
  <2>2. Runs(s, end, s, t)
    BY <2>1, RunsTwo
  <2> QED  BY <1>1, <1>5, <2>2, ProceedsNone DEF Safe
<1> QED  BY <1>1, <1>4, <1>5

LEMMA NextStatementSound ==
    ASSUME NEW p, Sound(p), NextStatement
    PROVE  (\E q : Sound(q))'
<1> DEFINE s == p[0]
    t == p[1]
    a == Append(s, "Declared")
    n == Task.n
    type == Task.type
    more == <<Rule("declaration"), Statements(type, n + 1)>>
    end == <<Want("RightBrace"), Make(type, n)>>
<1>1. Calling("statements") /\ (Step(more, <<>>) \/ Step(end, <<>>))
  BY DEF NextStatement
<1>2. IsSeq(s) /\ Makes(s, t, type, n) /\ type \in {"Block", "Function"} /\ Over(s, s)
  BY <1>1, ToDo DEF Expects
<1> HIDE DEF n, type
<1>3. /\ Over(s, a) /\ Gives(s, a, 0, "Declared") /\ Makes(a, t, type, n + 1)
  BY <1>2, Pushed, MakesMore
<1> HIDE DEF a
<1>4. CASE Step(more, <<>>)
  <2>1. Fits(s, Rule("declaration"), s, a) /\ Fits(s, Statements(type, n + 1), a, t)
    BY <1>2, <1>3, WorksRule, WorksTask, PlainAre DEF Fits
  <2>2. Runs(s, more, s, t)
    BY <2>1, RunsTwo
  <2> QED  BY <1>1, <1>4, <2>2, ProceedsNone DEF Safe
<1>5. CASE Step(end, <<>>)
  <2>1. Fits(s, Want("RightBrace"), s, s) /\ Fits(s, Make(type, n), s, t)
    BY <1>2, WorksTask, PlainAre DEF Fits
  <2>2. Runs(s, end, s, t)
    BY <2>1, RunsTwo
  <2> QED  BY <1>1, <1>5, <2>2, ProceedsNone DEF Safe
<1> QED  BY <1>1, <1>4, <1>5

LEMMA FunctionRuleSound ==
    ASSUME NEW p, Sound(p), FunctionRule
    PROVE  (\E q : Sound(q))'
<1> DEFINE s == p[0]
    t == p[1]
    a == Append(s, "Token")
    tasks == <<Keep("Identifier"), Want("LeftParen"), List("Function", 1)>>
<1>1. Calling("function") /\ Step(tasks, <<>>)
  BY DEF FunctionRule
<1>2. IsSeq(s) /\ Gives(s, t, 0, "Function")
  BY <1>1, ToDo DEF Expects
<1>3. /\ IsSeq(a) /\ Over(s, s) /\ Over(s, a) /\ Gives(s, a, 0, "Token")
      /\ Nth(a, 1) = "Token" /\ Gives(a, t, 0 + 1, "Function")
  BY <1>2, StackedTwo
<1> HIDE DEF a
<1>4. Reads(a, t, "Function", 1)
  BY <1>3, MakesFirst
<1>5. /\ Fits(s, Keep("Identifier"), s, a) /\ Fits(s, Want("LeftParen"), a, a)
      /\ Fits(s, List("Function", 1), a, t)
  BY <1>3, <1>4, WorksTask, PlainAre DEF Fits
<1>6. Runs(s, tasks, s, t)
  BY <1>5, RunsThree
<1> QED  BY <1>1, <1>6, ProceedsNone DEF Safe

LEMMA EndOfListRuns ==
    ASSUME NEW s, IsSeq(s), NEW t, NEW type, NEW n, Reads(s, t, type, n)
    PROVE  Runs(s, EndOfList(type, n), s, t)
<1>1. Over(s, s) /\ type \in {"Call", "Function"}
  BY OverSelf, ReadsMore
<1>2. CASE type = "Call"
  <2> DEFINE a == Append(s, "Token")
  <2>1. Over(s, a) /\ Gives(s, a, 0, "Token") /\ Makes(a, t, "Call", n + 1)
    BY <1>1, <1>2, Pushed, ReadsMore
  <2> HIDE DEF a
  <2>2. Fits(s, Keep("RightParen"), s, a) /\ Fits(s, Make("Call", n + 1), a, t)
    BY <1>1, <2>1, WorksTask, PlainAre DEF Fits
  <2>3. Runs(s, <<Keep("RightParen"), Make("Call", n + 1)>>, s, t)
    BY <2>2, RunsTwo
  <2> QED  BY <1>2, <2>3 DEF EndOfList
<1>3. CASE type = "Function"
  <2>1. Makes(s, t, "Function", n)
    BY <1>3, ReadsMore
  <2>2. /\ Fits(s, Want("RightParen"), s, s) /\ Fits(s, Want("LeftBrace"), s, s)
        /\ Fits(s, Statements("Function", n), s, t)
    BY <1>1, <2>1, WorksTask, PlainAre DEF Fits
  <2>3. Runs(s, <<Want("RightParen"), Want("LeftBrace"), Statements("Function", n)>>,
             s, t)
    BY <2>2, RunsThree
  <2> QED  BY <1>3, <2>3 DEF EndOfList
<1> QED  BY <1>1, <1>2, <1>3

LEMMA BeginListSound ==
    ASSUME NEW p, Sound(p), BeginList
    PROVE  (\E q : Sound(q))'
<1> DEFINE s == p[0]
    t == p[1]
    n == Task.n
    type == Task.type
    item == <<Item(type, n)>>
    end == EndOfList(type, n)
<1>1. Calling("list") /\ (Step(end, <<>>) \/ Step(item, <<>>))
  BY DEF BeginList
<1>2. IsSeq(s) /\ Over(s, s) /\ Reads(s, t, type, n)
  BY <1>1, ToDo DEF Expects
<1> HIDE DEF n, type
<1>3. CASE Step(end, <<>>)
  <2>1. Runs(s, end, s, t)
    BY <1>2, EndOfListRuns
  <2> HIDE DEF end
  <2> QED  BY <1>1, <1>3, <2>1, ProceedsNone DEF Safe
<1>4. CASE Step(item, <<>>)
  <2>1. Fits(s, Item(type, n), s, t)
    BY <1>2, WorksTask, PlainAre DEF Fits
  <2>2. Runs(s, item, s, t)
    BY <2>1, RunsOne
  <2> HIDE DEF item
  <2> QED  BY <1>1, <1>4, <2>2, ProceedsNone DEF Safe
<1> QED  BY <1>1, <1>3, <1>4

LEMMA NextItemSound ==
    ASSUME NEW p, Sound(p), NextItem
    PROVE  (\E q : Sound(q))'
<1> DEFINE s == p[0]
    t == p[1]
    n == Task.n
    type == Task.type
    item == <<Item(type, n)>>
    end == EndOfList(type, n)
<1>1. Calling("comma") /\ (Step(end, <<>>) \/ Match(item, <<>>))
  BY DEF NextItem
<1>2. IsSeq(s) /\ Over(s, s) /\ Reads(s, t, type, n)
  BY <1>1, ToDo DEF Expects
<1> HIDE DEF n, type
<1>3. CASE Step(end, <<>>)
  <2>1. Runs(s, end, s, t)
    BY <1>2, EndOfListRuns
  <2> HIDE DEF end
  <2> QED  BY <1>1, <1>3, <2>1, ProceedsNone DEF Safe
<1>4. CASE Match(item, <<>>)
  <2>1. Fits(s, Item(type, n), s, t)
    BY <1>2, WorksTask, PlainAre DEF Fits
  <2>2. Runs(s, item, s, t)
    BY <2>1, RunsOne
  <2> HIDE DEF item
  <2> QED  BY <1>1, <1>4, <2>2, ProceedsNone DEF Safe
<1> QED  BY <1>1, <1>3, <1>4

LEMMA ListItemSound ==
    ASSUME NEW p, Sound(p), ListItem
    PROVE  (\E q : Sound(q))'
<1> DEFINE s == p[0]
    t == p[1]
    n == Task.n
    type == Task.type
    first == IF type = "Call" THEN Rule("expression") ELSE Keep("Identifier")
    comma == [is |-> "comma", type |-> type, n |-> n + 1]
    tasks == <<first, comma>>
    sort == IF type = "Call" THEN "Expr" ELSE "Token"
    a == Append(s, sort)
<1>1. /\ Calling("item") /\ Do(tasks, <<>>)
      /\ errors' = errors \/ Error("limit", At)
      /\ UNCHANGED source
  BY DEF ListItem
<1>2. IsSeq(s) /\ Over(s, s) /\ Reads(s, t, type, n)
  BY <1>1, ToDo DEF Expects
<1>3. Well(Made) /\ Holds(Made, held, s) /\ IsSeq(held)
  BY <1>1, Current
<1>4. Well(Made') /\ Grown(Made, Made')
  <2>1. /\ Made.nodes = nodes /\ Made.tokens = tokens /\ Made.errors = errors
        /\ (Made').nodes = nodes' /\ (Made').tokens = tokens' /\ (Made').errors = errors'
    BY DEF Made
  <2>2. nodes' = nodes /\ tokens' = tokens
    BY <1>1 DEF Do, source
  <2>3. At \in 1 .. Len(tokens)
    BY <1>3, <2>1, WellIs DEF At
  <2>4. \/ errors' = errors
        \/ errors' = Append(errors, [kind |-> "limit", at |-> At])
    BY <1>1 DEF Error
  <2> QED  BY <1>3, <2>1, <2>2, <2>3, <2>4, WellMore
<1>5. todo' = tasks \o Tail(todo) /\ held' = held
  BY <1>1, <1>3, ConcatNone DEF Do
<1> HIDE DEF n, type
<1>6. /\ type \in {"Call", "Function"}
      /\ Over(s, a) /\ Gives(s, a, 0, sort) /\ Reads(a, t, type, n + 1)
  BY <1>2, Pushed, ReadsMore
<1>7. CASE type = "Call"
  <2>1. first = Rule("expression") /\ sort = "Expr"
    BY <1>7
  <2> HIDE DEF first, sort, a
  <2>2. Works(first, s, a) /\ Plain(first)
    BY <1>6, <2>1, WorksRule, PlainAre
  <2>3. Works(comma, a, t) /\ Plain(comma)
    BY <1>6, WorksTask, PlainAre
  <2> HIDE DEF comma
  <2>4. Runs(s, tasks, s, t)
    BY <1>2, <1>6, <2>2, <2>3, RunsTwo DEF Fits
  <2> HIDE DEF tasks
  <2>5. Holds(Made', held', s)
    BY <1>3, <1>4, <1>5, HoldsStill
  <2> QED  BY <1>1, <1>4, <1>5, <2>4, <2>5, Replaced DEF Safe
<1>8. CASE type = "Function"
  <2>1. first = Keep("Identifier") /\ sort = "Token"
    BY <1>8
  <2> HIDE DEF first, sort, a
  <2>2. Works(first, s, a) /\ Plain(first)
    BY <1>6, <2>1, WorksTask, PlainAre
  <2>3. Works(comma, a, t) /\ Plain(comma)
    BY <1>6, WorksTask, PlainAre
  <2> HIDE DEF comma
  <2>4. Runs(s, tasks, s, t)
    BY <1>2, <1>6, <2>2, <2>3, RunsTwo DEF Fits
  <2> HIDE DEF tasks
  <2>5. Holds(Made', held', s)
    BY <1>3, <1>4, <1>5, HoldsStill
  <2> QED  BY <1>1, <1>4, <1>5, <2>4, <2>5, Replaced DEF Safe
<1> QED  BY <1>6, <1>7, <1>8

\* A statement that begins with a keyword.
LEMMA KeywordRuns ==
    ASSUME NEW s, IsSeq(s), NEW t, Gives(s, t, 0, "Stmt"),
           NEW keyword \in StatementKeywords \ {"Return"}
    PROVE  Runs(s, StatementTasks(keyword), s, t)
<1> DEFINE a == Append(s, "Expr")
    b == Append(a, "Stmt")
    c == Append(b, "OptionalStmt")
<1>1. /\ IsSeq(a) /\ IsSeq(b) /\ Over(s, s) /\ Over(s, a) /\ Over(s, b)
      /\ Gives(s, a, 0, "Expr") /\ Gives(a, b, 0, "Stmt")
      /\ Nth(a, 1) = "Expr" /\ Nth(b, 1) = "Stmt" /\ Nth(b, 2) = "Expr"
      /\ Gives(a, t, 0 + 1, "Stmt") /\ Gives(b, t, 0 + 2, "Stmt")
  BY StackedTwo
<1> HIDE DEF a, b
<1>2. /\ IsSeq(c) /\ Over(s, c) /\ Gives(b, c, 0, "OptionalStmt")
      /\ Nth(c, 1) = "OptionalStmt" /\ Nth(c, 2) = "Stmt" /\ Nth(c, 3) = "Expr"
      /\ Gives(c, t, 2 + 1, "Stmt")
  <2>1. /\ IsSeq(c) /\ Over(s, c) /\ Gives(b, c, 0, "OptionalStmt")
        /\ Nth(c, 1) = "OptionalStmt" /\ Len(b) \in Nat
        /\ \A j \in 1 .. Len(b) : Nth(c, j + 1) = Nth(b, j)
    BY <1>1, Pushed
  <2>2. Gives(c, t, 2 + 1, "Stmt")
    BY <1>1, PushedGives
  <2> HIDE DEF c
  <2>3. 1 \in 1 .. Len(b) /\ 2 \in 1 .. Len(b) /\ 1 + 1 = 2 /\ 2 + 1 = 3
    BY <1>1, <2>1 DEF Gives
  <2> QED  BY <1>1, <2>1, <2>2, <2>3
<1> HIDE DEF c
<1>3. Makes(a, t, "Print", 1) /\ Makes(b, t, "While", 2) /\ Makes(c, t, "If", 3)
  BY <1>1, <1>2, NodesMade
<1> DEFINE clause == <<Want("LeftParen"), Rule("expression"), Want("RightParen"),
                       Rule("statement")>>
<1>4. Runs(s, clause, s, b)
  <2>1. /\ Fits(s, Want("LeftParen"), s, s) /\ Fits(s, Rule("expression"), s, a)
        /\ Fits(s, Want("RightParen"), a, a) /\ Fits(s, Rule("statement"), a, b)
    BY <1>1, WorksRule, WorksTask, PlainAre DEF Fits
  <2> QED  BY <2>1, RunsFour
<1>5. CASE keyword = "If"
  <2> DEFINE else == IfMatch("Else", <<Rule("statement")>>)
  <2>1. Fits(s, else, b, c) /\ Fits(s, Make("If", 3), c, t)
    BY <1>1, <1>2, <1>3, WorksTask, PlainAre DEF Fits
  <2>2. StatementTasks(keyword) = clause \o <<else, Make("If", 3)>>
    BY <1>5 DEF StatementTasks
  <2> HIDE DEF else, clause
  <2>3. Runs(s, <<else, Make("If", 3)>>, b, t)
    BY <2>1, RunsTwo
  <2> QED  BY <1>4, <2>2, <2>3, RunsConcat
<1>6. CASE keyword = "Print"
  <2>1. /\ Fits(s, Rule("expression"), s, a) /\ Fits(s, Want("SemiColon"), a, a)
        /\ Fits(s, Make("Print", 1), a, t)
    BY <1>1, <1>3, WorksRule, WorksTask, PlainAre DEF Fits
  <2>2. Runs(s, <<Rule("expression"), Want("SemiColon"), Make("Print", 1)>>, s, t)
    BY <2>1, RunsThree
  <2> QED  BY <1>6, <2>2 DEF StatementTasks
<1>7. CASE keyword = "LeftBrace"
  <2>1. Makes(s, t, "Block", 0)
    BY MakesFirst
  <2>2. Fits(s, Statements("Block", 0), s, t)
    BY <1>1, <2>1, WorksTask, PlainAre DEF Fits
  <2>3. Runs(s, <<Statements("Block", 0)>>, s, t)
    BY <2>2, RunsOne
  <2> QED  BY <1>7, <2>3 DEF StatementTasks
<1>8. CASE keyword = "While"
  <2>1. Fits(s, Make("While", 2), b, t)
    BY <1>1, <1>3, WorksTask, PlainAre DEF Fits
  <2>2. StatementTasks(keyword) = clause \o <<Make("While", 2)>>
    BY <1>8 DEF StatementTasks
  <2> HIDE DEF clause
  <2>3. Runs(s, <<Make("While", 2)>>, b, t)
    BY <2>1, RunsOne
  <2> QED  BY <1>4, <2>2, <2>3, RunsConcat
<1>9. CASE keyword = "For"
  <2> DEFINE w == Append(s, "OptionalStmt")
      x == Append(w, "OptionalExpr")
      y == Append(x, "OptionalExpr")
      z == Append(y, "Stmt")
  <2>1. /\ IsSeq(w) /\ IsSeq(x) /\ Over(s, w) /\ Over(s, x)
        /\ Gives(s, w, 0, "OptionalStmt") /\ Gives(w, x, 0, "OptionalExpr")
    BY StackedTwo
  <2>2. /\ IsSeq(z) /\ Over(s, y) /\ Over(s, z) /\ Len(s) \in Nat /\ Len(z) = Len(s) + 4
        /\ Gives(x, y, 0, "OptionalExpr") /\ Gives(y, z, 0, "Stmt")
        /\ Nth(z, 4) = "OptionalStmt" /\ Nth(z, 3) = "OptionalExpr"
        /\ Nth(z, 2) = "OptionalExpr" /\ Nth(z, 1) = "Stmt" /\ Gives(z, t, 0 + 4, "Stmt")
    BY StackedFour
  <2> HIDE DEF w, x, y, z
  <2>3. Len(z) >= 4
    BY <2>2
  <2>4. /\ Fits(s, Want("LeftParen"), s, s) /\ Fits(s, Rule("for_initialiser"), s, w)
        /\ Fits(s, Unless("SemiColon"), w, x) /\ Fits(s, Want("SemiColon"), x, x)
    BY <1>1, <2>1, WorksRule, WorksTask, PlainAre DEF Fits
  <2>5. /\ Fits(s, Unless("RightParen"), x, y) /\ Fits(s, Want("RightParen"), y, y)
        /\ Fits(s, Rule("statement"), y, z) /\ Fits(s, Rule("for_desugared"), z, t)
    BY <2>1, <2>2, <2>3, WorksRule, WorksTask, PlainAre DEF Fits
  <2>6. Runs(s, <<Want("LeftParen"), Rule("for_initialiser"), Unless("SemiColon"),
                  Want("SemiColon")>>, s, x)
    BY <2>4, RunsFour
  <2>7. Runs(s, <<Unless("RightParen"), Want("RightParen"), Rule("statement"),
                  Rule("for_desugared")>>, x, t)
    BY <2>5, RunsFour
  <2>8. StatementTasks(keyword) =
            <<Want("LeftParen"), Rule("for_initialiser"), Unless("SemiColon"),
              Want("SemiColon")>>
            \o <<Unless("RightParen"), Want("RightParen"), Rule("statement"),
                 Rule("for_desugared")>>
    BY <1>9, TuplesJoinEight DEF StatementTasks
  <2> QED  BY <2>6, <2>7, <2>8, RunsConcat
<1> QED  BY <1>5, <1>6, <1>7, <1>8, <1>9 DEF StatementKeywords

LEMMA StatementSound ==
    ASSUME NEW p, Sound(p), Statement
    PROVE  (\E q : Sound(q))'
<1> DEFINE s == p[0]
    t == p[1]
    other == <<Rule("expression_statement")>>
    tasks == StatementTasks(Peek)
<1>1. Calling("statement")
  BY DEF Statement
<1>2. IsSeq(s) /\ Over(s, s) /\ Gives(s, t, 0, "Stmt")
  BY <1>1, ToDo DEF Expects
<1>3. CASE Step(other, <<>>)
  <2>1. Fits(s, Rule("expression_statement"), s, t)
    BY <1>2, WorksRule, PlainAre DEF Fits
  <2>2. Runs(s, other, s, t)
    BY <2>1, RunsOne
  <2> QED  BY <1>1, <1>3, <2>2, ProceedsNone DEF Safe
<1>4. CASE Peek \in StatementKeywords \ {"Return"} /\ Match(tasks, <<>>)
  <2>1. Runs(s, tasks, s, t)
    BY <1>2, <1>4, KeywordRuns
  <2> HIDE DEF tasks
  <2> QED  BY <1>1, <1>4, <2>1, ProceedsNone DEF Safe
<1>5. CASE Peek = "Return" /\ Match(tasks, <<Token(At)>>)
  <2> DEFINE a == Append(s, "Token")
      b == Append(a, "OptionalExpr")
  <2>1. /\ IsSeq(b) /\ Over(s, a) /\ Over(s, b)
        /\ Gives(s, a, 0, "Token") /\ Gives(a, b, 0, "OptionalExpr")
        /\ Nth(b, 2) = "Token" /\ Nth(b, 1) = "OptionalExpr"
        /\ Gives(b, t, 0 + 2, "Stmt")
    BY <1>2, StackedTwo
  <2> HIDE DEF a, b
  <2>2. Makes(b, t, "Return", 2)
    BY <2>1, NodesMade
  <2>3. /\ Fits(s, Unless("SemiColon"), a, b) /\ Fits(s, Want("SemiColon"), b, b)
        /\ Fits(s, Make("Return", 2), b, t)
    BY <2>1, <2>2, WorksTask, PlainAre DEF Fits
  <2>4. Runs(s, <<Unless("SemiColon"), Want("SemiColon"), Make("Return", 2)>>, a, t)
    BY <2>3, RunsThree
  <2>5. tasks = <<Unless("SemiColon"), Want("SemiColon"), Make("Return", 2)>>
    BY <1>5 DEF StatementTasks
  <2> HIDE DEF tasks
  <2> QED  BY <1>1, <1>5, <2>1, <2>4, <2>5, ProceedsToken DEF Safe
<1>6. \/ Peek \in StatementKeywords
         /\ Match(tasks, IF Peek = "Return" THEN <<Token(At)>> ELSE <<>>)
      \/ Step(other, <<>>)
  BY DEF Statement
<1> QED  BY <1>3, <1>4, <1>5, <1>6

-----------------------------------------------------------------------------
(* Expressions.                                                            *)

LEMMA OperandRuns ==
    ASSUME NEW r, NEW s, IsSeq(s), Over(r, s), NEW level \in 1 .. 7
    PROVE  /\ Runs(r, Operand(level), s, Append(s, "Expr"))
           /\ Over(r, Append(s, "Expr")) /\ Nth(Append(s, "Expr"), 1) = "Expr"
           /\ IsSeq(Append(s, "Expr")) /\ Len(Append(s, "Expr")) = Len(s) + 1
<1> DEFINE a == Append(s, "Expr")
    n == 7 - level
    w == [i \in 1 .. n |-> Operators(7 - i)]
    e == [i \in 0 .. n |-> a]
<1>1. /\ IsSeq(a) /\ Len(s) \in Nat /\ Len(a) = Len(s) + 1 /\ Gives(s, a, 0, "Expr")
      /\ Nth(a, 1) = "Expr" /\ Over(r, a)
  BY Pushed
<1> HIDE DEF a
<1>2. Gives(a, a, 1, "Expr") /\ Len(a) > 0
  <2>1. Len(a) > 0
    BY <1>1
  <2> QED  BY <1>1, <2>1, GivesSelf, UsesAre
<1>3. n \in Nat /\ \A i \in 1 .. n : 7 - i \in 1 .. 6
  OBVIOUS
<1>4. IsSeq(w) /\ Len(w) = n /\ \A i \in 1 .. n : w[i] = Operators(7 - i)
  <2>1. w = [i \in 1 .. n |-> w[i]]
    OBVIOUS
  <2>2. \A i \in 1 .. n : w[i] = Operators(7 - i)
    OBVIOUS
  <2> HIDE DEF w, n
  <2>3. IsSeq(w) /\ Len(w) = n
    BY <1>3, <2>1, FunctionIsSeq
  <2> QED  BY <2>2, <2>3
<1>5. /\ e[0] = a /\ e[n] = a
      /\ \A i \in 1 .. n : e[i] = a /\ e[i - 1] = a
  BY <1>3
<1> HIDE DEF w, e, n
<1>6. \A i \in 1 .. n : Works(w[i], a, a) /\ Plain(w[i])
  BY <1>1, <1>2, <1>3, <1>4, WorksRule, PlainAre
<1>7. Leads(r, w, a, a)
  BY <1>1, <1>4, <1>5, <1>6 DEF Leads
<1>8. Runs(r, w, a, a)
  BY <1>4, <1>6, <1>7 DEF Runs
<1>9. Runs(r, <<Rule("unary")>>, s, a)
  <2>1. Fits(r, Rule("unary"), s, a)
    BY <1>1, WorksRule, PlainAre DEF Fits
  <2> QED  BY <2>1, RunsOne
<1>10. Runs(r, <<Rule("unary")>> \o w, s, a)
  BY <1>8, <1>9, RunsConcat
<1>11. Operand(level) = <<Rule("unary")>> \o w
  BY DEF Operand, w, n
<1> QED  BY <1>1, <1>10, <1>11 DEF a

LEMMA AssignmentSound ==
    ASSUME NEW p, Sound(p), Assignment
    PROVE  (\E q : Sound(q))'
<1> DEFINE s == p[0]
    t == p[1]
    a == Append(s, "Expr")
    operand == Operand(1)
    tasks == operand \o <<Rule("assignment")>>
<1>1. Calling("expression") /\ Step(tasks, <<>>)
  BY DEF Assignment
<1>2. IsSeq(s) /\ Over(s, s) /\ Gives(s, t, 0, "Expr")
  BY <1>1, ToDo DEF Expects
<1>3. /\ Runs(s, operand, s, a) /\ Over(s, a) /\ Nth(a, 1) = "Expr"
      /\ Len(a) = Len(s) + 1
  BY <1>2, OperandRuns
<1>4. Gives(a, t, 0 + 1, "Expr")
  BY <1>2, PushedGives
<1>5. Len(a) > 0
  BY <1>2, <1>3 DEF IsSeq
<1> HIDE DEF a, operand
<1>6. Fits(s, Rule("assignment"), a, t)
  BY <1>3, <1>4, <1>5, WorksRule, PlainAre DEF Fits
<1>7. Runs(s, <<Rule("assignment")>>, a, t)
  BY <1>6, RunsOne
<1>8. Runs(s, tasks, s, t)
  BY <1>3, <1>7, RunsConcat
<1> HIDE DEF tasks
<1> QED  BY <1>1, <1>8, ProceedsNone DEF Safe

LEMMA NextOperatorSound ==
    ASSUME NEW p, Sound(p), NextOperator
    PROVE  (\E q : Sound(q))'
<1> DEFINE s == p[0]
    t == p[1]
    level == Task.level
    type == IF level <= 2 THEN "Logical" ELSE "Binary"
    operand == Operand(level + 1)
    end == <<Make(type, 3), Operators(level)>>
    tasks == operand \o end
    a == Append(s, "Token")
    b == Append(a, "Expr")
<1>1. Calling("operators") /\ (Match(tasks, <<Token(At)>>) \/ Step(<<>>, <<>>))
  BY DEF NextOperator
<1>2. /\ IsSeq(s) /\ Over(s, s) /\ Gives(s, t, 1, "Expr") /\ Len(s) > 0
      /\ Nth(s, 1) = "Expr" /\ level \in 1 .. 6
  BY <1>1, ToDo DEF Expects
<1>3. CASE Step(<<>>, <<>>)
  <2>1. "Expr" \in Uses(Nth(s, 1)) /\ "Expr" \in Sorts
    BY <1>2, UsesAre, NullHas
  <2> QED  BY <1>1, <1>2, <1>3, <2>1, ReturnsTop
<1>4. CASE Match(tasks, <<Token(At)>>)
  <2>1. /\ IsSeq(a) /\ IsSeq(b) /\ Over(s, a) /\ Over(s, b) /\ Gives(s, a, 0, "Token")
        /\ Nth(b, 1) = "Expr" /\ Nth(b, 2) = "Token"
        /\ \A j \in 1 .. Len(s) : Nth(b, j + 2) = Nth(s, j)
        /\ \A n \in Nat : \A u, z : Gives(s, u, n, z) => Gives(b, u, n + 2, z)
        /\ Len(s) \in Nat
    BY <1>2, StackedTwo
  <2>2. Nth(b, 3) = "Expr"
    <3>1. 1 \in 1 .. Len(s) /\ 1 + 2 = 3
      BY <1>2, <2>1
    <3> QED  BY <1>2, <2>1, <3>1
  <2>3. Gives(b, s, 1 + 2, "Expr")
    BY <1>2, <2>1, GivesSelf, UsesAre
  <2>4. Runs(s, operand, a, b)
    <3>1. level + 1 \in 1 .. 7
      BY <1>2
    <3> HIDE DEF a
    <3> QED  BY <2>1, <3>1, OperandRuns
  <2>5. Makes(b, s, type, 3)
    <3>1. type \in {"Binary", "Logical"}
      OBVIOUS
    <3> HIDE DEF b, type
    <3> QED  BY <2>1, <2>2, <2>3, <3>1, NodesMade
  <2> HIDE DEF a, b, operand, type, level
  <2>6. Fits(s, Make(type, 3), b, s) /\ Fits(s, Operators(level), s, t)
    BY <1>2, <2>1, <2>5, WorksTask, WorksRule, PlainAre DEF Fits
  <2>7. Runs(s, end, b, t)
    BY <2>6, RunsTwo
  <2> HIDE DEF end
  <2>8. Runs(s, tasks, a, t)
    BY <2>4, <2>7, RunsConcat
  <2> HIDE DEF tasks
  <2> QED  BY <1>1, <1>4, <2>1, <2>8, ProceedsToken DEF Safe
<1> QED  BY <1>1, <1>3, <1>4

LEMMA AssignmentValueSound ==
    ASSUME NEW p, Sound(p), AssignmentValue
    PROVE  (\E q : Sound(q))'
<1> DEFINE s == p[0]
    t == p[1]
    tasks == <<Rule("expression"), Rule("assign")>>
    a == Append(s, "Token")
    b == Append(a, "Expr")
<1>1. Calling("assignment") /\ (Match(tasks, <<Token(At)>>) \/ Step(<<>>, <<>>))
  BY DEF AssignmentValue
<1>2. /\ IsSeq(s) /\ Over(s, s) /\ Gives(s, t, 1, "Expr") /\ Len(s) > 0
      /\ Nth(s, 1) = "Expr"
  BY <1>1, ToDo DEF Expects
<1>3. CASE Step(<<>>, <<>>)
  <2>1. "Expr" \in Uses(Nth(s, 1)) /\ "Expr" \in Sorts
    BY <1>2, UsesAre, NullHas
  <2> QED  BY <1>1, <1>2, <1>3, <2>1, ReturnsTop
<1>4. CASE Match(tasks, <<Token(At)>>)
  <2>1. /\ IsSeq(a) /\ IsSeq(b) /\ Over(s, a) /\ Over(s, b) /\ Gives(s, a, 0, "Token")
        /\ Gives(a, b, 0, "Expr") /\ Len(b) = Len(s) + 2
        /\ Nth(b, 1) = "Expr" /\ Nth(b, 2) = "Token"
        /\ \A j \in 1 .. Len(s) : Nth(b, j + 2) = Nth(s, j)
        /\ \A n \in Nat : \A u, z : Gives(s, u, n, z) => Gives(b, u, n + 2, z)
        /\ Len(s) \in Nat
    BY <1>2, StackedTwo
  <2> HIDE DEF a, b
  <2>2. Nth(b, 3) = "Expr" /\ Len(b) >= 3
    <3>1. 1 \in 1 .. Len(s) /\ 1 + 2 = 3 /\ Len(b) >= 3
      BY <1>2, <2>1
    <3> QED  BY <1>2, <2>1, <3>1
  <2>3. Gives(b, t, 1 + 2, "Expr")
    BY <1>2, <2>1
  <2>4. Fits(s, Rule("expression"), a, b) /\ Fits(s, Rule("assign"), b, t)
    BY <2>1, <2>2, <2>3, WorksRule, PlainAre DEF Fits
  <2>5. Runs(s, tasks, a, t)
    BY <2>4, RunsTwo
  <2>6. Gives(s, a, 0, "Token") /\ "assignment" \notin Safe
    BY <2>1 DEF Safe
  <2> HIDE DEF tasks
  <2> QED  BY <1>1, <1>4, <2>5, <2>6, ProceedsToken
<1> QED  BY <1>1, <1>3, <1>4

LEMMA UnarySound ==
    ASSUME NEW p, Sound(p), Unary
    PROVE  (\E q : Sound(q))'
<1> DEFINE s == p[0]
    t == p[1]
    operator == <<Rule("unary"), Make("Unary", 2)>>
    other == <<Rule("primary"), Rule("call")>>
<1>1. Calling("unary") /\ (Match(operator, <<Token(At)>>) \/ Step(other, <<>>))
  BY DEF Unary
<1>2. IsSeq(s) /\ Over(s, s) /\ Gives(s, t, 0, "Expr")
  BY <1>1, ToDo DEF Expects
<1>3. CASE Match(operator, <<Token(At)>>)
  <2> DEFINE a == Append(s, "Token")
      b == Append(a, "Expr")
  <2>1. /\ IsSeq(b) /\ Over(s, a) /\ Over(s, b) /\ Gives(s, a, 0, "Token")
        /\ Gives(a, b, 0, "Expr") /\ Nth(b, 1) = "Expr" /\ Nth(b, 2) = "Token"
        /\ Gives(b, t, 0 + 2, "Expr")
    BY <1>2, StackedTwo
  <2> HIDE DEF a, b
  <2>2. Makes(b, t, "Unary", 2)
    BY <2>1, NodesMade
  <2>3. Fits(s, Rule("unary"), a, b) /\ Fits(s, Make("Unary", 2), b, t)
    BY <2>1, <2>2, WorksRule, WorksTask, PlainAre DEF Fits
  <2>4. Runs(s, operator, a, t)
    BY <2>3, RunsTwo
  <2> HIDE DEF operator
  <2> QED  BY <1>1, <1>3, <2>1, <2>4, ProceedsToken DEF Safe
<1>4. CASE Step(other, <<>>)
  <2> DEFINE a == Append(s, "Expr")
  <2>1. /\ IsSeq(a) /\ Over(s, a) /\ Gives(s, a, 0, "Expr") /\ Nth(a, 1) = "Expr"
        /\ Len(a) = Len(s) + 1 /\ Len(s) \in Nat
    BY <1>2, Pushed
  <2>2. Gives(a, t, 0 + 1, "Expr")
    BY <1>2, PushedGives
  <2> HIDE DEF a
  <2>3. Len(a) > 0
    BY <2>1
  <2>4. Fits(s, Rule("primary"), s, a) /\ Fits(s, Rule("call"), a, t)
    BY <1>2, <2>1, <2>2, <2>3, WorksRule, PlainAre DEF Fits
  <2>5. Runs(s, other, s, t)
    BY <2>4, RunsTwo
  <2> HIDE DEF other
  <2> QED  BY <1>1, <1>4, <2>5, ProceedsNone DEF Safe
<1> QED  BY <1>1, <1>3, <1>4

-----------------------------------------------------------------------------
(* The errors, which a declaration catches.                                *)

LEMMA ThrowSound ==
    ASSUME NEW p, Sound(p), Throw
    PROVE  (\E q : Sound(q))'
<1>1. PICK i \in DOMAIN todo :
          /\ Catches(i) /\ Error("syntax", At)
          /\ todo' = <<Rule("synchronise")>> \o SubSeq(todo, i + 1, Len(todo))
          /\ held' = Append(SubSeq(held, 1, todo[i].n), Null)
          /\ UNCHANGED <<source, nodes>>
  BY DEF Throw
<1> DEFINE b == p[i]
    n == todo[i].n
    s == p[0]
<1>2. /\ Well(Made) /\ Plan(todo, p) /\ Holds(Made, held, s) /\ IsSeq(todo)
      /\ Len(todo) \in Nat /\ i \in 1 .. Len(todo)
  BY SeqIs DEF Sound, Plan
<1>3. todo[i].is = "caught" /\ Works(todo[i], p[i - 1], b)
  BY <1>1, <1>2 DEF Catches, Plan
<1>4. n \in Nat /\ Len(p[i - 1]) = n + 1 /\ Gives(p[i - 1], b, 1, "Declared")
  <2> DEFINE k == todo[i]
      r == p[i - 1]
  <2>1. k.is = "caught" /\ Works(k, r, b)
    BY <1>3
  <2> HIDE DEF k, r, b
  <2>2. Expects("caught", k, r, b)
    BY <2>1, WorksOnly
  <2>3. k.n \in Nat /\ Len(r) = k.n + 1 /\ Gives(r, b, 1, "Declared")
    BY <2>2 DEF Expects
  <2> QED  BY <2>3 DEF k, r
<1>5. IsSeq(b) /\ Len(b) = n + 1 /\ b[n + 1] = "Declared"
  <2>1. Len(p[i - 1]) - 1 + 1 = n + 1
    BY <1>4
  <2> QED  BY <1>4, <2>1, UsesAre DEF Gives
<1>6. Agree(s, b, n)
  <2>1. 0 \in 0 .. i - 1
    BY <1>2
  <2> QED  BY <1>2, <1>3, <2>1 DEF Plan
<1>7. Kept(todo, p, b, i)
  <2> SUFFICES ASSUME NEW j \in i + 1 .. Len(todo), todo[j].is = "caught"
               PROVE  Agree(b, p[j], todo[j].n)
    BY DEF Kept
  <2>1. j \in 1 .. Len(todo) /\ i \in 0 .. j - 1
    BY <1>2
  <2> QED  BY <1>2, <2>1 DEF Plan
<1> HIDE DEF n, b, s
<1>8. Well(Made') /\ Grown(Made, Made')
  <2>1. /\ Made.nodes = nodes /\ Made.tokens = tokens /\ Made.errors = errors
        /\ (Made').nodes = nodes' /\ (Made').tokens = tokens' /\ (Made').errors = errors'
    BY DEF Made
  <2>2. nodes' = nodes /\ tokens' = tokens
    BY <1>1 DEF source
  <2>3. At \in 1 .. Len(tokens)
    BY <1>2, <2>1, WellIs DEF At
  <2>4. errors' = Append(errors, [kind |-> "syntax", at |-> At])
    BY <1>1 DEF Error
  <2> QED  BY <1>2, <2>1, <2>2, <2>3, <2>4, WellMore
<1>9. Has(Made', Null, "Declared", Len((Made').nodes)) /\ "Declared" \in Sorts
  <2>1. Made.errors = errors /\ (Made').errors = errors'
    BY DEF Made
  <2>2. IsSeq(errors) /\ errors' = Append(errors, [kind |-> "syntax", at |-> At])
    BY <1>1, <1>2, <2>1 DEF Error, Well
  <2>3. /\ IsSeq(errors') /\ Len(errors') = Len(errors) + 1 /\ Len(errors) \in Nat
        /\ errors'[Len(errors) + 1] = [kind |-> "syntax", at |-> At]
    BY <2>2, AppendIs DEF IsSeq
  <2>4. DOMAIN errors' = 1 .. Len(errors')
    BY <2>3, SeqIs
  <2>5. \E j \in DOMAIN errors' : errors'[j].kind = "syntax"
    BY <2>3, <2>4
  <2> QED  BY <2>1, <2>5, NullHas DEF Has
<1>10. Holds(Made', held', b)
  <2>1. Holds(Made', held, s)
    BY <1>2, <1>8, HoldsStill
  <2>2. IsSeq(held) /\ Len(held) = Len(s) /\ Len(s) \in Nat /\ n <= Len(s)
    BY <1>2, <1>6 DEF Holds, IsSeq, Agree
  <2> DEFINE c == Len(s) - n
      all == held'
  <2>3. c \in 0 .. Len(s) /\ Len(s) - c = n
    BY <1>4, <2>2
  <2> HIDE DEF c
  <2>4. Gives(s, b, c, "Declared")
    <3>1. Len(b) = Len(s) - c + 1 /\ b[Len(s) - c + 1] = "Declared"
      BY <1>5, <2>3
    <3>2. \A j \in 1 .. Len(s) - c : b[j] = s[j]
      BY <1>6, <2>3 DEF Agree
    <3> QED  BY <1>5, <2>3, <3>1, <3>2, UsesAre DEF Gives
  <2> DEFINE cut == SubSeq(held, 1, n)
  <2>5. IsSeq(cut) /\ Len(cut) = n /\ \A j \in 1 .. n : cut[j] = held[j]
    <3>1. n <= Len(held) /\ 1 <= n + 1 /\ 1 \in Nat \ {0} /\ n - 1 + 1 = n
      BY <1>4, <2>2
    <3>2. /\ IsSeq(cut) /\ Len(cut) = n - 1 + 1
          /\ \A j \in 1 .. n - 1 + 1 : cut[j] = held[1 + j - 1]
      BY <1>4, <2>2, <3>1, CutIs
    <3>3. \A j \in 1 .. n : 1 + j - 1 = j
      BY <1>4
    <3> HIDE DEF cut
    <3> QED  BY <3>1, <3>2, <3>3
  <2>6. all = Append(cut, Null)
    BY <1>1 DEF n
  <2> HIDE DEF cut, all
  <2>7. /\ IsSeq(all) /\ Len(all) = n + 1 /\ all[n + 1] = Null
        /\ \A j \in 1 .. n : all[j] = held[j]
    BY <2>5, <2>6, AppendIs
  <2>8. Len(held) - c = n
    BY <2>2, <2>3
  <2> DEFINE null == Null
  <2>9. all[n + 1] = null /\ Has(Made', null, "Declared", Len((Made').nodes))
    BY <1>9, <2>7
  <2> HIDE DEF null
  <2>10. Holds(Made', all, b)
    BY <1>9, <2>1, <2>4, <2>7, <2>8, <2>9, HoldsPut
  <2> QED  BY <2>10 DEF all
<1> DEFINE task == Rule("synchronise")
    tasks == <<task>>
<1>11. task.is = "synchronise" /\ Works(task, b, b)
  BY WorksRule DEF Rule
<1> HIDE DEF task
<1>12. IsSeq(tasks) /\ Len(tasks) = 1 /\ Leads(b, tasks, b, b)
  BY <1>5, <1>11, LeadsOne, OverSelf
<1>13. Guarded(tasks, Rest(todo, i), b, b)
  <2>1. \A j \in 1 .. 1 : tasks[j] = task
    OBVIOUS
  <2> HIDE DEF tasks
  <2> QED  BY <1>11, <1>12, <2>1 DEF Guarded, Safe
<1> HIDE DEF tasks
<1>14. \E q : q[0] = b /\ Plan(tasks \o Rest(todo, i), q)
  <2>1. i \in 0 .. Len(todo) /\ Leads(b, tasks, b, p[i]) /\ Guarded(tasks, Rest(todo, i), b, p[i])
    BY <1>2, <1>12, <1>13 DEF b
  <2> QED  BY <1>2, <1>5, <1>7, <1>12, <2>1, PlanReplaced
<1>15. todo' = tasks \o Rest(todo, i)
  BY <1>1 DEF tasks, task, Rest
<1>16. PICK q : q[0] = b /\ Plan(todo', q)
  BY <1>14, <1>15
<1>17. Sound(q)'
  BY <1>8, <1>10, <1>16 DEF Sound
<1> QED  BY <1>17

LEMMA ConsumeSound ==
    ASSUME NEW p, Sound(p), Consume
    PROVE  (\E q : Sound(q))'
<1> DEFINE s == p[0]
    t == p[1]
<1>1. Calling("consume")
  BY DEF Consume
<1>2. \/ Task.keep = TRUE /\ Gives(s, t, 0, "Token")
      \/ Task.keep = FALSE /\ t = s
  BY <1>1, ToDo DEF Expects
<1>3. CASE Throw
  BY <1>3, ThrowSound
<1>4. CASE Task.keep = TRUE /\ Gives(s, t, 0, "Token")
             /\ Match(<<>>, IF Task.keep THEN <<Token(At)>> ELSE <<>>)
  <2> DEFINE e == <<>>
  <2>1. Match(e, <<Token(At)>>)
    BY <1>4
  <2>2. Runs(s, e, t, t)
    BY RunsNone
  <2> HIDE DEF e
  <2> QED  BY <1>1, <1>4, <2>1, <2>2, ProceedsToken DEF Safe
<1>5. CASE Task.keep = FALSE /\ t = s
             /\ Match(<<>>, IF Task.keep THEN <<Token(At)>> ELSE <<>>)
  <2>1. Match(<<>>, <<>>)
    BY <1>5
  <2> QED  BY <1>1, <1>5, <2>1, ReturnsNone
<1> QED  BY <1>2, <1>3, <1>4, <1>5 DEF Consume

LEMMA PrimarySound ==
    ASSUME NEW p, Sound(p), Primary
    PROVE  (\E q : Sound(q))'
<1> DEFINE s == p[0]
    t == p[1]
    leaf == <<Make(Leaf[Peek], 1)>>
    group == <<Rule("expression"), Want("RightParen"), Make("Grouping", 1)>>
    super == <<Want("Dot"), Keep("Identifier"), Make("Super", 2)>>
<1>1. /\ Calling("primary")
      /\ \/ Peek \in DOMAIN Leaf /\ Match(leaf, <<Token(At)>>)
         \/ Match(group, <<>>) \/ Match(super, <<Token(At)>>) \/ Throw
  BY DEF Primary
<1>2. IsSeq(s) /\ Over(s, s) /\ Gives(s, t, 0, "Expr")
  BY <1>1, ToDo DEF Expects
<1>3. CASE Peek \in DOMAIN Leaf /\ Match(leaf, <<Token(At)>>)
  <2> DEFINE a == Append(s, "Token")
      type == Leaf[Peek]
  <2>1. /\ IsSeq(a) /\ Over(s, a) /\ Gives(s, a, 0, "Token") /\ Nth(a, 1) = "Token"
    BY <1>2, Pushed
  <2>2. Gives(a, t, 0 + 1, "Expr")
    BY <1>2, PushedGives
  <2>3. type \in {"Literal", "This", "Variable"}
    BY <1>3 DEF Leaf
  <2> HIDE DEF a, type
  <2>4. Makes(a, t, type, 1)
    BY <2>1, <2>2, <2>3, NodesMade
  <2>5. Fits(s, Make(type, 1), a, t)
    BY <2>1, <2>4, WorksTask, PlainAre DEF Fits
  <2>6. Runs(s, <<Make(type, 1)>>, a, t)
    BY <2>5, RunsOne
  <2>7. Runs(s, leaf, a, t)
    BY <2>6 DEF type
  <2> HIDE DEF leaf
  <2> QED  BY <1>1, <1>3, <2>1, <2>7, ProceedsToken DEF Safe
<1>4. CASE Match(group, <<>>)
  <2> DEFINE a == Append(s, "Expr")
  <2>1. /\ IsSeq(a) /\ Over(s, a) /\ Gives(s, a, 0, "Expr") /\ Nth(a, 1) = "Expr"
    BY <1>2, Pushed
  <2>2. Gives(a, t, 0 + 1, "Expr")
    BY <1>2, PushedGives
  <2> HIDE DEF a
  <2>3. Makes(a, t, "Grouping", 1)
    BY <2>1, <2>2, NodesMade
  <2>4. /\ Fits(s, Rule("expression"), s, a) /\ Fits(s, Want("RightParen"), a, a)
        /\ Fits(s, Make("Grouping", 1), a, t)
    BY <1>2, <2>1, <2>3, WorksRule, WorksTask, PlainAre DEF Fits
  <2>5. Runs(s, group, s, t)
    BY <2>4, RunsThree
  <2> HIDE DEF group
  <2> QED  BY <1>1, <1>4, <2>5, ProceedsNone DEF Safe
<1>5. CASE Match(super, <<Token(At)>>)
  <2> DEFINE a == Append(s, "Token")
      b == Append(a, "Token")
  <2>1. /\ IsSeq(b) /\ Over(s, a) /\ Over(s, b) /\ Gives(s, a, 0, "Token")
        /\ Gives(a, b, 0, "Token") /\ Nth(b, 1) = "Token" /\ Nth(b, 2) = "Token"
        /\ Gives(b, t, 0 + 2, "Expr")
    BY <1>2, StackedTwo
  <2> HIDE DEF a, b
  <2>2. Makes(b, t, "Super", 2)
    BY <2>1, NodesMade
  <2>3. /\ Fits(s, Want("Dot"), a, a) /\ Fits(s, Keep("Identifier"), a, b)
        /\ Fits(s, Make("Super", 2), b, t)
    BY <2>1, <2>2, WorksTask, PlainAre DEF Fits
  <2>4. Runs(s, super, a, t)
    BY <2>3, RunsThree
  <2> HIDE DEF super
  <2> QED  BY <1>1, <1>5, <2>1, <2>4, ProceedsToken DEF Safe
<1> QED  BY <1>1, <1>3, <1>4, <1>5, ThrowSound

LEMMA CallOrGetSound ==
    ASSUME NEW p, Sound(p), CallOrGet
    PROVE  (\E q : Sound(q))'
<1> DEFINE s == p[0]
    t == p[1]
    args == <<List("Call", 1), Rule("call")>>
    get == <<Keep("Identifier"), Make("Get", 2), Rule("call")>>
<1>1. /\ Calling("call")
      /\ Match(args, <<>>) \/ Match(get, <<>>) \/ Step(<<>>, <<>>)
  BY DEF CallOrGet
<1>2. /\ IsSeq(s) /\ Over(s, s) /\ Gives(s, t, 1, "Expr") /\ Len(s) > 0
      /\ Nth(s, 1) = "Expr"
  BY <1>1, ToDo DEF Expects
<1>3. Gives(s, s, 1, "Expr")
  BY <1>2, GivesSelf, UsesAre
<1>4. CASE Match(args, <<>>)
  <2>1. Reads(s, s, "Call", 1)
    BY <1>2, <1>3, MakesFirst
  <2>2. Fits(s, List("Call", 1), s, s) /\ Fits(s, Rule("call"), s, t)
    BY <1>2, <2>1, WorksRule, WorksTask, PlainAre DEF Fits
  <2>3. Runs(s, args, s, t)
    BY <2>2, RunsTwo
  <2> HIDE DEF args
  <2> QED  BY <1>1, <1>4, <2>3, ProceedsNone DEF Safe
<1>5. CASE Match(get, <<>>)
  <2> DEFINE a == Append(s, "Token")
  <2>1. /\ IsSeq(a) /\ Over(s, a) /\ Gives(s, a, 0, "Token") /\ Nth(a, 1) = "Token"
        /\ \A j \in 1 .. Len(s) : Nth(a, j + 1) = Nth(s, j)
    BY <1>2, Pushed
  <2>2. Gives(a, s, 1 + 1, "Expr")
    BY <1>2, <1>3, PushedGives
  <2> HIDE DEF a
  <2>3. Nth(a, 2) = "Expr"
    <3>1. 1 \in 1 .. Len(s) /\ 1 + 1 = 2
      BY <1>2 DEF IsSeq
    <3> QED  BY <1>2, <2>1, <3>1
  <2>4. Makes(a, s, "Get", 2)
    BY <2>1, <2>2, <2>3, NodesMade
  <2>5. /\ Fits(s, Keep("Identifier"), s, a) /\ Fits(s, Make("Get", 2), a, s)
        /\ Fits(s, Rule("call"), s, t)
    BY <1>2, <2>1, <2>4, WorksRule, WorksTask, PlainAre DEF Fits
  <2>6. Runs(s, get, s, t)
    BY <2>5, RunsThree
  <2> HIDE DEF get
  <2> QED  BY <1>1, <1>5, <2>6, ProceedsNone DEF Safe
<1>6. CASE Step(<<>>, <<>>)
  <2>1. "Expr" \in Uses(Nth(s, 1)) /\ "Expr" \in Sorts
    BY <1>2, UsesAre, NullHas
  <2> QED  BY <1>1, <1>2, <1>6, <2>1, ReturnsTop
<1> QED  BY <1>1, <1>4, <1>5, <1>6

-----------------------------------------------------------------------------
(* What may be left out.                                                   *)

LEMMA ReturnsNull ==
    ASSUME NEW p, Sound(p), NEW name, Calling(name), name \notin Safe,
           NEW x \in {"OptionalExpr", "OptionalStmt"},
           Gives(p[0], p[1], 0, x), Step(<<>>, <<Null>>)
    PROVE  (\E q : Sound(q))'
<1> DEFINE v == Null
<1>1. x \in Sorts /\ Has(Made, v, x, Len(Made.nodes))
  BY NullHas
<1>2. Step(<<>>, <<v>>)
  OBVIOUS
<1> HIDE DEF v
<1> QED  BY <1>1, <1>2, Returns

LEMMA ExpressionUnlessSound ==
    ASSUME NEW p, Sound(p), ExpressionUnless
    PROVE  (\E q : Sound(q))'
<1> DEFINE s == p[0]
    t == p[1]
    tasks == <<Rule("expression")>>
<1>1. Calling("unless") /\ (Step(<<>>, <<Null>>) \/ Step(tasks, <<>>))
  BY DEF ExpressionUnless
<1>2. IsSeq(s) /\ Over(s, s) /\ Gives(s, t, 0, "OptionalExpr") /\ Gives(s, t, 0, "Expr")
  BY <1>1, ToDo, GivesWeaker DEF Expects
<1>3. CASE Step(<<>>, <<Null>>)
  BY <1>1, <1>2, <1>3, ReturnsNull DEF Safe
<1>4. CASE Step(tasks, <<>>)
  <2>1. Fits(s, Rule("expression"), s, t)
    BY <1>2, WorksRule, PlainAre DEF Fits
  <2>2. Runs(s, tasks, s, t)
    BY <2>1, RunsOne
  <2> QED  BY <1>1, <1>4, <2>2, ProceedsNone DEF Safe
<1> QED  BY <1>1, <1>3, <1>4

LEMMA AfterMatchSound ==
    ASSUME NEW p, Sound(p), AfterMatch
    PROVE  (\E q : Sound(q))'
<1> DEFINE s == p[0]
    t == p[1]
    tasks == Task.tasks
    expression == <<Rule("expression")>>
    superclass == <<Keep("Identifier"), Make("Variable", 1)>>
    statement == <<Rule("statement")>>
<1>1. Calling("match") /\ (Step(<<>>, <<Null>>) \/ Match(tasks, <<>>))
  BY DEF AfterMatch
<1>2. IsSeq(s) /\ Over(s, s)
  BY <1>1, ToDo
<1>3. \/ /\ Gives(s, t, 0, "OptionalExpr")
         /\ tasks = expression \/ tasks = superclass
      \/ Gives(s, t, 0, "OptionalStmt") /\ tasks = statement
  BY <1>1, ToDo DEF Expects
<1>4. CASE Step(<<>>, <<Null>>)
  BY <1>1, <1>3, <1>4, ReturnsNull DEF Safe
<1>5. CASE Match(tasks, <<>>)
  <2>1. CASE Gives(s, t, 0, "OptionalExpr") /\ tasks = expression
    <3>1. Fits(s, Rule("expression"), s, t)
      BY <1>2, <2>1, GivesWeaker, WorksRule, PlainAre DEF Fits
    <3>2. Runs(s, expression, s, t)
      BY <3>1, RunsOne
    <3> QED  BY <1>1, <1>5, <2>1, <3>2, ProceedsNone DEF Safe
  <2>2. CASE Gives(s, t, 0, "OptionalExpr") /\ tasks = superclass
    <3> DEFINE a == Append(s, "Token")
    <3>1. Gives(s, t, 0, "Expr")
      BY <2>2, GivesWeaker
    <3>2. /\ IsSeq(a) /\ Over(s, a) /\ Gives(s, a, 0, "Token") /\ Nth(a, 1) = "Token"
      BY <1>2, Pushed
    <3>3. Gives(a, t, 0 + 1, "Expr")
      BY <1>2, <3>1, PushedGives
    <3> HIDE DEF a
    <3>4. Makes(a, t, "Variable", 1)
      BY <3>2, <3>3, NodesMade
    <3>5. Fits(s, Keep("Identifier"), s, a) /\ Fits(s, Make("Variable", 1), a, t)
      BY <1>2, <3>2, <3>4, WorksTask, PlainAre DEF Fits
    <3>6. Runs(s, superclass, s, t)
      BY <3>5, RunsTwo
    <3> QED  BY <1>1, <1>5, <2>2, <3>6, ProceedsNone DEF Safe
  <2>3. CASE Gives(s, t, 0, "OptionalStmt") /\ tasks = statement
    <3>1. Fits(s, Rule("statement"), s, t)
      BY <1>2, <2>3, GivesWeaker, WorksRule, PlainAre DEF Fits
    <3>2. Runs(s, statement, s, t)
      BY <3>1, RunsOne
    <3> QED  BY <1>1, <1>5, <2>3, <3>2, ProceedsNone DEF Safe
  <2> QED  BY <1>3, <2>1, <2>2, <2>3
<1> QED  BY <1>1, <1>4, <1>5

-----------------------------------------------------------------------------
(* Declarations, and the recovery from errors.                             *)

LEMMA EndDeclarationSound ==
    ASSUME NEW p, Sound(p), EndDeclaration
    PROVE  (\E q : Sound(q))'
<1>1. Calling("caught") /\ Step(<<>>, <<>>)
  BY DEF EndDeclaration
<1>2. Gives(p[0], p[1], 1, "Declared") /\ "Declared" \in Uses(Nth(p[0], 1))
  BY <1>1, ToDo DEF Expects
<1>3. "Declared" \in Sorts
  BY NullHas
<1> QED  BY <1>1, <1>2, <1>3, ReturnsTop

\* The tasks that recover go on without values.
LEMMA Recovers ==
    ASSUME NEW p, Sound(p), NEW name, Calling(name), NEW task, p[1] = p[0],
           task.is \in {"synchronise", "synchronising"},
           Match(<<task>>, <<>>)
    PROVE  (\E q : Sound(q))'
<1> DEFINE e == <<>>
    tasks == <<task>>
    s == p[0]
<1>1. IsSeq(s) /\ Over(s, s) /\ IsSeq(held) /\ Holds(Made, held, s)
  BY Current
<1>2. Fits(s, task, s, s)
  BY <1>1 DEF Fits, Plain, Works
<1>3. Runs(s, tasks, s, s)
  BY <1>2, RunsOne
<1>4. Len(tasks) = 1 /\ \A i \in 1 .. 1 : tasks[i].is \in Safe
  BY DEF Safe
<1>5. Match(tasks, e)
  OBVIOUS
<1> HIDE DEF e, tasks, s
<1>6. /\ Well(Made') /\ Grown(Made, Made')
      /\ todo' = tasks \o Tail(todo) /\ held' = held \o e
  BY <1>5, DoIs DEF Match
<1>7. held \o e = held
  BY <1>1, ConcatNone DEF e
<1>8. Holds(Made', held', s)
  BY <1>1, <1>6, <1>7, HoldsStill DEF Sound
<1> QED  BY <1>3, <1>4, <1>6, <1>8, Replaced DEF s

LEMMA SynchroniseSound ==
    ASSUME NEW p, Sound(p), Synchronise
    PROVE  (\E q : Sound(q))'
<1> DEFINE task == Rule("synchronising")
<1>1. Calling("synchronise") /\ Match(<<task>>, <<>>)
  BY DEF Synchronise
<1>2. task.is = "synchronising"
  BY DEF Rule
<1>3. p[1] = p[0]
  BY <1>1, ToDo DEF Expects
<1> HIDE DEF task
<1> QED  BY <1>1, <1>2, <1>3, Recovers

LEMMA SynchronisingSound ==
    ASSUME NEW p, Sound(p), Synchronising
    PROVE  (\E q : Sound(q))'
<1>1. Calling("synchronising") /\ (Step(<<>>, <<>>) \/ Match(<<Task>>, <<>>))
  BY DEF Synchronising
<1>2. p[1] = p[0] /\ Task.is = "synchronising"
  BY <1>1, ToDo, Current DEF Expects
<1> QED  BY <1>1, <1>2, ReturnsNone, Recovers

LEMMA DeclarationSound ==
    ASSUME NEW p, Sound(p), Declaration
    PROVE  (\E q : Sound(q))'
<1> DEFINE s == p[0]
    t == p[1]
    end == Caught(Len(held))
    rules == {"statement", "class_declaration", "function", "var_declaration"}
<1>1. /\ Calling("declaration")
      /\ \E r \in rules : \/ Match(<<Rule(r), end>>, <<>>)
                          \/ Step(<<Rule(r), end>>, <<>>)
  <2>1. Peek \in DOMAIN DeclarationRule =>
            DeclarationRule[Peek] \in {"class_declaration", "function", "var_declaration"}
    BY DEF DeclarationRule
  <2> QED  BY <2>1 DEF Declaration
<1>2. PICK r \in rules : \/ Match(<<Rule(r), end>>, <<>>)
                         \/ Step(<<Rule(r), end>>, <<>>)
  BY <1>1
<1> DEFINE rule == Rule(r)
    tasks == <<rule, end>>
    x == IF r = "function" THEN "Function" ELSE "Stmt"
    a == Append(s, x)
    e == <<>>
<1>3. /\ IsSeq(s) /\ Over(s, s) /\ Gives(s, t, 0, "Declared") /\ IsSeq(held)
      /\ Len(held) = Len(s) /\ Len(s) \in Nat /\ Holds(Made, held, s)
  BY <1>1, ToDo, Current DEF Expects
<1>4. /\ IsSeq(a) /\ Over(s, a) /\ Gives(s, a, 0, x) /\ Nth(a, 1) = x
      /\ Len(a) = Len(s) + 1
  BY <1>3, Pushed
<1>5. Gives(a, t, 0 + 1, "Declared")
  BY <1>3, PushedGives
<1> HIDE DEF a
<1>6. "Declared" \in Uses(Nth(a, 1))
  BY <1>4, UsesAre
<1>7. Works(rule, s, a) /\ Works(end, a, t)
  <2>1. Works(rule, s, a)
    BY <1>4, WorksRule
  <2>2. Works(end, a, t)
    BY <1>3, <1>4, <1>5, <1>6, WorksTask
  <2> QED  BY <2>1, <2>2
<1>8. rule.is = r /\ end.is = "caught" /\ end.n = Len(s)
  BY <1>3 DEF Rule, Caught
<1>9. Match(tasks, e) \/ Step(tasks, e)
  BY <1>2
<1> HIDE DEF rule, end
<1>10. IsSeq(tasks) /\ Len(tasks) = 2 /\ Leads(s, tasks, s, t)
  BY <1>3, <1>4, <1>7, LeadsTwo
<1>11. Agree(s, t, Len(s))
  BY <1>3 DEF Gives, Agree
<1>12. Guarded(tasks, Tail(todo), s, t)
  <2>1. tasks[1] = rule /\ tasks[2] = end /\ \A i \in 1 .. 2 : i = 1 \/ i = 2
    OBVIOUS
  <2>2. 2 \in 1 + 1 .. 2
    OBVIOUS
  <2> HIDE DEF tasks
  <2> QED  BY <1>8, <1>10, <1>11, <2>1, <2>2 DEF Guarded, Safe
<1> HIDE DEF e, tasks
<1>13. Do(tasks, e)
  BY <1>9 DEF Match, Step
<1>14. /\ Well(Made') /\ Grown(Made, Made')
       /\ todo' = tasks \o Tail(todo) /\ held' = held \o e
  BY <1>9, <1>13, DoIs
<1>15. held \o e = held
  BY <1>3, ConcatNone DEF e
<1>16. Holds(Made', held', s)
  BY <1>3, <1>14, <1>15, HoldsStill DEF Sound
<1> QED  BY <1>1, <1>10, <1>12, <1>14, <1>16, Goes

LEMMA ParseSound ==
    ASSUME NEW p, Sound(p), Parse
    PROVE  (\E q : Sound(q))'
<1> DEFINE s == p[0]
    t == p[1]
    e == <<>>
    rule == Rule("declaration")
    task == Task
    two == <<rule, task>>
    a == Append(s, "Declared")
<1>1. Calling("parse") /\ (Step(e, e) \/ Step(two, e))
  BY DEF Parse
<1>2. /\ Plan(todo, p) /\ Well(Made) /\ Holds(Made, held, s) /\ IsSeq(held)
      /\ IsSeq(s) /\ IsSeq(t) /\ task.is = "parse" /\ todo[1] = task /\ IsSeq(todo)
      /\ Len(todo) \in Nat \ {0} /\ Works(task, s, t)
  BY <1>1, Current, CallingIs DEF Sound
<1>3. Len(todo) = 1
  <2>1. 1 \in 1 .. Len(todo)
    BY <1>2
  <2> QED  BY <1>2, <2>1 DEF Plan
<1>4. /\ \A j \in 1 .. Len(s) : s[j] = "Declared"
      /\ \A j \in 1 .. Len(t) : t[j] = "Declared"
  BY <1>1, ToDo DEF Expects
<1>5. IsSeq(e) /\ Len(e) = 0
  BY TuplesAre
<1>6. Tail(todo) = e
  <2>1. IsSeq(Tail(todo)) /\ Len(Tail(todo)) = 0
    BY <1>1, <1>2, <1>3, CallingIs
  <2> DEFINE u == Tail(todo)
  <2>2. IsSeq(u) /\ Len(u) = 0
    BY <2>1
  <2> HIDE DEF e, u
  <2>3. \A i \in 1 .. 0 : FALSE
    OBVIOUS
  <2>4. u = e
    BY <1>5, <2>2, <2>3, SameSeq
  <2> QED  BY <2>4 DEF u
<1>7. /\ IsSeq(a) /\ Gives(s, a, 0, "Declared") /\ Len(a) = Len(s) + 1 /\ Len(s) \in Nat
      /\ a[Len(s) + 1] = "Declared" /\ \A j \in 1 .. Len(s) : a[j] = s[j]
  BY <1>2, Pushed, AppendIs
<1>8. /\ IsSeq(two) /\ Len(two) = 2 /\ two[1] = rule /\ two[2] = task
  BY TuplesAre
<1>9. rule.is = "declaration" /\ Works(rule, s, a)
  BY <1>7, WorksRule DEF Rule
<1>10. Works(task, a, t)
  <2>1. \A j \in 1 .. Len(s) + 1 : j \in 1 .. Len(s) \/ j = Len(s) + 1
    BY <1>7
  <2>2. \A j \in 1 .. Len(a) : a[j] = "Declared"
    BY <1>4, <1>7, <2>1
  <2> QED  BY <1>2, <1>4, <2>2 DEF Works
<1> HIDE DEF e, two, a, task, rule
<1>11. ASSUME NEW tasks, Step(tasks, e), IsSeq(tasks)
       PROVE  /\ Well(Made') /\ todo' = tasks /\ Holds(Made', held', s)
  <2>1. Do(tasks, e)
    BY <1>11 DEF Step
  <2>2. /\ Well(Made') /\ Grown(Made, Made')
        /\ todo' = tasks \o Tail(todo) /\ held' = held \o e
    BY <1>11, <2>1, DoIs
  <2>3. held \o e = held /\ tasks \o e = tasks
    BY <1>2, <1>11, ConcatNone DEF e
  <2>4. Holds(Made', held', s)
    BY <1>2, <2>2, <2>3, HoldsStill
  <2> QED  BY <1>6, <2>2, <2>3, <2>4
<1>12. CASE Step(e, e)
  <2> DEFINE q == [i \in 0 .. 0 |-> s]
  <2>1. q[0] = s
    OBVIOUS
  <2> HIDE DEF q
  <2>2. Well(Made') /\ todo' = e /\ Holds(Made', held', s)
    BY <1>5, <1>11, <1>12
  <2>3. Plan(e, q)
    BY <1>2, <1>4, <1>5, <2>1 DEF Plan
  <2>4. Sound(q)'
    BY <2>1, <2>2, <2>3 DEF Sound
  <2> QED  BY <2>4
<1>13. CASE Step(two, e)
  <2> DEFINE q == [i \in 0 .. 2 |-> IF i = 0 THEN s ELSE IF i = 1 THEN a ELSE t]
  <2>1. q[0] = s /\ q[1] = a /\ q[2] = t
    OBVIOUS
  <2> HIDE DEF q
  <2>2. Well(Made') /\ todo' = two /\ Holds(Made', held', s)
    BY <1>8, <1>11, <1>13
  <2>3. \A i \in 0 .. 2 : i = 0 \/ i = 1 \/ i = 2
    OBVIOUS
  <2>4. \A i \in 0 .. 2 : IsSeq(q[i])
    BY <1>2, <1>7, <2>1, <2>3
  <2>5. ASSUME NEW i \in 1 .. 2
        PROVE  /\ Works(two[i], q[i - 1], q[i])
               /\ two[i].is \in {"declaration", "parse"}
               /\ two[i].is = "parse" => i = 2
    <3>1. i = 1 \/ i = 2
      OBVIOUS
    <3>2. 1 - 1 = 0 /\ 2 - 1 = 1
      OBVIOUS
    <3> QED  BY <1>2, <1>8, <1>9, <1>10, <2>1, <3>1, <3>2
  <2>6. Plan(two, q)
    BY <1>4, <1>8, <2>1, <2>4, <2>5 DEF Plan, Safe
  <2>7. Sound(q)'
    BY <2>1, <2>2, <2>6 DEF Sound
  <2> QED  BY <2>7
<1> QED  BY <1>1, <1>12, <1>13

-----------------------------------------------------------------------------
(* The nodes.                                                              *)

LEMMA NoneConcat ==
    ASSUME NEW s, IsSeq(s)
    PROVE  <<>> \o s = s
<1> DEFINE e == <<>>
    u == e \o s
<1>1. IsSeq(e) /\ Len(e) = 0 /\ Len(s) \in Nat
  BY TuplesAre DEF IsSeq
<1> HIDE DEF e
<1>2. IsSeq(u) /\ Len(u) = Len(e) + Len(s) /\ \A i \in 1 .. Len(s) : u[Len(e) + i] = s[i]
  BY <1>1, ConcatIs
<1> HIDE DEF u
<1>3. Len(u) = Len(s)
  BY <1>1, <1>2
<1>4. \A i \in 1 .. Len(s) : 0 + i = i
  OBVIOUS
<1>5. \A i \in 1 .. Len(s) : u[i] = s[i]
  BY <1>1, <1>2, <1>4
<1>6. u = s
  BY <1>2, <1>3, <1>5, SameSeq
<1> QED  BY <1>6 DEF e, u

\* The current task is done.
LEMMA Leaves ==
    ASSUME NEW p, Sound(p), NEW name, Calling(name),
           Well(Made'), todo' = Tail(todo), Holds(Made', held', p[1])
    PROVE  (\E q : Sound(q))'
<1> DEFINE e == <<>>
    t == p[1]
<1>1. Runs(p[0], e, t, t)
  BY RunsNone
<1>2. IsSeq(Tail(todo))
  BY CallingIs DEF Sound
<1>3. todo' = e \o Tail(todo)
  BY <1>2, NoneConcat
<1>4. IsSeq(e) /\ Len(e) = 0
  BY TuplesAre
<1>5. Holds(Made', held', t)
  OBVIOUS
<1> HIDE DEF e, t
<1>6. \A i \in 1 .. Len(e) : e[i].is \in Safe
  BY <1>4
<1>7. Runs(p[0], e, t, p[1])
  BY <1>1 DEF t
<1> QED  BY <1>3, <1>5, <1>6, <1>7, Replaced

LEMMA TakesKnown ==
    ASSUME NEW type, NEW n, NEW f, Takes(type, n, f)
    PROVE  /\ type \in Expressions \cup Commands /\ SortOf(type) \in Sorts
           /\ \A m : \A l \in Nat \ {0} :
                  m.nodes[l].type = type => Has(m, Tree(l), SortOf(type), l)
<1>1. type \in Expressions \cup Commands
  BY DEF Takes, Fields, Expressions, Commands
<1>2. SortOf(type) \in Sorts
  BY DEF SortOf, Sorts
<1>3. ASSUME NEW m, NEW l \in Nat \ {0}, m.nodes[l].type = type
      PROVE  Has(m, Tree(l), SortOf(type), l)
  <2>1. l \in 1 .. l
    OBVIOUS
  <2>2. \A types : type \in types => PointsTo(m, Tree(l), types, l)
    BY <1>3, <2>1 DEF PointsTo
  <2>3. CASE type \in Expressions
    <3>1. SortOf(type) = "Expr"
      BY <2>3 DEF SortOf
    <3> QED  BY <2>2, <2>3, <3>1 DEF Has
  <2>4. CASE type \notin Expressions /\ type = "Function"
    <3>1. SortOf(type) = "Function"
      BY <2>4 DEF SortOf
    <3>2. type \in {"Function"}
      BY <2>4
    <3> QED  BY <2>2, <3>1, <3>2 DEF Has
  <2>5. CASE type \notin Expressions /\ type # "Function"
    <3>1. SortOf(type) = "Stmt" /\ type \in Commands
      BY <1>1, <2>5 DEF SortOf
    <3> QED  BY <2>2, <3>1 DEF Has
  <2> QED  BY <2>3, <2>4, <2>5
<1> QED  BY <1>1, <1>2, <1>3

\* What is made of m with these nodes.
With(m, ns) == [tokens |-> m.tokens, nodes |-> ns, errors |-> m.errors]

LEMMA PlusBuilt ==
    ASSUME NEW m, Well(m), NEW type, NEW parts, IsSeq(parts),
           Takes(type, Len(parts), SortsOf(m, parts, Len(m.nodes))),
           NEW k, k = With(m, Plus(m.nodes, type, parts))
    PROVE  /\ Well(k) /\ Grown(m, k) /\ k.tokens = m.tokens /\ k.errors = m.errors
           /\ k.nodes = Plus(m.nodes, type, parts)
           /\ SortOf(type) \in Sorts
           /\ Has(k, Top(k.nodes), SortOf(type), Len(k.nodes))
<1>1. /\ k.tokens = m.tokens /\ k.errors = m.errors
      /\ k.nodes = Plus(m.nodes, type, parts)
  BY DEF With
<1>2. k.nodes = Append(m.nodes, [type |-> type, parts |-> parts])
  BY <1>1 DEF Plus
<1>3. /\ Well(k) /\ Grown(m, k) /\ Len(k.nodes) = Len(m.nodes) + 1
      /\ k.nodes[Len(k.nodes)].type = type
  BY <1>1, <1>2, PlusWell
<1>4. Len(k.nodes) \in Nat \ {0}
  BY <1>3, WellIs
<1>5. SortOf(type) \in Sorts /\ Has(k, Tree(Len(k.nodes)), SortOf(type), Len(k.nodes))
  BY <1>3, <1>4, TakesKnown
<1> QED  BY <1>1, <1>3, <1>5 DEF Top

LEMMA HeldIs ==
    ASSUME IsSeq(held), NEW n \in 0 .. Len(held)
    PROVE  /\ IsSeq(Held(n)) /\ Len(Held(n)) = n /\ Len(held) \in Nat
           /\ \A j \in 1 .. n : Held(n)[j] = held[Len(held) - n + j]
           /\ IsSeq(SubSeq(held, 1, Len(held) - n))
           /\ Len(SubSeq(held, 1, Len(held) - n)) = Len(held) - n
           /\ \A j \in 1 .. Len(held) - n : SubSeq(held, 1, Len(held) - n)[j] = held[j]
<1> DEFINE l == Len(held)
    k == l - n + 1
    c == l - n
<1>1. /\ l \in Nat /\ c \in Nat /\ k \in Nat \ {0} /\ k <= l + 1 /\ l - k + 1 = n
      /\ l <= l /\ 1 \in Nat \ {0} /\ 1 <= c + 1 /\ c <= l /\ c - 1 + 1 = c
      /\ \A j \in 1 .. n : k + j - 1 = l - n + j
      /\ \A j \in 1 .. c : 1 + j - 1 = j
  BY DEF IsSeq
<1>2. Held(n) = SubSeq(held, k, l)
  BY DEF Held
<1> HIDE DEF k, c
<1>3. /\ IsSeq(SubSeq(held, k, l)) /\ Len(SubSeq(held, k, l)) = l - k + 1
      /\ \A j \in 1 .. l - k + 1 : SubSeq(held, k, l)[j] = held[k + j - 1]
  BY <1>1, CutIs
<1>4. /\ IsSeq(SubSeq(held, 1, c)) /\ Len(SubSeq(held, 1, c)) = c - 1 + 1
      /\ \A j \in 1 .. c - 1 + 1 : SubSeq(held, 1, c)[j] = held[1 + j - 1]
  BY <1>1, CutIs
<1>5. /\ IsSeq(Held(n)) /\ Len(Held(n)) = n /\ l \in Nat
      /\ \A j \in 1 .. n : Held(n)[j] = held[l - n + j]
  BY <1>1, <1>2, <1>3
<1>6. /\ IsSeq(SubSeq(held, 1, c)) /\ Len(SubSeq(held, 1, c)) = c
      /\ \A j \in 1 .. c : SubSeq(held, 1, c)[j] = held[j]
  BY <1>1, <1>4
<1> QED  BY <1>5, <1>6 DEF c

\* The value that is the result goes in the place of the last n.
LEMMA Ends ==
    ASSUME NEW p, Sound(p), NEW name, Calling(name), NEW n, NEW x \in Sorts,
           Gives(p[0], p[1], n, x), Well(Made'), Grown(Made, Made'), NEW v,
           Has(Made', v, x, Len((Made').nodes)),
           held' = Append(SubSeq(held, 1, Len(held) - n), v), todo' = Tail(todo)
    PROVE  (\E q : Sound(q))'
<1> DEFINE cut == SubSeq(held, 1, Len(held) - n)
    all == held'
<1>1. /\ IsSeq(held) /\ Len(held) = Len(p[0]) /\ IsSeq(p[0]) /\ Holds(Made, held, p[0])
      /\ Well(Made)
  BY Current
<1>2. n \in 0 .. Len(held)
  BY <1>1 DEF Gives
<1>3. /\ Len(held) \in Nat /\ IsSeq(cut) /\ Len(cut) = Len(held) - n
      /\ \A j \in 1 .. Len(held) - n : cut[j] = held[j]
  BY <1>1, <1>2, HeldIs
<1>4. all = Append(cut, v)
  OBVIOUS
<1> HIDE DEF cut, all
<1>5. /\ IsSeq(all) /\ Len(all) = Len(held) - n + 1 /\ all[Len(held) - n + 1] = v
      /\ \A j \in 1 .. Len(held) - n : all[j] = held[j]
  BY <1>3, <1>4, AppendIs
<1>6. Holds(Made', held, p[0])
  BY <1>1, HoldsStill
<1>7. Holds(Made', all, p[1])
  BY <1>5, <1>6, HoldsPut
<1> QED  BY <1>7, Leaves DEF all

LEMMA MakeNodeSound ==
    ASSUME NEW p, Sound(p), NEW name, Calling(name), NEW type, NEW parts, NEW n,
           IsSeq(parts), Takes(type, Len(parts), SortsOf(Made, parts, Len(nodes))),
           Gives(p[0], p[1], n, SortOf(type)), MakeNode(type, parts, n)
    PROVE  (\E q : Sound(q))'
<1>1. Well(Made) /\ Made.nodes = nodes
  BY Current DEF Made
<1>2. Made' = With(Made, Plus(Made.nodes, type, parts))
  BY DEF Made, With, Plus, MakeNode, source
<1> DEFINE k == Made'
<1>3. k = With(Made, Plus(Made.nodes, type, parts))
  BY <1>2
<1> HIDE DEF k
<1>4. /\ Well(k) /\ Grown(Made, k) /\ SortOf(type) \in Sorts
      /\ k.nodes = Plus(Made.nodes, type, parts)
      /\ Has(k, Top(k.nodes), SortOf(type), Len(k.nodes))
  BY <1>1, <1>3, PlusBuilt
<1>5. Len(k.nodes) = Len(nodes) + 1
  <2>1. IsSeq(nodes)
    BY <1>1 DEF Well
  <2> QED  BY <1>1, <1>4, <2>1, AppendIs DEF Plus
<1> DEFINE v == Top(k.nodes)
    u == held'
<1>6. u = Append(SubSeq(held, 1, Len(held) - n), v) /\ todo' = Tail(todo)
  BY <1>5 DEF MakeNode, Top
<1>7. Has(k, v, SortOf(type), Len(k.nodes))
  BY <1>4
<1> HIDE DEF v
<1> QED  BY <1>4, <1>6, <1>7, Ends DEF k, u

LEMMA MakeTreeSound ==
    ASSUME NEW p, Sound(p), MakeTree
    PROVE  (\E q : Sound(q))'
<1> DEFINE s == p[0]
    t == p[1]
    type == Task.type
    n == Task.n
    parts == Held(n)
    f == TopUses(s, n)
    g == SortsOf(Made, parts, Len(nodes))
<1>1. Calling("make") /\ MakeNode(type, parts, n)
  BY DEF MakeTree
<1>2. IsSeq(s) /\ Makes(s, t, type, n)
  BY <1>1, ToDo DEF Expects
<1>3. /\ IsSeq(held) /\ Len(held) = Len(s) /\ Holds(Made, held, s) /\ Len(s) \in Nat
      /\ Made.nodes = nodes
  BY <1>1, Current DEF Made
<1>4. n \in 0 .. Len(s) /\ n \in Nat /\ Takes(type, n, f) /\ Gives(s, t, n, SortOf(type))
  BY <1>2, <1>3 DEF Makes
<1> HIDE DEF n, type, s, t
<1>5. /\ IsSeq(parts) /\ Len(parts) = n
      /\ \A j \in 1 .. n : parts[j] = held[Len(held) - n + j]
  BY <1>3, <1>4, HeldIs
<1> HIDE DEF parts
<1>6. \A j \in 1 .. n : f[j] \subseteq g[j]
  <2> SUFFICES ASSUME NEW j \in 1 .. n, NEW y \in f[j] PROVE y \in g[j]
    OBVIOUS
  <2> DEFINE i == Len(s) - n + j
  <2>1. i \in 1 .. Len(s) /\ f[j] = Uses(s[i]) /\ parts[j] = held[i]
    BY <1>3, <1>4, <1>5 DEF TopUses
  <2>2. s[i] \in Sorts /\ Has(Made, held[i], s[i], Len(nodes))
    BY <1>3, <2>1 DEF Holds
  <2> HIDE DEF i
  <2>3. y \in Sorts /\ Has(Made, held[i], y, Len(nodes))
    BY <2>1, <2>2, UsesHave
  <2> QED  BY <1>5, <2>1, <2>3 DEF SortsOf
<1> HIDE DEF f, g
<1>7. Takes(type, n, g)
  BY <1>4, <1>6, TakesMore
<1>8. Takes(type, Len(parts), SortsOf(Made, parts, Len(nodes)))
  BY <1>5, <1>7 DEF g
<1>9. Gives(p[0], p[1], n, SortOf(type))
  BY <1>4 DEF s, t
<1> QED  BY <1>1, <1>5, <1>8, <1>9, MakeNodeSound

LEMMA ExpressionIs ==
    ASSUME NEW m, Well(m), NEW v, NEW n \in 0 .. Len(m.nodes), Has(m, v, "Expr", n)
    PROVE  /\ v.at \in 1 .. n /\ v = Tree(v.at) /\ v # Null
           /\ IsSeq(m.nodes[v.at].parts) /\ Formed(m, v.at)
<1>1. PICK i \in 1 .. n : v = Tree(i)
  BY DEF Has, PointsTo
<1>2. v.at = i /\ v # Null
  BY <1>1 DEF Tree, Null
<1>3. i \in 1 .. Len(m.nodes)
  BY WellIs
<1> QED  BY <1>1, <1>2, <1>3 DEF Well

\* A node with fields has a part for each.
LEMMA FieldsHeld ==
    ASSUME NEW m, Well(m), NEW i \in 1 .. Len(m.nodes), Formed(m, i),
           m.nodes[i].type \in {"Variable", "Get"}
    PROVE  LET parts == m.nodes[i].parts
               fields == Fields[m.nodes[i].type]
           IN  /\ Len(parts) = Len(fields)
               /\ \A j \in 1 .. Len(fields) :
                      fields[j] \in Sorts => Has(m, parts[j], fields[j], Len(m.nodes))
<1> DEFINE parts == m.nodes[i].parts
    type == m.nodes[i].type
    fields == Fields[type]
    f == SortsOf(m, parts, i - 1)
<1>1. Takes(type, Len(parts), f)
  BY DEF Formed
<1>2. type \in {"Variable", "Get"}
  OBVIOUS
<1> HIDE DEF f, type, parts
<1>3. Len(parts) = Len(Fields[type]) /\ \A j \in 1 .. Len(parts) : Fields[type][j] \in f[j]
  BY <1>1, <1>2 DEF Takes
<1>4. ASSUME NEW j \in 1 .. Len(parts), Fields[type][j] \in Sorts
      PROVE  Has(m, parts[j], Fields[type][j], Len(m.nodes))
  <2> DEFINE x == Fields[type][j]
  <2>1. x \in f[j] /\ x \in Sorts
    BY <1>3, <1>4
  <2> HIDE DEF x
  <2>2. Has(m, parts[j], x, i - 1)
    BY <2>1 DEF f, SortsOf
  <2>3. /\ Lists(m) /\ i - 1 \in 0 .. Len(m.nodes) /\ i - 1 <= Len(m.nodes)
        /\ Len(m.nodes) \in 0 .. Len(m.nodes)
    BY WellIs
  <2>4. Grown(m, m)
    BY WellIs DEF Grown, Prefix
  <2>5. Has(m, parts[j], x, Len(m.nodes))
    BY <2>1, <2>2, <2>3, <2>4, StillHas
  <2> QED  BY <2>5 DEF x
<1>5. /\ Len(parts) = Len(fields)
      /\ \A j \in 1 .. Len(fields) :
             fields[j] \in Sorts => Has(m, parts[j], fields[j], Len(m.nodes))
  BY <1>3, <1>4
<1> QED  BY <1>5 DEF parts, type

LEMMA TakesAssign ==
    ASSUME NEW m, NEW parts, IsSeq(parts), NEW n,
           \/ /\ Len(parts) = 1 /\ Has(m, parts[1], "Token", n)
           \/ /\ Len(parts) = 2 /\ Has(m, parts[1], "Expr", n)
              /\ Has(m, parts[2], "Token", n),
           NEW v, Has(m, v, "Expr", n)
    PROVE  LET all == parts \o <<v>>
           IN  /\ IsSeq(all)
               /\ Len(parts) = 1 => Takes("Assign", Len(all), SortsOf(m, all, n))
               /\ Len(parts) = 2 => Takes("Set", Len(all), SortsOf(m, all, n))
<1> DEFINE all == parts \o <<v>>
    f == SortsOf(m, all, n)
<1>1. all = Append(parts, v)
  BY ConcatOne
<1> HIDE DEF all
<1>2. /\ IsSeq(all) /\ Len(all) = Len(parts) + 1 /\ all[Len(parts) + 1] = v
      /\ \A i \in 1 .. Len(parts) : all[i] = parts[i]
  BY <1>1, AppendIs
<1>3. "Token" \in Sorts /\ "Expr" \in Sorts
  BY NullHas
<1>4. CASE Len(parts) = 1 /\ Has(m, parts[1], "Token", n)
  <2>1. Len(all) = 2 /\ all[1] = parts[1] /\ all[2] = v
    BY <1>2, <1>4
  <2>2. "Token" \in f[1] /\ "Expr" \in f[2]
    <3>1. 1 \in 1 .. Len(all) /\ 2 \in 1 .. Len(all)
      BY <2>1
    <3> QED  BY <1>3, <1>4, <2>1, <3>1 DEF SortsOf
  <2> HIDE DEF f
  <2>3. \A j \in 1 .. 2 : j = 1 \/ j = 2
    OBVIOUS
  <2>4. Len(<<"Token", "Expr">>) = 2 /\ <<"Token", "Expr">>[1] = "Token"
        /\ <<"Token", "Expr">>[2] = "Expr"
    OBVIOUS
  <2>5. Takes("Assign", 2, f)
    BY <2>2, <2>3, <2>4, FieldsAre DEF Takes
  <2> QED  BY <1>2, <1>4, <2>1, <2>5 DEF all, f
<1>5. CASE Len(parts) = 2 /\ Has(m, parts[1], "Expr", n) /\ Has(m, parts[2], "Token", n)
  <2>1. Len(all) = 3 /\ all[1] = parts[1] /\ all[2] = parts[2] /\ all[3] = v
    BY <1>2, <1>5
  <2>2. "Expr" \in f[1] /\ "Token" \in f[2] /\ "Expr" \in f[3]
    <3>1. 1 \in 1 .. Len(all) /\ 2 \in 1 .. Len(all) /\ 3 \in 1 .. Len(all)
      BY <2>1
    <3> QED  BY <1>3, <1>5, <2>1, <3>1 DEF SortsOf
  <2> HIDE DEF f
  <2>3. \A j \in 1 .. 3 : j = 1 \/ j = 2 \/ j = 3
    OBVIOUS
  <2>4. Len(<<"Expr", "Token", "Expr">>) = 3 /\ <<"Expr", "Token", "Expr">>[1] = "Expr"
        /\ <<"Expr", "Token", "Expr">>[2] = "Token" /\ <<"Expr", "Token", "Expr">>[3] = "Expr"
    OBVIOUS
  <2>5. Takes("Set", 3, f)
    BY <2>2, <2>3, <2>4, FieldsAre DEF Takes
  <2> QED  BY <1>2, <1>5, <2>1, <2>5 DEF all, f
<1> QED  BY <1>4, <1>5

\* The values that a task uses.
LEMMA HeldHas ==
    ASSUME NEW m, NEW values, NEW s, Holds(m, values, s), NEW n \in 1 .. Len(s)
    PROVE  /\ Len(values) = Len(s) /\ Len(s) \in Nat
           /\ \A j \in 1 .. n :
                  /\ Nth(s, n + 1 - j) \in Sorts
                  /\ Has(m, values[Len(values) - n + j], Nth(s, n + 1 - j), Len(m.nodes))
<1>1. Len(values) = Len(s) /\ Len(s) \in Nat
  BY DEF Holds, IsSeq
<1>2. ASSUME NEW j \in 1 .. n
      PROVE  /\ Nth(s, n + 1 - j) \in Sorts
             /\ Has(m, values[Len(values) - n + j], Nth(s, n + 1 - j), Len(m.nodes))
  <2>1. Len(s) + 1 - (n + 1 - j) = Len(s) - n + j /\ Len(s) - n + j \in 1 .. Len(s)
    BY <1>1
  <2> QED  BY <1>1, <2>1 DEF Holds, Nth
<1> QED  BY <1>1, <1>2

LEMMA AssignToSound ==
    ASSUME NEW p, Sound(p), AssignTo
    PROVE  (\E q : Sound(q))'
<1> DEFINE s == p[0]
    t == p[1]
    part == Held(3)
    target == nodes[part[1].at]
    parts == target.parts
    all == parts \o <<part[3]>>
    l == Len(nodes)
<1>1. /\ Calling("assign")
      /\ \/ target.type = "Variable" /\ MakeNode("Assign", all, 3)
         \/ target.type = "Get" /\ MakeNode("Set", all, 3)
         \/ /\ Error("target", part[2].at) /\ UNCHANGED <<source, nodes>>
            /\ held' = SubSeq(held, 1, Len(held) - 2) /\ todo' = Tail(todo)
  BY DEF AssignTo
<1>2. /\ IsSeq(s) /\ Len(s) >= 3 /\ Nth(s, 3) = "Expr" /\ Nth(s, 2) = "Token"
      /\ Nth(s, 1) = "Expr" /\ Gives(s, t, 3, "Expr")
  BY <1>1, ToDo DEF Expects
<1>3. /\ IsSeq(held) /\ Len(held) = Len(s) /\ Holds(Made, held, s) /\ Len(s) \in Nat
      /\ Well(Made) /\ Made.nodes = nodes /\ Made.tokens = tokens /\ Made.errors = errors
  BY <1>1, Current DEF Made
<1>4. /\ part[1] = held[Len(held) - 3 + 1] /\ part[2] = held[Len(held) - 3 + 2]
      /\ part[3] = held[Len(held) - 3 + 3]
  <2>1. 3 \in 0 .. Len(held) /\ 1 \in 1 .. 3 /\ 2 \in 1 .. 3 /\ 3 \in 1 .. 3
    BY <1>2, <1>3
  <2> QED  BY <1>3, <2>1, HeldIs
<1>5. /\ Has(Made, part[1], "Expr", l) /\ Has(Made, part[2], "Token", l)
      /\ Has(Made, part[3], "Expr", l)
  <2>1. /\ 3 \in 1 .. Len(s) /\ 1 \in 1 .. 3 /\ 2 \in 1 .. 3 /\ 3 \in 1 .. 3
        /\ 3 + 1 - 1 = 3 /\ 3 + 1 - 2 = 2 /\ 3 + 1 - 3 = 1
    BY <1>2, <1>3
  <2>2. \A j \in 1 .. 3 :
            Has(Made, held[Len(held) - 3 + j], Nth(s, 3 + 1 - j), Len(Made.nodes))
    BY <1>3, <2>1, HeldHas
  <2> QED  BY <1>2, <1>3, <1>4, <2>1, <2>2
<1>6. /\ part[1].at \in 1 .. l /\ IsSeq(parts) /\ Formed(Made, part[1].at) /\ l \in Nat
  <2>1. l \in 0 .. Len(Made.nodes) /\ l \in Nat
    BY <1>3, WellIs
  <2> QED  BY <1>3, <1>5, <2>1, ExpressionIs
<1> HIDE DEF part
<1>7. target.type \in {"Variable", "Get"} =>
          /\ Len(parts) = Len(Fields[target.type])
          /\ \A j \in 1 .. Len(Fields[target.type]) :
                 Fields[target.type][j] \in Sorts =>
                     Has(Made, parts[j], Fields[target.type][j], l)
  <2> DEFINE i == part[1].at
  <2>1. i \in 1 .. Len(Made.nodes) /\ Formed(Made, i) /\ Made.nodes[i] = target
    BY <1>3, <1>6
  <2> HIDE DEF i, target
  <2> QED  BY <1>3, <2>1, FieldsHeld
<1> HIDE DEF parts, target, l
<1>8. SortOf("Assign") = "Expr" /\ SortOf("Set") = "Expr"
  BY SortsAre
<1>9. CASE target.type = "Variable" /\ MakeNode("Assign", all, 3)
  <2>1. Len(<<"Token">>) = 1 /\ 1 \in 1 .. 1 /\ <<"Token">>[1] = "Token"
    OBVIOUS
  <2>2. Len(parts) = 1 /\ Has(Made, parts[1], "Token", l)
    BY <1>7, <1>9, <2>1, FieldsAre, NullHas
  <2>3. IsSeq(all) /\ Takes("Assign", Len(all), SortsOf(Made, all, l))
    BY <1>5, <1>6, <2>2, TakesAssign
  <2> HIDE DEF all
  <2> QED  BY <1>1, <1>2, <1>8, <1>9, <2>3, MakeNodeSound DEF l
<1>10. CASE target.type = "Get" /\ MakeNode("Set", all, 3)
  <2>1. /\ Len(<<"Expr", "Token">>) = 2 /\ 1 \in 1 .. 2 /\ 2 \in 1 .. 2
        /\ <<"Expr", "Token">>[1] = "Expr" /\ <<"Expr", "Token">>[2] = "Token"
    OBVIOUS
  <2>2. Len(parts) = 2 /\ Has(Made, parts[1], "Expr", l) /\ Has(Made, parts[2], "Token", l)
    BY <1>7, <1>10, <2>1, FieldsAre, NullHas
  <2>3. IsSeq(all) /\ Takes("Set", Len(all), SortsOf(Made, all, l))
    BY <1>5, <1>6, <2>2, TakesAssign
  <2> HIDE DEF all
  <2> QED  BY <1>1, <1>2, <1>8, <1>10, <2>3, MakeNodeSound DEF l
<1>11. CASE /\ Error("target", part[2].at) /\ UNCHANGED <<source, nodes>>
            /\ held' = SubSeq(held, 1, Len(held) - 2) /\ todo' = Tail(todo)
  <2>1. part[2].at \in 1 .. Len(tokens)
    <3>1. PICK i \in DOMAIN Made.tokens : part[2] = Token(i)
      BY <1>5 DEF Has
    <3>2. DOMAIN Made.tokens = 1 .. Len(tokens) /\ part[2].at = i
      BY <1>3, <3>1, WellIs DEF Token
    <3> QED  BY <3>1, <3>2
  <2>2. Well(Made') /\ Grown(Made, Made')
    <3>1. /\ (Made').nodes = nodes' /\ (Made').tokens = tokens' /\ (Made').errors = errors'
          /\ nodes' = nodes /\ tokens' = tokens
      BY <1>11 DEF Made, source
    <3>2. errors' = Append(errors, [kind |-> "target", at |-> part[2].at])
      BY <1>11 DEF Error
    <3> QED  BY <1>3, <2>1, <3>1, <3>2, WellMore
  <2> DEFINE u == held'
      n == Len(held)
  <2>3. IsSeq(u) /\ Len(u) = n - 2 /\ \A j \in 1 .. n - 2 : u[j] = held[j]
    <3>1. 2 \in 0 .. Len(held)
      BY <1>2, <1>3
    <3> QED  BY <1>3, <1>11, <3>1, HeldIs
  <2> HIDE DEF u, n
  <2>4. /\ n \in Nat /\ n - 2 = n - 3 + 1 /\ n = Len(held) /\ n >= 3
        /\ \A j \in 1 .. n - 3 : j \in 1 .. n - 2
        /\ n - 3 + 1 \in 1 .. n - 2
    BY <1>2, <1>3 DEF n
  <2>5. Len(u) = n - 3 + 1 /\ u[n - 3 + 1] = part[1] /\ \A j \in 1 .. n - 3 : u[j] = held[j]
    BY <1>4, <2>3, <2>4
  <2>6. Holds(Made, u, t)
    <3> DEFINE v == part[1]
    <3>1. /\ Has(Made, v, "Expr", Len(Made.nodes)) /\ "Expr" \in Sorts
          /\ u[n - 3 + 1] = v
      BY <1>3, <1>5, <2>5, NullHas DEF l
    <3> HIDE DEF v, t, s
    <3> QED  BY <1>2, <1>3, <2>3, <2>4, <2>5, <3>1, HoldsPut
  <2>7. Holds(Made', u, t)
    BY <1>3, <2>2, <2>6, HoldsStill
  <2> QED  BY <1>1, <1>11, <2>2, <2>7, Leaves DEF u
<1> QED  BY <1>1, <1>9, <1>10, <1>11

-----------------------------------------------------------------------------
(* The while loop that is made of a for loop.                              *)

LEMMA TakesMade ==
    ASSUME NEW m, NEW n
    PROVE  /\ Takes("Literal", Len(<<>>), SortsOf(m, <<>>, n))
           /\ \A v : Has(m, v, "Expr", n) =>
                  Takes("Expression", Len(<<v>>), SortsOf(m, <<v>>, n))
           /\ \A v, w : Has(m, v, "Stmt", n) /\ Has(m, w, "Stmt", n) =>
                  Takes("Block", Len(<<v, w>>), SortsOf(m, <<v, w>>, n))
           /\ \A v, w : Has(m, v, "Expr", n) /\ Has(m, w, "Stmt", n) =>
                  Takes("While", Len(<<v, w>>), SortsOf(m, <<v, w>>, n))
<1>1. Takes("Literal", Len(<<>>), SortsOf(m, <<>>, n))
  <2>1. Len(<<>>) = 0
    OBVIOUS
  <2> QED  BY <2>1 DEF Takes
<1>2. \A v : /\ Len(<<v>>) = 1
             /\ SortsOf(m, <<v>>, n)[1] = {x \in Sorts : Has(m, v, x, n)}
  BY DEF SortsOf
<1>3. \A v, w : /\ Len(<<v, w>>) = 2
                /\ SortsOf(m, <<v, w>>, n)[1] = {x \in Sorts : Has(m, v, x, n)}
                /\ SortsOf(m, <<v, w>>, n)[2] = {x \in Sorts : Has(m, w, x, n)}
  BY DEF SortsOf
<1>4. {"Expr", "Stmt", "Declared"} \subseteq Sorts
  BY DEF Sorts
<1>5. ASSUME NEW v, Has(m, v, "Expr", n)
      PROVE  Takes("Expression", Len(<<v>>), SortsOf(m, <<v>>, n))
  <2> DEFINE f == SortsOf(m, <<v>>, n)
  <2>1. "Expr" \in f[1] /\ Len(<<v>>) = 1
    BY <1>2, <1>4, <1>5
  <2> HIDE DEF f
  <2>2. Len(<<"Expr">>) = 1 /\ <<"Expr">>[1] = "Expr" /\ \A j \in 1 .. 1 : j = 1
    OBVIOUS
  <2>3. Takes("Expression", 1, f)
    BY <2>1, <2>2, FieldsAre DEF Takes
  <2> QED  BY <2>1, <2>3 DEF f
<1>6. ASSUME NEW v, NEW w, Has(m, v, "Stmt", n), Has(m, w, "Stmt", n)
      PROVE  Takes("Block", Len(<<v, w>>), SortsOf(m, <<v, w>>, n))
  <2> DEFINE f == SortsOf(m, <<v, w>>, n)
  <2>1. "Declared" \in Uses("Stmt") /\ "Stmt" \in Sorts
    BY <1>4, UsesAre
  <2>2. Has(m, v, "Declared", n) /\ Has(m, w, "Declared", n)
    BY <1>6, <2>1, UsesHave
  <2>3. "Declared" \in f[1] /\ "Declared" \in f[2] /\ Len(<<v, w>>) = 2
    BY <1>3, <1>4, <2>2
  <2> HIDE DEF f
  <2>4. \A j \in 1 .. 2 : j = 1 \/ j = 2
    OBVIOUS
  <2>5. Takes("Block", 2, f)
    BY <2>3, <2>4 DEF Takes
  <2> QED  BY <2>3, <2>5 DEF f
<1>7. ASSUME NEW v, NEW w, Has(m, v, "Expr", n), Has(m, w, "Stmt", n)
      PROVE  Takes("While", Len(<<v, w>>), SortsOf(m, <<v, w>>, n))
  <2> DEFINE f == SortsOf(m, <<v, w>>, n)
  <2>1. "Expr" \in f[1] /\ "Stmt" \in f[2] /\ Len(<<v, w>>) = 2
    BY <1>3, <1>4, <1>7
  <2> HIDE DEF f
  <2>2. \A j \in 1 .. 2 : j = 1 \/ j = 2
    OBVIOUS
  <2>3. /\ Len(<<"Expr", "Stmt">>) = 2 /\ <<"Expr", "Stmt">>[1] = "Expr"
        /\ <<"Expr", "Stmt">>[2] = "Stmt"
    OBVIOUS
  <2>4. Takes("While", 2, f)
    BY <2>1, <2>2, <2>3, FieldsAre DEF Takes
  <2> QED  BY <2>1, <2>4 DEF f
<1> QED  BY <1>1, <1>5, <1>6, <1>7

\* What was made is kept, and may be used.
Later(m, k) ==
    /\ Well(k) /\ Grown(m, k) /\ k.tokens = m.tokens /\ k.errors = m.errors
    /\ \A v : \A x \in Sorts :
           Has(m, v, x, Len(m.nodes)) => Has(k, v, x, Len(k.nodes))

LEMMA LaterIs ==
    ASSUME NEW m, Well(m), NEW k, Well(k), Grown(m, k),
           k.tokens = m.tokens, k.errors = m.errors
    PROVE  Later(m, k)
<1>1. /\ Lists(m) /\ Lists(k) /\ Len(m.nodes) \in 0 .. Len(m.nodes)
      /\ Len(k.nodes) \in 0 .. Len(k.nodes) /\ Len(m.nodes) <= Len(k.nodes)
  BY WellIs DEF Grown, Prefix
<1>2. \A v : \A x \in Sorts :
          Has(m, v, x, Len(m.nodes)) => Has(k, v, x, Len(k.nodes))
  BY <1>1, StillHas
<1> QED  BY <1>2 DEF Later

LEMMA LaterSelf ==
    ASSUME NEW m, Well(m)
    PROVE  Later(m, m)
BY WellIs DEF Later, Grown, Prefix

LEMMA LaterStill ==
    ASSUME NEW m, Well(m), NEW k, Later(m, k), NEW o, Later(k, o)
    PROVE  Later(m, o)
<1>1. Len(m.nodes) \in Nat /\ Len(k.nodes) \in Nat /\ Len(o.nodes) \in Nat
  BY WellIs DEF Later
<1>2. Grown(m, o)
  <2>1. Prefix(m.nodes, o.nodes)
    <3>1. \A i \in 1 .. Len(m.nodes) : i \in 1 .. Len(k.nodes)
      BY <1>1 DEF Later, Grown, Prefix
    <3> QED  BY <1>1, <3>1 DEF Later, Grown, Prefix
  <2> QED  BY <2>1 DEF Later, Grown
<1> QED  BY <1>2 DEF Later

\* A node more.
LEMMA LaterPlus ==
    ASSUME NEW m, Well(m), NEW type, NEW parts, IsSeq(parts),
           Takes(type, Len(parts), SortsOf(m, parts, Len(m.nodes)))
    PROVE  LET k == With(m, Plus(m.nodes, type, parts))
           IN  /\ Later(m, k) /\ k.nodes = Plus(m.nodes, type, parts)
               /\ Has(k, Top(k.nodes), SortOf(type), Len(k.nodes))
<1> DEFINE k == With(m, Plus(m.nodes, type, parts))
<1>1. k = With(m, Plus(m.nodes, type, parts))
  OBVIOUS
<1> HIDE DEF k
<1>2. /\ Well(k) /\ Grown(m, k) /\ k.tokens = m.tokens /\ k.errors = m.errors
      /\ k.nodes = Plus(m.nodes, type, parts)
      /\ Has(k, Top(k.nodes), SortOf(type), Len(k.nodes))
  BY <1>1, PlusBuilt
<1>3. Later(m, k)
  BY <1>2, LaterIs
<1> QED  BY <1>2, <1>3 DEF k

LEMMA OptionalHas ==
    ASSUME NEW m, NEW v, NEW n, v # Null
    PROVE  /\ Has(m, v, "OptionalExpr", n) => Has(m, v, "Expr", n)
           /\ Has(m, v, "OptionalStmt", n) => Has(m, v, "Stmt", n)
BY DEF Has

\* The body, with the increment after it.
LEMMA RoundLater ==
    ASSUME NEW m, Well(m), NEW body, Has(m, body, "Stmt", Len(m.nodes)),
           NEW increment, Has(m, increment, "Expr", Len(m.nodes))
    PROVE  LET k == With(m, Round(m.nodes, body, increment))
           IN  /\ Later(m, k) /\ k.nodes = Round(m.nodes, body, increment)
               /\ Has(k, Top(k.nodes), "Stmt", Len(k.nodes))
<1> DEFINE parts == <<increment>>
    step == Plus(m.nodes, "Expression", parts)
    j == With(m, step)
    two == <<body, Top(j.nodes)>>
    k == With(j, Plus(j.nodes, "Block", two))
<1>1. "Stmt" \in Sorts /\ SortOf("Expression") = "Stmt" /\ SortOf("Block") = "Stmt"
  BY SortsAre DEF Sorts
<1>2. IsSeq(parts) /\ Takes("Expression", Len(parts), SortsOf(m, parts, Len(m.nodes)))
  BY TakesMade, TuplesAre
<1> HIDE DEF parts
<1>3. /\ Later(m, j) /\ j.nodes = step
      /\ Has(j, Top(j.nodes), SortOf("Expression"), Len(j.nodes))
  BY <1>2, LaterPlus
<1>4. j.tokens = m.tokens /\ j.errors = m.errors
  BY DEF With
<1> HIDE DEF j
<1>5. Well(j) /\ Has(j, body, "Stmt", Len(j.nodes)) /\ Has(j, Top(j.nodes), "Stmt", Len(j.nodes))
  BY <1>1, <1>3 DEF Later
<1>6. IsSeq(two) /\ Takes("Block", Len(two), SortsOf(j, two, Len(j.nodes)))
  BY <1>5, TakesMade, TuplesAre
<1> HIDE DEF two
<1>7. /\ Later(j, k) /\ k.nodes = Plus(j.nodes, "Block", two)
      /\ Has(k, Top(k.nodes), SortOf("Block"), Len(k.nodes))
  BY <1>5, <1>6, LaterPlus
<1>8. k = With(m, Plus(j.nodes, "Block", two))
  BY <1>4 DEF With
<1>9. Round(m.nodes, body, increment) = Plus(j.nodes, "Block", two)
  BY <1>3 DEF Round, two, parts
<1> HIDE DEF k
<1>10. Later(m, k)
  BY <1>3, <1>7, LaterStill
<1> QED  BY <1>1, <1>7, <1>8, <1>9, <1>10

LEMMA SameWith ==
    ASSUME NEW m, m = [tokens |-> m.tokens, nodes |-> m.nodes, errors |-> m.errors]
    PROVE  With(m, m.nodes) = m
BY DEF With

LEMMA ForDesugaredSound ==
    ASSUME NEW p, Sound(p), ForDesugared
    PROVE  (\E q : Sound(q))'
<1> DEFINE s == p[0]
    t == p[1]
    part == Held(4)
    round == IF part[3] = Null THEN nodes ELSE Round(nodes, part[4], part[3])
    body == IF part[3] = Null THEN part[4] ELSE Top(round)
    test == IF part[2] = Null THEN Plus(round, "Literal", <<>>) ELSE round
    condition == IF part[2] = Null THEN Top(test) ELSE part[2]
    loop == Plus(test, "While", <<condition, body>>)
    all == IF part[1] = Null THEN loop
           ELSE Plus(loop, "Block", <<part[1], Top(loop)>>)
    m == Made
    m1 == With(m, round)
    m2 == With(m1, test)
    m3 == With(m2, loop)
    m4 == With(m3, all)
<1>1. /\ Calling("for_desugared") /\ nodes' = all
      /\ held' = Append(SubSeq(held, 1, Len(held) - 4), Top(all))
      /\ todo' = Tail(todo) /\ UNCHANGED <<source, errors>>
  BY DEF ForDesugared
<1>2. /\ IsSeq(s) /\ Len(s) >= 4 /\ Nth(s, 4) = "OptionalStmt"
      /\ Nth(s, 3) = "OptionalExpr" /\ Nth(s, 2) = "OptionalExpr"
      /\ Nth(s, 1) = "Stmt" /\ Gives(s, t, 4, "Stmt")
  BY <1>1, ToDo DEF Expects
<1>3. /\ IsSeq(held) /\ Len(held) = Len(s) /\ Holds(m, held, s) /\ Len(s) \in Nat
      /\ Well(m) /\ m.nodes = nodes
      /\ m = [tokens |-> m.tokens, nodes |-> m.nodes, errors |-> m.errors]
      /\ m.tokens = tokens /\ m.errors = errors
  BY <1>1, Current DEF Made
<1>4. /\ \A j \in 1 .. 4 : part[j] = held[Len(held) - 4 + j]
      /\ 1 \in 1 .. 4 /\ 2 \in 1 .. 4 /\ 3 \in 1 .. 4 /\ 4 \in 1 .. 4
  <2>1. 4 \in 0 .. Len(held) /\ IsSeq(held)
    BY <1>2, <1>3
  <2>2. \A j \in 1 .. 4 : Held(4)[j] = held[Len(held) - 4 + j]
    BY <2>1, HeldIs
  <2>3. 1 \in 1 .. 4 /\ 2 \in 1 .. 4 /\ 3 \in 1 .. 4 /\ 4 \in 1 .. 4
    OBVIOUS
  <2> QED  BY <2>2, <2>3
<1>5. /\ Has(m, part[1], "OptionalStmt", Len(m.nodes))
      /\ Has(m, part[2], "OptionalExpr", Len(m.nodes))
      /\ Has(m, part[3], "OptionalExpr", Len(m.nodes))
      /\ Has(m, part[4], "Stmt", Len(m.nodes))
  <2>1. /\ 4 \in 1 .. Len(s)
        /\ 4 + 1 - 1 = 4 /\ 4 + 1 - 2 = 3 /\ 4 + 1 - 3 = 2 /\ 4 + 1 - 4 = 1
    BY <1>2, <1>3
  <2>2. \A j \in 1 .. 4 :
            Has(m, held[Len(held) - 4 + j], Nth(s, 4 + 1 - j), Len(m.nodes))
    BY <1>3, <2>1, HeldHas
  <2> QED  BY <1>2, <1>3, <1>4, <2>1, <2>2
<1>6. {"Expr", "Stmt", "OptionalExpr", "OptionalStmt"} \subseteq Sorts
  BY DEF Sorts
<1>7. SortOf("Literal") = "Expr" /\ SortOf("While") = "Stmt" /\ SortOf("Block") = "Stmt"
  BY SortsAre
<1> HIDE DEF part, m
<1>8. /\ Later(m, m1) /\ m1.nodes = round /\ Has(m1, body, "Stmt", Len(m1.nodes))
      /\ m1 = [tokens |-> m1.tokens, nodes |-> m1.nodes, errors |-> m1.errors]
  <2>1. CASE part[3] = Null
    <3>1. m1 = m
      BY <1>3, <2>1, SameWith
    <3> QED  BY <1>3, <1>5, <2>1, <3>1, LaterSelf
  <2>2. CASE part[3] # Null
    <3>1. Has(m, part[3], "Expr", Len(m.nodes))
      BY <1>5, <2>2, OptionalHas
    <3>2. LET k == With(m, Round(m.nodes, part[4], part[3]))
          IN  /\ Later(m, k) /\ k.nodes = Round(m.nodes, part[4], part[3])
              /\ Has(k, Top(k.nodes), "Stmt", Len(k.nodes))
      BY <1>3, <1>5, <3>1, RoundLater
    <3>3. m1 = [tokens |-> m1.tokens, nodes |-> m1.nodes, errors |-> m1.errors]
      BY DEF With
    <3> QED  BY <1>3, <2>2, <3>2, <3>3
  <2> QED  BY <2>1, <2>2
<1> HIDE DEF m1, round, body
<1>9. /\ Well(m1) /\ Has(m1, part[1], "OptionalStmt", Len(m1.nodes))
      /\ Has(m1, part[2], "OptionalExpr", Len(m1.nodes))
  BY <1>5, <1>6, <1>8 DEF Later
<1>10. /\ Later(m1, m2) /\ m2.nodes = test
       /\ Has(m2, condition, "Expr", Len(m2.nodes))
       /\ m2 = [tokens |-> m2.tokens, nodes |-> m2.nodes, errors |-> m2.errors]
  <2>1. CASE part[2] = Null
    <3> DEFINE e == <<>>
    <3>1. IsSeq(e) /\ Takes("Literal", Len(e), SortsOf(m1, e, Len(m1.nodes)))
      BY TakesMade, TuplesAre
    <3>2. test = Plus(m1.nodes, "Literal", e) /\ condition = Top(test)
      BY <1>8, <2>1
    <3> HIDE DEF e
    <3>3. LET k == With(m1, Plus(m1.nodes, "Literal", e))
          IN  /\ Later(m1, k) /\ k.nodes = Plus(m1.nodes, "Literal", e)
              /\ Has(k, Top(k.nodes), SortOf("Literal"), Len(k.nodes))
      BY <1>9, <3>1, LaterPlus
    <3>4. m2 = [tokens |-> m2.tokens, nodes |-> m2.nodes, errors |-> m2.errors]
      BY DEF With
    <3> HIDE DEF test, condition
    <3> QED  BY <1>7, <3>2, <3>3, <3>4
  <2>2. CASE part[2] # Null
    <3>1. m2 = m1
      BY <1>8, <2>2, SameWith
    <3>2. Has(m1, part[2], "Expr", Len(m1.nodes))
      BY <1>9, <2>2, OptionalHas
    <3>3. condition = part[2] /\ test = round
      BY <2>2
    <3> QED  BY <1>8, <1>9, <3>1, <3>2, <3>3, LaterSelf
  <2> QED  BY <2>1, <2>2
<1> HIDE DEF m2, test, condition
<1>11. /\ Well(m2) /\ Has(m2, part[1], "OptionalStmt", Len(m2.nodes))
       /\ Has(m2, body, "Stmt", Len(m2.nodes))
  BY <1>6, <1>8, <1>9, <1>10 DEF Later
<1>12. /\ Later(m2, m3) /\ m3.nodes = loop
       /\ Has(m3, Top(loop), "Stmt", Len(m3.nodes))
       /\ m3 = [tokens |-> m3.tokens, nodes |-> m3.nodes, errors |-> m3.errors]
  <2> DEFINE two == <<condition, body>>
  <2>1. IsSeq(two) /\ Takes("While", Len(two), SortsOf(m2, two, Len(m2.nodes)))
    BY <1>10, <1>11, TakesMade, TuplesAre
  <2>2. loop = Plus(m2.nodes, "While", two)
    BY <1>10
  <2> HIDE DEF two
  <2>3. LET k == With(m2, Plus(m2.nodes, "While", two))
        IN  /\ Later(m2, k) /\ k.nodes = Plus(m2.nodes, "While", two)
            /\ Has(k, Top(k.nodes), SortOf("While"), Len(k.nodes))
    BY <1>11, <2>1, LaterPlus
  <2>4. m3 = [tokens |-> m3.tokens, nodes |-> m3.nodes, errors |-> m3.errors]
    BY DEF With
  <2> HIDE DEF loop
  <2> QED  BY <1>7, <2>2, <2>3, <2>4
<1> HIDE DEF m3, loop
<1>13. Well(m3) /\ Has(m3, part[1], "OptionalStmt", Len(m3.nodes))
  BY <1>6, <1>11, <1>12 DEF Later
<1>14. Later(m3, m4) /\ m4.nodes = all /\ Has(m4, Top(all), "Stmt", Len(m4.nodes))
  <2>1. CASE part[1] = Null
    <3>1. m4 = m3
      BY <1>12, <2>1, SameWith
    <3> QED  BY <1>12, <1>13, <2>1, <3>1, LaterSelf
  <2>2. CASE part[1] # Null
    <3> DEFINE two == <<part[1], Top(loop)>>
    <3>1. Has(m3, part[1], "Stmt", Len(m3.nodes))
      BY <1>13, <2>2, OptionalHas
    <3>2. IsSeq(two) /\ Takes("Block", Len(two), SortsOf(m3, two, Len(m3.nodes)))
      BY <1>12, <3>1, TakesMade, TuplesAre
    <3>3. all = Plus(m3.nodes, "Block", two)
      BY <1>12, <2>2
    <3> HIDE DEF two
    <3>4. LET k == With(m3, Plus(m3.nodes, "Block", two))
          IN  /\ Later(m3, k) /\ k.nodes = Plus(m3.nodes, "Block", two)
              /\ Has(k, Top(k.nodes), SortOf("Block"), Len(k.nodes))
      BY <1>13, <3>2, LaterPlus
    <3> HIDE DEF all
    <3> QED  BY <1>7, <3>3, <3>4
  <2> QED  BY <2>1, <2>2
<1>15. m4 = Made'
  <2>1. m3.tokens = tokens /\ m3.errors = errors
    BY <1>3, <1>8, <1>10, <1>12 DEF Later
  <2>2. tokens' = tokens /\ errors' = errors /\ nodes' = all
    BY <1>1 DEF source
  <2> HIDE DEF all
  <2> QED  BY <2>1, <2>2 DEF Made, With
<1> HIDE DEF m4
<1>16. Later(m, m4)
  <2>1. Later(m, m2)
    BY <1>3, <1>8, <1>10, LaterStill
  <2>2. Later(m, m3)
    BY <1>3, <1>12, <2>1, LaterStill
  <2> QED  BY <1>3, <1>14, <2>2, LaterStill
<1> DEFINE k == Made'
    u == held'
    v == Top(all)
<1>17. Well(k) /\ Grown(Made, k) /\ Has(k, v, "Stmt", Len(k.nodes)) /\ "Stmt" \in Sorts
  BY <1>6, <1>14, <1>15, <1>16 DEF Later, m
<1>18. u = Append(SubSeq(held, 1, Len(held) - 4), v)
  BY <1>1
<1> HIDE DEF v, all, k, u
<1>19. Calling("for_desugared") /\ todo' = Tail(todo) /\ Gives(p[0], p[1], 4, "Stmt")
  BY <1>1, <1>2
<1> QED  BY <1>17, <1>18, <1>19, Ends DEF k, u

-----------------------------------------------------------------------------
(* The parser.                                                             *)

LEMMA InitSound ==
    ASSUME Init
    PROVE  \E p : Sound(p)
<1> DEFINE e == <<>>
    task == Rule("parse")
    tasks == <<task>>
    p == [i \in 0 .. 1 |-> e]
<1>1. PICK t : tokens = <<t>>
  BY DEF Init
<1>2. todo = tasks /\ held = e /\ nodes = e /\ errors = e
  BY DEF Init
<1>3. p[0] = e /\ p[1] = e
  OBVIOUS
<1>4. IsSeq(e) /\ Len(e) = 0
  BY TuplesAre
<1>5. IsSeq(tasks) /\ Len(tasks) = 1 /\ tasks[1] = task /\ task.is = "parse"
  BY TuplesAre DEF Rule
<1>6. IsSeq(tokens) /\ Len(tokens) = 1
  BY <1>1, TuplesAre
<1> HIDE DEF e, p, task, tasks
<1>7. (\A j \in 1 .. 0 : FALSE) /\ \A i \in 1 .. 1 : i = 1 /\ i - 1 = 0
  OBVIOUS
<1>8. Well(Made)
  <2>1. Made.tokens = tokens /\ Made.nodes = e /\ Made.errors = e
    BY <1>2 DEF Made
  <2> QED  BY <1>4, <1>6, <1>7, <2>1 DEF Well
<1>9. Works(task, e, e)
  BY <1>4, <1>5, <1>7 DEF Works
<1>10. Plan(tasks, p)
  <2>1. \A i \in 0 .. 1 : i = 0 \/ i = 1
    OBVIOUS
  <2> QED  BY <1>3, <1>4, <1>5, <1>7, <1>9, <2>1 DEF Plan, Safe
<1>11. Holds(Made, held, p[0])
  BY <1>2, <1>3, <1>4, <1>7 DEF Holds
<1>12. Sound(p)
  BY <1>2, <1>8, <1>10, <1>11 DEF Sound
<1> QED  BY <1>12

LEMMA StutterSound ==
    ASSUME NEW p, Sound(p), UNCHANGED vars
    PROVE  (\E q : Sound(q))'
<1>1. tokens' = tokens /\ nodes' = nodes /\ errors' = errors
  BY DEF vars
<1>2. todo' = todo /\ held' = held
  BY DEF vars
<1>3. Made' = Made
  BY <1>1 DEF Made
<1>4. Sound(p)'
  BY <1>2, <1>3 DEF Sound
<1> QED  BY <1>4

LEMMA NextSound ==
    ASSUME NEW p, Sound(p), Next
    PROVE  (\E q : Sound(q))'
<1>1. CASE Parse
  BY <1>1, ParseSound
<1>2. CASE Declaration
  BY <1>2, DeclarationSound
<1>3. CASE EndDeclaration
  BY <1>3, EndDeclarationSound
<1>4. CASE ClassDeclaration
  BY <1>4, ClassDeclarationSound
<1>5. CASE NextMethod
  BY <1>5, NextMethodSound
<1>6. CASE Statement
  BY <1>6, StatementSound
<1>7. CASE ExpressionStatement
  BY <1>7, ExpressionStatementSound
<1>8. CASE VarDeclaration
  BY <1>8, VarDeclarationSound
<1>9. CASE ForInitialiser
  BY <1>9, ForInitialiserSound
<1>10. CASE ForDesugared
  BY <1>10, ForDesugaredSound
<1>11. CASE NextStatement
  BY <1>11, NextStatementSound
<1>12. CASE FunctionRule
  BY <1>12, FunctionRuleSound
<1>13. CASE BeginList
  BY <1>13, BeginListSound
<1>14. CASE ListItem
  BY <1>14, ListItemSound
<1>15. CASE NextItem
  BY <1>15, NextItemSound
<1>16. CASE Assignment
  BY <1>16, AssignmentSound
<1>17. CASE NextOperator
  BY <1>17, NextOperatorSound
<1>18. CASE AssignmentValue
  BY <1>18, AssignmentValueSound
<1>19. CASE AssignTo
  BY <1>19, AssignToSound
<1>20. CASE Unary
  BY <1>20, UnarySound
<1>21. CASE CallOrGet
  BY <1>21, CallOrGetSound
<1>22. CASE Primary
  BY <1>22, PrimarySound
<1>23. CASE Consume
  BY <1>23, ConsumeSound
<1>24. CASE MakeTree
  BY <1>24, MakeTreeSound
<1>25. CASE ExpressionUnless
  BY <1>25, ExpressionUnlessSound
<1>26. CASE AfterMatch
  BY <1>26, AfterMatchSound
<1>27. CASE Synchronise
  BY <1>27, SynchroniseSound
<1>28. CASE Synchronising
  BY <1>28, SynchronisingSound
<1> QED  BY <1>1, <1>2, <1>3, <1>4, <1>5, <1>6, <1>7, <1>8, <1>9, <1>10, <1>11, <1>12,
            <1>13, <1>14, <1>15, <1>16, <1>17, <1>18, <1>19, <1>20, <1>21, <1>22, <1>23,
            <1>24, <1>25, <1>26, <1>27, <1>28 DEF Next

IsSound == \E p : Sound(p)

LEMMA AlwaysSound ==
    ParserSpec => []IsSound
<1>1. Init => IsSound
  BY InitSound DEF IsSound
<1>2. IsSound /\ [Next]_vars => IsSound'
  BY NextSound, StutterSound DEF IsSound
<1> QED  BY <1>1, <1>2, PTL DEF ParserSpec

\* The tokens are the ones of the input.
Read == IsSeq(tokens) /\ Len(tokens) > 0 /\ \A i \in 1 .. Len(tokens) : tokens[i] \in KindsAt(i)

LEMMA InitRead ==
    ASSUME Init
    PROVE  Read
<1>1. PICK t \in KindsAt(1) : tokens = <<t>>
  BY DEF Init
<1> DEFINE s == <<t>>
<1>2. IsSeq(s) /\ Len(s) = 1
  BY TuplesAre
<1>3. s[1] = t /\ tokens = s /\ \A i \in 1 .. 1 : i = 1
  BY <1>1
<1> HIDE DEF s
<1>4. Len(s) > 0 /\ \A i \in 1 .. Len(s) : s[i] \in KindsAt(i)
  BY <1>1, <1>2, <1>3
<1> QED  BY <1>2, <1>3, <1>4 DEF Read

LEMMA SourceKept ==
    ASSUME Read, Advance \/ UNCHANGED source
    PROVE  Read'
<1>1. CASE UNCHANGED source
  <2>1. input' = input /\ tokens' = tokens
    BY <1>1 DEF source
  <2> QED  BY <2>1 DEF Read, KindsAt
<1>2. CASE \E t \in KindsAt(At + 1) : tokens' = Append(tokens, t) /\ UNCHANGED input
  <2>1. PICK t \in KindsAt(Len(tokens) + 1) : tokens' = Append(tokens, t) /\ input' = input
    BY <1>2 DEF At
  <2>2. /\ IsSeq(tokens') /\ Len(tokens') = Len(tokens) + 1 /\ Len(tokens) \in Nat
        /\ tokens'[Len(tokens) + 1] = t
        /\ \A i \in 1 .. Len(tokens) : tokens'[i] = tokens[i]
    BY <2>1, AppendIs DEF Read, IsSeq
  <2>3. \A i : KindsAt(i)' = KindsAt(i)
    BY <2>1 DEF KindsAt
  <2>4. ASSUME NEW i \in 1 .. Len(tokens') PROVE tokens'[i] \in KindsAt(i)
    <3>1. i \in 1 .. Len(tokens) \/ i = Len(tokens) + 1
      BY <2>2
    <3> QED  BY <2>1, <2>2, <3>1 DEF Read
  <2>5. Len(tokens') > 0
    BY <2>2
  <2> QED  BY <2>2, <2>3, <2>4, <2>5 DEF Read
<1> QED  BY <1>1, <1>2 DEF Advance

LEMMA NextSource ==
    ASSUME Next
    PROVE  Advance \/ UNCHANGED source
<1>1. \A tasks, values : /\ Step(tasks, values) => UNCHANGED source
                         /\ Match(tasks, values) => Advance
  BY DEF Step, Match
<1>2. Throw => UNCHANGED source
  BY DEF Throw
<1>3. \A type, parts, n : MakeNode(type, parts, n) => UNCHANGED source
  BY DEF MakeNode
<1>4. Parse \/ Declaration \/ EndDeclaration \/ ClassDeclaration \/ NextMethod
          => Advance \/ UNCHANGED source
  BY <1>1 DEF Parse, Declaration, EndDeclaration, ClassDeclaration, NextMethod
<1>5. Statement \/ ExpressionStatement \/ VarDeclaration \/ ForInitialiser
          => Advance \/ UNCHANGED source
  BY <1>1 DEF Statement, ExpressionStatement, VarDeclaration, ForInitialiser
<1>6. ForDesugared \/ ListItem => UNCHANGED source
  BY DEF ForDesugared, ListItem
<1>7. NextStatement \/ FunctionRule \/ BeginList \/ NextItem
          => Advance \/ UNCHANGED source
  BY <1>1 DEF NextStatement, FunctionRule, BeginList, NextItem
<1>8. Assignment \/ NextOperator \/ AssignmentValue \/ Unary \/ CallOrGet
          => Advance \/ UNCHANGED source
  BY <1>1 DEF Assignment, NextOperator, AssignmentValue, Unary, CallOrGet
<1>9. AssignTo => UNCHANGED source
  BY <1>3 DEF AssignTo
<1>10. Primary \/ Consume => Advance \/ UNCHANGED source
  BY <1>1, <1>2 DEF Primary, Consume
<1>11. MakeTree => UNCHANGED source
  BY <1>3 DEF MakeTree
<1>12. ExpressionUnless \/ AfterMatch \/ Synchronise \/ Synchronising
          => Advance \/ UNCHANGED source
  BY <1>1 DEF ExpressionUnless, AfterMatch, Synchronise, Synchronising
<1> QED  BY <1>4, <1>5, <1>6, <1>7, <1>8, <1>9, <1>10, <1>11, <1>12 DEF Next

LEMMA AlwaysRead ==
    ParserSpec => []Read
<1>1. Init => Read
  BY InitRead
<1>2. Read /\ [Next]_vars => Read'
  <2>1. UNCHANGED vars => UNCHANGED source
    BY DEF vars, source
  <2> QED  BY <2>1, NextSource, SourceKept
<1> QED  BY <1>1, <1>2, PTL DEF ParserSpec

LEMMA SoundTyped ==
    ASSUME NEW p, Sound(p), Read
    PROVE  TypeOK
<1>1. /\ Well(Made) /\ Holds(Made, held, p[0]) /\ Made.tokens = tokens
      /\ Made.nodes = nodes /\ Made.errors = errors
  BY DEF Sound, Made
<1>2. /\ DOMAIN tokens = 1 .. Len(tokens) /\ DOMAIN nodes = 1 .. Len(nodes)
      /\ DOMAIN errors = 1 .. Len(errors)
  BY <1>1, WellIs
<1>3. IsSeq(held) /\ DOMAIN held = 1 .. Len(held) /\ Len(held) = Len(p[0])
  BY <1>1, SeqIs DEF Holds
<1>4. ASSUME NEW i \in DOMAIN held
      PROVE  /\ held[i].is \in {"token", "tree", "null"}
             /\ held[i].is = "token" => held[i].at \in DOMAIN tokens
             /\ held[i].is = "tree" => held[i].at \in DOMAIN nodes
  <2> DEFINE v == held[i]
      x == p[0][i]
  <2>1. x \in Sorts /\ Has(Made, v, x, Len(nodes))
    BY <1>1, <1>3 DEF Holds
  <2> HIDE DEF v, x
  <2>2. \/ \E j \in DOMAIN tokens : v = Token(j)
        \/ \E j \in 1 .. Len(nodes) : v = Tree(j)
        \/ v = Null
    <3>1. \A types : PointsTo(Made, v, types, Len(nodes)) =>
              \E j \in 1 .. Len(nodes) : v = Tree(j)
      BY DEF PointsTo
    <3>2. CASE x = "Token"
      BY <1>1, <2>1, <3>2 DEF Has
    <3>3. CASE x = "Expr"
      BY <2>1, <3>1, <3>3 DEF Has
    <3>4. CASE x = "Stmt"
      BY <2>1, <3>1, <3>4 DEF Has
    <3>5. CASE x = "Function"
      BY <2>1, <3>1, <3>5 DEF Has
    <3>6. CASE x = "OptionalExpr"
      BY <2>1, <3>1, <3>6 DEF Has
    <3>7. CASE x = "OptionalStmt"
      BY <2>1, <3>1, <3>7 DEF Has
    <3>8. CASE x = "Declared"
      BY <2>1, <3>1, <3>8 DEF Has
    <3> QED  BY <2>1, <3>2, <3>3, <3>4, <3>5, <3>6, <3>7, <3>8 DEF Sorts
  <2>3. /\ v.is \in {"token", "tree", "null"}
        /\ v.is = "token" => v.at \in DOMAIN tokens
        /\ v.is = "tree" => v.at \in DOMAIN nodes
    BY <1>2, <2>2 DEF Token, Tree, Null
  <2> QED  BY <2>3 DEF v
<1>5. \A i \in DOMAIN errors : /\ errors[i].kind \in {"syntax", "target", "limit"}
                               /\ errors[i].at \in DOMAIN tokens
  BY <1>1, <1>2 DEF Well
<1>6. \A i \in DOMAIN tokens : tokens[i] \in KindsAt(i)
  BY <1>2 DEF Read
<1> QED  BY <1>4, <1>5, <1>6 DEF TypeOK

LEMMA SoundFormed ==
    ASSUME NEW p, Sound(p)
    PROVE  TreesFormed
<1>1. /\ Well(Made) /\ Plan(todo, p) /\ Holds(Made, held, p[0])
      /\ Made.nodes = nodes
  BY DEF Sound, Made
<1>2. DOMAIN nodes = 1 .. Len(nodes)
  BY <1>1, WellIs
<1>3. \A i \in DOMAIN nodes : Formed(Made, i)
  BY <1>1, <1>2 DEF Well
<1>4. ASSUME Finished, NEW j \in DOMAIN held
      PROVE  Has(Made, held[j], "Declared", Len(nodes))
  <2>1. Len(todo) = 0
    BY <1>4, TuplesAre DEF Finished
  <2>2. j \in 1 .. Len(p[0])
    BY <1>1, SeqIs DEF Holds
  <2>3. p[0][j] = "Declared"
    BY <1>1, <2>1, <2>2 DEF Plan
  <2> QED  BY <1>1, <2>2, <2>3 DEF Holds
<1> QED  BY <1>3, <1>4 DEF TreesFormed

LEMMA SoundCaught ==
    ASSUME NEW p, Sound(p)
    PROVE  ErrorsCaught
<1> SUFFICES ASSUME NEW name \in {"consume", "primary"}, Calling(name)
             PROVE  \E i \in DOMAIN todo : Catches(i)
  BY DEF ErrorsCaught
<1>1. /\ Plan(todo, p) /\ IsSeq(todo) /\ Len(todo) \in Nat \ {0} /\ todo[1].is = name
  BY CallingIs DEF Sound
<1>2. DOMAIN todo = 1 .. Len(todo) /\ 1 \in 1 .. Len(todo)
  BY <1>1, SeqIs
<1> DEFINE C == {i \in 1 .. Len(todo) : todo[i].is = "caught"}
<1>3. C # {} /\ C \subseteq Nat
  <2>1. PICK i \in 1 + 1 .. Len(todo) : todo[i].is = "caught"
    BY <1>1, <1>2 DEF Plan, Safe
  <2>2. i \in C
    BY <1>1, <2>1
  <2> QED  BY <1>1, <2>2
<1>4. PICK i \in C : \A j \in C : i <= j
  BY <1>3, Least
<1>5. ASSUME NEW j \in 1 .. i - 1, todo[j].is = "caught" PROVE FALSE
  <2>1. j \in C /\ ~ (i <= j)
    BY <1>1, <1>4, <1>5
  <2> QED  BY <1>4, <2>1
<1> QED  BY <1>2, <1>4, <1>5 DEF Catches

\* Every variable has values of its type: what is held are tokens that have been
\* read, nodes that have been made and null pointers, and every error that is
\* reported is at a token.
THEOREM ParserTypes ==
    ParserSpec => []TypeOK
<1>1. IsSound /\ Read => TypeOK
  BY SoundTyped DEF IsSound
<1> QED  BY <1>1, AlwaysSound, AlwaysRead, PTL

\* Every node has the parts that its constructor takes, and parse returns
\* statements, and null pointers only after an error (Expr.hpp, Stmt.hpp and the
\* functions of Parser.cpp).
THEOREM ParserFormsTrees ==
    ParserSpec => []TreesFormed
<1>1. IsSound => TreesFormed
  BY SoundFormed DEF IsSound
<1> QED  BY <1>1, AlwaysSound, PTL

\* A ParseError does not leave parse: a declaration catches it (Parser.cpp,
\* declaration).
THEOREM ParserCatchesErrors ==
    ParserSpec => []ErrorsCaught
<1>1. IsSound => ErrorsCaught
  BY SoundCaught DEF IsSound
<1> QED  BY <1>1, AlwaysSound, PTL
=============================================================================
