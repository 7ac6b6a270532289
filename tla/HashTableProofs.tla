-------------------------- MODULE HashTableProofs --------------------------
(***************************************************************************)
(* What the hash table guarantees for every set of keys, every hash        *)
(* function and every size: the inductive invariant IInv of HashTable, and *)
(* that the table implements the map of Dictionary.                        *)
(***************************************************************************)
EXTENDS HashTable, FiniteSetTheorems, TLAPS

USE HashTableAssumption

\* The tables of n slots.
Table(n) == [0 .. n - 1 -> Elem \cup {Empty}]

\* The elements in a table.
Elements(d) == {d[p] : p \in Occupied(d)}

\* No two slots hold the same key.
Distinct(d) == \A p, q \in Occupied(d) : d[p].key = d[q].key => p = q

-----------------------------------------------------------------------------
(* Numbers.                                                                *)

\* A set of natural numbers that is not empty has a least element.
LEMMA Least ==
    ASSUME NEW S, S \subseteq Nat, S # {}
    PROVE  \E x \in S : \A y \in S : x <= y
<1>1. IsWellFoundedOn(OpToRel(<, Nat), Nat)
  BY NatLessThanWellFounded, Zenon
<1>2. PICK x \in S : \A y \in S : ~ (<<y, x>> \in OpToRel(<, Nat))
  BY <1>1, WFMin, Zenon
<1>3. \A m, n \in Nat : m < n => <<m, n>> \in OpToRel(<, Nat)
  BY Zenon DEF OpToRel
<1>4. \A y \in S : ~ (y < x)
  BY <1>2, <1>3, Zenon
<1> QED  BY <1>4

LEMMA ModRange ==
    ASSUME NEW a \in Nat, NEW n \in Nat \ {0}
    PROVE  a % n \in 0 .. n - 1
OBVIOUS

\* pos = (pos + 1) & mask_
LEMMA NextSlot ==
    ASSUME NEW n \in Nat \ {0}, NEW p \in 0 .. n - 1
    PROVE  (p + 1) % n = IF p + 1 = n THEN 0 ELSE p + 1
OBVIOUS

-----------------------------------------------------------------------------
(* Tables.                                                                 *)

\* The capacity of a table, its slots and the set of those in use.
LEMMA TableFacts ==
    ASSUME NEW n \in Nat, NEW d \in Table(n)
    PROVE  /\ Capacity(d) = n
           /\ DOMAIN d = 0 .. n - 1
           /\ Occupied(d) \subseteq 0 .. n - 1
           /\ IsFiniteSet(Occupied(d))
           /\ Cardinality(Occupied(d)) \in Nat
           /\ \A p \in Occupied(d) : d[p] \in Elem
<1>1. DOMAIN d = 0 .. n - 1
  BY DEF Table
<1>2. IsFiniteSet(0 .. n - 1) /\ Cardinality(0 .. n - 1) = n
  BY FS_Interval
<1>3. Occupied(d) \subseteq 0 .. n - 1
  BY <1>1 DEF Occupied
<1>4. IsFiniteSet(Occupied(d)) /\ Cardinality(Occupied(d)) \in Nat
  BY <1>2, <1>3, FS_Subset, FS_CardinalityType
<1>5. \A p \in Occupied(d) : d[p] \in Elem
  BY DEF Table, Occupied
<1> QED  BY <1>1, <1>2, <1>3, <1>4, <1>5 DEF Capacity

\* An empty table.
LEMMA EmptyTableFacts ==
    ASSUME NEW n \in Nat
    PROVE  /\ EmptyTable(n) \in Table(n)
           /\ Occupied(EmptyTable(n)) = {}
           /\ Cardinality(Occupied(EmptyTable(n))) = 0
BY FS_EmptySet DEF EmptyTable, Table, Occupied

\* The home of a key is a slot of the table.
LEMMA HomeRange ==
    ASSUME NEW n \in Nat \ {0}, NEW d \in Table(n), NEW k \in Key
    PROVE  Home(d, k) \in 0 .. n - 1
BY TableFacts, ModRange DEF Home

\* Offsets from one slot number the slots of the table.
LEMMA OffsetFacts ==
    ASSUME NEW n \in Nat \ {0}, NEW d \in Table(n), NEW s \in 0 .. n - 1,
           NEW p \in 0 .. n - 1, NEW q \in 0 .. n - 1
    PROVE  /\ Offset(d, s, p) \in 0 .. n - 1
           /\ Offset(d, s, p) = Offset(d, s, q) => p = q
BY TableFacts DEF Offset

\* So do the distances from the home of a key.
LEMMA DistanceFacts ==
    ASSUME NEW n \in Nat \ {0}, NEW d \in Table(n), NEW k \in Key,
           NEW p \in 0 .. n - 1, NEW q \in 0 .. n - 1
    PROVE  /\ Distance(d, k, p) \in 0 .. n - 1
           /\ Distance(d, k, p) = Distance(d, k, q) => p = q
BY HomeRange, OffsetFacts DEF Distance

\* The slot at the least distance.
LEMMA FirstFacts ==
    ASSUME NEW n \in Nat \ {0}, NEW d \in Table(n), NEW k \in Key,
           NEW S, S \subseteq 0 .. n - 1, S # {}
    PROVE  /\ First(d, k, S) \in S
           /\ \A q \in S : Distance(d, k, First(d, k, S)) <= Distance(d, k, q)
<1> DEFINE D == {Distance(d, k, q) : q \in S}
<1>1. \A q \in S : Distance(d, k, q) \in Nat
  BY DistanceFacts
<1>2. \E x \in D : \A y \in D : x <= y
  <2>1. D \subseteq Nat /\ D # {}
    BY <1>1
  <2> QED  BY <2>1, Least, Zenon
<1>3. \E p \in S : \A q \in S : Distance(d, k, p) <= Distance(d, k, q)
  BY <1>2
<1> QED  BY <1>3 DEF First

\* find_new_pos ends at a slot that is empty or holds the key, and no empty slot
\* is nearer; when the key is in the table and its run unbroken, at its slot.
LEMMA FindNewPosFacts ==
    ASSUME NEW n \in Nat \ {0}, NEW d \in Table(n), NEW k \in Key,
           Cardinality(Occupied(d)) < n
    PROVE  LET f == FindNewPos(d, k)
           IN  /\ f \in 0 .. n - 1
               /\ f \in Occupied(d) => d[f].key = k
               /\ f \in Occupied(d) \/ d[f] = Empty
               /\ \A q \in DOMAIN d \ Occupied(d) :
                      Distance(d, k, f) <= Distance(d, k, q)
               /\ \A p \in Occupied(d) :
                      d[p].key = k /\ Distinct(d) /\ Unbroken(d, p) => f = p
<1> DEFINE f == FindNewPos(d, k)
<1>1. DOMAIN d = 0 .. n - 1 /\ Occupied(d) \subseteq 0 .. n - 1
  BY TableFacts
<1>2. DOMAIN d # Occupied(d)
  BY <1>1, FS_Interval
<1>3. StopsAt(d, k) \subseteq 0 .. n - 1 /\ StopsAt(d, k) # {}
  BY <1>1, <1>2 DEF StopsAt, Holding
<1>4. /\ f \in StopsAt(d, k)
      /\ \A q \in StopsAt(d, k) : Distance(d, k, f) <= Distance(d, k, q)
  BY <1>3, FirstFacts DEF FindNewPos
<1> HIDE DEF f
<1>5. ASSUME NEW p \in Occupied(d), d[p].key = k, Distinct(d), Unbroken(d, p)
      PROVE  f = p
  <2>1. p \in StopsAt(d, k)
    BY <1>5 DEF StopsAt, Holding
  <2>2. ASSUME f \notin Occupied(d)
        PROVE  FALSE
    <3>1. Distance(d, k, p) < Distance(d, k, f)
      BY <1>1, <1>3, <1>4, <1>5, <2>2 DEF Unbroken, InRunFrom, Distance
    <3>2. Distance(d, k, f) <= Distance(d, k, p)
      BY <1>4, <2>1
    <3>3. Distance(d, k, f) \in Nat /\ Distance(d, k, p) \in Nat
      <4>1. f \in 0 .. n - 1 /\ p \in 0 .. n - 1
        BY <1>1, <1>3, <1>4
      <4> QED  BY <4>1, DistanceFacts
    <3> QED  BY <3>1, <3>2, <3>3
  <2>3. d[f].key = k
    BY <1>4, <2>2 DEF StopsAt, Holding
  <2> QED  BY <1>5, <2>2, <2>3 DEF Distinct
<1>6. f \in Occupied(d) => d[f].key = k
  BY <1>4 DEF StopsAt, Holding
<1>7. f \in Occupied(d) \/ d[f] = Empty
  BY <1>1, <1>3, <1>4 DEF Occupied
<1>8. \A q \in DOMAIN d \ Occupied(d) : Distance(d, k, f) <= Distance(d, k, q)
  BY <1>4 DEF StopsAt
<1> QED  BY <1>3, <1>4, <1>5, <1>6, <1>7, <1>8, Zenon DEF f

\* A run from a slot is not broken when slots are filled.
LEMMA FilledRuns ==
    ASSUME NEW n \in Nat \ {0}, NEW d \in Table(n), NEW i \in Table(n),
           Occupied(d) \subseteq Occupied(i), NEW s, NEW p,
           InRunFrom(d, s, p)
    PROVE  InRunFrom(i, s, p)
BY TableFacts DEF InRunFrom, Offset

\* Inserting an element: one slot takes it, in an unbroken run from its home,
\* and the others are as they were.
LEMMA InsertFacts ==
    ASSUME NEW n \in Nat \ {0}, NEW d \in Table(n), NEW e \in Elem,
           Cardinality(Occupied(d)) < n, Distinct(d),
           \A p \in Occupied(d) : d[p].key = e.key => Unbroken(d, p)
    PROVE  LET f == FindNewPos(d, e.key)
               i == Insert(d, e)
           IN  /\ i \in Table(n)
               /\ f \in 0 .. n - 1
               /\ i = [d EXCEPT ![f] = e]
               /\ Occupied(i) = Occupied(d) \cup {f}
               /\ f \in Occupied(d) <=> d[f] # Empty
               /\ Distinct(i)
               /\ Unbroken(i, f)
               /\ \A p \in Occupied(d) : d[p].key = e.key => p = f
               /\ \A p \in Occupied(d) : Unbroken(d, p) => Unbroken(i, p)
               /\ Elements(i) = {x \in Elements(d) : x.key # e.key} \cup {e}
<1> DEFINE f == FindNewPos(d, e.key)
           i == Insert(d, e)
<1>1. e.key \in Key /\ e # Empty
  BY DEF Elem
<1>2. /\ DOMAIN d = 0 .. n - 1 /\ Occupied(d) \subseteq 0 .. n - 1
      /\ \A p \in Occupied(d) : d[p] \in Elem
  BY TableFacts
<1>3. /\ f \in 0 .. n - 1
      /\ f \in Occupied(d) => d[f].key = e.key
      /\ f \in Occupied(d) \/ d[f] = Empty
      /\ \A q \in DOMAIN d \ Occupied(d) :
            Distance(d, e.key, f) <= Distance(d, e.key, q)
      /\ \A p \in Occupied(d) :
            d[p].key = e.key /\ Distinct(d) /\ Unbroken(d, p) => f = p
  BY <1>1, FindNewPosFacts
<1> HIDE DEF f
<1>4. i = [d EXCEPT ![f] = e] /\ i \in Table(n)
  BY <1>3 DEF Insert, Table, f
<1>5. \A p \in 0 .. n - 1 : i[p] = IF p = f THEN e ELSE d[p]
  BY <1>2, <1>4
<1>6. DOMAIN i = 0 .. n - 1 /\ Capacity(i) = n /\ Capacity(d) = n
  BY <1>4, TableFacts
<1> HIDE DEF i
<1>7. Occupied(i) = Occupied(d) \cup {f}
  BY <1>1, <1>2, <1>3, <1>5, <1>6 DEF Occupied
<1>8. f \in Occupied(d) <=> d[f] # Empty
  BY <1>2, <1>3 DEF Occupied
<1>9. \A p \in Occupied(d) : d[p].key = e.key => p = f
  BY <1>3
<1>10. Distinct(i)
  BY <1>2, <1>3, <1>5, <1>7, <1>9 DEF Distinct
<1>11. Unbroken(i, f)
  <2> SUFFICES ASSUME NEW q \in DOMAIN i \ Occupied(i)
               PROVE  Offset(i, Home(i, e.key), f) < Offset(i, Home(i, e.key), q)
    BY <1>3, <1>5 DEF Unbroken, InRunFrom
  <2>1. q \in DOMAIN d \ Occupied(d) /\ q # f /\ q \in 0 .. n - 1
    BY <1>2, <1>6, <1>7
  <2>2. Home(i, e.key) = Home(d, e.key)
    BY <1>6 DEF Home
  <2>3. /\ Offset(i, Home(i, e.key), f) = Distance(d, e.key, f)
        /\ Offset(i, Home(i, e.key), q) = Distance(d, e.key, q)
    BY <1>6, <2>2 DEF Distance, Offset
  <2>4. /\ Distance(d, e.key, f) \in Nat /\ Distance(d, e.key, q) \in Nat
        /\ Distance(d, e.key, f) # Distance(d, e.key, q)
    BY <1>1, <1>3, <2>1, DistanceFacts
  <2> QED  BY <1>3, <2>1, <2>3, <2>4
<1>12. ASSUME NEW p \in Occupied(d), Unbroken(d, p)
       PROVE  Unbroken(i, p)
  <2>1. CASE p = f
    BY <1>11, <2>1
  <2>2. CASE p # f
    <3>1. i[p] = d[p] /\ Home(i, i[p].key) = Home(d, d[p].key)
      BY <1>2, <1>5, <1>6, <2>2 DEF Home
    <3> QED  BY <1>4, <1>7, <1>12, <3>1, FilledRuns DEF Unbroken
  <2> QED  BY <2>1, <2>2
<1>13. Elements(i) = {x \in Elements(d) : x.key # e.key} \cup {e}
  BY <1>2, <1>3, <1>5, <1>7, <1>9 DEF Elements
<1> QED
  BY <1>3, <1>4, <1>7, <1>8, <1>9, <1>10, <1>11, <1>12, <1>13, Zenon DEF f, i

\* Inserting an element whose key is not in the table: it takes an empty slot.
LEMMA InsertNewFacts ==
    ASSUME NEW n \in Nat \ {0}, NEW d \in Table(n), NEW e \in Elem,
           Cardinality(Occupied(d)) < n, Distinct(d),
           \A p \in Occupied(d) : d[p].key # e.key
    PROVE  LET f == FindNewPos(d, e.key)
               i == Insert(d, e)
           IN  /\ i \in Table(n)
               /\ Capacity(i) = n /\ DOMAIN i = DOMAIN d
               /\ Occupied(i) = Occupied(d) \cup {f}
               /\ i[f] = e
               /\ \A p \in Occupied(d) : i[p] = d[p]
               /\ Cardinality(Occupied(i)) = Cardinality(Occupied(d)) + 1
               /\ Distinct(i)
               /\ Unbroken(i, f)
               /\ \A p \in Occupied(d) : Unbroken(d, p) => Unbroken(i, p)
               /\ Elements(i) = Elements(d) \cup {e}
<1> DEFINE f == FindNewPos(d, e.key)
           i == Insert(d, e)
<1>1. e.key \in Key
  BY DEF Elem
<1>2. /\ DOMAIN d = 0 .. n - 1 /\ Occupied(d) \subseteq 0 .. n - 1
      /\ IsFiniteSet(Occupied(d))
  BY TableFacts
<1>3. f \notin Occupied(d)
  BY <1>1, FindNewPosFacts
<1>4. /\ i \in Table(n)
      /\ f \in 0 .. n - 1
      /\ i = [d EXCEPT ![f] = e]
      /\ Occupied(i) = Occupied(d) \cup {f}
      /\ Distinct(i)
      /\ Unbroken(i, f)
      /\ \A p \in Occupied(d) : Unbroken(d, p) => Unbroken(i, p)
      /\ Elements(i) = {x \in Elements(d) : x.key # e.key} \cup {e}
  BY InsertFacts
<1> HIDE DEF f, i
<1>5. Capacity(i) = n /\ DOMAIN i = DOMAIN d
  BY <1>2, <1>4, TableFacts
<1>6. Cardinality(Occupied(i)) = Cardinality(Occupied(d)) + 1
  BY <1>2, <1>3, <1>4, FS_AddElement, Zenon
<1>7. i[f] = e /\ \A p \in Occupied(d) : i[p] = d[p]
  BY <1>2, <1>3, <1>4
<1>8. Elements(i) = Elements(d) \cup {e}
  BY <1>4 DEF Elements
<1> QED
  BY <1>3, <1>4, <1>5, <1>6, <1>7, <1>8, Zenon DEF f, i

\* Where an element is taken out, what was in a run from s still is, or is in
\* the run that begins behind the gap.
LEMMA TakeOutRuns ==
    ASSUME NEW n \in Nat \ {0}, NEW d \in Table(n), NEW c \in Table(n),
           NEW p \in Occupied(d), Occupied(c) = Occupied(d) \ {p},
           NEW s \in 0 .. n - 1, NEW x \in Occupied(c), InRunFrom(d, s, x)
    PROVE  /\ InRunFrom(c, s, x) \/ InRunFrom(c, (p + 1) % n, x)
           /\ s = p => InRunFrom(c, (p + 1) % n, x)
<1>1. /\ DOMAIN d = 0 .. n - 1 /\ DOMAIN c = 0 .. n - 1
      /\ Capacity(d) = n /\ Capacity(c) = n
      /\ p \in 0 .. n - 1 /\ x \in 0 .. n - 1 /\ x # p
  BY TableFacts
<1>2. \A q \in (0 .. n - 1) \ Occupied(d) : Offset(d, s, x) < Offset(d, s, q)
  BY <1>1 DEF InRunFrom
<1>3. (p + 1) % n = IF p + 1 = n THEN 0 ELSE p + 1
  BY <1>1, NextSlot
<1>4. CASE Offset(d, s, x) < Offset(d, s, p)
  <2>1. InRunFrom(c, s, x)
    BY <1>1, <1>2, <1>4 DEF InRunFrom, Offset
  <2>2. s # p
    BY <1>1, <1>4 DEF Offset
  <2> QED  BY <2>1, <2>2
<1>5. CASE ~(Offset(d, s, x) < Offset(d, s, p))
  <2> DEFINE t == IF p + 1 = n THEN 0 ELSE p + 1
  <2> SUFFICES ASSUME NEW q \in (0 .. n - 1) \ Occupied(c)
               PROVE  Offset(c, t, x) < Offset(c, t, q)
    BY <1>1, <1>3 DEF InRunFrom
  <2>1. CASE q = p
    BY <1>1, <2>1 DEF Offset
  <2>2. CASE q # p
    <3>1. Offset(d, s, x) < Offset(d, s, q)
      BY <1>2, <2>2
    <3> QED  BY <1>1, <1>5, <2>2, <3>1 DEF Offset
  <2> QED  BY <2>1, <2>2
<1> QED  BY <1>4, <1>5

\* c is the table d after the slot p has been reset.
TakenOut(n, d, p, c) ==
    /\ c \in Table(n)
    /\ Occupied(c) = Occupied(d) \ {p}
    /\ Cardinality(Occupied(c)) = Cardinality(Occupied(d)) - 1
    /\ Distinct(c)
    /\ \A x \in Occupied(c) : c[x] = d[x] /\ c[x].key # d[p].key
    /\ \A x \in Occupied(c) : Unbroken(d, x) =>
            Unbroken(c, x) \/ InRunFrom(c, (p + 1) % n, x)
    /\ \A x \in Occupied(c) :
            InRunFrom(d, p, x) => InRunFrom(c, (p + 1) % n, x)
    /\ Elements(c) = Elements(d) \ {d[p]}

\* Resetting a slot that is in use.
LEMMA TakeOutFacts ==
    ASSUME NEW n \in Nat \ {0}, NEW d \in Table(n), NEW p \in Occupied(d),
           Distinct(d), NEW c, c = [d EXCEPT ![p] = Empty]
    PROVE  TakenOut(n, d, p, c)
<1>1. /\ DOMAIN d = 0 .. n - 1 /\ Occupied(d) \subseteq 0 .. n - 1
      /\ IsFiniteSet(Occupied(d)) /\ Capacity(d) = n
      /\ \A x \in Occupied(d) : d[x] \in Elem
  BY TableFacts
<1>2. c \in Table(n) /\ \A x \in 0 .. n - 1 : c[x] = IF x = p THEN Empty ELSE d[x]
  BY <1>1 DEF Table
<1>3. DOMAIN c = 0 .. n - 1 /\ Capacity(c) = n
  BY <1>2, TableFacts
<1>4. Occupied(c) = Occupied(d) \ {p}
  BY <1>1, <1>2, <1>3 DEF Occupied
<1>5. Cardinality(Occupied(c)) = Cardinality(Occupied(d)) - 1
  <2>1. Cardinality(Occupied(d) \ {p}) =
            IF p \in Occupied(d) THEN Cardinality(Occupied(d)) - 1
                                 ELSE Cardinality(Occupied(d))
    BY <1>1, FS_RemoveElement, Zenon
  <2> QED  BY <1>4, <2>1
<1>6. \A x \in Occupied(c) : c[x] = d[x] /\ c[x].key # d[p].key
  BY <1>1, <1>2, <1>4 DEF Distinct
<1>7. Distinct(c)
  BY <1>4, <1>6 DEF Distinct
<1>8. ASSUME NEW x \in Occupied(c), Unbroken(d, x)
      PROVE  Unbroken(c, x) \/ InRunFrom(c, (p + 1) % n, x)
  <2> DEFINE s == Home(d, d[x].key)
  <2>1. s \in 0 .. n - 1
    BY <1>1, <1>4, HomeRange DEF Elem
  <2>2. Home(c, c[x].key) = s
    BY <1>1, <1>3, <1>6 DEF Home
  <2>3. InRunFrom(d, s, x)
    BY <1>8 DEF Unbroken
  <2> HIDE DEF s
  <2>4. InRunFrom(c, s, x) \/ InRunFrom(c, (p + 1) % n, x)
    BY <1>2, <1>4, <2>1, <2>3, TakeOutRuns
  <2> QED  BY <2>2, <2>4 DEF Unbroken
<1>9. ASSUME NEW x \in Occupied(c), InRunFrom(d, p, x)
      PROVE  InRunFrom(c, (p + 1) % n, x)
  BY <1>1, <1>2, <1>4, <1>9, TakeOutRuns
<1>10. Elements(c) = Elements(d) \ {d[p]}
  <2>1. \A x \in Occupied(c) : c[x] \in Elements(d) /\ c[x] # d[p]
    BY <1>4, <1>6 DEF Elements
  <2>2. \A x \in Occupied(d) \ {p} : d[x] \in Elements(c)
    BY <1>4, <1>6 DEF Elements
  <2>3. ASSUME NEW y \in Elements(d), y # d[p]
        PROVE  y \in Elements(c)
    <3>1. PICK x \in Occupied(d) : y = d[x]
      BY DEF Elements
    <3> QED  BY <2>2, <2>3, <3>1
  <2>4. ASSUME NEW y \in Elements(c)
        PROVE  y \in Elements(d) /\ y # d[p]
    BY <2>1 DEF Elements
  <2> QED  BY <2>3, <2>4
<1> QED
  BY <1>2, <1>4, <1>5, <1>6, <1>7, <1>8, <1>9, <1>10, Zenon DEF TakenOut

-----------------------------------------------------------------------------
(* Sets of elements.                                                       *)

\* What a set of elements with different keys holds under a key.
LEMMA LookupFacts ==
    ASSUME NEW S, \A x, y \in S : x.key = y.key => x = y, NEW k
    PROVE  /\ \A e \in S : e.key = k => Lookup(S, k) = e.val
           /\ (\A e \in S : e.key # k) => Lookup(S, k) = NoVal
BY DEF Lookup

\* Replacing the element of one key.
LEMMA LookupReplace ==
    ASSUME NEW S, \A x, y \in S : x.key = y.key => x = y, NEW e, NEW k,
           NEW T, T = {x \in S : x.key # e.key} \cup {e}
    PROVE  Lookup(T, k) = IF k = e.key THEN e.val ELSE Lookup(S, k)
<1>1. \A x, y \in T : x.key = y.key => x = y
  OBVIOUS
<1>2. CASE k = e.key
  BY <1>1, <1>2, LookupFacts
<1>3. CASE k # e.key
  <2>1. CASE \E x \in S : x.key = k
    <3> PICK x \in S : x.key = k
      BY <2>1
    <3>1. x \in T
      BY <1>3
    <3>2. Lookup(S, k) = x.val /\ Lookup(T, k) = x.val
      BY <1>1, <3>1, LookupFacts
    <3> QED  BY <1>3, <3>2
  <2>2. CASE \A x \in S : x.key # k
    <3>1. \A x \in T : x.key # k
      BY <1>3, <2>2
    <3> QED  BY <1>1, <1>3, <2>2, <3>1, LookupFacts
  <2> QED  BY <2>1, <2>2
<1> QED  BY <1>2, <1>3

\* Removing the element of one key.
LEMMA LookupRemove ==
    ASSUME NEW S, \A x, y \in S : x.key = y.key => x = y, NEW e \in S, NEW k
    PROVE  Lookup(S \ {e}, k) = IF k = e.key THEN NoVal ELSE Lookup(S, k)
<1> DEFINE T == S \ {e}
<1>1. \A x, y \in T : x.key = y.key => x = y
  OBVIOUS
<1>2. CASE k = e.key
  <2>1. \A x \in T : x.key # k
    BY <1>2
  <2> QED  BY <1>1, <1>2, <2>1, LookupFacts
<1>3. CASE k # e.key
  <2>1. CASE \E x \in S : x.key = k
    <3> PICK x \in S : x.key = k
      BY <2>1
    <3>1. x \in T
      BY <1>3
    <3>2. Lookup(S, k) = x.val /\ Lookup(T, k) = x.val
      BY <1>1, <3>1, LookupFacts
    <3> QED  BY <1>3, <3>2
  <2>2. CASE \A x \in S : x.key # k
    BY <1>1, <1>3, <2>2, LookupFacts
  <2> QED  BY <2>1, <2>2
<1> QED  BY <1>2, <1>3

-----------------------------------------------------------------------------
(* The state of the table.                                                 *)

\* What IInv says of the two tables and of what they store.
LEMMA StateFacts ==
    ASSUME IInv
    PROVE  /\ Capacity(data) \in Nat \ {0}
           /\ data \in Table(Capacity(data))
           /\ DOMAIN data = 0 .. Capacity(data) - 1
           /\ Cardinality(Occupied(data)) \in Nat
           /\ Cardinality(Occupied(data)) < Capacity(data)
           /\ \A p \in Occupied(data) : data[p] \in Elem
           /\ Distinct(data)
           /\ Capacity(old_data) \in Nat
           /\ old_data \in Table(Capacity(old_data))
           /\ DOMAIN old_data = 0 .. Capacity(old_data) - 1
           /\ \A q \in Occupied(old_data) : old_data[q] \in Elem
           /\ Stored = Elements(data) \cup {old_data[q] : q \in Waiting}
           /\ \A x, y \in Stored : x.key = y.key => x = y
<1>1. Capacity(data) \in Nat \ {0} /\ data \in Table(Capacity(data))
  BY DEF IInv, TypeOK, Room, Table
<1>2. Capacity(old_data) \in Nat /\ old_data \in Table(Capacity(old_data))
  BY DEF IInv, TypeOK, Table
<1>3. /\ DOMAIN data = 0 .. Capacity(data) - 1
      /\ Cardinality(Occupied(data)) \in Nat
      /\ \A p \in Occupied(data) : data[p] \in Elem
  BY <1>1, TableFacts
<1>4. /\ DOMAIN old_data = 0 .. Capacity(old_data) - 1
      /\ \A q \in Occupied(old_data) : old_data[q] \in Elem
  BY <1>2, TableFacts
<1>5. Cardinality(Occupied(data)) < Capacity(data)
  BY <1>1, <1>3 DEF IInv, TypeOK, Room
<1>6. Distinct(data)
  BY DEF IInv, KeysDistinct, Distinct
<1>7. Stored = Elements(data) \cup {old_data[q] : q \in Waiting}
  BY DEF Stored, Elements
<1>8. \A x, y \in Stored : x.key = y.key => x = y
  BY DEF IInv, KeysDistinct, Stored
<1> QED  BY <1>1, <1>2, <1>3, <1>4, <1>5, <1>6, <1>7, <1>8

\* Nothing waits when there is no old table.
LEMMA NothingWaits ==
    /\ old_data = EmptyTable(0) => Waiting = {}
    /\ old_data' = EmptyTable(0) => Waiting' = {}
    /\ Capacity(EmptyTable(0)) = 0
    /\ EmptyTable(0) \in [0 .. 0 - 1 -> Elem \cup {Empty}]
BY EmptyTableFacts, TableFacts DEF Waiting, Table

\* Between the rehashes the table is all that is stored.
LEMMA NoOldTable ==
    ASSUME IInv, pc # "rehash"
    PROVE  /\ datum = Empty /\ old_data = EmptyTable(0) /\ Waiting = {}
           /\ Stored = Elements(data)
           /\ \A x, y \in Stored : x.key = y.key => x = y
           /\ Contents = [k \in Key |-> Lookup(Stored, k)]
<1>1. datum = Empty /\ old_data = EmptyTable(0)
  BY DEF IInv, RehashLocals
<1>2. Waiting = {}
  BY <1>1, NothingWaits, Zenon
<1>3. Stored = Elements(data)
  BY <1>2 DEF Stored, Elements
<1>4. \A x, y \in Stored : x.key = y.key => x = y
  BY StateFacts, Zenon
<1>5. Contents = [k \in Key |-> Lookup(Stored, k)]
  BY <1>1 DEF Contents
<1> QED  BY <1>1, <1>2, <1>3, <1>4, <1>5

\* operator[] with room for the element: it is in the table, the others are
\* still there, and the count of used slots is not exceeded.
LEMMA ClaimStep ==
    ASSUME IInv, pc # "shift", used < max_used, NEW e \in Elem, Claim(e)
    PROVE  /\ data' \in Table(Capacity(data))
           /\ Capacity(data') = Capacity(data)
           /\ DOMAIN data' = DOMAIN data
           /\ Distinct(data')
           /\ Cardinality(Occupied(data')) <= used'
           /\ used' \in Nat /\ used' <= max_used
           /\ \A p \in Occupied(data') : Unbroken(data', p)
           /\ Elements(data')
                = {x \in Elements(data) : x.key # e.key} \cup {e}
<1> DEFINE n == Capacity(data)
           f == FindNewPos(data, e.key)
<1>1. n \in Nat \ {0} /\ data \in Table(n) /\ Distinct(data)
      /\ Cardinality(Occupied(data)) \in Nat /\ Cardinality(Occupied(data)) < n
  BY StateFacts
<1>2. \A p \in Occupied(data) : Unbroken(data, p)
  BY DEF IInv, RunsMended
<1>3. data' = Insert(data, e)
  BY DEF Claim
<1>4. /\ data' \in Table(n)
      /\ Occupied(data') = Occupied(data) \cup {f}
      /\ f \in Occupied(data) <=> data[f] # Empty
      /\ Distinct(data')
      /\ Unbroken(data', f)
      /\ \A p \in Occupied(data) : Unbroken(data, p) => Unbroken(data', p)
      /\ Elements(data') = {x \in Elements(data) : x.key # e.key} \cup {e}
  BY <1>1, <1>2, <1>3, InsertFacts
<1> HIDE DEF f
<1>5. Capacity(data') = n /\ DOMAIN data' = DOMAIN data
  BY <1>1, <1>4, TableFacts
<1>6. Cardinality(Occupied(data'))
        = IF f \in Occupied(data) THEN Cardinality(Occupied(data))
                                  ELSE Cardinality(Occupied(data)) + 1
  <2>1. IsFiniteSet(Occupied(data))
    BY <1>1, TableFacts
  <2>2. CASE f \in Occupied(data)
    <3>1. Occupied(data') = Occupied(data)
      BY <1>4, <2>2
    <3> QED  BY <2>2, <3>1
  <2>3. CASE f \notin Occupied(data)
    BY <1>4, <2>1, <2>3, FS_AddElement, Zenon
  <2> QED  BY <2>2, <2>3
<1>7. used' = used + (IF f \in Occupied(data) THEN 0 ELSE 1)
  BY <1>4 DEF Claim, f
<1>8. /\ used \in Nat /\ max_used \in Nat
      /\ Cardinality(Occupied(data)) <= used
  BY DEF IInv, TypeOK, Room
<1>9. /\ Cardinality(Occupied(data')) <= used'
      /\ used' \in Nat /\ used' <= max_used
  BY <1>1, <1>6, <1>7, <1>8
<1> QED  BY <1>2, <1>4, <1>5, <1>9

\* rehash begins: an empty table of twice the size, and every element of the
\* old one waits.
LEMMA BeginRehashStep ==
    ASSUME IInv, used >= max_used,
           NEW n, n = Capacity(data), NEW d \in Table(n), Distinct(d),
           Cardinality(Occupied(d)) <= used,
           NEW e \in Elem, NEW from \in {"idle", "shift"},
           from = "shift" => \A p \in Occupied(d) : d[p].key # e.key,
           BeginRehash(d, e, from), pos' \in DOMAIN data
    PROVE  /\ IInv'
           /\ Stored' = Elements(d)
           /\ datum' = e
<1> USE DEF BeginRehash
<1>1. n \in Nat \ {0} /\ data \in Table(n) /\ DOMAIN data = 0 .. n - 1
  BY StateFacts
<1>2. /\ Capacity(d) = n /\ DOMAIN d = 0 .. n - 1
      /\ Occupied(d) \subseteq 0 .. n - 1
      /\ Cardinality(Occupied(d)) \in Nat
  BY <1>1, TableFacts
<1>3. data' \in Table(2 * n) /\ 2 * n \in Nat
  BY <1>1, <1>2, EmptyTableFacts
<1>4. /\ Occupied(data') = {} /\ Cardinality(Occupied(data')) = 0
      /\ Capacity(data') = 2 * n /\ DOMAIN data' = 0 .. 2 * n - 1
  BY <1>1, <1>2, <1>3, EmptyTableFacts, TableFacts
<1>5. Waiting' = Occupied(d)
  BY <1>2 DEF Waiting
<1>6. /\ used \in Nat /\ max_used \in Nat /\ max_used > 0
      /\ used = max_used /\ max_used < n
  BY DEF IInv, TypeOK, Room, RehashLocals
<1>7. TypeOK'
  BY <1>1, <1>2, <1>3, <1>4, <1>6 DEF IInv, TypeOK, Table
<1>8. Room'
  BY <1>1, <1>4, <1>6 DEF Room
<1>9. RehashLocals'
  BY <1>1, <1>4, <1>6 DEF RehashLocals, Elem
<1>10. RehashFits'
  BY <1>2, <1>4, <1>5, <1>6 DEF RehashFits
<1>11. KeysDistinct'
  BY <1>4, <1>5 DEF KeysDistinct, Distinct
<1>12. RunsMended'
  BY <1>4 DEF RunsMended
<1>13. Stored' = Elements(d)
  BY <1>4, <1>5 DEF Stored, Elements
<1> QED
  BY <1>7, <1>8, <1>9, <1>10, <1>11, <1>12, <1>13 DEF IInv

-----------------------------------------------------------------------------
(* The actions.                                                            *)

\* The map after an assignment to one key.
LEMMA AssignStep ==
    ASSUME IInv, NEW k \in Key, NEW v \in Val, Assign(k, v)
    PROVE  IInv' /\ Map!Assign(k, v)
<1> DEFINE e == [key |-> k, val |-> v]
<1>1. e \in Elem /\ e.key = k /\ e.val = v /\ e # Empty
  BY DEF Elem
<1>2. /\ pc = "idle" /\ answer' = [found |-> NoVal] /\ pos' = pos
      /\ \/ /\ used < max_used
            /\ Claim(e)
            /\ UNCHANGED <<max_used, old_data, next, datum, pc, caller>>
         \/ used >= max_used /\ BeginRehash(data, e, "idle")
  BY DEF Assign
<1> HIDE DEF e
<1>3. datum = Empty /\ old_data = EmptyTable(0) /\ pos \in DOMAIN data
  BY <1>2 DEF IInv, RehashLocals
<1>4. /\ \A x, y \in Stored : x.key = y.key => x = y
      /\ Stored = Elements(data)
      /\ Contents = [j \in Key |-> Lookup(Stored, j)]
  BY <1>2, NoOldTable
<1>5. CASE used < max_used /\ Claim(e)
           /\ UNCHANGED <<max_used, old_data, next, datum, pc, caller>>
  <2>1. /\ data' \in Table(Capacity(data))
        /\ Capacity(data') = Capacity(data)
        /\ DOMAIN data' = DOMAIN data
        /\ Distinct(data')
        /\ Cardinality(Occupied(data')) <= used'
        /\ used' \in Nat /\ used' <= max_used
        /\ \A p \in Occupied(data') : Unbroken(data', p)
        /\ Elements(data') = {x \in Elements(data) : x.key # k} \cup {e}
    BY <1>1, <1>2, <1>5, ClaimStep
  <2>2. Waiting' = {}
    BY <1>3, <1>5, NothingWaits
  <2>3. TypeOK'
    BY <1>1, <1>2, <1>5, <2>1 DEF IInv, TypeOK, Table
  <2>4. Room'
    BY <1>5, <2>1 DEF IInv, Room
  <2>5. RehashLocals' /\ RehashFits' /\ RunsMended'
    BY <1>2, <1>3, <1>5, <2>1
       DEF IInv, RehashLocals, RehashFits, RunsMended
  <2>6. KeysDistinct'
    BY <1>2, <1>5, <2>1, <2>2 DEF KeysDistinct, Distinct
  <2>7. Stored' = {x \in Stored : x.key # k} \cup {e}
    BY <1>4, <2>1, <2>2 DEF Stored, Elements
  <2>8. \A j \in Key :
            Lookup(Stored', j) = IF j = k THEN v ELSE Lookup(Stored, j)
    BY <1>1, <1>4, <2>7, LookupReplace
  <2>9. Contents' = [j \in Key |-> Lookup(Stored', j)]
    BY <1>3, <1>5 DEF Contents
  <2>10. Contents' = [Contents EXCEPT ![k] = v]
    BY <1>4, <2>8, <2>9
  <2> QED
    BY <1>2, <2>3, <2>4, <2>5, <2>6, <2>10 DEF IInv, Map!Assign, Map!NoAnswer
<1>6. CASE used >= max_used /\ BeginRehash(data, e, "idle")
  <2>1. IInv' /\ Stored' = Stored /\ datum' = e
    BY <1>1, <1>2, <1>3, <1>4, <1>6, StateFacts, BeginRehashStep
       DEF IInv, Room
  <2>2. Contents' = [j \in Key |-> IF e.key = j THEN e.val
                                   ELSE Lookup(Stored, j)]
    BY <1>1, <2>1 DEF Contents
  <2>3. Contents' = [Contents EXCEPT ![k] = v]
    BY <1>1, <1>4, <2>2
  <2> QED  BY <1>2, <2>1, <2>3 DEF Map!Assign, Map!NoAnswer
<1> QED  BY <1>2, <1>5, <1>6

\* One slot of the old table is passed: its element, if any, is in the new
\* table instead, and the map is the same.
LEMMA RehashSlotStep ==
    ASSUME IInv, RehashSlot
    PROVE  IInv' /\ UNCHANGED <<Contents, answer>>
<1>1. /\ pc = "rehash" /\ next \in DOMAIN old_data /\ next' = next + 1
      /\ UNCHANGED <<used, max_used, old_data, datum, pos, pc, caller, answer>>
  BY DEF RehashSlot
<1> DEFINE n == Capacity(data)
           e == old_data[next]
<1>2. /\ n \in Nat \ {0} /\ data \in Table(n) /\ Distinct(data)
      /\ DOMAIN data = 0 .. n - 1
      /\ Cardinality(Occupied(data)) \in Nat /\ Cardinality(Occupied(data)) < n
      /\ IsFiniteSet(Occupied(data))
  BY StateFacts, TableFacts
<1>3. /\ DOMAIN old_data \in SUBSET Nat
      /\ Waiting \subseteq DOMAIN old_data
      /\ IsFiniteSet(Waiting)
      /\ \A q \in Waiting : old_data[q] \in Elem
  <2>1. IsFiniteSet(Occupied(old_data))
    BY StateFacts, TableFacts
  <2>2. Waiting \subseteq Occupied(old_data)
    BY DEF Waiting
  <2>3. IsFiniteSet(Waiting)
    BY <2>1, <2>2, FS_Subset
  <2> QED  BY <2>2, <2>3, StateFacts DEF Occupied
<1>4. Waiting' = Waiting \ {next}
  BY <1>1, <1>3 DEF Waiting, Occupied
<1>5. next \in Waiting <=> e # Empty
  BY <1>1, <1>3 DEF Waiting, Occupied
<1>6. CASE e = Empty
  <2>1. data' = data /\ Waiting' = Waiting
    BY <1>4, <1>5, <1>6 DEF RehashSlot
  <2>2. TypeOK'
    BY <1>1, <1>3, <2>1 DEF IInv, TypeOK
  <2>3. /\ Room' /\ RehashLocals' /\ RehashFits' /\ KeysDistinct'
        /\ RunsMended'
    BY <1>1, <2>1
       DEF IInv, Room, RehashLocals, RehashFits, KeysDistinct, RunsMended
  <2>4. Contents' = Contents
    BY <1>1, <2>1 DEF Contents, Stored
  <2> QED  BY <1>1, <2>2, <2>3, <2>4 DEF IInv
<1>7. CASE e # Empty
  <2> DEFINE f == FindNewPos(data, e.key)
  <2>1. data' = Insert(data, e)
    BY <1>7 DEF RehashSlot
  <2>2. e \in Elem /\ next \in Waiting
    BY <1>3, <1>5, <1>7
  <2>3. \A p \in Occupied(data) : data[p].key # e.key
    BY <2>2 DEF IInv, KeysDistinct
  <2>4. \A q \in Waiting \ {next} : old_data[q].key # e.key
    BY <2>2 DEF IInv, KeysDistinct
  <2>5. caller = "shift" => e.key # datum.key
    BY <1>1, <2>2 DEF IInv, KeysDistinct
  <2>6. {old_data[q] : q \in Waiting}
            = {old_data[q] : q \in Waiting \ {next}} \cup {e}
    BY <2>2
  <2> HIDE DEF e
  <2>7. /\ data' \in Table(n)
        /\ Capacity(data') = n /\ DOMAIN data' = DOMAIN data
        /\ Occupied(data') = Occupied(data) \cup {f}
        /\ data'[f] = e
        /\ \A p \in Occupied(data) : data'[p] = data[p]
        /\ Cardinality(Occupied(data')) = Cardinality(Occupied(data)) + 1
        /\ Distinct(data')
        /\ Unbroken(data', f)
        /\ \A p \in Occupied(data) : Unbroken(data, p) => Unbroken(data', p)
        /\ Elements(data') = Elements(data) \cup {e}
    BY <1>2, <2>1, <2>2, <2>3, InsertNewFacts
  <2> HIDE DEF f, n
  <2>8. /\ Cardinality(Waiting') = Cardinality(Waiting) - 1
        /\ Cardinality(Waiting) \in Nat /\ Cardinality(Waiting') \in Nat
    BY <1>3, <1>4, <2>2, FS_RemoveElement, FS_CardinalityType
  <2>9. TypeOK'
    <3>1. next' \in Nat /\ Capacity(data') \in Nat
      BY <1>1, <1>2, <1>3, <2>7
    <3> QED  BY <1>1, <2>7, <3>1 DEF IInv, TypeOK, Table
  <2>10. RehashFits' /\ Room'
    <3>1. /\ used \in Nat /\ max_used \in Nat /\ max_used < n
          /\ Cardinality(Occupied(data)) + Cardinality(Waiting) <= used
          /\ used < max_used
      BY <1>1 DEF IInv, TypeOK, Room, RehashFits, n
    <3> QED  BY <1>1, <1>2, <2>7, <2>8, <3>1 DEF Room, RehashFits
  <2>11. RehashLocals'
    BY <1>1, <2>7 DEF IInv, RehashLocals
  <2>12. KeysDistinct'
    <3>1. \A p, q \in Occupied(data') : data'[p].key = data'[q].key => p = q
      BY <2>7 DEF Distinct
    <3>2. \A p, q \in Waiting' : old_data'[p].key = old_data'[q].key => p = q
      BY <1>1, <1>4 DEF IInv, KeysDistinct
    <3>3. \A p \in Occupied(data'), q \in Waiting' :
                data'[p].key # old_data'[q].key
      BY <1>1, <1>4, <2>4, <2>7 DEF IInv, KeysDistinct
    <3>4. caller = "shift" =>
              /\ \A p \in Occupied(data') : data'[p].key # datum.key
              /\ \A q \in Waiting' : old_data[q].key # datum.key
      BY <1>1, <1>4, <2>5, <2>7 DEF IInv, KeysDistinct
    <3> QED  BY <1>1, <3>1, <3>2, <3>3, <3>4 DEF KeysDistinct
  <2>13. RunsMended'
    BY <1>1, <2>7 DEF IInv, RunsMended
  <2>14. Stored' = Stored
    <3>1. Stored' = Elements(data') \cup {old_data[q] : q \in Waiting'}
      BY <1>1 DEF Stored, Elements
    <3> QED  BY <1>4, <2>6, <2>7, <3>1, StateFacts
  <2>15. Contents' = Contents
    BY <1>1, <2>14 DEF Contents
  <2> QED
    BY <1>1, <2>9, <2>10, <2>11, <2>12, <2>13, <2>15 DEF IInv
<1> QED  BY <1>6, <1>7

\* The element operator[] was called with is claimed after a rehash: the map has
\* been the one after the assignment since the call began.
LEMMA EndRehashStep ==
    ASSUME IInv, EndRehash
    PROVE  IInv' /\ UNCHANGED <<Contents, answer>>
<1>1. /\ pc = "rehash" /\ next \notin DOMAIN old_data
      /\ Claim(datum)
      /\ old_data' = EmptyTable(0) /\ next' = 0 /\ datum' = Empty
      /\ pc' = caller
      /\ UNCHANGED <<max_used, pos, caller, answer>>
  BY DEF EndRehash
<1>2. datum \in Elem /\ datum # Empty /\ caller \in {"idle", "shift"}
  BY <1>1 DEF IInv, TypeOK, RehashLocals
<1>3. Waiting = {}
  BY <1>1, StateFacts DEF IInv, TypeOK, Waiting, Occupied
<1>4. used < max_used
  BY <1>1 DEF IInv, RehashFits
<1>5. /\ data' \in Table(Capacity(data))
      /\ Capacity(data') = Capacity(data)
      /\ DOMAIN data' = DOMAIN data
      /\ Distinct(data')
      /\ Cardinality(Occupied(data')) <= used'
      /\ used' \in Nat /\ used' <= max_used
      /\ \A p \in Occupied(data') : Unbroken(data', p)
      /\ Elements(data') = {x \in Elements(data) : x.key # datum.key}
                                \cup {datum}
  BY <1>1, <1>2, <1>4, ClaimStep
<1>6. Waiting' = {}
  BY <1>1, NothingWaits
<1>7. TypeOK'
  <2>1. /\ Capacity(old_data') = 0
        /\ old_data' \in [0 .. Capacity(old_data') - 1 -> Elem \cup {Empty}]
    BY <1>1, NothingWaits, Zenon
  <2> QED  BY <1>1, <1>2, <1>5, <2>1 DEF IInv, TypeOK, Table
<1>8. Room'
  BY <1>1, <1>5 DEF IInv, Room
<1>9. RehashLocals' /\ RehashFits' /\ RunsMended'
  BY <1>1, <1>2, <1>5 DEF IInv, RehashLocals, RehashFits, RunsMended
<1>10. KeysDistinct'
  BY <1>1, <1>2, <1>5, <1>6 DEF KeysDistinct, Distinct
<1>11. /\ Stored' = {x \in Stored : x.key # datum.key} \cup {datum}
       /\ \A x, y \in Stored : x.key = y.key => x = y
  <2>1. Stored = Elements(data) /\ Stored' = Elements(data')
    BY <1>3, <1>6 DEF Stored, Elements
  <2> QED  BY <1>5, <2>1, StateFacts
<1>12. \A k \in Key : Lookup(Stored', k) = IF k = datum.key THEN datum.val
                                           ELSE Lookup(Stored, k)
  BY <1>11, LookupReplace
<1>13. /\ Contents = [k \in Key |-> IF datum.key = k THEN datum.val
                                    ELSE Lookup(Stored, k)]
       /\ Contents' = [k \in Key |-> Lookup(Stored', k)]
  BY <1>1, <1>2 DEF Contents
<1>14. Contents' = Contents
  BY <1>12, <1>13
<1> QED  BY <1>1, <1>7, <1>8, <1>9, <1>10, <1>14 DEF IInv

\* find_pos finds the slot of the key, if there is one.
LEMMA FindPosFacts ==
    ASSUME IInv, NEW k \in Key
    PROVE  /\ FindPos(data, k) # Capacity(data) =>
                /\ FindPos(data, k) \in Occupied(data)
                /\ data[FindPos(data, k)].key = k
           /\ FindPos(data, k) = Capacity(data) =>
                \A p \in Occupied(data) : data[p].key # k
<1> DEFINE n == Capacity(data)
<1>1. /\ n \in Nat \ {0} /\ data \in Table(n)
      /\ Occupied(data) \subseteq 0 .. n - 1
  BY StateFacts, TableFacts
<1>2. Holding(data, k) \subseteq 0 .. n - 1
  BY <1>1 DEF Holding
<1>3. CASE Holding(data, k) = {}
  BY <1>3 DEF FindPos, Holding
<1>4. CASE Holding(data, k) # {}
  <2>1. First(data, k, Holding(data, k)) \in Holding(data, k)
    BY <1>1, <1>2, <1>4, FirstFacts
  <2>2. FindPos(data, k) \in Holding(data, k)
    BY <1>4, <2>1 DEF FindPos
  <2> QED  BY <1>1, <1>2, <2>2 DEF Holding
<1> QED  BY <1>3, <1>4

\* The slot of a key is reset: the map loses the key, and what the gap cuts off
\* from its home is in the run behind it.
LEMMA EraseStep ==
    ASSUME IInv, NEW k \in Key, Erase(k)
    PROVE  IInv' /\ Map!Remove(k)
<1> DEFINE p == FindPos(data, k)
           n == Capacity(data)
<1>1. /\ pc = "idle" /\ answer' = [found |-> NoVal]
      /\ UNCHANGED <<max_used, old_data, next, datum, caller>>
      /\ IF p = n THEN UNCHANGED <<data, used, pos, pc>>
                  ELSE /\ data' = [data EXCEPT ![p] = Empty]
                       /\ used' = used - 1 /\ pos' = p /\ pc' = "shift"
  BY DEF Erase
<1>2. /\ p # n => p \in Occupied(data) /\ data[p].key = k
      /\ p = n => \A q \in Occupied(data) : data[q].key # k
  BY FindPosFacts
<1>3. /\ n \in Nat \ {0} /\ data \in Table(n) /\ Distinct(data)
      /\ DOMAIN data = 0 .. n - 1 /\ Cardinality(Occupied(data)) \in Nat
  BY StateFacts
<1> HIDE DEF p, n
<1>4. /\ datum = Empty /\ old_data = EmptyTable(0) /\ Waiting = {}
      /\ Waiting' = {}
  BY <1>1, NoOldTable, NothingWaits
<1>5. /\ \A x, y \in Stored : x.key = y.key => x = y
      /\ Stored = Elements(data)
  BY <1>1, NoOldTable
<1>6. Stored' = Elements(data')
  BY <1>4 DEF Stored, Elements
<1>7. /\ Contents = [j \in Key |-> Lookup(Stored, j)]
      /\ Contents' = [j \in Key |-> Lookup(Stored', j)]
  BY <1>1, <1>4 DEF Contents
<1>8. CASE p = n
  <2>1. IInv'
    BY <1>1, <1>8 DEF IInv, TypeOK, Room, RehashLocals, RehashFits, Waiting,
                      KeysDistinct, RunsMended
  <2>2. Lookup(Stored, k) = NoVal
    BY <1>2, <1>5, <1>8, LookupFacts DEF Elements
  <2>3. Contents' = [Contents EXCEPT ![k] = NoVal]
    BY <1>1, <1>5, <1>6, <1>7, <1>8, <2>2
  <2> QED  BY <1>1, <2>1, <2>3 DEF Map!Remove, Map!NoAnswer
<1>9. CASE p # n
  <2>1. /\ data' = [data EXCEPT ![p] = Empty]
        /\ used' = used - 1 /\ pos' = p /\ pc' = "shift"
        /\ p \in Occupied(data) /\ data[p].key = k /\ p \in 0 .. n - 1
    BY <1>1, <1>2, <1>3, <1>9 DEF Occupied
  <2>2. /\ data' \in Table(n)
        /\ Occupied(data') = Occupied(data) \ {p}
        /\ Cardinality(Occupied(data')) = Cardinality(Occupied(data)) - 1
        /\ Distinct(data')
        /\ \A x \in Occupied(data') : Unbroken(data, x) =>
                Unbroken(data', x) \/ InRunFrom(data', (p + 1) % n, x)
        /\ Elements(data') = Elements(data) \ {data[p]}
    <3>1. TakenOut(n, data, p, data')
      BY <1>3, <2>1, TakeOutFacts
    <3> QED  BY <3>1 DEF TakenOut
  <2>3. Capacity(data') = n /\ DOMAIN data' = DOMAIN data
    BY <1>3, <2>2, TableFacts
  <2>4. Cardinality(Occupied(data')) \in Nat
    BY <1>3, <2>2, TableFacts
  <2>5. TypeOK' /\ Room'
    <3>1. /\ used \in Nat /\ max_used \in Nat
          /\ Cardinality(Occupied(data)) <= used /\ used <= max_used
          /\ max_used < n
      BY DEF IInv, TypeOK, Room, n
    <3>2. /\ Cardinality(Occupied(data')) <= used' /\ used' \in Nat
          /\ used' <= max_used
      BY <1>3, <2>1, <2>2, <2>4, <3>1
    <3>3. pos' \in Nat
      BY <1>3, <2>1
    <3> QED  BY <1>1, <1>3, <2>1, <2>2, <2>3, <3>1, <3>2, <3>3
                DEF IInv, TypeOK, Room, Table
  <2>6. RehashLocals' /\ RehashFits'
    BY <1>1, <1>3, <1>4, <2>1, <2>3 DEF IInv, RehashLocals, RehashFits
  <2>7. KeysDistinct'
    BY <1>4, <2>1, <2>2 DEF KeysDistinct, Distinct
  <2>8. RunsMended'
    <3>1. \A x \in Occupied(data) : Unbroken(data, x)
      BY <1>1 DEF IInv, RunsMended
    <3> QED  BY <2>1, <2>2, <2>3, <3>1 DEF RunsMended
  <2>9. Stored' = Stored \ {data[p]} /\ data[p] \in Stored
    BY <1>5, <1>6, <2>1, <2>2 DEF Elements
  <2>10. \A j \in Key :
            Lookup(Stored', j) = IF j = k THEN NoVal ELSE Lookup(Stored, j)
    BY <1>5, <2>1, <2>9, LookupRemove
  <2>11. Contents' = [Contents EXCEPT ![k] = NoVal]
    BY <1>7, <2>10
  <2> QED
    BY <1>1, <2>5, <2>6, <2>7, <2>8, <2>11 DEF IInv, Map!Remove, Map!NoAnswer
<1> QED  BY <1>8, <1>9

\* The next element of the run is taken out and inserted again, or the table
\* grows with it waiting to be inserted: the map is the same, and the elements
\* that are cut off from their home are still ahead of the loop.
LEMMA ShiftStep ==
    ASSUME IInv, Shift
    PROVE  IInv' /\ UNCHANGED <<Contents, answer>>
<1> DEFINE n == Capacity(data)
           p == (pos + 1) % n
           d == [data EXCEPT ![p] = Empty]
           e == data[p]
<1>1. /\ pc = "shift" /\ e # Empty /\ pos' = p /\ UNCHANGED answer
      /\ \/ /\ used < max_used
            /\ data' = Insert(d, e)
            /\ used' = used + 1
            /\ UNCHANGED <<max_used, old_data, next, datum, pc, caller>>
         \/ used >= max_used /\ BeginRehash(d, e, "shift")
  BY DEF Shift
<1>2. /\ n \in Nat \ {0} /\ data \in Table(n) /\ Distinct(data)
      /\ DOMAIN data = 0 .. n - 1 /\ Cardinality(Occupied(data)) \in Nat
      /\ Cardinality(Occupied(data)) < n
      /\ \A x \in Occupied(data) : data[x] \in Elem
  BY StateFacts
<1>3. p \in 0 .. n - 1
  BY <1>2, NextSlot DEF IInv, RehashLocals
<1>4. p \in Occupied(data) /\ e \in Elem
  BY <1>1, <1>2, <1>3 DEF Occupied
<1>5. \A x \in Occupied(data) : Unbroken(data, x) \/ InRunFrom(data, p, x)
  BY DEF IInv, RunsMended
<1> HIDE DEF p
<1> HIDE DEF n
<1>6. /\ d \in Table(n)
      /\ Occupied(d) = Occupied(data) \ {p}
      /\ Cardinality(Occupied(d)) = Cardinality(Occupied(data)) - 1
      /\ Distinct(d)
      /\ \A x \in Occupied(d) : d[x] = data[x] /\ d[x].key # e.key
      /\ \A x \in Occupied(d) : Unbroken(data, x) =>
              Unbroken(d, x) \/ InRunFrom(d, (p + 1) % n, x)
      /\ \A x \in Occupied(d) :
              InRunFrom(data, p, x) => InRunFrom(d, (p + 1) % n, x)
      /\ Elements(d) = Elements(data) \ {e}
  <2>1. TakenOut(n, data, p, d)
    BY <1>2, <1>4, TakeOutFacts
  <2> QED  BY <2>1 DEF TakenOut
<1>7. /\ datum = Empty /\ old_data = EmptyTable(0) /\ Waiting = {}
      /\ used \in Nat /\ max_used \in Nat
      /\ Cardinality(Occupied(data)) <= used
      /\ used <= max_used /\ max_used < n
  BY <1>1, NoOldTable DEF IInv, TypeOK, Room, n
<1>8. Stored = Elements(data) /\ e \in Stored
  BY <1>1, <1>4, NoOldTable DEF Elements
<1>9. /\ \A x, y \in Stored : x.key = y.key => x = y
      /\ Contents = [j \in Key |-> Lookup(Stored, j)]
  BY <1>1, NoOldTable
<1> HIDE DEF d, e
<1>10. /\ Cardinality(Occupied(d)) \in Nat /\ Cardinality(Occupied(d)) < n
       /\ Cardinality(Occupied(d)) + 1 <= used
       /\ DOMAIN d = 0 .. n - 1
       /\ \A x \in Occupied(d) : d[x].key # e.key
  <2>1. Cardinality(Occupied(d)) \in Nat /\ DOMAIN d = 0 .. n - 1
    BY <1>2, <1>6, TableFacts
  <2>2. \A x \in Occupied(d) : d[x].key # e.key
    BY <1>6
  <2> QED  BY <1>2, <1>6, <1>7, <2>1, <2>2
<1>11. CASE /\ used < max_used
            /\ data' = Insert(d, e)
            /\ used' = used + 1
            /\ UNCHANGED <<max_used, old_data, next, datum, pc, caller>>
  <2> DEFINE f == FindNewPos(d, e.key)
  <2>1. /\ data' \in Table(n)
        /\ Capacity(data') = n /\ DOMAIN data' = DOMAIN d
        /\ Occupied(data') = Occupied(d) \cup {f}
        /\ Cardinality(Occupied(data')) = Cardinality(Occupied(d)) + 1
        /\ Distinct(data')
        /\ Unbroken(data', f)
        /\ \A x \in Occupied(d) : Unbroken(d, x) => Unbroken(data', x)
        /\ Elements(data') = Elements(d) \cup {e}
    <3>1. n \in Nat \ {0} /\ d \in Table(n) /\ e \in Elem /\ Distinct(d)
      BY <1>2, <1>4, <1>6
    <3>2. data' = Insert(d, e)
      BY <1>11
    <3> QED  BY <1>10, <3>1, <3>2, InsertNewFacts
  <2> HIDE DEF f
  <2>2. DOMAIN data' = 0 .. n - 1
    BY <1>10, <2>1
  <2>3. Waiting' = {}
    BY <1>7, <1>11, NothingWaits
  <2>4. TypeOK' /\ Room'
    <3>1. /\ Cardinality(Occupied(data')) <= used' /\ used' \in Nat
          /\ used' <= max_used
      BY <1>7, <1>10, <1>11, <2>1
    <3>2. pos' \in Nat
      BY <1>1, <1>2, <1>3
    <3> QED  BY <1>2, <1>7, <1>11, <2>1, <3>1, <3>2
                DEF IInv, TypeOK, Room, Table
  <2>5. RehashLocals' /\ RehashFits'
    BY <1>1, <1>3, <1>7, <1>11, <2>2 DEF IInv, RehashLocals, RehashFits
  <2>6. KeysDistinct'
    BY <1>1, <1>11, <2>1, <2>3 DEF KeysDistinct, Distinct
  <2>7. RunsMended'
    <3> SUFFICES ASSUME NEW x \in Occupied(data'), ~ Unbroken(data', x)
                 PROVE  InRunFrom(data', (p + 1) % n, x)
      BY <1>1, <1>11, <2>1 DEF RunsMended
    <3>1. x \in Occupied(d) /\ ~ Unbroken(d, x)
      BY <2>1
    <3>2. InRunFrom(d, (p + 1) % n, x)
      BY <1>5, <1>6, <3>1
    <3> QED  BY <1>2, <1>6, <2>1, <3>2, FilledRuns
  <2>8. Stored' = Stored
    BY <1>6, <1>8, <2>1, <2>3 DEF Stored, Elements
  <2>9. Contents' = Contents
    BY <1>11, <2>8 DEF Contents
  <2> QED  BY <1>1, <2>4, <2>5, <2>6, <2>7, <2>9 DEF IInv
<1>12. CASE used >= max_used /\ BeginRehash(d, e, "shift")
  <2>1. pos' \in DOMAIN data /\ n = Capacity(data)
    BY <1>1, <1>2, <1>3 DEF n
  <2>2. IInv' /\ Stored' = Elements(d) /\ datum' = e
    <3>1. d \in Table(n) /\ e \in Elem /\ Distinct(d)
      BY <1>4, <1>6
    <3>2. Cardinality(Occupied(d)) <= used
      BY <1>7, <1>10
    <3>3. "shift" \in {"idle", "shift"} /\ BeginRehash(d, e, "shift")
      BY <1>12
    <3> QED
      BY <1>10, <1>12, <2>1, <3>1, <3>2, <3>3, BeginRehashStep
  <2>3. Stored' = Stored \ {e}
    BY <1>6, <1>8, <2>2
  <2>4. \A j \in Key : Lookup(Stored, j) = IF e.key = j THEN e.val
                                           ELSE Lookup(Stored', j)
    BY <1>8, <1>9, <2>3, LookupRemove, LookupFacts
  <2>5. Contents' = [j \in Key |-> IF e.key = j THEN e.val
                                   ELSE Lookup(Stored', j)]
    BY <1>1, <2>2 DEF Contents
  <2>6. Contents' = Contents
    BY <1>9, <2>4, <2>5
  <2> QED  BY <1>1, <2>2, <2>6
<1> QED  BY <1>1, <1>11, <1>12

\* The run ends at an empty slot, and nothing is cut off any more.
LEMMA EndShiftStep ==
    ASSUME IInv, EndShift
    PROVE  IInv' /\ UNCHANGED <<Contents, answer>>
<1> DEFINE n == Capacity(data)
           s == (pos + 1) % n
<1>1. /\ pc = "shift" /\ pc' = "idle" /\ data[s] = Empty
      /\ UNCHANGED <<data, used, max_used, old_data, next, datum, pos, caller,
                     answer>>
  BY DEF EndShift
<1>2. /\ n \in Nat \ {0} /\ data \in Table(n) /\ DOMAIN data = 0 .. n - 1
      /\ Occupied(data) \subseteq 0 .. n - 1
  BY StateFacts, TableFacts
<1>3. s \in (0 .. n - 1) \ Occupied(data)
  BY <1>1, <1>2, NextSlot DEF IInv, RehashLocals, Occupied
<1>4. \A x \in Occupied(data) : ~ InRunFrom(data, s, x)
  <2> HIDE DEF s, n
  <2>1. Offset(data, s, s) = 0
    BY <1>3 DEF Offset
  <2>2. \A x \in Occupied(data) : Offset(data, s, x) \in Nat
    BY <1>2, <1>3, OffsetFacts
  <2> QED  BY <1>2, <1>3, <2>1, <2>2 DEF InRunFrom
<1>5. RunsMended'
  BY <1>1, <1>4 DEF IInv, RunsMended
<1>6. TypeOK' /\ Room' /\ RehashLocals' /\ RehashFits' /\ KeysDistinct'
  BY <1>1 DEF IInv, TypeOK, Room, RehashLocals, RehashFits, Waiting, KeysDistinct
<1>7. Contents' = Contents
  BY <1>1 DEF Contents, Stored, Waiting
<1> QED  BY <1>1, <1>5, <1>6, <1>7 DEF IInv

\* A step that leaves the table alone.
LEMMA SameTable ==
    ASSUME IInv, UNCHANGED tableVars
    PROVE  IInv' /\ UNCHANGED Contents
<1> USE DEF tableVars
<1>1. TypeOK' /\ Room' /\ RehashLocals' /\ RehashFits' /\ KeysDistinct'
  BY DEF IInv, TypeOK, Room, RehashLocals, RehashFits, Waiting, KeysDistinct
<1>2. RunsMended'
  BY DEF IInv, RunsMended
<1>3. Contents' = Contents
  BY DEF Contents, Stored, Waiting
<1> QED  BY <1>1, <1>2, <1>3 DEF IInv

\* Between two calls both searches answer what the map holds.
LEMMA SearchStep ==
    ASSUME IInv, NEW k \in Key, At(k) \/ Get(k)
    PROVE  IInv' /\ Map!Lookup(k)
<1>1. pc = "idle" /\ UNCHANGED tableVars
  BY DEF At, Get
<1>2. IInv' /\ UNCHANGED Contents
  BY <1>1, SameTable
<1>3. /\ Stored = Elements(data)
      /\ \A x, y \in Stored : x.key = y.key => x = y
      /\ Contents = [j \in Key |-> Lookup(Stored, j)]
  BY <1>1, NoOldTable
<1>4. Contents[k] = Lookup(Stored, k)
  BY <1>3
<1>5. /\ \A x \in Occupied(data) : data[x].key = k => Contents[k] = data[x].val
      /\ (\A x \in Occupied(data) : data[x].key # k) => Contents[k] = NoVal
  <2>1. \A x \in Occupied(data) : data[x] \in Stored
    BY <1>3 DEF Elements
  <2>2. \A y \in Stored : \E x \in Occupied(data) : y = data[x]
    BY <1>3 DEF Elements
  <2>3. /\ \A y \in Stored : y.key = k => Lookup(Stored, k) = y.val
        /\ (\A y \in Stored : y.key # k) => Lookup(Stored, k) = NoVal
    BY <1>3, LookupFacts
  <2> QED  BY <1>4, <2>1, <2>2, <2>3
<1> DEFINE n == Capacity(data)
<1>6. /\ n \in Nat \ {0} /\ data \in Table(n) /\ Distinct(data)
      /\ DOMAIN data = 0 .. n - 1 /\ Occupied(data) \subseteq 0 .. n - 1
      /\ Cardinality(Occupied(data)) < n
  BY StateFacts, TableFacts
<1>7. CASE At(k)
  <2> DEFINE p == FindPos(data, k)
  <2>1. answer' = [key |-> k, found |->
            IF p \notin DOMAIN data \/ data[p] = Empty THEN NoVal
            ELSE data[p].val]
    BY <1>7 DEF At, Reply
  <2>2. /\ p # n => p \in Occupied(data) /\ data[p].key = k
        /\ p = n => \A q \in Occupied(data) : data[q].key # k
    BY FindPosFacts
  <2> HIDE DEF p
  <2>3. answer' = [key |-> k, found |-> Contents[k]]
    BY <1>5, <1>6, <2>1, <2>2 DEF Occupied
  <2> QED  BY <1>2, <2>3 DEF Map!Lookup
<1>8. CASE Get(k)
  <2> DEFINE p == FindNewPos(data, k)
  <2>1. answer' = [key |-> k, found |->
            IF p \notin DOMAIN data \/ data[p] = Empty THEN NoVal
            ELSE data[p].val]
    BY <1>8 DEF Get, Reply
  <2>2. \A x \in Occupied(data) : Unbroken(data, x)
    BY <1>1 DEF IInv, RunsMended
  <2>3. /\ p \in 0 .. n - 1
        /\ p \in Occupied(data) => data[p].key = k
        /\ p \in Occupied(data) \/ data[p] = Empty
        /\ \A x \in Occupied(data) : data[x].key = k => p = x
    BY <1>6, <2>2, FindNewPosFacts
  <2> HIDE DEF p
  <2>4. answer' = [key |-> k, found |-> Contents[k]]
    BY <1>5, <1>6, <2>1, <2>3 DEF Occupied
  <2> QED  BY <1>2, <2>4 DEF Map!Lookup
<1> QED  BY <1>7, <1>8

-----------------------------------------------------------------------------
(* The theorems.                                                           *)

\* An empty table holds nothing.
LEMMA InitStep ==
    ASSUME Init
    PROVE  IInv /\ Map!Init
<1> USE DEF Init
<1>1. /\ data \in Table(DefaultSize) /\ Capacity(data) = DefaultSize
      /\ DOMAIN data = 0 .. DefaultSize - 1
      /\ Occupied(data) = {} /\ Cardinality(Occupied(data)) = 0
      /\ DefaultSize > 0
  BY EmptyTableFacts, TableFacts
<1>2. Waiting = {} /\ Capacity(old_data) = 0
      /\ old_data \in [0 .. Capacity(old_data) - 1 -> Elem \cup {Empty}]
  BY NothingWaits, Zenon
<1>3. TypeOK
  BY <1>1, <1>2 DEF TypeOK, Table
<1>4. Room /\ RehashLocals /\ RehashFits /\ KeysDistinct /\ RunsMended
  BY <1>1, <1>2 DEF Room, RehashLocals, RehashFits, KeysDistinct, RunsMended
<1>5. Stored = {}
  BY <1>1, <1>2 DEF Stored
<1>6. Contents = [k \in Key |-> NoVal]
  BY <1>5 DEF Contents, Lookup
<1> QED  BY <1>3, <1>4, <1>6 DEF IInv, Map!Init, Map!NoAnswer

\* Every step keeps the invariant, and is a step of the map or changes neither
\* the map nor the answer.
LEMMA NextStep ==
    ASSUME IInv, [Next]_vars
    PROVE  IInv' /\ [Map!Next]_(Map!vars)
<1>1. ASSUME NEW k \in Key, NEW v \in Val, Assign(k, v)
      PROVE  IInv' /\ Map!Next
  BY <1>1, AssignStep DEF Map!Next
<1>2. ASSUME NEW k \in Key, Erase(k)
      PROVE  IInv' /\ Map!Next
  BY <1>2, EraseStep DEF Map!Next
<1>3. ASSUME NEW k \in Key, At(k) \/ Get(k)
      PROVE  IInv' /\ Map!Next
  BY <1>3, SearchStep DEF Map!Next
<1>4. CASE RehashSlot
  BY <1>4, RehashSlotStep DEF Map!vars
<1>5. CASE EndRehash
  BY <1>5, EndRehashStep DEF Map!vars
<1>6. CASE Shift
  BY <1>6, ShiftStep DEF Map!vars
<1>7. CASE EndShift
  BY <1>7, EndShiftStep DEF Map!vars
<1>8. CASE UNCHANGED vars
  BY <1>8, SameTable DEF vars, tableVars, Map!vars
<1> QED
  BY <1>1, <1>2, <1>3, <1>4, <1>5, <1>6, <1>7, <1>8 DEF Next

\* The inductive invariant holds for every set of keys and every hash function.
THEOREM TableInvariant == Spec => []IInv
<1>1. Init => IInv
  BY InitStep
<1>2. IInv /\ [Next]_vars => IInv'
  BY NextStep
<1> QED  BY <1>1, <1>2, PTL DEF Spec

\* The state of the table is well formed between any two steps.
THEOREM TableTyped == Spec => []TypeOK
<1>1. IInv => TypeOK
  BY DEF IInv
<1> QED  BY <1>1, TableInvariant, PTL

\* find_new_pos always meets an empty slot.
THEOREM TableHasRoom == Spec => []Room
<1>1. IInv => Room
  BY DEF IInv
<1> QED  BY <1>1, TableInvariant, PTL

\* No key is ever stored twice, within the loops of rehash and remove as well.
THEOREM KeysStoredOnce == Spec => []OneSlotPerKey
<1>1. IInv => OneSlotPerKey
  <2> SUFFICES ASSUME IInv, NEW k \in Key
               PROVE  Cardinality(Holding(data, k)) <= 1
    BY DEF OneSlotPerKey
  <2>1. \A p, q \in Holding(data, k) : p = q
    BY DEF IInv, KeysDistinct, Holding
  <2>2. CASE Holding(data, k) = {}
    BY <2>2, FS_EmptySet
  <2>3. CASE Holding(data, k) # {}
    <3> PICK p \in Holding(data, k) : TRUE
      BY <2>3
    <3>1. Holding(data, k) = {p}
      BY <2>1
    <3>2. Cardinality({p}) = 1
      BY FS_Singleton, Zenon
    <3> QED  BY <3>1, <3>2
  <2> QED  BY <2>2, <2>3
<1> QED  BY <1>1, TableInvariant, PTL

\* Between two calls every key can be reached from its home.
THEOREM RunsStayUnbroken == Spec => []RunsUnbroken
<1>1. IInv => RunsUnbroken
  BY DEF IInv, RunsMended, RunsUnbroken
<1> QED  BY <1>1, TableInvariant, PTL

\* The table implements the map: growth and the loop of remove, in the middle of
\* which the table may grow, are not visible in what the map holds.
THEOREM TableImplementsMap == Spec => Implements
<1>1. Init => Map!Init
  BY InitStep
<1>2. IInv /\ [Next]_vars => [Map!Next]_(Map!vars)
  BY NextStep
<1> QED  BY <1>1, <1>2, TableInvariant, PTL DEF Spec, Implements, Map!Spec
=============================================================================
