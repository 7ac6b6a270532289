----------------------------- MODULE HashTable -----------------------------
(***************************************************************************)
(* The open addressing hash table of loxx (src/src/detail/HashImpl.hpp,    *)
(* HashTable.hpp and HashSet.hpp): linear probing, growth before an        *)
(* insertion that finds the table full, and erase, which takes out the     *)
(* rest of the probe run and inserts it again.  The capacity is a power of *)
(* two, so "hash & mask_" is the remainder by the capacity.                *)
(*                                                                         *)
(* Each loop of the code is modelled iteration by iteration: the loop over *)
(* old_data in rehash, and the loop of remove, in which operator[] may     *)
(* rehash.                                                                 *)
(***************************************************************************)
EXTENDS Naturals, FiniteSets

CONSTANTS
    Key,
    Val,
    NoVal,
    Empty,          \* a slot whose Optional holds nothing
    Hash,           \* hash_func_
    DefaultSize,    \* default_size
    DefaultMax,     \* default_max_used_slots
    MaxCapacity     \* bound on the capacity

ASSUME HashTableAssumption ==
    /\ NoVal \notin Val
    /\ Empty \notin [key : Key, val : Val]
    /\ Hash \in [Key -> Nat]
    /\ DefaultSize \in Nat /\ DefaultMax \in Nat
    /\ 0 < DefaultMax /\ DefaultMax < DefaultSize
    /\ MaxCapacity \in Nat

VARIABLES
    data,       \* data_: a function on 0 .. capacity - 1
    used,       \* num_used_slots_
    max_used,   \* max_used_slots_
    old_data,   \* the local old_data of rehash
    next,       \* loop position in old_data
    datum,      \* the element operator[] is inserting while it rehashes
    pos,        \* the local pos of remove
    pc,         \* "idle", "rehash" inside operator[], "shift" inside remove
    caller,     \* where operator[] returns to
    answer      \* the last result of at or get

vars == <<data, used, max_used, old_data, next, datum, pos, pc, caller, answer>>

Elem == [key : Key, val : Val]
Capacity(d) == Cardinality(DOMAIN d)
EmptyTable(n) == [p \in 0 .. n - 1 |-> Empty]
Occupied(d) == {p \in DOMAIN d : d[p] # Empty}

-----------------------------------------------------------------------------
\* The number of steps from position s to position p, and the distance of p from
\* the home of k along the probe sequence.
Offset(d, s, p) == IF p >= s THEN p - s ELSE p + Capacity(d) - s
Home(d, k) == Hash[k] % Capacity(d)
Distance(d, k, p) == Offset(d, Home(d, k), p)

First(d, k, S) ==
    CHOOSE p \in S : \A q \in S : Distance(d, k, p) <= Distance(d, k, q)

Holding(d, k) == {p \in Occupied(d) : d[p].key = k}

\* find_pos: the first slot that holds k, past empty slots; the size of the
\* table when there is none.
FindPos(d, k) ==
    IF Holding(d, k) = {} THEN Capacity(d) ELSE First(d, k, Holding(d, k))

\* The search stops at the home position whatever it holds.
BadFindNewPos(d, k) == Home(d, k)

\* find_new_pos: the first slot that holds k or is empty.  It loops for ever
\* when there is no such slot.  (The operators named Bad... are what an operator
\* would be with a plausible slip in the code: here, keys are not compared.)
BadStopsAt(d, k) == DOMAIN d \ Occupied(d)
StopsAt(d, k) == Holding(d, k) \cup (DOMAIN d \ Occupied(d))
FindNewPos(d, k) == First(d, k, StopsAt(d, k))

Insert(d, e) == [d EXCEPT ![FindNewPos(d, e.key)] = e]

-----------------------------------------------------------------------------
Init ==
    /\ data = EmptyTable(DefaultSize) /\ old_data = EmptyTable(0)
    /\ used = 0 /\ max_used = DefaultMax
    /\ next = 0 /\ pos = 0
    /\ datum = Empty
    /\ pc = "idle" /\ caller = "idle"
    /\ answer = [found |-> NoVal]

\* operator[] after the rehash: the slot is claimed and assigned.
Claim(e) ==
    /\ data' = Insert(data, e)
    /\ used' = used + (IF data[FindNewPos(data, e.key)] = Empty THEN 1 ELSE 0)

\* The limit of the used slots does not grow with the table.
BadBeginRehash(d, e, from) ==
    /\ data' = EmptyTable(2 * Capacity(d))
    /\ old_data' = d
    /\ next' = 0
    /\ datum' = e
    /\ caller' = from
    /\ pc' = "rehash"
    /\ UNCHANGED <<used, max_used>>

\* rehash: the table is swapped for an empty one of twice the size.
BeginRehash(d, e, from) ==
    /\ data' = EmptyTable(2 * Capacity(d))
    /\ old_data' = d
    /\ max_used' = 2 * max_used
    /\ next' = 0
    /\ datum' = e
    /\ caller' = from
    /\ pc' = "rehash"
    /\ UNCHANGED used

\* (*this)[k] = v, which also insert(k) of a HashSet does.
Assign(k, v) ==
    LET e == [key |-> k, val |-> v]
    IN  /\ pc = "idle"
        /\ answer' = [found |-> NoVal]
        /\ UNCHANGED pos
        /\ \/ /\ used < max_used
              /\ Claim(e)
              /\ UNCHANGED <<max_used, old_data, next, datum, pc, caller>>
           \/ /\ used >= max_used
              /\ 2 * Capacity(data) <= MaxCapacity
              /\ BeginRehash(data, e, "idle")

\* An empty slot of old_data is not passed.
BadRehashSlot ==
    /\ pc = "rehash"
    /\ next \in DOMAIN old_data
    /\ data' = IF old_data[next] = Empty THEN data
               ELSE Insert(data, old_data[next])
    /\ next' = IF old_data[next] = Empty THEN next ELSE next + 1
    /\ UNCHANGED <<used, max_used, old_data, datum, pos, pc, caller, answer>>

\* One element of old_data is skipped or put in its place.
RehashSlot ==
    /\ pc = "rehash"
    /\ next \in DOMAIN old_data
    /\ data' = IF old_data[next] = Empty THEN data
               ELSE Insert(data, old_data[next])
    /\ next' = next + 1
    /\ UNCHANGED <<used, max_used, old_data, datum, pos, pc, caller, answer>>

\* old_data is destroyed, and operator[] goes on.
EndRehash ==
    /\ pc = "rehash"
    /\ next \notin DOMAIN old_data
    /\ Claim(datum)
    /\ old_data' = EmptyTable(0) /\ next' = 0 /\ datum' = Empty
    /\ pc' = caller
    /\ UNCHANGED <<max_used, pos, caller, answer>>

-----------------------------------------------------------------------------
\* The element is taken out and the run behind it left where it is.
BadErase(k) ==
    /\ pc = "idle"
    /\ LET p == FindPos(data, k)
       IN  /\ p # Capacity(data)
           /\ data' = [data EXCEPT ![p] = Empty]
    /\ used' = used - 1
    /\ answer' = [found |-> NoVal]
    /\ UNCHANGED <<max_used, old_data, next, datum, pos, pc, caller>>

\* erase(k): the slot of k is reset, and the loop over the run behind it
\* begins.  The second guard keeps the table inside MaxCapacity.
Erase(k) ==
    /\ pc = "idle"
    /\ \/ used + Cardinality(Occupied(data)) <= max_used
       \/ 2 * Capacity(data) <= MaxCapacity
    /\ LET p == FindPos(data, k)
       IN  IF p = Capacity(data)
           THEN UNCHANGED <<data, used, pos, pc>>
           ELSE /\ data' = [data EXCEPT ![p] = Empty]
                /\ used' = used - 1
                /\ pos' = p
                /\ pc' = "shift"
    /\ answer' = [found |-> NoVal]
    /\ UNCHANGED <<max_used, old_data, next, datum, caller>>

\* The element is inserted again without a check of the number of used slots.
BadShift ==
    LET p == (pos + 1) % Capacity(data)
        d == [data EXCEPT ![p] = Empty]
        e == data[p]
    IN  /\ pc = "shift"
        /\ data[p] # Empty
        /\ pos' = p
        /\ data' = Insert(d, e)
        /\ used' = used + 1
        /\ UNCHANGED <<max_used, old_data, next, datum, pc, caller, answer>>

\* One iteration of the loop of remove: the next element is moved out and
\* inserted again, which counts it once more.
Shift ==
    LET p == (pos + 1) % Capacity(data)
        d == [data EXCEPT ![p] = Empty]
        e == data[p]
    IN  /\ pc = "shift"
        /\ data[p] # Empty
        /\ pos' = p
        /\ UNCHANGED answer
        /\ \/ /\ used < max_used
              /\ data' = Insert(d, e)
              /\ used' = used + 1
              /\ UNCHANGED <<max_used, old_data, next, datum, pc, caller>>
           \/ /\ used >= max_used
              /\ BeginRehash(d, e, "shift")

\* The run ends at an empty slot.
EndShift ==
    /\ pc = "shift"
    /\ data[(pos + 1) % Capacity(data)] = Empty
    /\ pc' = "idle"
    /\ UNCHANGED <<data, used, max_used, old_data, next, datum, pos, caller,
                   answer>>

-----------------------------------------------------------------------------
Reply(k, p) ==
    answer' = [key |-> k, found |-> IF p \notin DOMAIN data \/ data[p] = Empty
                                    THEN NoVal ELSE data[p].val]

tableVars == <<data, used, max_used, old_data, next, datum, pos, pc, caller>>

\* at, count and has_item search with find_pos.
At(k) ==
    /\ pc = "idle"
    /\ Reply(k, FindPos(data, k))
    /\ UNCHANGED tableVars

\* get searches with find_new_pos.
Get(k) ==
    /\ pc = "idle"
    /\ Reply(k, FindNewPos(data, k))
    /\ UNCHANGED tableVars

Next ==
    \/ \E k \in Key, v \in Val : Assign(k, v)
    \/ \E k \in Key : Erase(k) \/ At(k) \/ Get(k)
    \/ RehashSlot \/ EndRehash \/ Shift \/ EndShift

Step == RehashSlot \/ EndRehash \/ Shift \/ EndShift

\* A call that has begun runs to its end.
Spec == Init /\ [][Next]_vars /\ WF_vars(Step)

-----------------------------------------------------------------------------
TypeOK ==
    /\ Capacity(data) \in Nat /\ Capacity(old_data) \in Nat
    /\ data \in [0 .. Capacity(data) - 1 -> Elem \cup {Empty}]
    /\ old_data \in [0 .. Capacity(old_data) - 1 -> Elem \cup {Empty}]
    /\ used \in Nat /\ max_used \in Nat /\ next \in Nat /\ pos \in Nat
    /\ datum \in Elem \cup {Empty}
    /\ pc \in {"idle", "rehash", "shift"} /\ caller \in {"idle", "shift"}

\* The slots in use never outnumber the count the growth goes by, and one slot
\* is always empty: without it find_new_pos, get and find would not end.
Room ==
    /\ Cardinality(Occupied(data)) <= used
    /\ used <= max_used
    /\ max_used < Capacity(data)

\* No key is in two slots.
OneSlotPerKey == \A k \in Key : Cardinality(Holding(data, k)) <= 1

\* Between two calls no slot on the way from the home of a key to the slot
\* that holds it is empty, which find_new_pos relies on.
InRunFrom(d, s, p) ==
    \A q \in DOMAIN d \ Occupied(d) : Offset(d, s, p) < Offset(d, s, q)
Unbroken(d, p) == InRunFrom(d, Home(d, d[p].key), p)
RunsUnbroken == pc = "idle" => \A p \in Occupied(data) : Unbroken(data, p)

\* What holds inside the calls as well.  Only a rehash has an old table and an
\* element to insert after it.
RehashLocals ==
    /\ pos \in DOMAIN data
    /\ max_used > 0
    /\ IF pc = "rehash" THEN datum # Empty
                       ELSE datum = Empty /\ old_data = EmptyTable(0)

\* The slots of old_data that rehash has not passed.
Waiting == {q \in Occupied(old_data) : q >= next}

\* What is in the new table and what waits fits in the count of used slots, and
\* the table that has grown has room for one more.
RehashFits ==
    pc = "rehash" =>
        /\ Cardinality(Occupied(data)) + Cardinality(Waiting) <= used
        /\ used < max_used

\* No key is stored twice, in the table and in what waits for it; remove takes
\* an element out before it inserts it again.
KeysDistinct ==
    /\ \A p, q \in Occupied(data) : data[p].key = data[q].key => p = q
    /\ \A p, q \in Waiting : old_data[p].key = old_data[q].key => p = q
    /\ \A p \in Occupied(data), q \in Waiting : data[p].key # old_data[q].key
    /\ pc = "rehash" /\ caller = "shift" =>
            /\ \A p \in Occupied(data) : data[p].key # datum.key
            /\ \A q \in Waiting : old_data[q].key # datum.key

\* The only elements that an empty slot cuts off from their home are in the run
\* that the loop of remove has still to pass.
RunsMended ==
    \A p \in Occupied(data) :
        \/ Unbroken(data, p)
        \/ pc = "shift" /\ InRunFrom(data, (pos + 1) % Capacity(data), p)

\* The inductive invariant of the table.
IInv ==
    /\ TypeOK /\ Room
    /\ RehashLocals /\ RehashFits /\ KeysDistinct /\ RunsMended

\* Every call comes to its end.
CallsEnd == (pc # "idle") ~> (pc = "idle")

-----------------------------------------------------------------------------
\* The map the table stands for: the slots, the elements of old_data that wait
\* to be put back, and the element operator[] holds.
Stored ==
    {data[p] : p \in Occupied(data)} \cup {old_data[q] : q \in Waiting}

Lookup(S, k) ==
    IF \E e \in S : e.key = k THEN (CHOOSE e \in S : e.key = k).val ELSE NoVal

Contents ==
    [k \in Key |-> IF datum # Empty /\ datum.key = k THEN datum.val
                   ELSE Lookup(Stored, k)]

Map == INSTANCE Dictionary WITH map <- Contents

\* Every behaviour of the table is a behaviour of the map: an assignment takes
\* effect when it is called, growth changes nothing, a removal removes one key.
Implements == Map!Spec
=============================================================================
