-------------------------- MODULE LineTableProofs --------------------------
(***************************************************************************)
(* What the line table guarantees for every source: how far the line of an *)
(* error may be off, and that it is right as long as every difference in   *)
(* lines fits a signed byte.                                               *)
(***************************************************************************)
EXTENDS LineTable, NaturalsInduction, WellFoundedInduction, SequenceTheorems,
        TLAPS

USE LineTableAssumption

Row == (-128 .. 127) \X (0 .. 255)

-----------------------------------------------------------------------------
(* Numbers.                                                                *)

\* A set of natural numbers that is not empty has a least element.
LEMMA Least ==
    ASSUME NEW S, S \subseteq Nat, S # {}
    PROVE  \E x \in S : \A y \in S : x <= y
<1>1. IsWellFoundedOn(OpToRel(<, Nat), Nat)
  BY NatLessThanWellFounded, Zenon
<1>2. PICK x \in S : \A y \in S : ~ (<<y, x>> \in OpToRel(<, Nat))
  BY <1>1, WFMin, Zenon
<1>3. \A m, n \in Nat : m < n => <<m, n>> \in OpToRel(<, Nat)
  BY Zenon DEF OpToRel
<1>4. \A y \in S : ~ (y < x)
  BY <1>2, <1>3, Zenon
<1> QED  BY <1>4

\* The conversions have values of their width, and leave those values alone.
LEMMA Conversions ==
    ASSUME NEW x \in Int
    PROVE  /\ Int8(x) \in -128 .. 127
           /\ UInt8(x) \in 0 .. 255
           /\ x \in -128 .. 127 => Int8(x) = x
           /\ x \in 0 .. 255 => UInt8(x) = x /\ UInt8(Int8(x)) = x
           /\ x \in 0 .. 255 => UInt8(x - Int8(x)) = 0
<1>1. Int8(x) \in -128 .. 127 /\ UInt8(x) \in 0 .. 255
  BY DEF Int8, UInt8
<1>2. x \in -128 .. 127 => Int8(x) = x
  BY DEF Int8
<1>3. ASSUME x \in 0 .. 255 PROVE UInt8(x) = x
  BY <1>3 DEF UInt8
<1>4. ASSUME x \in 0 .. 255
      PROVE  UInt8(Int8(x)) = x /\ UInt8(x - Int8(x)) = 0
  <2>1. Int8(x) = x \/ Int8(x) = x - 256
    BY <1>4 DEF Int8
  <2>2. CASE Int8(x) = x
    BY <1>4, <2>2 DEF UInt8
  <2>3. CASE Int8(x) = x - 256
    <3>1. (x - 256) % 256 = x /\ (x - (x - 256)) % 256 = 0
      BY <1>4
    <3> QED  BY <2>3, <3>1 DEF UInt8
  <2> QED  BY <2>1, <2>2, <2>3
<1> QED  BY <1>1, <1>2, <1>3, <1>4

LEMMA QuotientInt ==
    ASSUME NEW x \in Int, NEW n \in Nat \ {0}
    PROVE  Quotient(x, n) \in Int
<1> DEFINE quarter == 1073741824
<1>1. quarter \div n \in Int /\ quarter % n \in Int
  OBVIOUS
<1>2. (quarter \div n) % 64 \in Int
  BY <1>1
<1>3. x \div n \in Int /\ (4 * (quarter % n) + x) \div n \in Int
  BY <1>1
<1> QED  BY <1>2, <1>3 DEF Quotient

\* num_rows
LEMMA LargerOf ==
    ASSUME NEW a \in Nat, NEW b \in Nat
    PROVE  Max({a, b}) \in Nat /\ (Max({a, b}) = a \/ Max({a, b}) = b)
                               /\ Max({a, b}) >= a /\ Max({a, b}) >= b
<1>1. \E x \in {a, b} : \A y \in {a, b} : x >= y
  <2>1. CASE a >= b  BY <2>1
  <2>2. CASE b >= a  BY <2>2
  <2> QED  BY <2>1, <2>2
<1>2. Max({a, b}) \in {a, b} /\ \A y \in {a, b} : Max({a, b}) >= y
  BY <1>1 DEF Max
<1> QED  BY <1>2

\* The least element of a set of natural numbers.
LEMMA SmallestIs ==
    ASSUME NEW S, S \subseteq Nat, NEW m \in S, \A x \in S : m <= x
    PROVE  Min(S) = m
<1>1. Min(S) \in S /\ \A y \in S : Min(S) <= y
  BY DEF Min
<1>2. m \in Nat /\ Min(S) \in Nat /\ Min(S) <= m /\ m <= Min(S)
  BY <1>1
<1> QED  BY <1>2

-----------------------------------------------------------------------------
(* The sums of a table.                                                    *)

LEMMA RowFields ==
    ASSUME NEW rows \in Seq(Row), NEW i \in 1 .. Len(rows)
    PROVE  /\ rows[i][1] \in -128 .. 127 /\ rows[i][1] \in Int
           /\ rows[i][2] \in 0 .. 255 /\ rows[i][2] \in Nat
<1>1. rows[i] \in (-128 .. 127) \X (0 .. 255)
  BY DEF Row
<1>2. rows[i][1] \in -128 .. 127 /\ rows[i][2] \in 0 .. 255
  BY <1>1
<1>3. -128 .. 127 \subseteq Int /\ 0 .. 255 \subseteq Nat
  OBVIOUS
<1> QED  BY <1>2, <1>3, Zenon

\* The definition of Sums by recursion determines a function.
LEMMA SumsDefined ==
    ASSUME NEW rows \in Seq(Row), NEW f \in {1, 2}
    PROVE  Sums(rows, f) =
               [i \in 0 .. Len(rows) |->
                   IF i = 0 THEN 0 ELSE Sums(rows, f)[i - 1] + rows[i][f]]
<1> DEFINE G(g, n) ==
        g = [i \in 0 .. n |-> IF i = 0 THEN 0 ELSE g[i - 1] + rows[i][f]]
    Bad == {n \in 0 .. Len(rows) : ~ \E g : G(g, n)}
<1>1. Bad = {}
  <2> SUFFICES ASSUME Bad # {} PROVE FALSE
    OBVIOUS
  <2>1. PICK n \in Bad : \A m \in Bad : n <= m
    <3>1. Bad \subseteq Nat
      OBVIOUS
    <3> HIDE DEF Bad
    <3> QED  BY <3>1, Least
  <2>2. CASE n = 0
    <3>1. G([i \in 0 .. 0 |-> 0], 0)
      OBVIOUS
    <3> QED  BY <2>1, <2>2, <3>1
  <2>3. CASE n # 0
    <3>1. n - 1 \in 0 .. Len(rows) /\ n - 1 \notin Bad
      <4>1. n \in 1 .. Len(rows)
        BY <2>3
      <4>2. n - 1 \in 0 .. Len(rows) /\ ~ (n <= n - 1)
        BY <4>1
      <4> HIDE DEF Bad
      <4> QED  BY <2>1, <4>2
    <3>2. PICK g : G(g, n - 1)
      BY <3>1
    <3> DEFINE h == [i \in 0 .. n |->
                        IF i = n THEN g[n - 1] + rows[n][f] ELSE g[i]]
    <3>3. n \in Nat \ {0}
      BY <2>1, <2>3
    <3>4. ASSUME NEW i \in 0 .. n
          PROVE  h[i] = IF i = 0 THEN 0 ELSE h[i - 1] + rows[i][f]
      <4>1. CASE i = n
        BY <3>3, <4>1
      <4>2. CASE i # n
        <5>1. i \in 0 .. n - 1
          BY <4>2, <3>3
        <5>2. g[i] = IF i = 0 THEN 0 ELSE g[i - 1] + rows[i][f]
          BY <3>2, <5>1
        <5>3. h[i] = g[i] /\ (i # 0 => h[i - 1] = g[i - 1])
          BY <5>1, <3>3
        <5> QED  BY <5>2, <5>3
      <4> QED  BY <4>1, <4>2
    <3>5. G(h, n)
      BY <3>4
    <3> QED  BY <3>5, <2>1
  <2> QED  BY <2>2, <2>3
<1>2. \E g : G(g, Len(rows))
  <2>1. Len(rows) \in 0 .. Len(rows)
    OBVIOUS
  <2> QED  BY <1>1, <2>1
<1>3. Sums(rows, f) = CHOOSE g : G(g, Len(rows))
  BY DEF Sums
<1>4. G(Sums(rows, f), Len(rows))
  <2> HIDE DEF G
  <2> QED  BY <1>2, <1>3
<1> QED  BY <1>4

LEMMA SumsStep ==
    ASSUME NEW rows \in Seq(Row), NEW f \in {1, 2}
    PROVE  /\ Sums(rows, f)[0] = 0
           /\ \A i \in 1 .. Len(rows) :
                  Sums(rows, f)[i] = Sums(rows, f)[i - 1] + rows[i][f]
<1> DEFINE s == Sums(rows, f)
<1>1. s = [i \in 0 .. Len(rows) |-> IF i = 0 THEN 0 ELSE s[i - 1] + rows[i][f]]
  BY SumsDefined
<1> HIDE DEF s
<1>2. s[0] = 0 /\ \A i \in 1 .. Len(rows) : s[i] = s[i - 1] + rows[i][f]
  BY <1>1
<1> QED  BY <1>2 DEF s

LEMMA SumsInt ==
    ASSUME NEW rows \in Seq(Row), NEW f \in {1, 2}
    PROVE  \A i \in 0 .. Len(rows) : Sums(rows, f)[i] \in Int
<1> DEFINE s == Sums(rows, f)
    Bad == {i \in 0 .. Len(rows) : s[i] \notin Int}
<1>1. s[0] = 0 /\ \A i \in 1 .. Len(rows) : s[i] = s[i - 1] + rows[i][f]
  BY SumsStep
<1>2. \A i \in 1 .. Len(rows) : rows[i][f] \in Int
  <2> TAKE i \in 1 .. Len(rows)
  <2>1. rows[i][1] \in Int /\ rows[i][2] \in Int
    <3>1. rows[i][1] \in Int /\ rows[i][2] \in Nat
      BY RowFields, Zenon
    <3>2. Nat \subseteq Int
      OBVIOUS
    <3> QED  BY <3>1, <3>2, Zenon
  <2> QED  BY <2>1, Zenon
<1> HIDE DEF s
<1> SUFFICES ASSUME Bad # {} PROVE FALSE
  BY DEF s
<1>3. PICK n \in Bad : \A m \in Bad : n <= m
  <2>1. Bad \subseteq Nat
    OBVIOUS
  <2> HIDE DEF Bad
  <2> QED  BY <2>1, Least
<1>4. n # 0
  BY <1>1, <1>3
<1>5. n - 1 \in 0 .. Len(rows) /\ n - 1 \notin Bad
  BY <1>3, <1>4
<1>6. s[n - 1] \in Int /\ rows[n][f] \in Int /\ s[n] = s[n - 1] + rows[n][f]
  BY <1>1, <1>2, <1>3, <1>4, <1>5
<1> QED  BY <1>3, <1>6

\* Rows added at the end leave the sums of the first rows as they are.
LEMMA SumsOfPrefix ==
    ASSUME NEW rows \in Seq(Row), NEW more \in Seq(Row), NEW f \in {1, 2}
    PROVE  \A i \in 0 .. Len(rows) : Sums(rows \o more, f)[i] = Sums(rows, f)[i]
<1> DEFINE s == Sums(rows, f)
    t == Sums(rows \o more, f)
    Bad == {i \in 0 .. Len(rows) : t[i] # s[i]}
<1>1. s[0] = 0 /\ \A i \in 1 .. Len(rows) : s[i] = s[i - 1] + rows[i][f]
  BY SumsStep
<1>2. /\ t[0] = 0
      /\ \A i \in 1 .. Len(rows \o more) :
             t[i] = t[i - 1] + (rows \o more)[i][f]
  <2>1. rows \o more \in Seq(Row)
    OBVIOUS
  <2> QED  BY <2>1, SumsStep
<1>3. \A i \in 1 .. Len(rows) : /\ i \in 1 .. Len(rows \o more)
                                /\ (rows \o more)[i] = rows[i]
  OBVIOUS
<1> HIDE DEF s, t
<1> SUFFICES ASSUME Bad # {} PROVE FALSE
  BY DEF s, t
<1>4. PICK n \in Bad : \A m \in Bad : n <= m
  <2>1. Bad \subseteq Nat
    OBVIOUS
  <2> HIDE DEF Bad
  <2> QED  BY <2>1, Least
<1>5. n # 0
  BY <1>1, <1>2, <1>4
<1>6. n \in 1 .. Len(rows) /\ n - 1 \in 0 .. Len(rows) /\ n - 1 \notin Bad
  BY <1>4, <1>5
<1>7. t[n - 1] = s[n - 1]
  BY <1>6
<1> QED  BY <1>1, <1>2, <1>3, <1>4, <1>6, <1>7

\* The position behind the rows goes up from row to row.
LEMMA BytesGoUp ==
    ASSUME NEW rows \in Seq(Row), NEW i \in 0 .. Len(rows),
           NEW j \in 0 .. Len(rows), i <= j
    PROVE  Sums(rows, 2)[i] <= Sums(rows, 2)[j]
<1> DEFINE s == Sums(rows, 2)
    Bad == {n \in 0 .. Len(rows) : i <= n /\ ~ (s[i] <= s[n])}
<1>1. \A n \in 1 .. Len(rows) : s[n] = s[n - 1] + rows[n][2]
  BY SumsStep
<1>2. \A n \in 1 .. Len(rows) : rows[n][2] \in Nat
  <2> TAKE n \in 1 .. Len(rows)
  <2> QED  BY RowFields, Zenon
<1>3. \A n \in 0 .. Len(rows) : s[n] \in Int
  BY SumsInt
<1> HIDE DEF s
<1> SUFFICES ASSUME Bad # {} PROVE FALSE
  BY DEF s
<1>4. PICK n \in Bad : \A m \in Bad : n <= m
  <2>1. Bad \subseteq Nat
    OBVIOUS
  <2> HIDE DEF Bad
  <2> QED  BY <2>1, Least
<1>5. n # i
  BY <1>3, <1>4
<1>6. n \in 1 .. Len(rows) /\ n - 1 \in 0 .. Len(rows) /\ i <= n - 1
      /\ n - 1 \notin Bad
  BY <1>4, <1>5
<1>7. s[i] <= s[n - 1] /\ s[n] = s[n - 1] + rows[n][2]
  BY <1>1, <1>6
<1>8. s[i] \in Int /\ s[n - 1] \in Int /\ rows[n][2] \in Nat
  BY <1>2, <1>3, <1>6
<1>9. s[i] <= s[n]
  BY <1>7, <1>8
<1> QED  BY <1>4, <1>9

-----------------------------------------------------------------------------
(* The rows of one call of update_line_num_table.                          *)

LEMMA RowsTyped ==
    ASSUME last_line \in Nat, last_instr \in Nat,
           NEW line \in Nat, NEW n \in Nat, last_instr <= n
    PROVE  Rows(line, n) \in Seq(Row)
<1> DEFINE line_diff == line - last_line
    instr_diff == n - last_instr
    num_rows == Max({Abs(line_diff) \div 128, instr_diff \div 256})
    line_delta == Int8(Quotient(line_diff, num_rows))
    instr_delta == Int8(instr_diff \div num_rows)
<1>1. line_diff \in Int /\ instr_diff \in Nat
  OBVIOUS
<1>2. num_rows \in Nat
  <2>1. Abs(line_diff) \div 128 \in Nat /\ instr_diff \div 256 \in Nat
    BY <1>1 DEF Abs
  <2> QED  BY <2>1, LargerOf
<1> HIDE DEF line_diff, instr_diff, num_rows
<1>3. CASE num_rows = 0
  <2>1. Int8(line_diff) \in -128 .. 127 /\ UInt8(instr_diff) \in 0 .. 255
    BY <1>1, Conversions
  <2>2. Rows(line, n) = << <<Int8(line_diff), UInt8(instr_diff)>> >>
    BY <1>3 DEF Rows, line_diff, instr_diff, num_rows
  <2> QED  BY <2>1, <2>2 DEF Row
<1>4. CASE num_rows # 0
  <2>1. Quotient(line_diff, num_rows) \in Int /\ instr_diff \div num_rows \in Int
    BY <1>1, <1>2, <1>4, QuotientInt
  <2>2. line_delta \in -128 .. 127 /\ instr_delta \in -128 .. 127
    BY <2>1, Conversions
  <2> HIDE DEF line_delta, instr_delta
  <2>3. /\ UInt8(instr_delta) \in 0 .. 255
        /\ Int8(line_diff - num_rows * line_delta) \in -128 .. 127
        /\ UInt8(instr_diff - num_rows * instr_delta) \in 0 .. 255
    BY <1>1, <1>2, <2>2, Conversions
  <2> DEFINE first == [i \in 1 .. num_rows |-> <<line_delta, UInt8(instr_delta)>>]
      rest == <<Int8(line_diff - num_rows * line_delta),
                UInt8(instr_diff - num_rows * instr_delta)>>
  <2>4. Rows(line, n) = Append(first, rest)
    BY <1>4 DEF Rows, line_diff, instr_diff, num_rows, line_delta, instr_delta
  <2>5. first \in Seq(Row) /\ rest \in Row
    BY <1>2, <2>2, <2>3 DEF Row
  <2> HIDE DEF first, rest
  <2> QED  BY <2>4, <2>5
<1> QED  BY <1>3, <1>4

LEMMA AppendOne ==
    ASSUME NEW S, NEW s \in Seq(S), NEW e \in S
    PROVE  /\ Len(Append(s, e)) = Len(s) + 1
           /\ \A i \in 1 .. Len(s) : Append(s, e)[i] = s[i]
           /\ Append(s, e)[Len(s) + 1] = e
OBVIOUS

LEMMA TwoRows ==
    ASSUME NEW S, NEW s \in Seq(S), NEW e \in S, Len(s) = 1
    PROVE  /\ Len(Append(s, e)) = 2
           /\ Append(s, e)[1] = s[1]
           /\ Append(s, e)[2] = e
<1>1. /\ Len(Append(s, e)) = Len(s) + 1
      /\ \A i \in 1 .. Len(s) : Append(s, e)[i] = s[i]
      /\ Append(s, e)[Len(s) + 1] = e
  BY AppendOne, Zenon
<1> QED  BY <1>1

\* A conversion changes a number by a multiple of 256.
Congruent(a, b) == \E k \in Int : a = b + 256 * k

LEMMA Int8Congruent ==
    ASSUME NEW x \in Int
    PROVE  Int8(x) \in Int /\ Congruent(Int8(x), x)
<1> DEFINE k == (x + 128) \div 256
<1>1. k \in Int /\ x + 128 = 256 * k + ((x + 128) % 256)
  OBVIOUS
<1>2. Int8(x) = x + 256 * (-k) /\ -k \in Int
  BY <1>1 DEF Int8
<1> QED  BY <1>2 DEF Congruent

LEMMA CongruentSum ==
    ASSUME NEW a \in Int, NEW b \in Int, NEW c \in Int, NEW d \in Int,
           Congruent(a, b), Congruent(c, d)
    PROVE  Congruent(a + c, b + d)
<1>1. PICK k \in Int : a = b + 256 * k
  BY DEF Congruent
<1>2. PICK m \in Int : c = d + 256 * m
  BY DEF Congruent
<1>3. k + m \in Int /\ a + c = (b + d) + 256 * (k + m)
  BY <1>1, <1>2
<1> QED  BY <1>3 DEF Congruent

LEMMA CongruentDifference ==
    ASSUME NEW a \in Int, NEW b \in Int, Congruent(a, b)
    PROVE  (a - b) % 256 = 0
<1>1. PICK k \in Int : a = b + 256 * k
  BY DEF Congruent
<1>2. a - b = 256 * k
  BY <1>1
<1>3. (256 * k) % 256 = 0
  OBVIOUS
<1> QED  BY <1>2, <1>3

\* When the differences are below 256, the first row that is added has all of
\* what is written of them, and the second, if there is one, adds nothing.
LEMMA RowsShort ==
    ASSUME last_line \in Nat, last_instr \in Nat,
           NEW line \in Nat, NEW n \in Nat,
           line - last_line \in -255 .. 255, n - last_instr \in 0 .. 255
    PROVE  /\ Len(Rows(line, n)) \in {1, 2}
           /\ Rows(line, n)[1] = <<Int8(line - last_line), n - last_instr>>
           /\ Len(Rows(line, n)) = 2 => Rows(line, n)[2] = <<0, 0>>
<1> DEFINE line_diff == line - last_line
    instr_diff == n - last_instr
    num_rows == Max({Abs(line_diff) \div 128, instr_diff \div 256})
    line_delta == Int8(Quotient(line_diff, num_rows))
    instr_delta == Int8(instr_diff \div num_rows)
    short == line_diff \in -127 .. 127
<1>1. line_diff \in -255 .. 255 /\ instr_diff \in 0 .. 255
  OBVIOUS
<1>2. /\ instr_diff \div 256 = 0
      /\ Abs(line_diff) \div 128 = IF short THEN 0 ELSE 1
  BY <1>1 DEF Abs
<1>3. num_rows = IF short THEN 0 ELSE 1
  BY <1>2, LargerOf
<1>4. /\ UInt8(instr_diff) = instr_diff
      /\ UInt8(Int8(instr_diff)) = instr_diff
      /\ UInt8(instr_diff - Int8(instr_diff)) = 0
      /\ Int8(instr_diff) \in Int /\ Int8(line_diff) \in -128 .. 127
  BY <1>1, Conversions
<1>5. CASE short
  <2>1. num_rows = 0
    BY <1>3, <1>5
  <2> HIDE DEF line_diff, instr_diff, num_rows
  <2>2. Rows(line, n) = << <<Int8(line_diff), instr_diff>> >>
    BY <1>4, <2>1 DEF Rows, line_diff, instr_diff, num_rows
  <2> QED  BY <2>2 DEF line_diff, instr_diff
<1>6. CASE ~ short
  <2> DEFINE first == [i \in 1 .. num_rows |-> <<line_delta, UInt8(instr_delta)>>]
      rest == <<Int8(line_diff - num_rows * line_delta),
                UInt8(instr_diff - num_rows * instr_delta)>>
  <2>1. num_rows = 1
    BY <1>3, <1>6
  <2> HIDE DEF line_diff, instr_diff, num_rows, short
  <2>2. line_delta = Int8(line_diff)
    <3>1. Quotient(line_diff, 1) = line_diff
      BY <1>1 DEF Quotient
    <3> QED  BY <2>1, <3>1
  <2>3. instr_delta = Int8(instr_diff)
    <3>1. instr_diff \div 1 = instr_diff
      BY <1>1
    <3> QED  BY <2>1, <3>1
  <2> HIDE DEF line_delta, instr_delta
  <2>4. Int8(line_diff - num_rows * line_delta) = 0
    <3> DEFINE low == Int8(line_diff)
    <3>1. PICK k \in Int : low = line_diff + 256 * k
      BY <1>1, Int8Congruent DEF Congruent
    <3> HIDE DEF low
    <3>2. line_diff - low = 256 * (-k)
      BY <1>1, <3>1
    <3>3. (256 * (-k) + 128) % 256 = 128
      BY <3>1
    <3>4. Int8(line_diff - low) = 0
      BY <3>2, <3>3 DEF Int8
    <3>5. line_diff - num_rows * line_delta = line_diff - low
      <4>1. low \in Int
        BY <1>1, <3>1
      <4> QED  BY <1>1, <2>1, <2>2, <4>1 DEF low
    <3> QED  BY <3>4, <3>5
  <2>5. UInt8(instr_diff - num_rows * instr_delta) = 0
    <3>1. num_rows * instr_delta = Int8(instr_diff)
      BY <1>4, <2>1, <2>3
    <3> QED  BY <1>4, <3>1
  <2>6. Rows(line, n) = Append(first, rest)
    <3>1. num_rows # 0
      BY <2>1
    <3> QED
      BY <3>1 DEF Rows, line_diff, instr_diff, num_rows, line_delta, instr_delta
  <2>7. rest = <<0, 0>>
    BY <2>4, <2>5
  <2>8. first \in Seq(Int \X Int) /\ Len(first) = 1
        /\ rest \in Int \X Int /\ first[1] = <<Int8(line_diff), instr_diff>>
    BY <1>1, <1>4, <2>1, <2>2, <2>3, <2>7
  <2> HIDE DEF first, rest
  <2>9. /\ Len(Append(first, rest)) = 2
        /\ Append(first, rest)[1] = first[1]
        /\ Append(first, rest)[2] = rest
    BY <2>8, TwoRows
  <2> QED  BY <2>6, <2>7, <2>8, <2>9 DEF line_diff, instr_diff
<1> QED  BY <1>5, <1>6

-----------------------------------------------------------------------------
(* The invariants.                                                         *)

\* What of the code object and the compiler the table is made from.
TableTyped ==
    /\ table \in Seq(Row)
    /\ size \in Nat
    /\ last_instr \in 0 .. size
    /\ last_line \in 0 .. MaxLine
    /\ exact \in BOOLEAN

\* The row in which a position is found, and how far the line it gives may be
\* off the line of the report.
FoundIn(rows, i, pos, r) ==
    /\ Sums(rows, 2)[i - 1] < pos
    /\ pos <= Sums(rows, 2)[i]
    /\ Congruent(Sums(rows, 1)[i], r.line)
    /\ r.exact => Sums(rows, 1)[i] = r.line

Located(rows, r) ==
    \A pos \in r.ips :
        /\ pos \in Nat
        /\ \E i \in 1 .. Len(rows) : FoundIn(rows, i, pos, r)

\* The sums of all rows are the position and, up to what has been cut off, the
\* line of the last token, and every report that has been noted is found in a row.
LinesInv ==
    /\ Congruent(Sums(table, 1)[Len(table)], last_line)
    /\ exact => Sums(table, 1)[Len(table)] = last_line
    /\ Sums(table, 2)[Len(table)] = last_instr
    /\ \A r \in reports : r.kind = "other" => r.line \in Nat /\ Located(table, r)

LEMMA UpdateTyped ==
    ASSUME TableTyped, NEW line \in 0 .. MaxLine, NEW n \in Nat,
           size' \in Nat, last_instr <= n, n <= size', Update(line, n)
    PROVE  TableTyped'
<1>1. Rows(line, n) \in Seq(Row)
  BY RowsTyped DEF TableTyped
<1>2. table' \in Seq(Row)
  BY <1>1 DEF TableTyped, Update
<1> QED  BY <1>2 DEF TableTyped, Update

LEMMA StepTyped == TableTyped /\ [Next]_vars => TableTyped'
<1> SUFFICES ASSUME TableTyped, [Next]_vars PROVE TableTyped'
  OBVIOUS
<1>1. CASE Silent
  BY <1>1 DEF Silent, Emits, TableTyped
<1>2. CASE Instruction
  <2>1. PICK operands \in 0 .. 1, line \in Lines :
            Emits(1 + operands) /\ Update(line, size')
    BY <1>2 DEF Instruction
  <2>2. size' \in Nat /\ last_instr <= size' /\ line \in 0 .. MaxLine
    BY <2>1 DEF Emits, TableTyped, Lines
  <2> QED  BY <2>1, <2>2, UpdateTyped
<1>3. CASE CallOrInvoke
  <2>1. PICK operands \in 1 .. 2, line \in Lines :
            Emits(1 + operands) /\ Update(line, size + 1)
    BY <1>3 DEF CallOrInvoke
  <2>2. /\ size' \in Nat /\ size + 1 \in Nat /\ size + 1 <= size'
        /\ last_instr <= size + 1 /\ line \in 0 .. MaxLine
    BY <2>1 DEF Emits, TableTyped, Lines
  <2> QED  BY <2>1, <2>2, UpdateTyped
<1>4. CASE UNCHANGED vars
  BY <1>4 DEF vars, TableTyped
<1> QED  BY <1>1, <1>2, <1>3, <1>4 DEF Next

-----------------------------------------------------------------------------
(* Lines.                                                                  *)

\* One row, or two of which the second adds nothing.
FirstHasAll(more) ==
    Len(more) \in {1, 2} /\ (Len(more) = 2 => more[2] = <<0, 0>>)

LEMMA SumsAfterUpdate ==
    ASSUME NEW rows \in Seq(Row), NEW more \in Seq(Row), NEW f \in {1, 2},
           FirstHasAll(more)
    PROVE  LET before == Sums(rows, f)[Len(rows)]
               after == Sums(rows \o more, f)
           IN  /\ before \in Int /\ more[1][f] \in Int
               /\ after[Len(rows)] = before
               /\ after[Len(rows) + 1] = before + more[1][f]
               /\ after[Len(rows \o more)] = before + more[1][f]
<1> DEFINE all == rows \o more
    before == Sums(rows, f)
    after == Sums(all, f)
    n == Len(rows)
    k == n + 1
    m == Len(more)
<1>1. all \in Seq(Row) /\ n \in Nat /\ Len(all) = n + m
  OBVIOUS
<1>2. m = 1 \/ (m = 2 /\ more[2] = <<0, 0>>)
  BY DEF FirstHasAll
<1>3. \A i \in 1 .. m : all[n + i] = more[i]
  OBVIOUS
<1>4. after[n] = before[n] /\ before[n] \in Int
  <2>1. n \in 0 .. Len(rows)
    BY <1>1
  <2> QED  BY <2>1, SumsOfPrefix, SumsInt, Zenon
<1>5. \A i \in 0 .. Len(all) - 1 : after[i + 1] = after[i] + all[i + 1][f]
  <2>1. \A i \in 1 .. Len(all) : after[i] = after[i - 1] + all[i][f]
    BY <1>1, SumsStep, Zenon
  <2> HIDE DEF all, after
  <2> QED  BY <2>1
<1>6. \A i \in 1 .. m : more[i][1] \in Int /\ more[i][2] \in Nat
  BY RowFields, Zenon
<1> HIDE DEF all, before, after, n, m
<1>7. 1 \in 1 .. m /\ n \in 0 .. Len(all) - 1
  BY <1>1, <1>2
<1>8. more[1][f] \in Int
  BY <1>6, <1>7
<1>9. after[k] = before[n] + more[1][f]
  <2>1. after[n + 1] = after[n] + all[n + 1][f]
    BY <1>5, <1>7, Zenon
  <2>2. all[n + 1] = more[1]
    BY <1>3, <1>7, Zenon
  <2> QED  BY <1>4, <2>1, <2>2
<1>10. after[n + m] = before[n] + more[1][f]
  <2>1. CASE m = 1
    BY <1>9, <2>1
  <2>2. CASE m = 2
    <3>1. 2 \in 1 .. m /\ k \in 0 .. Len(all) - 1 /\ k + 1 = n + 2
      BY <1>1, <2>2
    <3>2. all[n + 2][f] = 0
      <4>1. all[n + 2] = more[2]
        BY <1>3, <3>1, Zenon
      <4> QED  BY <1>2, <2>2, <4>1
    <3> HIDE DEF k
    <3>3. after[k + 1] = after[k] + all[k + 1][f]
      BY <1>5, <3>1, Zenon
    <3> QED  BY <1>4, <1>8, <1>9, <2>2, <3>1, <3>2, <3>3
  <2> QED  BY <1>2, <2>1, <2>2
<1> QED  BY <1>1, <1>4, <1>8, <1>9, <1>10 DEF all, before, after, n

\* A position that is found in a row gives the line of that row.
LEMMA LineFound ==
    ASSUME table \in Seq(Row), NEW i \in 1 .. Len(table), NEW pos \in Nat,
           NEW r, FoundIn(table, i, pos, r)
    PROVE  get_current_line(pos) = Sums(table, 1)[i]
<1> DEFINE S == {Len(table)} \cup {k \in DOMAIN table : Reaches(k, pos)}
<1>1. S \subseteq Nat
  OBVIOUS
<1>2. \A k \in 0 .. Len(table) : Sums(table, 2)[k] \in Int
  BY SumsInt, Zenon
<1>3. i \in S
  BY DEF FoundIn, Reaches
<1>4. ASSUME NEW k \in S PROVE i <= k
  <2>1. k \in 0 .. Len(table) /\ i - 1 \in 0 .. Len(table)
    OBVIOUS
  <2> SUFFICES ASSUME k <= i - 1 PROVE FALSE
    BY <2>1
  <2>2. Sums(table, 2)[k] <= Sums(table, 2)[i - 1]
    BY <2>1, BytesGoUp
  <2>3. k \in DOMAIN table /\ Reaches(k, pos)
    BY <2>1
  <2> QED  BY <1>2, <2>1, <2>2, <2>3 DEF Reaches, FoundIn
<1>5. Min(S) = i
  <2> HIDE DEF S
  <2> QED  BY <1>1, <1>3, <1>4, SmallestIs
<1> QED  BY <1>5 DEF get_current_line

\* A row that has been added is found again later on.
LEMMA StillFound ==
    ASSUME NEW rows \in Seq(Row), NEW more \in Seq(Row), NEW pos, NEW r,
           NEW i \in 1 .. Len(rows), FoundIn(rows, i, pos, r)
    PROVE  /\ i \in 1 .. Len(rows \o more)
           /\ FoundIn(rows \o more, i, pos, r)
<1>1. i \in 0 .. Len(rows) /\ i - 1 \in 0 .. Len(rows)
      /\ i \in 1 .. Len(rows \o more)
  OBVIOUS
<1> DEFINE j == i - 1
<1> HIDE DEF j
<1>2. j \in 0 .. Len(rows)
  BY <1>1 DEF j
<1>3. /\ Sums(rows \o more, 1)[i] = Sums(rows, 1)[i]
      /\ Sums(rows \o more, 2)[i] = Sums(rows, 2)[i]
      /\ Sums(rows \o more, 2)[j] = Sums(rows, 2)[j]
  BY <1>1, <1>2, SumsOfPrefix
<1> QED  BY <1>1, <1>3 DEF FoundIn, j

\* An update whose differences are below 256.
LEMMA UpdateFound ==
    ASSUME TableTyped, LinesInv, NEW line \in 0 .. MaxLine, NEW n \in Nat,
           line - last_line \in -255 .. 255, n - last_instr \in 0 .. 255,
           Update(line, n)
    PROVE  /\ Congruent(Sums(table', 1)[Len(table')], last_line')
           /\ exact' => Sums(table', 1)[Len(table')] = last_line'
           /\ Sums(table', 2)[Len(table')] = last_instr'
           /\ \A r : \A pos \in Nat :
                  (\E i \in 1 .. Len(table) : FoundIn(table, i, pos, r))
                  => \E i \in 1 .. Len(table') : FoundIn(table', i, pos, r)
           /\ \A r : r.line = line /\ r.exact = exact' =>
                  \A pos \in last_instr + 1 .. n :
                      \E i \in 1 .. Len(table') : FoundIn(table', i, pos, r)
<1> DEFINE more == Rows(line, n)
    k == Len(table)
    low == Int8(line - last_line)
    before == Sums(table, 1)[k]
<1>1. /\ table \in Seq(Row) /\ last_line \in Nat /\ last_instr \in Nat
      /\ line \in Nat /\ last_instr <= n /\ line - last_line \in Int
      /\ k \in 0 .. Len(table)
  BY DEF TableTyped
<1>2. more \in Seq(Row)
  BY <1>1, RowsTyped
<1>3. /\ FirstHasAll(more)
      /\ more[1] = <<low, n - last_instr>>
  BY <1>1, RowsShort DEF FirstHasAll
<1>4. /\ more[1][1] = low
      /\ more[1][2] = n - last_instr
  BY <1>3
<1>5. /\ table' = table \o more /\ last_instr' = n /\ last_line' = line
      /\ exact' = (exact /\ line - last_line \in -128 .. 127)
  BY DEF Update
<1>6. /\ Congruent(before, last_line)
      /\ exact => before = last_line
      /\ Sums(table, 2)[k] = last_instr
  BY DEF LinesInv
<1>7. before \in Int
  BY <1>1, SumsInt, Zenon
<1>8. /\ low \in Int
      /\ Congruent(low, line - last_line)
      /\ line - last_line \in -128 .. 127 => low = line - last_line
  <2> DEFINE d == line - last_line
  <2>1. d \in Int
    BY <1>1
  <2> HIDE DEF d
  <2>2. Int8(d) \in Int /\ Congruent(Int8(d), d)
    BY <2>1, Int8Congruent
  <2>3. d \in -128 .. 127 => Int8(d) = d
    BY <2>1, Conversions
  <2> QED  BY <2>2, <2>3 DEF d, low
<1> HIDE DEF more, low, before
<1>9. /\ Sums(table \o more, 1)[k + 1] = before + low
      /\ Sums(table \o more, 1)[Len(table \o more)] = before + low
  BY <1>1, <1>2, <1>3, <1>4, SumsAfterUpdate DEF before
<1>10. /\ Sums(table \o more, 2)[k] = Sums(table, 2)[k]
       /\ Sums(table \o more, 2)[k + 1] = Sums(table, 2)[k] + more[1][2]
       /\ Sums(table \o more, 2)[Len(table \o more)]
              = Sums(table, 2)[k] + more[1][2]
  BY <1>1, <1>2, <1>3, SumsAfterUpdate
<1>11. last_line + (line - last_line) = line /\ last_instr + (n - last_instr) = n
  BY <1>1
<1>12. Congruent(before + low, line)
  <2>1. last_line \in Int /\ line - last_line \in Int
    BY <1>1
  <2>2. Congruent(before + low, last_line + (line - last_line))
    BY <1>6, <1>7, <1>8, <2>1, CongruentSum
  <2> QED  BY <1>11, <2>2
<1>13. exact' => before + low = line
  BY <1>1, <1>5, <1>6, <1>8, <1>11
<1>14. /\ Congruent(Sums(table', 1)[Len(table')], last_line')
       /\ exact' => Sums(table', 1)[Len(table')] = last_line'
       /\ Sums(table', 2)[Len(table')] = last_instr'
  BY <1>4, <1>5, <1>6, <1>9, <1>10, <1>11, <1>12, <1>13
<1>15. ASSUME NEW pos \in Nat, NEW r,
              NEW i \in 1 .. Len(table), FoundIn(table, i, pos, r)
       PROVE  \E j \in 1 .. Len(table') : FoundIn(table', j, pos, r)
  BY <1>1, <1>2, <1>5, <1>15, StillFound
<1>16. ASSUME NEW r, r.line = line, r.exact = exact',
              NEW pos \in last_instr + 1 .. n
       PROVE  \E j \in 1 .. Len(table') : FoundIn(table', j, pos, r)
  <2>1. k + 1 \in 1 .. Len(table')
    <3> DEFINE m == Len(more)
        all == Len(table')
    <3>1. all = k + m
      BY <1>1, <1>2, <1>5
    <3>2. m \in {1, 2} /\ k \in Nat
      BY <1>1, <1>3 DEF FirstHasAll
    <3> HIDE DEF m, all, k
    <3>3. k + 1 \in 1 .. all
      BY <3>1, <3>2
    <3> QED  BY <3>3 DEF all
  <2>2. k + 1 - 1 = k
    BY <1>1
  <2>3. /\ Sums(table', 2)[k] = last_instr
        /\ Sums(table', 2)[k + 1] = n
        /\ Sums(table', 1)[k + 1] = before + low
    BY <1>4, <1>5, <1>6, <1>9, <1>10, <1>11
  <2>4. last_instr < pos /\ pos <= n
    BY <1>1
  <2>5. FoundIn(table', k + 1, pos, r)
    BY <1>12, <1>13, <1>16, <2>2, <2>3, <2>4 DEF FoundIn
  <2> QED  BY <2>1, <2>5
<1> QED  BY <1>14, <1>15, <1>16

LEMMA LineNear ==
    ASSUME TableTyped, LineSteps \subseteq -255 .. 255, NEW line \in Lines
    PROVE  line \in 0 .. MaxLine /\ line \in Nat /\ line - last_line \in -255 .. 255
<1>1. PICK d \in LineSteps : line = last_line + d
  BY DEF Lines
<1>2. d \in -255 .. 255
  OBVIOUS
<1>3. last_line \in Nat /\ line \in 1 .. MaxLine
  BY DEF TableTyped, Lines
<1> QED  BY <1>1, <1>2, <1>3

\* The instructions since the last row are few enough for the next row.
GapFits == size - last_instr <= 253

\* Provided that successive lines are less than 256 apart, and instructions with
\* a line are never further apart than an unsigned byte holds, get_current_line
\* gives, for every error that is not one of a call and however many rows the
\* table has, the line of the instruction up to a multiple of 256, and the line
\* itself as long as no difference has exceeded a signed byte.
THEOREM LinesAreRight ==
    ASSUME LineSteps \subseteq -255 .. 255
    PROVE  Spec /\ []GapFits => []LinesRight
<1> DEFINE Inv == TableTyped /\ LinesInv
<1>1. Init => Inv
  <2> SUFFICES ASSUME Init PROVE Inv
    OBVIOUS
  <2>1. <<>> \in Seq(Row) /\ Len(<<>>) = 0
    OBVIOUS
  <2>2. Sums(<<>>, 1)[0] = 0 /\ Sums(<<>>, 2)[0] = 0
    BY <2>1, SumsStep
  <2>3. Congruent(0, 0)
    <3>1. 0 \in Int /\ 0 = 0 + 256 * 0
      OBVIOUS
    <3> QED  BY <3>1 DEF Congruent
  <2> QED  BY <2>1, <2>2, <2>3 DEF Init, TableTyped, LinesInv
<1>2. Inv /\ GapFits /\ [Next]_vars => Inv'
  <2> SUFFICES ASSUME TableTyped, LinesInv, GapFits, [Next]_vars
               PROVE  Inv'
    OBVIOUS
  <2>1. TableTyped'
    BY StepTyped
  <2>2. CASE Silent
    BY <2>1, <2>2 DEF Silent, LinesInv
  <2>3. ASSUME NEW r, Located(table, r), NEW line \in 0 .. MaxLine, NEW n \in Nat,
               line - last_line \in -255 .. 255, n - last_instr \in 0 .. 255,
               Update(line, n)
        PROVE  Located(table', r)
    BY <2>3, UpdateFound DEF Located
  <2>4. CASE Instruction
    <3>1. PICK operands \in 0 .. 1, line \in Lines :
              /\ Emits(1 + operands) /\ Update(line, size')
              /\ Report("other", size + 1, line)
      BY <2>4 DEF Instruction
    <3>2. /\ line \in 0 .. MaxLine /\ line \in Nat
          /\ line - last_line \in -255 .. 255
      BY LineNear
    <3>3. /\ size \in Nat /\ last_instr \in 0 .. size
          /\ size' = size + (1 + operands) /\ size - last_instr <= 253
      BY <3>1 DEF Emits, TableTyped, GapFits
    <3>4. size' \in Nat /\ size' - last_instr \in 0 .. 255
      BY <3>3
    <3> DEFINE new == [kind |-> "other", ips |-> size + 1 .. size', line |-> line,
                       exact |-> exact', near |-> Abs(line - last_line) < 256]
    <3>5. /\ Congruent(Sums(table', 1)[Len(table')], last_line')
          /\ exact' => Sums(table', 1)[Len(table')] = last_line'
          /\ Sums(table', 2)[Len(table')] = last_instr'
          /\ \A pos \in last_instr + 1 .. size' :
                 \E i \in 1 .. Len(table') : FoundIn(table', i, pos, new)
      <4>1. new.line = line /\ new.exact = exact'
        OBVIOUS
      <4> HIDE DEF new
      <4> QED  BY <3>1, <3>2, <3>4, <4>1, UpdateFound
    <3>6. new.line \in Nat /\ Located(table', new)
      <4>1. size + 1 .. size' \subseteq last_instr + 1 .. size'
            /\ size + 1 .. size' \subseteq Nat
        BY <3>3, <3>4
      <4>2. new.ips = size + 1 .. size' /\ new.line = line
        OBVIOUS
      <4> HIDE DEF new
      <4> QED  BY <3>2, <3>5, <4>1, <4>2 DEF Located
    <3>7. \A r \in reports' : r = new \/ r \in reports
      BY <3>1 DEF Report
    <3> HIDE DEF new
    <3>8. \A r \in reports' :
              r.kind = "other" => r.line \in Nat /\ Located(table', r)
      BY <2>3, <3>1, <3>2, <3>4, <3>6, <3>7 DEF LinesInv
    <3> QED  BY <2>1, <3>5, <3>8 DEF LinesInv
  <2>5. CASE CallOrInvoke
    <3>1. PICK operands \in 1 .. 2, line \in Lines :
              /\ Emits(1 + operands) /\ Update(line, size + 1)
              /\ Report("call", size', line)
      BY <2>5 DEF CallOrInvoke
    <3> DEFINE n == size + 1
    <3>2. line \in 0 .. MaxLine /\ line - last_line \in -255 .. 255
      BY LineNear
    <3>3. size \in Nat /\ last_instr \in 0 .. size /\ size - last_instr <= 253
      BY DEF TableTyped, GapFits
    <3>4. n \in Nat /\ n - last_instr \in 0 .. 255 /\ Update(line, n)
      BY <3>1, <3>3
    <3> HIDE DEF n
    <3>5. /\ Congruent(Sums(table', 1)[Len(table')], last_line')
          /\ exact' => Sums(table', 1)[Len(table')] = last_line'
          /\ Sums(table', 2)[Len(table')] = last_instr'
      BY <3>2, <3>4, UpdateFound
    <3>6. \A r \in reports' : r.kind = "call" \/ r \in reports
      BY <3>1 DEF Report
    <3>7. \A r \in reports' :
              r.kind = "other" => r.line \in Nat /\ Located(table', r)
      BY <2>3, <3>2, <3>4, <3>6 DEF LinesInv
    <3> QED  BY <2>1, <3>5, <3>7 DEF LinesInv
  <2>6. CASE UNCHANGED vars
    BY <2>1, <2>6 DEF vars, LinesInv
  <2> QED  BY <2>2, <2>4, <2>5, <2>6 DEF Next
<1>3. Inv => LinesRight
  <2> SUFFICES ASSUME TableTyped, LinesInv,
                      NEW r \in reports, r.kind = "other", NEW pos \in r.ips
               PROVE  /\ r.exact => get_current_line(pos) = r.line
                      /\ (get_current_line(pos) - r.line) % 256 = 0
    BY DEF LinesRight
  <2>1. PICK i \in 1 .. Len(table) : FoundIn(table, i, pos, r)
    BY DEF LinesInv, Located
  <2>2. table \in Seq(Row) /\ pos \in Nat /\ r.line \in Nat
    BY DEF TableTyped, LinesInv, Located
  <2>3. get_current_line(pos) = Sums(table, 1)[i]
    BY <2>1, <2>2, LineFound
  <2>4. Sums(table, 1)[i] \in Int /\ r.line \in Int
    <3>1. i \in 0 .. Len(table)
      BY <2>2
    <3> QED  BY <2>2, <3>1, SumsInt
  <2>5. Congruent(Sums(table, 1)[i], r.line)
        /\ (r.exact => Sums(table, 1)[i] = r.line)
    BY <2>1 DEF FoundIn
  <2> QED  BY <2>3, <2>4, <2>5, CongruentDifference
<1> QED  BY <1>1, <1>2, <1>3, PTL DEF Spec

=============================================================================
