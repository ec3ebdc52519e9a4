--------------------------- MODULE SagaLogProofs ---------------------------
(***************************************************************************)
(* Proofs about SagaLog for any number of writers, sagas, rows and seconds,*)
(* and digits of any base up to ten.                                       *)
(***************************************************************************)
EXTENDS SagaLog, SumTheorems

-----------------------------------------------------------------------------
(* The text of a time                                                        *)

D1(t) == fraction(t) \div Base
D2(t) == fraction(t) % Base

\* A time is its second and its two digits.
LEMMA Digits ==
    ASSUME NEW t \in Nat
    PROVE  /\ second(t) \in Nat
           /\ D1(t) \in 0..9 /\ D2(t) \in 0..9
           /\ t = second(t) * Base * Base + D1(t) * Base + D2(t)
<1>1. ASSUME NEW b \in 2..10, NEW q \in 4..100, q = b * b
      PROVE  /\ t \div q \in Nat /\ t % q \in 0..(q - 1)
             /\ t = q * (t \div q) + (t % q)
  OBVIOUS
<1>2. ASSUME NEW b \in 2..10, NEW f \in 0..(b * b - 1)
      PROVE  /\ f \div b \in 0..9 /\ f % b \in 0..9
             /\ f = b * (f \div b) + (f % b)
  OBVIOUS
<1>3. Base \in 2..10 /\ Base * Base \in 4..100
  BY SagaLogAssumption
<1>4. /\ second(t) \in Nat /\ fraction(t) \in 0..(Base * Base - 1)
      /\ t = Base * Base * second(t) + fraction(t)
  BY <1>1, <1>3 DEF second, fraction
<1>5. /\ D1(t) \in 0..9 /\ D2(t) \in 0..9
      /\ fraction(t) = Base * D1(t) + D2(t)
  BY <1>2, <1>3, <1>4 DEF D1, D2
<1>6. t = second(t) * Base * Base + D1(t) * Base + D2(t)
  BY <1>3, <1>4, <1>5
<1> QED
  BY <1>4, <1>5, <1>6

\* The three shapes of the text: without fraction, with one digit, with two.
LEMMA Shapes ==
    ASSUME NEW t \in Nat
    PROVE  /\ D1(t) = 0 /\ D2(t) = 0 => Format(t) = <<48 + second(t), 90>>
           /\ D1(t) # 0 /\ D2(t) = 0 => Format(t) = <<48 + second(t), 46, 48 + D1(t), 90>>
           /\ D2(t) # 0 => Format(t) = <<48 + second(t), 46, 48 + D1(t), 48 + D2(t), 90>>
<1>1. second(t) \in Nat /\ D1(t) \in 0..9 /\ D2(t) \in 0..9
  BY Digits
<1> QED
  BY <1>1 DEF Format, D1, D2, Digit, Dot, Z

\* Reading a text back gives the time it was made from.
LEMMA RoundTrip ==
    ASSUME NEW t \in Nat
    PROVE  parseRFC3339(Format(t)) = t
<1> DEFINE s == second(t)
           x == D1(t)
           y == D2(t)
<1>1. /\ s \in Nat /\ x \in 0..9 /\ y \in 0..9 /\ t = s * Base * Base + x * Base + y
      /\ Base \in Nat
  BY Digits, SagaLogAssumption
<1>2. /\ x = 0 /\ y = 0 => Format(t) = <<48 + s, 90>>
      /\ x # 0 /\ y = 0 => Format(t) = <<48 + s, 46, 48 + x, 90>>
      /\ y # 0 => Format(t) = <<48 + s, 46, 48 + x, 48 + y, 90>>
  BY Shapes
<1> HIDE DEF s, x, y
<1>3. /\ (48 + s) - 48 = s /\ (48 + x) - 48 = x /\ (48 + y) - 48 = y
  BY <1>1
<1>4. CASE x = 0 /\ y = 0
  <2>1. parseRFC3339(<<48 + s, 90>>) = s * Base * Base + 0 * Base + 0
    BY <1>3 DEF parseRFC3339
  <2> QED
    BY <1>1, <1>2, <1>4, <2>1
<1>5. CASE x # 0 /\ y = 0
  <2>1. parseRFC3339(<<48 + s, 46, 48 + x, 90>>) = s * Base * Base + x * Base + 0
    BY <1>3 DEF parseRFC3339
  <2> QED
    BY <1>1, <1>2, <1>5, <2>1
<1>6. CASE y # 0
  <2>1. parseRFC3339(<<48 + s, 46, 48 + x, 48 + y, 90>>) = s * Base * Base + x * Base + y
    BY <1>3 DEF parseRFC3339
  <2> QED
    BY <1>1, <1>2, <1>6, <2>1
<1> QED
  BY <1>4, <1>5, <1>6

\* The second to fourth character, or 0 where the text has ended.
C2(t) == IF D1(t) = 0 /\ D2(t) = 0 THEN 90 ELSE 46
C3(t) == IF D1(t) = 0 /\ D2(t) = 0 THEN 0 ELSE 48 + D1(t)
C4(t) == IF D1(t) = 0 /\ D2(t) = 0 THEN 0 ELSE IF D2(t) = 0 THEN 90 ELSE 48 + D2(t)

\* A number that grows with the text: its characters as digits of base 128.
Shift(p, x) == p * 128 + x
Weight2(t)  == Shift(48 + second(t), C2(t))
Weight3(t)  == Shift(Weight2(t), C3(t))
Weight(t)   == Shift(Weight3(t), C4(t))

LEMMA ShiftType ==
    ASSUME NEW p \in Nat, NEW x \in 0..127
    PROVE  Shift(p, x) \in Nat
  BY DEF Shift

\* One digit more: what comes before it decides, then the digit.
LEMMA OneMoreDigit ==
    ASSUME NEW p \in Nat, NEW q \in Nat, NEW x \in 0..127, NEW y \in 0..127
    PROVE  /\ Shift(p, x) < Shift(q, y) => p < q \/ (p = q /\ x < y)
           /\ Shift(p, x) = Shift(q, y) => p = q /\ x = y
  BY SMT DEF Shift

\* The text, character by character.
LEMMA Chars ==
    ASSUME NEW t \in Nat
    PROVE  /\ second(t) \in Nat /\ C2(t) \in 46..90 /\ C3(t) \in 0..57 /\ C4(t) \in 0..90
           /\ Len(Format(t)) \in Nat /\ Len(Format(t)) >= 2
           /\ Format(t)[1] = 48 + second(t) /\ Format(t)[2] = C2(t)
           /\ C2(t) = 46 => /\ Len(Format(t)) >= 4
                            /\ Format(t)[3] = C3(t) /\ Format(t)[4] = C4(t)
           /\ C2(t) # 46 => C2(t) = 90 /\ C3(t) = 0 /\ C4(t) = 0
<1>1. second(t) \in Nat /\ D1(t) \in 0..9 /\ D2(t) \in 0..9
  BY Digits
<1>2. CASE D1(t) = 0 /\ D2(t) = 0
  <2>1. Format(t) = <<48 + second(t), 90>> /\ C2(t) = 90 /\ C3(t) = 0 /\ C4(t) = 0
    BY <1>2, Shapes DEF C2, C3, C4
  <2> QED
    BY <1>1, <2>1
<1>3. CASE D1(t) # 0 /\ D2(t) = 0
  <2>1. /\ Format(t) = <<48 + second(t), 46, 48 + D1(t), 90>>
        /\ C2(t) = 46 /\ C3(t) = 48 + D1(t) /\ C4(t) = 90
    BY <1>3, Shapes DEF C2, C3, C4
  <2> QED
    BY <1>1, <2>1
<1>4. CASE D2(t) # 0
  <2>1. /\ Format(t) = <<48 + second(t), 46, 48 + D1(t), 48 + D2(t), 90>>
        /\ C2(t) = 46 /\ C3(t) = 48 + D1(t) /\ C4(t) = 48 + D2(t)
    BY <1>4, Shapes DEF C2, C3, C4
  <2> QED
    BY <1>1, <2>1
<1> QED
  BY <1>2, <1>3, <1>4

\* The text that weighs less comes first, and texts of one weight are the same.
LEMMA WeightOrders ==
    ASSUME NEW t \in Nat, NEW u \in Nat
    PROVE  /\ Weight(t) \in Nat
           /\ Weight(t) < Weight(u) => Before(Format(t), Format(u))
           /\ Weight(t) = Weight(u) => Format(t) = Format(u)
<1> DEFINE a == Format(t)
           b == Format(u)
<1>1. /\ second(t) \in Nat /\ C2(t) \in 46..90 /\ C3(t) \in 0..57 /\ C4(t) \in 0..90
      /\ second(u) \in Nat /\ C2(u) \in 46..90 /\ C3(u) \in 0..57 /\ C4(u) \in 0..90
  BY Chars
<1> DEFINE p == 48 + second(t)
           q == 48 + second(u)
           p2 == Weight2(t)
           q2 == Weight2(u)
           p3 == Weight3(t)
           q3 == Weight3(u)
           p4 == Weight(t)
           q4 == Weight(u)
<1>5. /\ p2 \in Nat /\ q2 \in Nat
      /\ p2 < q2 => second(t) < second(u) \/ (second(t) = second(u) /\ C2(t) < C2(u))
      /\ p2 = q2 => second(t) = second(u) /\ C2(t) = C2(u)
  <2>1. /\ p \in Nat /\ q \in Nat /\ C2(t) \in 0..127 /\ C2(u) \in 0..127
        /\ p < q => second(t) < second(u)
        /\ p = q => second(t) = second(u)
    BY <1>1
  <2>2. p2 = Shift(p, C2(t)) /\ q2 = Shift(q, C2(u))
    BY DEF Weight2
  <2> HIDE DEF p, q, p2, q2
  <2>3. p2 \in Nat /\ q2 \in Nat
    BY <2>1, <2>2, ShiftType
  <2>4. p2 < q2 => p < q \/ (p = q /\ C2(t) < C2(u))
    BY <2>1, <2>2, OneMoreDigit
  <2>5. p2 = q2 => p = q /\ C2(t) = C2(u)
    <3>1. Shift(p, C2(t)) = Shift(q, C2(u)) => p = q /\ C2(t) = C2(u)
      BY <2>1, OneMoreDigit
    <3> QED
      BY <2>2, <3>1
  <2> QED
    BY <2>1, <2>3, <2>4, <2>5
<1>6. /\ p3 \in Nat /\ q3 \in Nat
      /\ p3 < q3 => p2 < q2 \/ (p2 = q2 /\ C3(t) < C3(u))
      /\ p3 = q3 => p2 = q2 /\ C3(t) = C3(u)
  <2>1. C3(t) \in 0..127 /\ C3(u) \in 0..127
    BY <1>1
  <2>2. p3 = Shift(p2, C3(t)) /\ q3 = Shift(q2, C3(u))
    BY DEF Weight3
  <2> HIDE DEF p2, q2, p3, q3
  <2>3. p3 \in Nat /\ q3 \in Nat
    BY <1>5, <2>1, <2>2, ShiftType
  <2>4. p3 < q3 => p2 < q2 \/ (p2 = q2 /\ C3(t) < C3(u))
    BY <1>5, <2>1, <2>2, OneMoreDigit
  <2>5. p3 = q3 => p2 = q2 /\ C3(t) = C3(u)
    <3>1. Shift(p2, C3(t)) = Shift(q2, C3(u)) => p2 = q2 /\ C3(t) = C3(u)
      BY <1>5, <2>1, OneMoreDigit
    <3> QED
      BY <2>2, <3>1
  <2> QED
    BY <2>3, <2>4, <2>5
<1>7. /\ p4 \in Nat
      /\ p4 < q4 => p3 < q3 \/ (p3 = q3 /\ C4(t) < C4(u))
      /\ p4 = q4 => p3 = q3 /\ C4(t) = C4(u)
  <2>1. C4(t) \in 0..127 /\ C4(u) \in 0..127 /\ p3 \in Nat /\ q3 \in Nat
    BY <1>1, <1>6
  <2>2. p4 = Shift(p3, C4(t)) /\ q4 = Shift(q3, C4(u))
    BY DEF Weight
  <2> HIDE DEF p3, q3, p4, q4
  <2>3. p4 \in Nat
    BY <2>1, <2>2, ShiftType
  <2>4. p4 < q4 => p3 < q3 \/ (p3 = q3 /\ C4(t) < C4(u))
    BY <2>1, <2>2, OneMoreDigit
  <2>5. p4 = q4 => p3 = q3 /\ C4(t) = C4(u)
    <3>1. Shift(p3, C4(t)) = Shift(q3, C4(u)) => p3 = q3 /\ C4(t) = C4(u)
      BY <2>1, OneMoreDigit
    <3> QED
      BY <2>2, <3>1
  <2> QED
    BY <2>3, <2>4, <2>5
<1> HIDE DEF p, q, p2, q2, p3, q3
<1>3. ASSUME Weight(t) = Weight(u) PROVE a = b
  <2>1. second(t) = second(u) /\ C2(t) = C2(u) /\ C3(t) = C3(u) /\ C4(t) = C4(u)
    BY <1>3, <1>5, <1>6, <1>7
  <2>2. /\ D1(t) \in 0..9 /\ D2(t) \in 0..9 /\ D1(u) \in 0..9 /\ D2(u) \in 0..9
    BY Digits
  <2>3. D1(t) = D1(u) /\ D2(t) = D2(u)
    BY <2>1, <2>2 DEF C2, C3, C4
  <2> QED
    BY <2>1, <2>3 DEF Format, D1, D2
<1>4. ASSUME Weight(t) < Weight(u) PROVE Before(a, b)
  <2>1. \/ second(t) < second(u)
        \/ second(t) = second(u) /\ C2(t) < C2(u)
        \/ second(t) = second(u) /\ C2(t) = C2(u) /\ C3(t) < C3(u)
        \/ second(t) = second(u) /\ C2(t) = C2(u) /\ C3(t) = C3(u) /\ C4(t) < C4(u)
    BY <1>4, <1>5, <1>6, <1>7
  <2>2. /\ Len(a) \in Nat /\ Len(a) >= 2 /\ a[1] = 48 + second(t) /\ a[2] = C2(t)
        /\ Len(b) \in Nat /\ Len(b) >= 2 /\ b[1] = 48 + second(u) /\ b[2] = C2(u)
        /\ C2(t) = 46 => Len(a) >= 4 /\ a[3] = C3(t) /\ a[4] = C4(t)
        /\ C2(u) = 46 => Len(b) >= 4 /\ b[3] = C3(u) /\ b[4] = C4(u)
        /\ C2(t) # 46 => C3(t) = 0 /\ C4(t) = 0
        /\ C2(u) # 46 => C3(u) = 0 /\ C4(u) = 0
    BY Chars
  <2> HIDE DEF a, b
  <2>3. CASE second(t) < second(u)
    <3>1. 1 \in 1..Len(b) /\ a[1] < b[1]
      BY <1>1, <2>2, <2>3
    <3> QED
      BY <3>1 DEF Before
  <2>4. CASE second(t) = second(u) /\ C2(t) < C2(u)
    <3>1. 2 \in 1..Len(b) /\ a[2] < b[2] /\ \A i \in 1..(2 - 1) : i <= Len(a) /\ a[i] = b[i]
      BY <1>1, <2>2, <2>4
    <3> QED
      BY <3>1 DEF Before
  <2>5. CASE second(t) = second(u) /\ C2(t) = C2(u) /\ C3(t) < C3(u)
    <3>1. C2(u) = 46
      BY <1>1, <2>2, <2>5
    <3>2. 3 \in 1..Len(b) /\ a[3] < b[3] /\ \A i \in 1..(3 - 1) : i <= Len(a) /\ a[i] = b[i]
      BY <1>1, <2>2, <2>5, <3>1
    <3> QED
      BY <3>2 DEF Before
  <2>6. CASE second(t) = second(u) /\ C2(t) = C2(u) /\ C3(t) = C3(u) /\ C4(t) < C4(u)
    <3>1. C2(u) = 46
      BY <1>1, <2>2, <2>6
    <3>2. 4 \in 1..Len(b) /\ a[4] < b[4] /\ \A i \in 1..(4 - 1) : i <= Len(a) /\ a[i] = b[i]
      BY <1>1, <2>2, <2>6, <3>1
    <3> QED
      BY <3>2 DEF Before
  <2> QED
    BY <2>1, <2>3, <2>4, <2>5, <2>6
<1> QED
  BY <1>3, <1>4, <1>7

\* A text that comes before another is not of a later second.
LEMMA BeforeSecond ==
    ASSUME NEW t \in Nat, NEW u \in Nat, Before(Format(t), Format(u))
    PROVE  second(t) <= second(u)
<1>1. second(t) \in Nat /\ second(u) \in Nat /\ D1(t) \in 0..9 /\ D2(t) \in 0..9
      /\ D1(u) \in 0..9 /\ D2(u) \in 0..9
  BY Digits
<1>2. /\ Format(t)[1] = 48 + second(t) /\ Format(u)[1] = 48 + second(u)
      /\ Len(Format(t)) \in Nat /\ Len(Format(t)) >= 1 /\ Len(Format(u)) \in Nat
  BY <1>1, Shapes
<1>3. PICK k \in 1..Len(Format(u)) :
        /\ \A i \in 1..(k - 1) : i <= Len(Format(t)) /\ Format(t)[i] = Format(u)[i]
        /\ k > Len(Format(t)) \/ Format(t)[k] < Format(u)[k]
  BY DEF Before
<1>4. CASE k = 1
  BY <1>1, <1>2, <1>3, <1>4
<1>5. CASE k > 1
  <2>1. 1 \in 1..(k - 1)
    BY <1>2, <1>5
  <2> QED
    BY <1>1, <1>2, <1>3, <2>1
<1> QED
  BY <1>2, <1>4, <1>5

-----------------------------------------------------------------------------
(* The row that GetLatest finds                                              *)

\* Of the subsets that belong to the elements of a finite set, one is minimal.
LEMMA MinimalOf ==
    ASSUME NEW S, IsFiniteSet(S), S # {}, NEW A \in [S -> SUBSET S]
    PROVE  \E i \in S : \A j \in S : A[j] \subseteq A[i] => A[j] = A[i]
<1> DEFINE B == {A[i] : i \in S}
<1>1. B \subseteq SUBSET S /\ B # {}
  OBVIOUS
<1>2. PICK T \in B : \A U \in B : U \subseteq T => U = T
  <2> HIDE DEF B
  <2> QED
    BY <1>1, MinimalSubset
<1> QED
  BY <1>2

\* Of finitely many weighed rows one is the heaviest, and the last of these.
LEMMA Heaviest ==
    ASSUME NEW S, IsFiniteSet(S), S # {}, NEW w
    PROVE  (\A i \in S : i \in Nat /\ w[i] \in Nat)
           => \E i \in S : \A j \in S : w[j] < w[i] \/ (w[j] = w[i] /\ j <= i)
<1> DEFINE Above(i) == {j \in S : w[i] < w[j] \/ (w[i] = w[j] /\ i < j)}
           A == [i \in S |-> Above(i)]
<1>1. A \in [S -> SUBSET S]
  OBVIOUS
<1>2. \E i \in S : \A j \in S : A[j] \subseteq A[i] => A[j] = A[i]
  <2> HIDE DEF A
  <2> QED
    BY <1>1, MinimalOf
<1>3. PICK i \in S : \A j \in S : Above(j) \subseteq Above(i) => Above(j) = Above(i)
  <2> HIDE DEF Above
  <2> QED
    BY <1>2
<1>4. SUFFICES ASSUME \A k \in S : k \in Nat /\ w[k] \in Nat,
                      NEW j \in S
               PROVE  w[j] < w[i] \/ (w[j] = w[i] /\ j <= i)
  BY <1>3
<1>5. i \in Nat /\ j \in Nat /\ w[i] \in Nat /\ w[j] \in Nat
  BY <1>4
<1>6. ASSUME j \in Above(i) PROVE FALSE
  <2>1. w[i] < w[j] \/ (w[i] = w[j] /\ i < j)
    BY <1>6
  <2>2. ASSUME NEW k \in Above(j) PROVE k \in Above(i)
    <3>1. /\ k \in S /\ k \in Nat /\ w[k] \in Nat
          /\ w[j] < w[k] \/ (w[j] = w[k] /\ j < k)
      BY <1>4, <2>2
    <3>2. w[i] < w[k] \/ (w[i] = w[k] /\ i < k)
      BY <1>5, <2>1, <3>1
    <3> QED
      BY <3>1, <3>2
  <2>3. j \notin Above(j)
    BY <1>5
  <2> HIDE DEF Above
  <2> QED
    BY <1>3, <1>6, <2>2, <2>3
<1>7. ~(w[i] < w[j] \/ (w[i] = w[j] /\ i < j))
  BY <1>6
<1> HIDE DEF Above, A
<1> QED
  BY <1>5, <1>7

\* The invariant is that of the types: a row holds the text of an instant.  When
\* that instant was the clock does not say, it may have been set back since.

\* A row's time is the one its text was made from.
LEMMA RowTime ==
    ASSUME TypeOK, NEW i \in 1..Len(rows)
    PROVE  /\ Time(i) \in 0..MaxTime /\ Time(i) \in Nat
           /\ rows[i].updated_at = Format(Time(i))
<1>1. PICK t \in 0..MaxTime : rows[i].updated_at = Format(t)
  <2> DEFINE Row == [saga : Sagas, updated_at : {Format(t) : t \in 0..MaxTime}]
  <2>1. rows \in Seq(Row)
    BY DEF TypeOK
  <2>2. rows[i] \in Row
    <3> HIDE DEF Row
    <3> QED
      BY <2>1
  <2> QED
    BY <2>2
<1>2. t \in Nat
  OBVIOUS
<1>3. Time(i) = t
  BY <1>1, <1>2, RoundTrip DEF Time
<1> QED
  BY <1>1, <1>2, <1>3

\* GetLatest's choice exists: the query has one answer as soon as the saga has a
\* row, whatever times the rows carry.
LEMMA LatestExists ==
    ASSUME TypeOK, NEW s \in Sagas, RowsOf(s) # {}
    PROVE  /\ GetLatest(s) \in RowsOf(s)
           /\ \A j \in RowsOf(s) \ {GetLatest(s)} :
                 \/ Before(rows[j].updated_at, rows[GetLatest(s)].updated_at)
                 \/ rows[j].updated_at = rows[GetLatest(s)].updated_at /\ j < GetLatest(s)
<1> DEFINE S == RowsOf(s)
           w == [i \in S |-> Weight(Time(i))]
           Wins(i) == \A j \in S \ {i} :
                        \/ Before(rows[j].updated_at, rows[i].updated_at)
                        \/ rows[j].updated_at = rows[i].updated_at /\ j < i
<1>1. Len(rows) \in Nat
  BY DEF TypeOK
<1>2. S \subseteq 1..Len(rows)
  BY DEF RowsOf
<1>3. \A i \in S : Time(i) \in Nat /\ rows[i].updated_at = Format(Time(i))
  BY <1>2, RowTime
<1>4. \A i \in S : Weight(Time(i)) \in Nat
  BY <1>3, WeightOrders
<1>5. w \in [S -> Nat]
  BY <1>4
<1>6. PICK i \in S : \A j \in S : w[j] < w[i] \/ (w[j] = w[i] /\ j <= i)
  <2>1. S # {} /\ S \subseteq Nat
    BY <1>1, <1>2
  <2>2. IsFiniteSet(S)
    <3>1. IsFiniteSet(1..Len(rows))
      BY <1>1, FS_Interval
    <3> HIDE DEF S, w
    <3> QED
      BY <1>2, <3>1, FS_Subset
  <2>3. \A i \in S : i \in Nat /\ w[i] \in Nat
    BY <1>5, <2>1
  <2> HIDE DEF S, w
  <2> QED
    BY <2>1, <2>2, <2>3, Heaviest
<1>7. ASSUME NEW j \in S \ {i}
      PROVE  \/ Before(rows[j].updated_at, rows[i].updated_at)
             \/ rows[j].updated_at = rows[i].updated_at /\ j < i
  <2>1. /\ Time(i) \in Nat /\ rows[i].updated_at = Format(Time(i))
        /\ Time(j) \in Nat /\ rows[j].updated_at = Format(Time(j))
    BY <1>3
  <2>2. \/ Weight(Time(j)) < Weight(Time(i))
        \/ Weight(Time(j)) = Weight(Time(i)) /\ j <= i
    BY <1>6
  <2>3. i \in Nat /\ j \in Nat /\ i # j
    BY <1>1, <1>2
  <2>4. CASE Weight(Time(j)) < Weight(Time(i))
    BY <2>1, <2>4, WeightOrders
  <2>5. CASE Weight(Time(j)) = Weight(Time(i)) /\ j <= i
    <3>1. Format(Time(j)) = Format(Time(i))
      BY <2>1, <2>5, WeightOrders
    <3>2. j < i
      BY <2>3, <2>5
    <3> QED
      BY <2>1, <3>1, <3>2
  <2> QED
    BY <2>2, <2>4, <2>5
<1>8. Wins(i)
  BY <1>7
<1>9. GetLatest(s) = CHOOSE k \in S : Wins(k)
  BY DEF GetLatest
<1> HIDE DEF S, w, Wins
<1>10. GetLatest(s) \in S /\ Wins(GetLatest(s))
  BY <1>8, <1>9
<1> QED
  BY <1>10 DEF S, Wins

-----------------------------------------------------------------------------
(* The invariant is inductive                                                *)

LEMMA InitInv == Init => TypeOK
  BY SagaLogAssumption DEF Init, TypeOK

LEMMA TickInv == TypeOK /\ Tick => TypeOK'
  BY DEF TypeOK, Tick

LEMMA NewEntryInv == ASSUME NEW w \in Writers PROVE TypeOK /\ NewEntry(w) => TypeOK'
  BY DEF TypeOK, NewEntry

LEMMA SaveInv == ASSUME NEW w \in Writers PROVE TypeOK /\ Save(w) => TypeOK'
<1> SUFFICES ASSUME TypeOK, Save(w) PROVE TypeOK'
  OBVIOUS
<1> DEFINE Row == [saga : Sagas, updated_at : {Format(t) : t \in 0..MaxTime}]
           row == [saga |-> SagaOf[w], updated_at |-> Format(entry[w])]
<1>1. /\ now' = now
      /\ entry' = [entry EXCEPT ![w] = Nil]
      /\ rows' = rows \/ rows' = Append(rows, row)
  BY DEF Save
<1>2. entry[w] \in 0..MaxTime
  BY DEF TypeOK, Save
<1>3. row \in Row
  BY <1>2, SagaLogAssumption
<1>4. rows \in Seq(Row)
  BY DEF TypeOK
<1>5. rows' \in Seq(Row)
  <2> HIDE DEF row, Row
  <2> QED
    BY <1>1, <1>3, <1>4
<1> QED
  BY <1>1, <1>5 DEF TypeOK

LEMMA NextInv == TypeOK /\ [Next]_vars => TypeOK'
<1> SUFFICES ASSUME TypeOK, [Next]_vars PROVE TypeOK'
  OBVIOUS
<1>1. CASE Tick
  BY <1>1, TickInv
<1>2. ASSUME NEW w \in Writers, NewEntry(w) PROVE TypeOK'
  BY <1>2, NewEntryInv
<1>3. ASSUME NEW w \in Writers, Save(w) PROVE TypeOK'
  BY <1>3, SaveInv
<1>4. CASE UNCHANGED vars
  BY <1>4 DEF TypeOK, vars
<1> QED
  BY <1>1, <1>2, <1>3, <1>4 DEF Next

-----------------------------------------------------------------------------
(* The theorems                                                              *)

\* The clock, the pending entries and the rows have their types: a row holds the
\* text of some instant.
THEOREM TypeCorrect == Spec => []TypeOK
  BY InitInv, NextInv, PTL DEF Spec

\* What Save writes, parseRFC3339 reads back unchanged, for any number of writers
\* and for digits of any base up to ten, whatever the clock does.
THEOREM Survives == Spec => []TimesSurvive
<1>1. ASSUME TypeOK PROVE TimesSurvive
  <2>1. \A i \in 1..Len(rows) : Time(i) \in 0..MaxTime /\ Format(Time(i)) = rows[i].updated_at
    BY <1>1, RowTime
  <2>2. ASSUME NEW w \in Writers, entry[w] # Nil
        PROVE  parseRFC3339(Format(entry[w])) = entry[w]
    <3>1. entry[w] \in Nat
      BY <1>1, <2>2, SagaLogAssumption DEF TypeOK
    <3> QED
      BY <3>1, RoundTrip
  <2> QED
    BY <2>1, <2>2 DEF TimesSurvive
<1> QED
  BY <1>1, TypeCorrect, PTL

\* GetLatest, which asks SQLite for the largest text, is never behind the most
\* recent row of the saga by a whole second, however many rows there are and in
\* whatever order their writers inserted them.
THEOREM WithinASecond == Spec => []LatestWithinASecond
<1>1. ASSUME TypeOK PROVE LatestWithinASecond
  <2>1. SUFFICES ASSUME NEW s \in Sagas, NEW i \in RowsOf(s)
                 PROVE  second(Time(GetLatest(s))) >= second(Time(i))
    BY DEF LatestWithinASecond
  <2> DEFINE l == GetLatest(s)
  <2>2. /\ l \in RowsOf(s)
        /\ i # l => \/ Before(rows[i].updated_at, rows[l].updated_at)
                    \/ rows[i].updated_at = rows[l].updated_at
    BY <1>1, LatestExists
  <2> HIDE DEF l
  <2>3. i \in 1..Len(rows) /\ l \in 1..Len(rows)
    BY <2>2 DEF RowsOf
  <2>4. /\ Time(i) \in Nat /\ rows[i].updated_at = Format(Time(i))
        /\ Time(l) \in Nat /\ rows[l].updated_at = Format(Time(l))
    BY <1>1, <2>3, RowTime
  <2>5. second(Time(i)) \in Nat /\ second(Time(l)) \in Nat
    BY <2>4, Digits
  <2>6. CASE i = l \/ rows[i].updated_at = rows[l].updated_at
    <3>1. Time(i) = Time(l)
      BY <2>6 DEF Time
    <3> QED
      BY <2>5, <3>1 DEF l
  <2>7. CASE Before(rows[i].updated_at, rows[l].updated_at)
    <3>1. second(Time(i)) <= second(Time(l))
      BY <2>4, <2>7, BeforeSecond
    <3> QED
      BY <2>5, <3>1 DEF l
  <2> QED
    BY <2>2, <2>6, <2>7
<1> QED
  BY <1>1, TypeCorrect, PTL

=============================================================================
