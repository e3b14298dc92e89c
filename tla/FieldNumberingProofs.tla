------------------------ MODULE FieldNumberingProofs ------------------------
(***************************************************************************)
(* What the search for a frame's fields finds, for every capture: lemmas    *)
(* about FieldNumbering.                                                   *)
(***************************************************************************)
EXTENDS FieldNumbering, WellFoundedInduction, TLAPS

-----------------------------------------------------------------------------
\* Field numbers.

\* A non-empty set of numbers has a least one.
LEMMA LeastIsLeast ==
  ASSUME NEW S \in SUBSET Nat, S # {}
  PROVE  Least(S) \in S /\ \A n \in S : Least(S) <= n
<1>1. PICK x \in S : \A y \in S : ~(<<y, x>> \in OpToRel(<, Nat))
  <2>1. IsWellFoundedOn(OpToRel(<, Nat), Nat)
    BY NatLessThanWellFounded
  <2> QED
    BY <2>1, WFMin
<1>2. \A y \in S : ~(y < x)
  BY <1>1 DEF OpToRel
<1>3. \A y \in S : x <= y
  BY <1>2
<1> QED
  BY <1>3 DEF Least

\* The search stops, and nowhere before the number it returns.
Found(c, order, f) == Least(SearchStops(c, order, SearchStart(order, f)))

LEMMA SearchEnds ==
  ASSUME NEW c \in Seq(BOOLEAN), NEW order \in BOOLEAN, NEW f \in Nat \ {0}
  PROVE  LET start == SearchStart(order, f)
             n == Found(c, order, f)
         IN  /\ start \in Nat \ {0} /\ n \in Nat /\ n >= start /\ n <= start + Len(c) + 1
             /\ IsFirstField(c, n) \/ (n > start /\ ~InFile(c, order, n))
             /\ \A m \in start .. n - 1 :
                  ~IsFirstField(c, m) /\ (m > start => InFile(c, order, m))
<1> DEFINE start == SearchStart(order, f)
           S == SearchStops(c, order, start)
           end == start + Len(c) + 1
<1>1. start \in Nat \ {0} /\ Len(c) \in Nat
  BY DEF SearchStart
<1>2. S \in SUBSET Nat
  BY <1>1 DEF SearchStops
<1>3. end \in S
  <2>1. end \in start .. end /\ end > start
    BY <1>1
  <2>2. ~InFile(c, order, end)
    BY <1>1 DEF InFile
  <2> QED
    BY <2>1, <2>2 DEF SearchStops
<1>4. Least(S) \in S /\ \A m \in S : Least(S) <= m
  BY <1>2, <1>3, LeastIsLeast
<1> DEFINE n == Least(S)
<1>5. n \in S /\ n \in Nat /\ \A m \in S : n <= m
  BY <1>2, <1>4
<1>6. /\ n \in start .. end
      /\ IsFirstField(c, n) \/ (n > start /\ ~InFile(c, order, n))
  BY <1>5 DEF SearchStops
<1> HIDE DEF n
<1>7. ASSUME NEW m \in start .. n - 1
      PROVE  ~IsFirstField(c, m) /\ (m > start => InFile(c, order, m))
  <2>1. m \notin S
    BY <1>1, <1>2, <1>5, <1>7
  <2>2. m \in start .. end
    BY <1>1, <1>6, <1>7
  <2> QED
    BY <2>1, <2>2 DEF SearchStops
<1>8. Found(c, order, f) = n
  BY DEF Found, n
<1> HIDE DEF start, S
<1>9. n >= start /\ n <= start + Len(c) + 1
  BY <1>1, <1>6
<1> QED
  BY <1>1, <1>5, <1>6, <1>7, <1>8, <1>9 DEF start

\* A frame's two fields are the field the search found and its neighbour, both in the
\* capture, and the one called first is a first field; or the frame has none.
LEMMA FrameShape ==
  ASSUME NEW c \in Seq(BOOLEAN), NEW order \in BOOLEAN, NEW f \in Nat \ {0}
  PROVE  LET n == Found(c, order, f)
             p == FieldNumbers(c, order, f)
         IN  IF InFile(c, order, n)
               THEN /\ p = [first |-> n, second |-> n + ToSecond(order)]
                    /\ p # NoFields
                    /\ {n, n + ToSecond(order)} \subseteq 1 .. Len(c)
                    /\ IsFirstField(c, n)
               ELSE p = NoFields
<1> DEFINE n == Found(c, order, f)
           p == FieldNumbers(c, order, f)
<1>1. p = IF InFile(c, order, n) THEN [first |-> n, second |-> n + ToSecond(order)] ELSE NoFields
  BY DEF FieldNumbers, Found
<1>2. /\ n \in Nat /\ n >= SearchStart(order, f) /\ SearchStart(order, f) \in Nat \ {0}
      /\ InFile(c, order, n) => IsFirstField(c, n)
  BY SearchEnds
<1>3. ASSUME InFile(c, order, n)
      PROVE  p # NoFields /\ {n, n + ToSecond(order)} \subseteq 1 .. Len(c)
  <2>1. Len(c) \in Nat /\ n <= Len(c) /\ n + ToSecond(order) <= Len(c)
    BY <1>3 DEF InFile
  <2>2. n >= 1 /\ n + ToSecond(order) >= 1
    BY <1>2 DEF SearchStart, ToSecond
  <2>3. p.first = n
    BY <1>1, <1>3
  <2> HIDE DEF n, p
  <2>4. p # NoFields
    BY <2>2, <2>3, <1>2 DEF NoFields
  <2>5. ToSecond(order) \in Int
    BY DEF ToSecond
  <2> QED
    BY <1>2, <2>1, <2>2, <2>4, <2>5
<1> QED
  BY <1>1, <1>2, <1>3

\* The next frame's fields are found no earlier in the capture.
LEMMA SearchAdvances ==
  ASSUME NEW c \in Seq(BOOLEAN), NEW order \in BOOLEAN, NEW f \in Nat \ {0}
  PROVE  Found(c, order, f) <= Found(c, order, f + 1)
<1> DEFINE start == SearchStart(order, f)
           n == Found(c, order, f)
           next == Found(c, order, f + 1)
<1>1. SearchStart(order, f + 1) = start + 2
  BY DEF SearchStart
<1>2. /\ start \in Nat \ {0} /\ n \in Nat
      /\ \A m \in start .. n - 1 : ~IsFirstField(c, m) /\ (m > start => InFile(c, order, m))
  BY SearchEnds
<1>3. /\ next \in Nat /\ next >= start + 2
      /\ IsFirstField(c, next) \/ ~InFile(c, order, next)
  BY <1>1, SearchEnds, f + 1 \in Nat \ {0}
<1> HIDE DEF start, n, next
<1>4. SUFFICES ASSUME next < n PROVE FALSE
  BY <1>2, <1>3 DEF n, next
<1>5. next \in start .. n - 1 /\ next > start
  BY <1>2, <1>3, <1>4
<1> QED
  BY <1>2, <1>3, <1>5

\* In a capture whose fields alternate, every second one is a first field.
LEMMA Parity ==
  ASSUME NEW c \in Seq(BOOLEAN), Alternating(c), NEW n \in 1 .. Len(c)
  PROVE  IsFirstField(c, n) <=> (IsFirstField(c, 1) <=> n % 2 = 1)
<1> DEFINE Odd(m) == ~(c[m] <=> (c[1] <=> m % 2 = 1))
           S == {m \in 1 .. Len(c) : Odd(m)}
<1>0. Len(c) \in Nat /\ \A m \in 1 .. Len(c) : c[m] \in BOOLEAN
  OBVIOUS
<1>1. S = {}
  <2> SUFFICES ASSUME S # {} PROVE FALSE
    OBVIOUS
  <2>1. S \in SUBSET Nat
    BY <1>0
  <2> DEFINE k == Least(S)
  <2>2. k \in S /\ \A m \in S : k <= m
    BY <2>1, LeastIsLeast
  <2> HIDE DEF k, S
  <2>3. k \in 1 .. Len(c) /\ Odd(k)
    BY <2>2 DEF S
  <2>4. k # 1
    BY <2>3, <1>0
  <2>5. k - 1 \in 1 .. Len(c) - 1 /\ k - 1 \in 1 .. Len(c)
    BY <1>0, <2>3, <2>4
  <2>6. ~Odd(k - 1)
    BY <2>2, <2>3, <2>5 DEF S
  <2>7. c[k] # c[k - 1]
    <3>1. c[(k - 1) + 1] # c[k - 1]
      BY <2>5 DEF Alternating
    <3> QED
      BY <3>1, <2>3
  <2>8. (k % 2 = 1) <=> ~((k - 1) % 2 = 1)
    BY <2>3
  <2> QED
    BY <1>0, <2>3, <2>5, <2>6, <2>7, <2>8
<1>2. ~Odd(n)
  BY <1>1
<1> QED
  BY <1>0, <1>2 DEF IsFirstField

\* The pairs of such a capture follow one another without a gap.
LEMMA AlternatingPairs ==
  ASSUME NEW c \in Seq(BOOLEAN), NEW order \in BOOLEAN, Alternating(c),
         NEW f \in 1 .. NumberOfFrames(c, order)
  PROVE  LET skipped == IF IsFirstField(c, 1) = order THEN 0 ELSE 1
             n == SearchStart(order, f) + skipped
         IN  FieldNumbers(c, order, f) = [first |-> n, second |-> n + ToSecond(order)]
<1> DEFINE skipped == IF IsFirstField(c, 1) = order THEN 0 ELSE 1
           start == SearchStart(order, f)
           found == Found(c, order, f)
<1>1. /\ Len(c) \in Nat /\ Len(c) \div 2 \in Nat /\ 2 * (Len(c) \div 2) <= Len(c)
      /\ IsFirstField(c, 1) \in BOOLEAN
  BY DEF IsFirstField
<1>2. f \in Nat \ {0} /\ f <= Len(c) \div 2 - skipped
  BY <1>1 DEF NumberOfFrames
<1>3. 2 * f + 2 * skipped <= Len(c)
  BY <1>1, <1>2
<1>4. start \in Nat \ {0} /\ start \in 2 * f - 1 .. 2 * f /\ start % 2 = IF order THEN 1 ELSE 0
  BY <1>2 DEF SearchStart
<1>5. {start, start + skipped} \subseteq 1 .. Len(c)
  BY <1>1, <1>3, <1>4
<1>6. IsFirstField(c, start) <=> skipped = 0
  BY <1>1, <1>4, <1>5, Parity
<1>7. skipped = 1 => IsFirstField(c, start + 1)
  <2>1. skipped = 1 => ((start + 1) % 2 = 1 <=> ~order)
    BY <1>4
  <2> QED
    BY <1>1, <1>5, <2>1, Parity
<1>8. /\ found \in Nat /\ found >= start
      /\ IsFirstField(c, found) \/ (found > start /\ ~InFile(c, order, found))
      /\ \A m \in start .. found - 1 : ~IsFirstField(c, m) /\ (m > start => InFile(c, order, m))
  BY <1>2, SearchEnds
<1>9. InFile(c, order, start + skipped) /\ (skipped = 1 => InFile(c, order, start + 1))
  BY <1>1, <1>3, <1>4 DEF InFile, ToSecond, SearchStart
<1>10. FieldNumbers(c, order, f) = IF InFile(c, order, found)
                                     THEN [first |-> found, second |-> found + ToSecond(order)]
                                     ELSE NoFields
  BY <1>2, FrameShape
<1> HIDE DEF start, found
<1>11. found = start + skipped
  BY <1>4, <1>6, <1>7, <1>8
<1> QED
  BY <1>9, <1>10, <1>11 DEF start

\* There the search ends at its start or at the field after it, whatever the frame.
LEMMA AlternatingFound ==
  ASSUME NEW c \in Seq(BOOLEAN), NEW order \in BOOLEAN, Alternating(c), NEW f \in Nat \ {0},
         FieldNumbers(c, order, f) # NoFields
  PROVE  LET skipped == IF IsFirstField(c, 1) = order THEN 0 ELSE 1
             n == SearchStart(order, f) + skipped
         IN  FieldNumbers(c, order, f) = [first |-> n, second |-> n + ToSecond(order)]
<1> DEFINE skipped == IF IsFirstField(c, 1) = order THEN 0 ELSE 1
           start == SearchStart(order, f)
           n == Found(c, order, f)
<1>1. /\ n \in 1 .. Len(c) /\ IsFirstField(c, n)
      /\ FieldNumbers(c, order, f) = [first |-> n, second |-> n + ToSecond(order)]
  BY FrameShape
<1>2. /\ start \in Nat \ {0} /\ n >= start
      /\ \A m \in start .. n - 1 : ~IsFirstField(c, m)
  BY SearchEnds
<1>3. start % 2 = IF order THEN 1 ELSE 0
  BY DEF SearchStart
<1>4. Len(c) \in Nat /\ IsFirstField(c, 1) \in BOOLEAN
  BY DEF IsFirstField
<1> HIDE DEF start, n
<1>5. IsFirstField(c, start) <=> skipped = 0
  <2>1. start \in 1 .. Len(c)
    BY <1>1, <1>2, <1>4
  <2> QED
    BY <1>3, <1>4, <2>1, Parity
<1>6. CASE skipped = 0
  <2>1. n = start
    BY <1>1, <1>2, <1>5, <1>6
  <2> QED
    BY <1>1, <1>2, <1>6, <2>1 DEF start
<1>7. CASE skipped = 1
  <2>1. n # start
    BY <1>1, <1>5, <1>7
  <2>2. start + 1 \in 1 .. Len(c) /\ start + 1 <= n
    BY <1>1, <1>2, <1>4, <2>1
  <2>3. (start + 1) % 2 = 1 <=> ~order
    BY <1>2, <1>3
  <2>4. IsFirstField(c, start + 1)
    BY <1>4, <1>7, <2>2, <2>3, Parity
  <2>5. n = start + 1
    BY <1>1, <1>2, <2>2, <2>4
  <2> QED
    BY <1>1, <1>7, <2>5 DEF start
<1> QED
  BY <1>6, <1>7

\* Two orders pair the fields of such a capture across one another: the first field of a
\* frame of one is beside the second field of the same frame of the other.
LEMMA TornPairs ==
  ASSUME NEW c \in Seq(BOOLEAN), Alternating(c), NEW f \in Nat \ {0},
         NEW b \in BOOLEAN, NEW d \in BOOLEAN,
         FieldNumbers(c, b, f) # NoFields, FieldNumbers(c, d, f) # NoFields
  PROVE  FieldNumbers(c, d, f).second - FieldNumbers(c, b, f).first \in {-1, 1}
<1> DEFINE Skipped(order) == IF IsFirstField(c, 1) = order THEN 0 ELSE 1
           At(order) == SearchStart(order, f) + Skipped(order)
<1>1. /\ FieldNumbers(c, b, f).first = At(b)
      /\ FieldNumbers(c, d, f).second = At(d) + ToSecond(d)
  BY AlternatingFound
<1>2. IsFirstField(c, 1) \in BOOLEAN
  BY DEF IsFirstField
<1> DEFINE first == At(b)
           second == At(d) + ToSecond(d)
<1>3. second - first \in {-1, 1}
  BY <1>2 DEF SearchStart, ToSecond
<1>4. FieldNumbers(c, b, f).first = first /\ FieldNumbers(c, d, f).second = second
  BY <1>1
<1> HIDE DEF first, second
<1> QED
  BY <1>3, <1>4

-----------------------------------------------------------------------------
\* Types.

\* What loadFields() loads is a pair of fields of the capture, or blank.
LEMMA LoadedTypes ==
  ASSUME NEW c \in Seq(BOOLEAN), NEW available, NEW n, NEW f, NEW a, NEW b
  PROVE  LoadedFields(c, available, n, f, [first |-> a, second |-> b])
           \in [first : 0 .. Len(c), second : 0 .. Len(c)]
<1>1. Len(c) \in Nat
  OBVIOUS
<1> QED
  BY <1>1 DEF LoadedFields, Blank

\* A frame's two numbers are a record, whatever the frame.
LEMMA NumbersArePairs ==
  ASSUME NEW c \in Seq(BOOLEAN), NEW order \in BOOLEAN, NEW f \in Nat
  PROVE  LET p == FieldNumbers(c, order, f)
         IN  p.first \in Int /\ p.second \in Int /\ p = [first |-> p.first, second |-> p.second]
<1>1. CASE f = 0
  BY <1>1 DEF FieldNumbers, NoFields
<1>2. CASE f # 0
  <2>1. f \in Nat \ {0} /\ Found(c, order, f) \in Nat /\ ToSecond(order) \in Int
    BY <1>2, SearchEnds DEF ToSecond
  <2> HIDE DEF Found
  <2> QED
    BY <2>1, FrameShape DEF NoFields
<1> QED
  BY <1>1, <1>2

LEMMA FrameCounts ==
  ASSUME NEW c \in Seq(BOOLEAN), NEW order \in BOOLEAN
  PROVE  NumberOfFrames(c, order) \in Int
BY DEF NumberOfFrames
=============================================================================
