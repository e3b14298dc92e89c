---------------------------- MODULE FramesProofs ----------------------------
(***************************************************************************)
(* Theorems about the frames that reach a caller: the registration of extra *)
(* captures (MultiSource), for any number of captures of any length,         *)
(* starting at any picture, with any of their numbers unreadable; planes and *)
(* masks (PictureGeometry), for fields of any size, any crop, any padding    *)
(* and any dropouts; and dropout correction (DropoutCorrector), for any list *)
(* of dropouts in any number of captures, in place and in order, with any    *)
(* option.                                                                   *)
(***************************************************************************)
EXTENDS MultiSource, PictureGeometry, DropoutCorrector, FieldNumberingProofs,
        FiniteSetTheorems, FunctionTheorems, TLAPS

-----------------------------------------------------------------------------
(* Captures. *)

Opened == captures \in Sets /\ firstFieldFirst \in [Sources -> BOOLEAN]

LEMMA FlagsAreFields ==
  ASSUME Opened, NEW s \in Sources
  PROVE  /\ Flags(s) \in Seq(BOOLEAN)
         /\ Len(Flags(s)) \in Nat
         /\ Len(Flags(s)) = Len(captures[s].fields)
         /\ DOMAIN captures[s].fields = 1 .. Len(Flags(s))
         /\ firstFieldFirst[s] \in BOOLEAN
<1>1. captures[s] \in Capture
  BY SourcesAssumption DEF Opened
<1>2. captures[s].fields \in Seq(Field)
  BY <1>1 DEF Capture
<1>3. /\ DOMAIN captures[s].fields = 1 .. Len(captures[s].fields)
      /\ Len(captures[s].fields) \in Nat
      /\ \A n \in DOMAIN captures[s].fields : captures[s].fields[n].isFirst \in BOOLEAN
  <2>1. /\ DOMAIN captures[s].fields = 1 .. Len(captures[s].fields)
        /\ Len(captures[s].fields) \in Nat
        /\ \A n \in DOMAIN captures[s].fields : captures[s].fields[n] \in Field
    BY <1>2
  <2>2. \A x \in Field : x.isFirst \in BOOLEAN
    BY DEF Field
  <2> QED
    BY <2>1, <2>2
<1>4. Flags(s) \in [1 .. Len(captures[s].fields) -> BOOLEAN]
  BY <1>3 DEF Flags
<1> QED
  BY <1>3, <1>4 DEF Opened

LEMMA CaptureFields ==
  ASSUME Opened, NEW s \in Sources, NEW n \in DOMAIN captures[s].fields
  PROVE  /\ captures[s].fields[n].picture \in Int
         /\ captures[s].fields[n].cav \in Number
         /\ captures[s].fields[n].clv \in Number
<1>1. captures[s].fields \in Seq(Field)
  BY SourcesAssumption DEF Opened, Capture
<1>2. captures[s].fields[n] \in Field
  BY <1>1
<1> QED
  BY <1>2 DEF Field

LEMMA FrameCountIs ==
  ASSUME Opened, NEW s \in Sources
  PROVE  FrameCount(s) \in Int
BY FlagsAreFields, FrameCounts DEF FrameCount

\* A frame has two fields of its capture, or none.
LEMMA FrameFields ==
  ASSUME Opened, NEW s \in Sources, NEW f \in Nat \ {0}
  PROVE  LET p == FieldsOf(s, f) IN
         p = NoFields \/ {p.first, p.second} \subseteq DOMAIN captures[s].fields
<1> DEFINE c == Flags(s)
           order == firstFieldFirst[s]
           n == Found(c, order, f)
           p == FieldNumbers(c, order, f)
<1>1. c \in Seq(BOOLEAN) /\ order \in BOOLEAN /\ DOMAIN captures[s].fields = 1 .. Len(c)
  BY FlagsAreFields
<1>2. IF InFile(c, order, n)
        THEN /\ p = [first |-> n, second |-> n + ToSecond(order)]
             /\ p # NoFields
             /\ {n, n + ToSecond(order)} \subseteq 1 .. Len(c)
             /\ IsFirstField(c, n)
        ELSE p = NoFields
  <2> HIDE DEF c, order
  <2> QED
    BY <1>1, FrameShape
<1>3. FieldsOf(s, f) = p
  BY DEF FieldsOf
<1> HIDE DEF c, order, n, p
<1> QED
  BY <1>1, <1>2, <1>3

-----------------------------------------------------------------------------
(* The scan. *)

\* Codes a scan collects have a lowest and a highest one.
LEMMA BoundsExist ==
  ASSUME NEW numbers, numbers \subseteq Number, numbers # {}
  PROVE  LET b == Bounds(numbers) IN
         /\ b = [hasVbi |-> TRUE, min |-> b.min, max |-> b.max]
         /\ b.min \in numbers /\ \A m \in numbers : b.min <= m
         /\ b.max \in numbers /\ \A m \in numbers : b.max >= m
<1> DEFINE up == {n \in Nat : n - 1 \in numbers}
           down == {n \in Nat : LastNumber - n \in numbers}
<1>0. LastNumber \in Nat /\ \A n \in numbers : n \in Int /\ -1 <= n /\ n <= LastNumber
  BY SourcesAssumption DEF Number
<1>1. \E n \in numbers : \A m \in numbers : n <= m
  <2>1. up \in SUBSET Nat /\ up # {}
    <3>1. PICK n \in numbers : TRUE
      OBVIOUS
    <3>2. n + 1 \in up
      BY <1>0, <3>1
    <3> QED
      BY <3>2
  <2>2. Least(up) \in up /\ \A n \in up : Least(up) <= n
    BY <2>1, LeastIsLeast
  <2>3. PICK k \in up : \A n \in up : k <= n
    BY <2>2
  <2>4. \A m \in numbers : k - 1 <= m
    <3>1. TAKE m \in numbers
    <3>2. m + 1 \in up
      BY <1>0
    <3> QED
      BY <1>0, <2>3, <3>2
  <2> QED
    BY <2>3, <2>4
<1>2. \E n \in numbers : \A m \in numbers : n >= m
  <2>1. down \in SUBSET Nat /\ down # {}
    <3>1. PICK n \in numbers : TRUE
      OBVIOUS
    <3>2. LastNumber - n \in down
      BY <1>0, <3>1
    <3> QED
      BY <3>2
  <2>2. Least(down) \in down /\ \A n \in down : Least(down) <= n
    BY <2>1, LeastIsLeast
  <2>3. PICK k \in down : \A n \in down : k <= n
    BY <2>2
  <2>4. \A m \in numbers : LastNumber - k >= m
    <3>1. TAKE m \in numbers
    <3>2. LastNumber - m \in down
      BY <1>0
    <3> QED
      BY <1>0, <2>3, <3>2
  <2> QED
    BY <2>3, <2>4
<1> QED
  BY <1>1, <1>2 DEF Bounds

\* The pictures a frame's codes speak of, when they tell the truth.
LEMMA FrameCodes ==
  ASSUME Opened, NEW s \in Sources, Contiguous(s), NEW f \in 1 .. FrameCount(s)
  PROVE  LET n == Picture(s, FieldsOf(s, 1).first) + f - 1 IN
         /\ n \in Int /\ Picture(s, FieldsOf(s, 1).first) \in Int
         /\ PictureNumbers(s) =>
              n > 0 /\ FrameVbi(s, f) \in {NoVbi, [cav |-> n, clv |-> -1]}
         /\ TimeCodes(s) =>
              n >= 0 /\ FrameVbi(s, f) \in {NoVbi, [cav |-> -1, clv |-> n]}
<1> DEFINE first == Picture(s, FieldsOf(s, 1).first)
           p == FieldsOf(s, f)
           fields == captures[s].fields
<1>1. FrameCount(s) \in Int /\ f \in Nat \ {0} /\ 1 \in Nat \ {0} /\ 1 \in 1 .. FrameCount(s)
  BY FrameCountIs
<1>2. /\ p # NoFields /\ FieldsOf(s, 1) # NoFields
      /\ Picture(s, p.first) = first + f - 1 /\ Picture(s, p.second) = first + f - 1
  BY <1>1 DEF Contiguous, Shows
<1>3. {p.first, p.second} \subseteq DOMAIN fields /\ FieldsOf(s, 1).first \in DOMAIN fields
  BY <1>1, <1>2, FrameFields
<1>4. first \in Int
  BY <1>3, CaptureFields DEF Picture
<1>5. fields[p.first].picture = first + f - 1 /\ fields[p.second].picture = first + f - 1
  BY <1>2 DEF Picture
<1>6. Vbi(s, p.first) = [cav |-> fields[p.first].cav, clv |-> fields[p.first].clv]
  BY <1>3 DEF Vbi
<1>7. Vbi(s, p.second) = [cav |-> fields[p.second].cav, clv |-> fields[p.second].clv]
  BY <1>3 DEF Vbi
<1>8. FrameVbi(s, f) =
        [cav |-> IF fields[p.first].cav # -1 THEN fields[p.first].cav ELSE fields[p.second].cav,
         clv |-> IF fields[p.first].clv # -1 THEN fields[p.first].clv ELSE fields[p.second].clv]
  BY <1>6, <1>7 DEF FrameVbi
<1> DEFINE n == first + f - 1
<1>9. n \in Int
  BY <1>1, <1>4
<1> HIDE DEF p, fields, first
<1>10. ASSUME PictureNumbers(s)
       PROVE  n > 0 /\ FrameVbi(s, f) \in {NoVbi, [cav |-> n, clv |-> -1]}
  <2>1. \A m \in DOMAIN fields :
          fields[m].clv = -1 /\ fields[m].cav \in {-1, fields[m].picture} /\ fields[m].picture > 0
    BY <1>10 DEF PictureNumbers, fields
  <2>2. /\ fields[p.first].clv = -1 /\ fields[p.second].clv = -1
        /\ fields[p.first].cav \in {-1, n} /\ fields[p.second].cav \in {-1, n} /\ n > 0
    BY <1>3, <1>5, <2>1
  <2> HIDE DEF n
  <2> QED
    BY <1>8, <1>9, <2>2 DEF NoVbi
<1>11. ASSUME TimeCodes(s)
       PROVE  n >= 0 /\ FrameVbi(s, f) \in {NoVbi, [cav |-> -1, clv |-> n]}
  <2>1. \A m \in DOMAIN fields :
          fields[m].cav = -1 /\ fields[m].clv \in {-1, fields[m].picture} /\ fields[m].picture >= 0
    BY <1>11 DEF TimeCodes, fields
  <2>2. /\ fields[p.first].cav = -1 /\ fields[p.second].cav = -1
        /\ fields[p.first].clv \in {-1, n} /\ fields[p.second].clv \in {-1, n} /\ n >= 0
    BY <1>3, <1>5, <2>1
  <2> HIDE DEF n
  <2> QED
    BY <1>8, <1>9, <2>2 DEF NoVbi
<1> QED
  BY <1>4, <1>9, <1>10, <1>11 DEF n, first

\* The scan of a capture that can be registered: frame 1 carries the lowest number, and
\* each frame whose number is read lies in the range.
Registered(s) ==
  LET b == VbiRange(s)
      first == Picture(s, FieldsOf(s, 1).first)
  IN  /\ first \in Int
      /\ b.min = first /\ b.max \in Int
      /\ \A f \in 1 .. FrameCount(s) : FrameVbi(s, f) # NoVbi => first + f - 1 <= b.max

LEMMA FramesAreFinite ==
  ASSUME Opened, NEW s \in Sources
  PROVE  /\ IsFiniteSet(CavFrames(s)) /\ IsFiniteSet(ClvFrames(s))
         /\ Cardinality(CavFrames(s)) \in Nat /\ Cardinality(ClvFrames(s)) \in Nat
<1>1. IsFiniteSet(1 .. FrameCount(s))
  BY FrameCountIs, FS_Interval
<1>2. CavFrames(s) \subseteq 1 .. FrameCount(s) /\ ClvFrames(s) \subseteq 1 .. FrameCount(s)
  BY DEF CavFrames, ClvFrames
<1>3. IsFiniteSet(CavFrames(s)) /\ IsFiniteSet(ClvFrames(s))
  BY <1>1, <1>2, FS_Subset
<1> QED
  BY <1>3, FS_CardinalityType

\* Bounds of numbers of which the first frame's is the lowest.
LEMMA LowestFirst ==
  ASSUME NEW numbers, numbers \subseteq Number, NEW first \in numbers,
         \A m \in numbers : first <= m
  PROVE  Bounds(numbers).min = first /\ Bounds(numbers).max \in Int
         /\ \A m \in numbers : m <= Bounds(numbers).max
<1> DEFINE b == Bounds(numbers)
<1>1. /\ b.min \in numbers /\ \A m \in numbers : b.min <= m
      /\ b.max \in numbers /\ \A m \in numbers : b.max >= m
  BY BoundsExist
<1>2. \A m \in numbers : m \in Int
  BY SourcesAssumption DEF Number
<1> HIDE DEF b
<1> QED
  BY <1>1, <1>2 DEF b

LEMMA CodesAreNumbers ==
  ASSUME Opened, NEW s \in Sources, NEW f
  PROVE  FrameVbi(s, f).cav \in Number /\ FrameVbi(s, f).clv \in Number
<1>1. ASSUME NEW n
      PROVE  Vbi(s, n).cav \in Number /\ Vbi(s, n).clv \in Number
  <2>1. CASE n \in DOMAIN captures[s].fields
    BY <2>1, CaptureFields DEF Vbi
  <2>2. CASE n \notin DOMAIN captures[s].fields
    BY <2>2, SourcesAssumption DEF Vbi, NoVbi, Number
  <2> QED
    BY <2>1, <2>2
<1>2. /\ Vbi(s, FieldsOf(s, f).first).cav \in Number /\ Vbi(s, FieldsOf(s, f).first).clv \in Number
      /\ Vbi(s, FieldsOf(s, f).second).cav \in Number
      /\ Vbi(s, FieldsOf(s, f).second).clv \in Number
  BY <1>1
<1> QED
  BY <1>2 DEF FrameVbi

LEMMA PicturesRegister ==
  ASSUME Opened, NEW s \in Sources, Anchored(s), PictureNumbers(s), VbiRange(s).hasVbi
  PROVE  Registered(s)
<1> DEFINE first == Picture(s, FieldsOf(s, 1).first)
           numbers == {FrameVbi(s, f).cav : f \in CavFrames(s)}
<1>1. ASSUME NEW f \in 1 .. FrameCount(s)
      PROVE  /\ first + f - 1 \in Int /\ first \in Int /\ first + f - 1 > 0
             /\ FrameVbi(s, f) \in {NoVbi, [cav |-> first + f - 1, clv |-> -1]}
  BY <1>1, FrameCodes DEF Anchored
<1>2. ClvFrames(s) = {}
  BY <1>1 DEF ClvFrames, NoVbi
<1>3. CavFrames(s) # {}
  BY <1>2 DEF VbiRange
<1>4. Cardinality(ClvFrames(s)) = 0 /\ Cardinality(CavFrames(s)) > 0
  BY <1>2, <1>3, FramesAreFinite, FS_EmptySet
<1>5. VbiRange(s) = Bounds(numbers)
  BY <1>3, <1>4 DEF VbiRange
<1>6. 1 \in 1 .. FrameCount(s)
  BY <1>3, FrameCountIs DEF CavFrames
<1> HIDE DEF first
<1>7. \A f \in 1 .. FrameCount(s) : FrameVbi(s, f) # NoVbi =>
        FrameVbi(s, f).cav = first + f - 1 /\ f \in CavFrames(s)
  BY <1>1 DEF CavFrames
<1>8. \A f \in CavFrames(s) :
        f \in 1 .. FrameCount(s) /\ FrameVbi(s, f).cav = first + f - 1
  BY <1>1, <1>7 DEF CavFrames, NoVbi
<1>9. first \in numbers /\ first \in Int
  <2>1. FrameVbi(s, 1).cav = first + 1 - 1 /\ 1 \in CavFrames(s)
    BY <1>6, <1>7 DEF Anchored
  <2> QED
    BY <1>1, <1>6, <2>1
<1>10. \A m \in numbers : first <= m
  <2>1. ASSUME NEW f \in CavFrames(s) PROVE first <= FrameVbi(s, f).cav
    BY <1>8, <1>9, FrameCountIs, <2>1
  <2> QED
    BY <2>1
<1>11. numbers \subseteq Number
  BY CodesAreNumbers
<1>12. /\ Bounds(numbers).min = first /\ Bounds(numbers).max \in Int
       /\ \A m \in numbers : m <= Bounds(numbers).max
  <2> HIDE DEF numbers
  <2> QED
    BY <1>9, <1>10, <1>11, LowestFirst
<1>13. \A f \in 1 .. FrameCount(s) : FrameVbi(s, f) # NoVbi => first + f - 1 \in numbers
  BY <1>7
<1> HIDE DEF numbers
<1> QED
  BY <1>5, <1>9, <1>12, <1>13 DEF Registered, first

LEMMA TimeCodesRegister ==
  ASSUME Opened, NEW s \in Sources, Anchored(s), TimeCodes(s), VbiRange(s).hasVbi
  PROVE  Registered(s)
<1> DEFINE first == Picture(s, FieldsOf(s, 1).first)
           numbers == {FrameVbi(s, f).clv : f \in ClvFrames(s)}
<1>1. ASSUME NEW f \in 1 .. FrameCount(s)
      PROVE  /\ first + f - 1 \in Int /\ first \in Int /\ first + f - 1 >= 0
             /\ FrameVbi(s, f) \in {NoVbi, [cav |-> -1, clv |-> first + f - 1]}
  BY <1>1, FrameCodes DEF Anchored
<1>2. CavFrames(s) = {}
  BY <1>1 DEF CavFrames, NoVbi
<1>3. ClvFrames(s) # {}
  BY <1>2 DEF VbiRange
<1>4. Cardinality(CavFrames(s)) = 0 /\ Cardinality(ClvFrames(s)) \in Nat
  BY <1>2, FramesAreFinite, FS_EmptySet
<1>5. VbiRange(s) = Bounds(numbers)
  BY <1>3, <1>4 DEF VbiRange
<1>6. 1 \in 1 .. FrameCount(s)
  BY <1>3, FrameCountIs DEF ClvFrames
<1> HIDE DEF first
<1>7. \A f \in 1 .. FrameCount(s) : FrameVbi(s, f) # NoVbi =>
        FrameVbi(s, f).clv = first + f - 1 /\ f \in ClvFrames(s)
  BY <1>1 DEF ClvFrames
<1>8. \A f \in ClvFrames(s) :
        f \in 1 .. FrameCount(s) /\ FrameVbi(s, f).clv = first + f - 1
  BY <1>1, <1>7 DEF ClvFrames, NoVbi
<1>9. first \in numbers /\ first \in Int
  <2>1. FrameVbi(s, 1).clv = first + 1 - 1 /\ 1 \in ClvFrames(s)
    BY <1>6, <1>7 DEF Anchored
  <2> QED
    BY <1>1, <1>6, <2>1
<1>10. \A m \in numbers : first <= m
  <2>1. ASSUME NEW f \in ClvFrames(s) PROVE first <= FrameVbi(s, f).clv
    BY <1>8, <1>9, FrameCountIs, <2>1
  <2> QED
    BY <2>1
<1>11. numbers \subseteq Number
  BY CodesAreNumbers
<1>12. /\ Bounds(numbers).min = first /\ Bounds(numbers).max \in Int
       /\ \A m \in numbers : m <= Bounds(numbers).max
  <2> HIDE DEF numbers
  <2> QED
    BY <1>9, <1>10, <1>11, LowestFirst
<1>13. \A f \in 1 .. FrameCount(s) : FrameVbi(s, f) # NoVbi => first + f - 1 \in numbers
  BY <1>7
<1> HIDE DEF numbers
<1> QED
  BY <1>5, <1>9, <1>12, <1>13 DEF Registered, first

LEMMA AnchoredRegisters ==
  ASSUME Opened, NEW s \in Sources, Anchored(s), VbiRange(s).hasVbi
  PROVE  Registered(s)
BY PicturesRegister, TimeCodesRegister DEF Anchored

LEMMA RangeTypes ==
  ASSUME Opened, NEW s \in Sources
  PROVE  VbiRange(s) \in [hasVbi : BOOLEAN, min : Int, max : Int]
<1>1. ASSUME NEW numbers, numbers \subseteq Number, numbers # {}
      PROVE  Bounds(numbers) \in [hasVbi : BOOLEAN, min : Int, max : Int]
  <2> DEFINE b == Bounds(numbers)
  <2>1. b = [hasVbi |-> TRUE, min |-> b.min, max |-> b.max] /\ b.min \in Number /\ b.max \in Number
    BY <1>1, BoundsExist
  <2>2. \A n \in Number : n \in Int
    BY SourcesAssumption DEF Number
  <2>3. b.min \in Int /\ b.max \in Int
    BY <2>1, <2>2
  <2> HIDE DEF b
  <2>4. [hasVbi |-> TRUE, min |-> b.min, max |-> b.max] \in [hasVbi : BOOLEAN, min : Int, max : Int]
    BY <2>3
  <2>5. b \in [hasVbi : BOOLEAN, min : Int, max : Int]
    BY <2>1, <2>4
  <2> QED
    BY <2>5 DEF b
<1>2. CASE CavFrames(s) = {} /\ ClvFrames(s) = {}
  BY <1>2 DEF VbiRange
<1>3. CASE ~(CavFrames(s) = {} /\ ClvFrames(s) = {})
           /\ Cardinality(CavFrames(s)) > Cardinality(ClvFrames(s))
  <2>1. CavFrames(s) # {}
    BY <1>3, FramesAreFinite, FS_EmptySet
  <2> DEFINE numbers == {FrameVbi(s, f).cav : f \in CavFrames(s)}
  <2>2. numbers \subseteq Number /\ numbers # {}
    BY <2>1, CodesAreNumbers
  <2>3. VbiRange(s) = Bounds(numbers)
    BY <1>3 DEF VbiRange
  <2> HIDE DEF numbers
  <2> QED
    BY <1>1, <2>2, <2>3
<1>4. CASE ~(CavFrames(s) = {} /\ ClvFrames(s) = {})
           /\ ~(Cardinality(CavFrames(s)) > Cardinality(ClvFrames(s)))
  <2>1. ClvFrames(s) # {}
    <3>1. SUFFICES ASSUME ClvFrames(s) = {} PROVE FALSE
      OBVIOUS
    <3>2. Cardinality(ClvFrames(s)) = 0 /\ Cardinality(CavFrames(s)) # 0
      BY <1>4, <3>1, FramesAreFinite, FS_EmptySet
    <3> QED
      BY <1>4, <3>2, FramesAreFinite
  <2> DEFINE numbers == {FrameVbi(s, f).clv : f \in ClvFrames(s)}
  <2>2. numbers \subseteq Number /\ numbers # {}
    BY <2>1, CodesAreNumbers
  <2>3. VbiRange(s) = Bounds(numbers)
    BY <1>4 DEF VbiRange
  <2> HIDE DEF numbers
  <2> QED
    BY <1>1, <2>2, <2>3
<1> QED
  BY <1>2, <1>3, <1>4

-----------------------------------------------------------------------------
(* The inductive invariant. *)

\* The alignment is the scan of the captures as the first decode found them.
Built ==
  alignment # NotBuilt => alignment = [s \in Sources |-> VbiRange(s)]

\* What the extras gave to the last frame is what that alignment points to.
Given ==
  /\ outcome # "none" => alignment # NotBuilt /\ frame \in 1 .. FrameCount(0)
  /\ outcome = "none" => frame = 0
  /\ outcome = "decoded" => used = [s \in 1 .. Extras |-> ExtraFields(alignment, frame, s)]
  /\ outcome # "decoded" => used = NoneUsed

Known == outcome \in {"none", "decoded", "threw"}

IInv == Opened /\ Known /\ Built /\ Given

LEMMA Initially == Init => IInv
<1> SUFFICES ASSUME Init PROVE IInv
  OBVIOUS
<1> QED
  BY DEF Init, IInv, Opened, Known, Built, Given

LEMMA SameCaptures ==
  ASSUME UNCHANGED <<captures, firstFieldFirst>>
  PROVE  /\ \A s : VbiRange(s)' = VbiRange(s) /\ FrameCount(s)' = FrameCount(s)
         /\ \A s, f : FieldsOf(s, f)' = FieldsOf(s, f)
<1>1. \A s : Flags(s)' = Flags(s)
  BY DEF Flags
<1>2. /\ \A s : FrameCount(s)' = FrameCount(s)
      /\ \A s, f : FieldsOf(s, f)' = FieldsOf(s, f)
  BY <1>1 DEF FrameCount, FieldsOf
<1>3. \A s, n : Vbi(s, n)' = Vbi(s, n)
  BY DEF Vbi
<1>4. \A s, f : FrameVbi(s, f)' = FrameVbi(s, f)
  BY <1>2, <1>3 DEF FrameVbi
<1>5. \A s : CavFrames(s)' = CavFrames(s) /\ ClvFrames(s)' = ClvFrames(s)
  BY <1>2, <1>4 DEF CavFrames, ClvFrames
<1>6. \A s : VbiRange(s)' = VbiRange(s)
  BY <1>4, <1>5 DEF VbiRange
<1> QED
  BY <1>2, <1>6

LEMMA Commits ==
  ASSUME IInv, NEW reverse \in Reversals, Commit(reverse)
  PROVE  IInv'
<1>1. reverse \in BOOLEAN
  BY SourcesAssumption
<1>2. Opened'
  BY <1>1 DEF Commit, IInv, Opened
<1>3. outcome' = "none" /\ alignment' = NotBuilt /\ frame' = 0 /\ used' = NoneUsed
  BY DEF Commit, IInv, Given, Known
<1> QED
  BY <1>2, <1>3 DEF IInv, Known, Built, Given

LEMMA Decodes ==
  ASSUME IInv, NEW f \in 1 .. FrameCount(0), Decode(f) \/ DecodeThrows(f)
  PROVE  IInv'
<1>1. UNCHANGED <<captures, firstFieldFirst>> /\ alignment' = AlignmentNow /\ frame' = f
      /\ outcome' \in {"decoded", "threw"}
  BY DEF Decode, DecodeThrows
<1>2. Opened'
  BY <1>1 DEF IInv, Opened
<1>3. AlignmentNow = [s \in Sources |-> VbiRange(s)]
  BY DEF AlignmentNow, IInv, Built
<1>4. AlignmentNow # NotBuilt
  <2>1. 0 \in DOMAIN AlignmentNow
    BY <1>3, SourcesAssumption DEF Sources
  <2> QED
    BY <2>1 DEF NotBuilt
<1>5. alignment' = [s \in Sources |-> VbiRange(s)']
  BY <1>1, <1>3, SameCaptures
<1>6. FrameCount(0)' = FrameCount(0)
  BY <1>1, SameCaptures
<1>7. outcome' = "decoded" =>
        used' = [s \in 1 .. Extras |-> ExtraFields(AlignmentNow, f, s)]
  BY DEF Decode, DecodeThrows
<1>8. outcome' # "decoded" => used' = NoneUsed
  BY DEF Decode, DecodeThrows
<1>9. Given'
  <2>1. \A s \in 1 .. Extras : (ExtraFields(alignment, frame, s))' = ExtraFields(AlignmentNow, f, s)
    BY <1>1, SameCaptures DEF ExtraFields, SourceFrame, ToVbi, FromVbi
  <2>2. NoneUsed' = NoneUsed
    BY DEF NoneUsed
  <2> QED
    BY <1>1, <1>4, <1>6, <1>7, <1>8, <2>1, <2>2 DEF Given
<1> QED
  BY <1>1, <1>2, <1>5, <1>9 DEF IInv, Known, Built

LEMMA Stutters == ASSUME IInv, UNCHANGED vars PROVE IInv'
<1>1. UNCHANGED <<captures, firstFieldFirst>>
  BY DEF vars
<1>2. /\ \A s : VbiRange(s)' = VbiRange(s) /\ FrameCount(s)' = FrameCount(s)
      /\ \A s, f : FieldsOf(s, f)' = FieldsOf(s, f)
  BY <1>1, SameCaptures
<1>3. \A s : (ExtraFields(alignment, frame, s))' = ExtraFields(alignment, frame, s)
  BY <1>2 DEF ExtraFields, SourceFrame, ToVbi, FromVbi, vars
<1> QED
  BY <1>2, <1>3 DEF IInv, Opened, Known, Built, Given, vars, NoneUsed, NotBuilt

\* The alignment is built once, and what is used of the extras follows from it.
THEOREM Invariant == Spec => []IInv
<1>1. IInv /\ [Next]_vars => IInv'
  BY Commits, Decodes, Stutters DEF Next
<1> QED
  BY <1>1, Initially, PTL DEF Spec

-----------------------------------------------------------------------------
(* What it means. *)

LEMMA ExtrasAreSources == \A s \in 1 .. Extras : s \in Sources /\ 0 \in Sources
BY SourcesAssumption DEF Sources

\* What an extra gives is two of its fields, or nothing.
LEMMA GivenFields ==
  ASSUME Opened, NEW s \in 1 .. Extras, NEW a, NEW f
  PROVE  LET p == ExtraFields(a, f, s) IN
         p = NoFields \/ {p.first, p.second} \subseteq DOMAIN captures[s].fields
<1> DEFINE e == SourceFrame(a, f, s)
<1>1. CASE e \in 1 .. FrameCount(s)
  <2>1. e \in Nat \ {0} /\ s \in Sources
    BY <1>1, ExtrasAreSources, FrameCountIs
  <2>2. ExtraFields(a, f, s) = FieldsOf(s, e)
    BY <1>1 DEF ExtraFields
  <2> HIDE DEF e
  <2> QED
    BY <2>1, <2>2, FrameFields
<1>2. CASE e \notin 1 .. FrameCount(s)
  BY <1>2 DEF ExtraFields
<1> QED
  BY <1>1, <1>2

\* Every variable of the alignment keeps its type (multi_source_alignment.cpp).
THEOREM TypeCorrect == Spec => []TypeOK
<1>1. IInv => TypeOK
  <2> SUFFICES ASSUME IInv PROVE TypeOK
    OBVIOUS
  <2>1. alignment # NotBuilt =>
          alignment \in [Sources -> [hasVbi : BOOLEAN, min : Int, max : Int]]
    BY RangeTypes DEF IInv, Built
  <2>2. frame = 0 \/ frame \in 1 .. FrameCount(0)
    BY DEF IInv, Given
  <2>3. ASSUME NEW s \in 1 .. Extras
        PROVE  \/ used[s] = NoFields
               \/ {used[s].first, used[s].second} \subseteq DOMAIN captures[s].fields
    <3>1. CASE outcome = "decoded"
      <4>1. used[s] = ExtraFields(alignment, frame, s)
        BY <3>1 DEF IInv, Given
      <4> QED
        BY <4>1, GivenFields DEF IInv
    <3>2. CASE outcome # "decoded"
      BY <3>2 DEF IInv, Given, NoneUsed
    <3> QED
      BY <3>1, <3>2
  <2> QED
    BY <2>1, <2>2, <2>3 DEF IInv, Opened, Known, TypeOK
<1> QED
  BY <1>1, Invariant, PTL

\* The frame of an extra that a decode fetches shows the picture of the primary's, and it
\* fetches one whenever the extra holds that picture among the numbers it could read.
LEMMA SameFrame ==
  ASSUME IInv, outcome = "decoded", NEW s \in 1 .. Extras, Comparable(s)
  PROVE  LET first == Picture(0, FieldsOf(0, 1).first)
             other == Picture(s, FieldsOf(s, 1).first)
             e == SourceFrame(alignment, frame, s)
         IN  /\ e \in 1 .. FrameCount(s) => other + e - 1 = first + frame - 1
             /\ \A f \in 1 .. FrameCount(s) :
                  /\ first \in Int /\ other \in Int
                  /\ other + f - 1 = first + frame - 1
                  /\ VbiRange(s).hasVbi => \E g \in f .. FrameCount(s) : FrameVbi(s, g) # NoVbi
                  => e = f
<1> DEFINE first == Picture(0, FieldsOf(0, 1).first)
           other == Picture(s, FieldsOf(s, 1).first)
           e == SourceFrame(alignment, frame, s)
<1>1. s \in Sources /\ 0 \in Sources /\ Opened
  BY ExtrasAreSources DEF IInv
<1>2. frame \in Int /\ FrameCount(s) \in Int /\ FrameCount(0) \in Int
  BY <1>1, FrameCountIs DEF IInv, Given
<1>3. alignment[0] = VbiRange(0) /\ alignment[s] = VbiRange(s)
  BY <1>1 DEF IInv, Given, Built
<1>4. CASE ~(VbiRange(0).hasVbi /\ VbiRange(s).hasVbi)
  <2>1. e = frame /\ first = other
    BY <1>3, <1>4 DEF SourceFrame, Comparable
  <2> HIDE DEF e, first, other
  <2> QED
    BY <1>2, <2>1 DEF e, first, other
<1>5. CASE VbiRange(0).hasVbi /\ VbiRange(s).hasVbi
  <2>1. Registered(0) /\ Registered(s)
    BY <1>1, <1>5, AnchoredRegisters DEF Comparable
  <2>2. /\ first \in Int /\ other \in Int
        /\ VbiRange(0).min = first /\ VbiRange(s).min = other /\ VbiRange(s).max \in Int
        /\ \A f \in 1 .. FrameCount(s) :
             FrameVbi(s, f) # NoVbi => other + f - 1 <= VbiRange(s).max
    BY <2>1 DEF Registered
  <2>3. e = IF first - 1 + frame \in other .. VbiRange(s).max
              THEN first - 1 + frame - other + 1
              ELSE NotCovered
    <3>1. ToVbi(alignment, frame, 0) = first - 1 + frame
      BY <1>3, <2>2 DEF ToVbi
    <3>2. /\ alignment[0].hasVbi /\ alignment[s].hasVbi
          /\ alignment[s].min = other /\ alignment[s].max = VbiRange(s).max
      BY <1>3, <1>5, <2>2
    <3>3. FromVbi(alignment, first - 1 + frame, s) = first - 1 + frame - other + 1
      <4> HIDE DEF other, first
      <4> QED
        BY <1>2, <2>2, <3>2 DEF FromVbi
    <3>4. e = IF first - 1 + frame \in other .. VbiRange(s).max
                THEN FromVbi(alignment, first - 1 + frame, s)
                ELSE NotCovered
      <4> HIDE DEF other, first
      <4> QED
        BY <3>1, <3>2 DEF SourceFrame
    <3> HIDE DEF e, first, other
    <3> QED
      BY <3>3, <3>4
  <2> HIDE DEF e, first, other
  <2>4. ASSUME e \in 1 .. FrameCount(s)
        PROVE  other + e - 1 = first + frame - 1
    BY <1>2, <2>2, <2>3, <2>4 DEF NotCovered
  <2>5. ASSUME NEW f \in 1 .. FrameCount(s), other + f - 1 = first + frame - 1,
               NEW g \in f .. FrameCount(s), FrameVbi(s, g) # NoVbi
        PROVE  e = f
    <3>1. other + g - 1 <= VbiRange(s).max
      BY <1>2, <2>2, <2>5
    <3>2. first - 1 + frame \in other .. VbiRange(s).max
      BY <1>2, <2>2, <2>5, <3>1
    <3> QED
      BY <1>2, <2>2, <2>3, <2>5, <3>2
  <2> QED
    BY <1>5, <2>4, <2>5 DEF e, first, other
<1> QED
  BY <1>4, <1>5

\* An extra that the scan registers gives, for every frame, fields of the picture the
\* primary's frame shows: whatever pictures the captures start at, however many frames
\* carry no readable number, in the first field or the second, and whatever field order
\* the primary was committed to before its first decode.
THEOREM SamePicture == Spec => []SamePictureUsed
<1>1. IInv => SamePictureUsed
  <2> SUFFICES ASSUME IInv, NEW s \in 1 .. Extras, outcome = "decoded", used[s] # NoFields,
                      Comparable(s)
               PROVE  /\ Picture(s, used[s].first) = Picture(0, FieldsOf(0, frame).first)
                      /\ Picture(s, used[s].second) = Picture(0, FieldsOf(0, frame).second)
    BY DEF SamePictureUsed
  <2> DEFINE e == SourceFrame(alignment, frame, s)
             first == Picture(0, FieldsOf(0, 1).first)
             other == Picture(s, FieldsOf(s, 1).first)
  <2>1. used[s] = ExtraFields(alignment, frame, s)
    BY DEF IInv, Given
  <2>2. e \in 1 .. FrameCount(s) /\ used[s] = FieldsOf(s, e)
    BY <2>1 DEF ExtraFields
  <2>3. Contiguous(0) /\ Contiguous(s) /\ frame \in 1 .. FrameCount(0)
    BY DEF Comparable, Anchored, IInv, Given
  <2>4. /\ Picture(s, used[s].first) = other + e - 1
        /\ Picture(s, used[s].second) = other + e - 1
    BY <2>2, <2>3 DEF Contiguous, Shows
  <2>5. /\ Picture(0, FieldsOf(0, frame).first) = first + frame - 1
        /\ Picture(0, FieldsOf(0, frame).second) = first + frame - 1
    BY <2>3 DEF Contiguous, Shows
  <2>6. other + e - 1 = first + frame - 1
    BY <2>2, SameFrame
  <2> QED
    BY <2>4, <2>5, <2>6
<1> QED
  BY <1>1, Invariant, PTL

\* An extra that holds the picture of the decoded frame, no later than the last frame
\* whose number it could read, is used for it.
THEOREM CoveringUsed == Spec => []CoveringExtraUsed
<1>1. IInv => CoveringExtraUsed
  <2> SUFFICES ASSUME IInv, NEW s \in 1 .. Extras, outcome = "decoded", Comparable(s),
                      NEW f \in 1 .. FrameCount(s),
                      Shows(s, f, Picture(0, FieldsOf(0, frame).first)),
                      VbiRange(s).hasVbi =>
                        \E g \in f .. FrameCount(s) : FrameVbi(s, g) # NoVbi
               PROVE  used[s] # NoFields
    BY DEF CoveringExtraUsed
  <2> DEFINE e == SourceFrame(alignment, frame, s)
             first == Picture(0, FieldsOf(0, 1).first)
             other == Picture(s, FieldsOf(s, 1).first)
  <2>1. used[s] = ExtraFields(alignment, frame, s)
    BY DEF IInv, Given
  <2>2. Contiguous(0) /\ Contiguous(s) /\ frame \in 1 .. FrameCount(0)
    BY DEF Comparable, Anchored, IInv, Given
  <2>3. s \in Sources /\ 0 \in Sources /\ Opened
    BY ExtrasAreSources DEF IInv
  <2>4. FrameCount(s) \in Int /\ FrameCount(0) \in Int
    BY <2>3, FrameCountIs
  <2>5. ASSUME NEW t \in Sources, Contiguous(t), NEW k \in 1 .. FrameCount(t)
        PROVE  Picture(t, FieldsOf(t, 1).first) \in Int
    <3>1. 1 \in 1 .. FrameCount(t) /\ 1 \in Nat \ {0}
      BY <2>3, <2>5, FrameCountIs
    <3>2. FieldsOf(t, 1) # NoFields
      BY <2>5, <3>1 DEF Contiguous, Shows
    <3>3. FieldsOf(t, 1).first \in DOMAIN captures[t].fields
      BY <2>3, <2>5, <3>1, <3>2, FrameFields
    <3> QED
      BY <2>3, <2>5, <3>3, CaptureFields DEF Picture
  <2>6. first \in Int /\ other \in Int
    BY <2>2, <2>3, <2>5
  <2>7. other + f - 1 = first + frame - 1
    <3>1. Picture(s, FieldsOf(s, f).first) = other + f - 1
      BY <2>2 DEF Contiguous, Shows
    <3>2. Picture(0, FieldsOf(0, frame).first) = first + frame - 1
      BY <2>2 DEF Contiguous, Shows
    <3> QED
      BY <3>1, <3>2 DEF Shows
  <2>8. e = f
    <3> HIDE DEF e, first, other
    <3> QED
      BY <2>6, <2>7, SameFrame DEF e, first, other
  <2>9. used[s] = FieldsOf(s, f)
    BY <2>1, <2>8 DEF ExtraFields
  <2> QED
    BY <2>9 DEF Shows
<1> QED
  BY <1>1, Invariant, PTL

-----------------------------------------------------------------------------
(* The committed geometry. *)

LEMMA MaxOfTwo ==
  ASSUME NEW a \in Int, NEW b \in Int
  PROVE  Max({a, b}) = IF a >= b THEN a ELSE b
<1> DEFINE m == IF a >= b THEN a ELSE b
<1>1. m \in {a, b} /\ \A y \in {a, b} : m >= y
  OBVIOUS
<1>2. \A x \in {a, b} : (\A y \in {a, b} : x >= y) => x = m
  OBVIOUS
<1> HIDE DEF m
<1>3. Max({a, b}) = m
  BY <1>1, <1>2 DEF Max
<1> QED
  BY <1>3 DEF m

LEMMA MinOfTwo ==
  ASSUME NEW a \in Int, NEW b \in Int
  PROVE  Min({a, b}) = IF a <= b THEN a ELSE b
<1> DEFINE m == IF a <= b THEN a ELSE b
<1>1. m \in {a, b} /\ \A y \in {a, b} : m <= y
  OBVIOUS
<1>2. \A x \in {a, b} : (\A y \in {a, b} : x <= y) => x = m
  OBVIOUS
<1> HIDE DEF m
<1>3. Min({a, b}) = m
  BY <1>1, <1>2 DEF Min
<1> QED
  BY <1>3 DEF m

LEMMA Clamped ==
  ASSUME NEW v \in Int, NEW lo \in Int, NEW hi \in Int, lo <= hi
  PROVE  Clamp(v, lo, hi) = IF v < lo THEN lo ELSE IF v > hi THEN hi ELSE v
<1>1. Min({v, hi}) = IF v <= hi THEN v ELSE hi
  BY MinOfTwo
<1>2. Min({v, hi}) \in Int
  BY <1>1
<1>3. Max({lo, Min({v, hi})}) = IF lo >= Min({v, hi}) THEN lo ELSE Min({v, hi})
  BY <1>2, MaxOfTwo
<1> QED
  BY <1>1, <1>3 DEF Clamp

\* A committed crop lies in the frame and has a picture in it, which the output holds.
Committed ==
  /\ crop \in [start : Int, end : Int, first : Int, last : Int]
  /\ ValidCrop(crop)
  /\ writer \in [left : Nat, width : Nat, top : Nat, height : Nat]
  /\ writer.left + ActiveWidth <= writer.width
  /\ writer.top + ActiveHeight <= writer.height

LEMMA CropFields ==
  ASSUME Committed
  PROVE  /\ crop.start \in Int /\ crop.end \in Int /\ crop.first \in Int /\ crop.last \in Int
         /\ 0 <= crop.start /\ crop.start < crop.end /\ crop.end <= FieldWidth
         /\ 0 <= crop.first /\ crop.first <= crop.last
         /\ ActiveWidth \in Nat /\ ActiveWidth > 0 /\ ActiveHeight \in Nat /\ ActiveHeight > 0
BY DEF Committed, ValidCrop, ActiveWidth, ActiveHeight

LEMMA PadIs ==
  ASSUME NEW active \in Nat, padding \in Nat
  PROVE  Pad(active)[1] \in Nat /\ Pad(active)[2] \in Nat
<1> DEFINE steps == IF padding > 1 THEN (-active) % padding ELSE 0
           before == (active + steps) \div 2 - active \div 2
<1>1. steps \in Nat
  OBVIOUS
<1>2. Pad(active) = <<before, steps - before>>
  BY DEF Pad
<1> HIDE DEF steps
<1>3. before \in Nat /\ steps - before \in Nat
  BY <1>1
<1> HIDE DEF before
<1> QED
  BY <1>2, <1>3

LEMMA ConfiguredFits ==
  ASSUME ActiveWidth \in Nat, ActiveHeight \in Nat, padding \in Nat
  PROVE  /\ Configured \in [left : Nat, width : Nat, top : Nat, height : Nat]
         /\ Configured.left + ActiveWidth <= Configured.width
         /\ Configured.top + ActiveHeight <= Configured.height
<1> DEFINE across == Pad(ActiveWidth)
           down == Pad(ActiveHeight)
<1>1. /\ across[1] \in Nat /\ across[2] \in Nat
      /\ down[1] \in Nat /\ down[2] \in Nat
  BY PadIs
<1>2. Configured = [left |-> across[1], width |-> across[1] + ActiveWidth + across[2],
                    top |-> down[1], height |-> down[1] + ActiveHeight + down[2]]
  BY DEF Configured
<1> HIDE DEF across, down
<1> QED
  BY <1>1, <1>2

LEMMA OutputSize ==
  ASSUME Committed
  PROVE  /\ LeftPad \in Nat /\ TopPad \in Nat
         /\ OutputWidth \in Nat /\ OutputHeight \in Nat
         /\ LeftPad + ActiveWidth <= OutputWidth
         /\ TopPad + ActiveHeight <= OutputHeight
BY DEF Committed, LeftPad, TopPad, OutputWidth, OutputHeight

-----------------------------------------------------------------------------
(* Masks. *)

Mode == {"detected", "overcorrect"}
OutputSpan == [y : Int, x0 : Int, x1 : Int, origin : {"metadata", "concealment"}]

LEMMA MaskMembers ==
  ASSUME NEW spans \in SUBSET OutputSpan, NEW y \in Int, NEW x \in Int
  PROVE  <<y, x>> \in MaskOf(spans) <=> \E s \in spans : s.y = y /\ s.x0 <= x /\ x < s.x1
<1>1. ASSUME NEW s \in spans
      PROVE  /\ s.y \in Int /\ s.x0 \in Int /\ s.x1 \in Int
             /\ x \in s.x0 .. (s.x1 - 1) <=> s.x0 <= x /\ x < s.x1
  BY DEF OutputSpan
<1>2. <<y, x>> \in MaskOf(spans) <=> \E s \in spans : s.y = y /\ x \in s.x0 .. (s.x1 - 1)
  BY DEF MaskOf
<1> QED
  BY <1>1, <1>2

\* A record's row, and its columns within the crop, before padding.
RowOf(d) == TopPad + 2 * (d.line - 1) + d.offset - crop.first
FirstOf(d, mode) == Max({Widened(d, mode)[1], crop.start})
EndOf(d, mode) == Min({Widened(d, mode)[2], crop.end})
SpanOf(d, mode) == [y |-> RowOf(d), x0 |-> FirstOf(d, mode) - crop.start + LeftPad,
                    x1 |-> EndOf(d, mode) - crop.start + LeftPad, origin |-> "metadata"]
InOutput(d, mode) ==
  0 <= RowOf(d) /\ RowOf(d) < OutputHeight /\ FirstOf(d, mode) < EndOf(d, mode)

LEMMA FieldSpansAre ==
  ASSUME NEW mode
  PROVE  FieldSpans(mode) = {SpanOf(d, mode) : d \in {e \in damage : InOutput(e, mode)}}
BY DEF FieldSpans, SpanOf, InOutput, RowOf, FirstOf, EndOf

Dots(mode) == IF mode = "detected" THEN 0 ELSE OverDots

\* Within the crop the widening that stops at the edges of the field is the plain one.
LEMMA RecordColumns ==
  ASSUME Committed, NEW mode \in Mode, NEW d \in DropoutRecord
  PROVE  /\ FirstOf(d, mode) \in Int /\ EndOf(d, mode) \in Int /\ RowOf(d) \in Int
         /\ \A c \in crop.start .. (crop.end - 1) :
              FirstOf(d, mode) <= c /\ c < EndOf(d, mode)
                <=> d.x0 - Dots(mode) <= c /\ c < d.x1 + Dots(mode)
<1>1. d.line \in Int /\ d.offset \in {0, 1} /\ d.x0 \in Int /\ d.x1 \in Int
  BY DEF DropoutRecord
<1>2. /\ crop.start \in Int /\ crop.end \in Int /\ crop.first \in Int
      /\ 0 <= crop.start /\ crop.end <= FieldWidth /\ TopPad \in Nat
      /\ FieldWidth \in Nat /\ OverDots \in Nat
  BY CropFields, OutputSize, PictureAssumption
<1> DEFINE a == Widened(d, mode)[1]
           b == Widened(d, mode)[2]
<1>3. /\ mode = "detected" => a = d.x0 /\ b = d.x1
      /\ mode # "detected" =>
           /\ a = IF d.x0 > OverDots THEN d.x0 - OverDots ELSE 0
           /\ b = IF d.x1 < FieldWidth - OverDots THEN d.x1 + OverDots ELSE FieldWidth
  BY DEF Widened
<1>4. a \in Int /\ b \in Int
  BY <1>1, <1>2, <1>3
<1> HIDE DEF a, b
<1>5. /\ FirstOf(d, mode) = IF a >= crop.start THEN a ELSE crop.start
      /\ EndOf(d, mode) = IF b <= crop.end THEN b ELSE crop.end
  BY <1>2, <1>4, MaxOfTwo, MinOfTwo DEF FirstOf, EndOf, a, b
<1>6. ASSUME NEW c \in crop.start .. (crop.end - 1)
      PROVE  /\ a <= c <=> d.x0 - Dots(mode) <= c
             /\ c < b <=> c < d.x1 + Dots(mode)
  BY <1>1, <1>2, <1>3 DEF Dots
<1>7. FirstOf(d, mode) \in Int /\ EndOf(d, mode) \in Int
  BY <1>2, <1>4, <1>5
<1>8. \A c \in crop.start .. (crop.end - 1) :
        FirstOf(d, mode) <= c /\ c < EndOf(d, mode) <=> a <= c /\ c < b
  BY <1>2, <1>4, <1>5
<1>9. RowOf(d) \in Int
  BY <1>1, <1>2 DEF RowOf
<1> QED
  BY <1>6, <1>7, <1>8, <1>9

LEMMA RowArithmetic ==
  ASSUME NEW pad \in Int, NEW row \in Int, NEW first \in Int, NEW y \in Int
  PROVE  pad + row - first = y <=> row = first + y - pad
OBVIOUS

\* A record marks the picture sample that stands for its own source sample.
LEMMA RecordsMark ==
  ASSUME Committed, damage \subseteq DropoutRecord, NEW mode \in Mode,
         NEW y \in Int, NEW x \in Int, PictureRow(y), PictureColumn(x)
  PROVE  (\E s \in FieldSpans(mode) : s.y = y /\ s.x0 <= x /\ x < s.x1)
           <=> \E d \in damage : /\ 2 * (d.line - 1) + d.offset = SourceRow(y)
                               /\ d.x0 - Dots(mode) <= SourceColumn(x)
                               /\ SourceColumn(x) < d.x1 + Dots(mode)
<1> DEFINE c == SourceColumn(x)
<1>1. /\ crop.start \in Int /\ crop.end \in Int /\ crop.first \in Int
      /\ LeftPad \in Nat /\ TopPad \in Nat /\ OutputHeight \in Nat
      /\ ActiveWidth = crop.end - crop.start
      /\ TopPad + ActiveHeight <= OutputHeight
      /\ ActiveHeight \in Nat
  BY CropFields, OutputSize DEF ActiveWidth
<1>2. c \in crop.start .. (crop.end - 1) /\ 0 <= y /\ y < OutputHeight
  BY <1>1 DEF SourceColumn, PictureColumn, PictureRow
<1>3. ASSUME NEW d \in damage
      PROVE  LET s == SpanOf(d, mode)
             IN  InOutput(d, mode) /\ s.y = y /\ s.x0 <= x /\ x < s.x1
                   <=> /\ 2 * (d.line - 1) + d.offset = SourceRow(y)
                       /\ d.x0 - Dots(mode) <= c /\ c < d.x1 + Dots(mode)
  <2>1. d.line \in Int /\ d.offset \in Int
    BY DEF DropoutRecord
  <2>2. /\ FirstOf(d, mode) \in Int /\ EndOf(d, mode) \in Int /\ RowOf(d) \in Int
        /\ FirstOf(d, mode) <= c /\ c < EndOf(d, mode)
             <=> d.x0 - Dots(mode) <= c /\ c < d.x1 + Dots(mode)
    BY <1>2, RecordColumns
  <2>3. RowOf(d) = y <=> 2 * (d.line - 1) + d.offset = SourceRow(y)
    <3> DEFINE row == 2 * (d.line - 1) + d.offset
    <3>1. row \in Int /\ RowOf(d) = TopPad + row - crop.first
      BY <1>1, <2>1 DEF RowOf
    <3> HIDE DEF row
    <3>2. TopPad + row - crop.first = y <=> row = crop.first + y - TopPad
      BY <1>1, <3>1, RowArithmetic
    <3> QED
      BY <3>1, <3>2 DEF SourceRow, row
  <2>4. /\ SpanOf(d, mode).y = RowOf(d)
        /\ SpanOf(d, mode).x0 = FirstOf(d, mode) - crop.start + LeftPad
        /\ SpanOf(d, mode).x1 = EndOf(d, mode) - crop.start + LeftPad
    BY DEF SpanOf
  <2>5. FirstOf(d, mode) - crop.start + LeftPad <= x /\ x < EndOf(d, mode) - crop.start + LeftPad
          <=> FirstOf(d, mode) <= c /\ c < EndOf(d, mode)
    BY <1>1, <2>2 DEF SourceColumn
  <2>6. RowOf(d) = y /\ FirstOf(d, mode) <= c /\ c < EndOf(d, mode) => InOutput(d, mode)
    BY <1>1, <1>2, <2>2 DEF InOutput
  <2> HIDE DEF c
  <2> QED
    BY <2>2, <2>3, <2>4, <2>5, <2>6
<1>4. (\E s \in FieldSpans(mode) : s.y = y /\ s.x0 <= x /\ x < s.x1)
        <=> \E d \in damage : /\ InOutput(d, mode)
                            /\ SpanOf(d, mode).y = y
                            /\ SpanOf(d, mode).x0 <= x /\ x < SpanOf(d, mode).x1
  BY FieldSpansAre
<1> QED
  BY <1>3, <1>4

\* A concealed span's columns after the clip to the crop.
ClippedTo(v) == Clamp(v - crop.start, 0, ActiveWidth) + LeftPad
PublishedSpan(s) == [y |-> s.frameRow - crop.first + TopPad, x0 |-> ClippedTo(s.x0),
                     x1 |-> ClippedTo(s.x1), origin |-> "concealment"]
Publishes(s) == /\ crop.first <= s.frameRow /\ s.frameRow <= crop.last
                /\ ClippedTo(s.x0) < ClippedTo(s.x1)

LEMMA PublishedSpansAre ==
  ASSUME NEW spans
  PROVE  PublishedSpans(spans) = {PublishedSpan(s) : s \in {t \in spans : Publishes(t)}}
BY DEF PublishedSpans, PublishedSpan, Publishes, ClippedTo

LEMMA Clipping ==
  ASSUME Committed, NEW v \in Int, NEW x \in Int, PictureColumn(x)
  PROVE  /\ ClippedTo(v) \in Int
         /\ ClippedTo(v) <= x <=> v <= SourceColumn(x)
<1>1. /\ crop.start \in Int /\ LeftPad \in Nat /\ ActiveWidth \in Nat /\ ActiveWidth > 0
  BY CropFields, OutputSize
<1>2. Clamp(v - crop.start, 0, ActiveWidth) =
        IF v - crop.start < 0 THEN 0
        ELSE IF v - crop.start > ActiveWidth THEN ActiveWidth ELSE v - crop.start
  BY <1>1, Clamped
<1> QED
  BY <1>1, <1>2 DEF ClippedTo, SourceColumn, PictureColumn

\* A span a decode concealed marks the picture samples that stand for it.
LEMMA ConcealedMark ==
  ASSUME Committed, NEW spans \in SUBSET ConcealedSpan,
         NEW y \in Int, NEW x \in Int, PictureRow(y), PictureColumn(x)
  PROVE  (\E s \in PublishedSpans(spans) : s.y = y /\ s.x0 <= x /\ x < s.x1)
           <=> \E s \in spans : /\ s.frameRow = SourceRow(y)
                              /\ s.x0 <= SourceColumn(x) /\ SourceColumn(x) < s.x1
<1>1. /\ crop.first \in Int /\ crop.last \in Int /\ TopPad \in Nat
      /\ ActiveHeight = crop.last - crop.first + 1
  BY CropFields, OutputSize DEF ActiveHeight
<1>2. ASSUME NEW s \in spans
      PROVE  LET p == PublishedSpan(s)
             IN  Publishes(s) /\ p.y = y /\ p.x0 <= x /\ x < p.x1
                   <=> /\ s.frameRow = SourceRow(y)
                       /\ s.x0 <= SourceColumn(x) /\ SourceColumn(x) < s.x1
  <2>1. s.frameRow \in Int /\ s.x0 \in Int /\ s.x1 \in Int /\ SourceColumn(x) \in Int
    BY CropFields, OutputSize DEF ConcealedSpan, SourceColumn
  <2>2. /\ ClippedTo(s.x0) \in Int /\ ClippedTo(s.x1) \in Int
        /\ ClippedTo(s.x0) <= x <=> s.x0 <= SourceColumn(x)
        /\ ClippedTo(s.x1) <= x <=> s.x1 <= SourceColumn(x)
    BY <2>1, Clipping
  <2>3. /\ PublishedSpan(s).y = s.frameRow - crop.first + TopPad
        /\ PublishedSpan(s).x0 = ClippedTo(s.x0)
        /\ PublishedSpan(s).x1 = ClippedTo(s.x1)
    BY DEF PublishedSpan
  <2>4. /\ s.frameRow - crop.first + TopPad = y <=> s.frameRow = SourceRow(y)
        /\ s.frameRow = SourceRow(y) => crop.first <= s.frameRow /\ s.frameRow <= crop.last
    <3> DEFINE row == s.frameRow
    <3>1. row \in Int
      BY <2>1
    <3> HIDE DEF row
    <3>2. TopPad + row - crop.first = y <=> row = crop.first + y - TopPad
      BY <1>1, <3>1, RowArithmetic
    <3>3. row - crop.first + TopPad = TopPad + row - crop.first
      BY <1>1, <3>1
    <3>4. row = crop.first + y - TopPad => crop.first <= row /\ row <= crop.last
      BY <1>1, <3>1 DEF PictureRow
    <3> QED
      BY <3>2, <3>3, <3>4 DEF SourceRow, row
  <2>5. x < ClippedTo(s.x1) <=> SourceColumn(x) < s.x1
    BY <2>1, <2>2
  <2>6. ClippedTo(s.x0) <= x /\ x < ClippedTo(s.x1) => ClippedTo(s.x0) < ClippedTo(s.x1)
    BY <2>2
  <2> QED
    BY <2>2, <2>3, <2>4, <2>5, <2>6 DEF Publishes
<1>3. (\E s \in PublishedSpans(spans) : s.y = y /\ s.x0 <= x /\ x < s.x1)
        <=> \E s \in spans : /\ Publishes(s) /\ PublishedSpan(s).y = y
                           /\ PublishedSpan(s).x0 <= x /\ x < PublishedSpan(s).x1
  BY PublishedSpansAre
<1> QED
  BY <1>2, <1>3

LEMMA SpansAreOutputSpans ==
  ASSUME Committed, damage \subseteq DropoutRecord, NEW mode \in Mode,
         NEW spans \in SUBSET ConcealedSpan
  PROVE  FieldSpans(mode) \cup PublishedSpans(spans) \in SUBSET OutputSpan
<1>1. crop.start \in Int /\ crop.first \in Int /\ LeftPad \in Nat /\ TopPad \in Nat
      /\ ActiveWidth \in Nat
  BY CropFields, OutputSize
<1>2. ASSUME NEW d \in damage
      PROVE  SpanOf(d, mode) \in OutputSpan
  <2>1. FirstOf(d, mode) \in Int /\ EndOf(d, mode) \in Int /\ RowOf(d) \in Int
    BY RecordColumns
  <2> QED
    BY <1>1, <2>1 DEF SpanOf, OutputSpan
<1>3. ASSUME NEW s \in spans
      PROVE  PublishedSpan(s) \in OutputSpan
  <2>1. s.frameRow \in Int /\ s.x0 \in Int /\ s.x1 \in Int
    BY DEF ConcealedSpan
  <2>2. ASSUME NEW v \in Int
        PROVE  ClippedTo(v) \in Int
    BY <1>1, Clamped DEF ClippedTo
  <2>3. ClippedTo(s.x0) \in Int /\ ClippedTo(s.x1) \in Int
    BY <2>1, <2>2
  <2> QED
    BY <1>1, <2>1, <2>3 DEF PublishedSpan, OutputSpan
<1> QED
  BY <1>2, <1>3, FieldSpansAre, PublishedSpansAre

-----------------------------------------------------------------------------
(* Where a plane's samples lie. *)

LEMMA WholeRow ==
  ASSUME NEW w \in Nat, NEW a \in Int, NEW b \in Int, a < b
  PROVE  w * a + w <= w * b
<1>1. w * (b - a - 1) >= 0
  OBVIOUS
<1>2. w * (b - a - 1) = w * b - w * a - w
  OBVIOUS
<1> DEFINE p == w * a
           q == w * b
<1>3. p \in Int /\ q \in Int
  OBVIOUS
<1>4. q - p - w >= 0
  BY <1>1, <1>2
<1> HIDE DEF p, q
<1>5. p + w <= q
  BY <1>3, <1>4
<1> QED
  BY <1>5 DEF p, q

LEMMA RowMajor ==
  ASSUME NEW w \in Nat, NEW a \in Int, NEW b \in Int,
         NEW x \in 0 .. (w - 1), NEW y \in 0 .. (w - 1),
         w * a + x = w * b + y
  PROVE  a = b /\ x = y
<1> DEFINE p == w * a
           q == w * b
<1>1. p \in Int /\ q \in Int
  OBVIOUS
<1>2. a < b => p + w <= q
  BY WholeRow
<1>3. b < a => q + w <= p
  BY WholeRow
<1>4. p + x = q + y
  OBVIOUS
<1>5. a = b => p = q
  OBVIOUS
<1> HIDE DEF p, q
<1>6. ~(a < b) /\ ~(b < a)
  BY <1>1, <1>2, <1>3, <1>4
<1>7. a = b
  BY <1>6
<1> QED
  BY <1>1, <1>4, <1>5, <1>7

-----------------------------------------------------------------------------
(* The rows of a component on the lattice. *)

OnLattice(first, top, a, b, c, parity, y) ==
  /\ (((first + y) \div 2) + (IF (first + y) % 2 = 0 THEN a ELSE b)) % 2 = c
  /\ (top + y) % 2 = parity

EveryFourth(first, top, a, b, c, parity, r) ==
  \A y \in Nat : OnLattice(first, top, a, b, c, parity, y) <=> y % 4 = r

Residue(first, top, a, b, c, parity) ==
  CHOOSE r \in 0 .. 3 : EveryFourth(first, top, a, b, c, parity, r)

LEMMA OneInFour ==
  ASSUME NEW first \in Nat, NEW top \in Nat, NEW a \in {0, 1}, NEW b \in {0, 1},
         NEW c \in {0, 1}, NEW parity \in {0, 1}
  PROVE  /\ Residue(first, top, a, b, c, parity) \in 0 .. 3
         /\ EveryFourth(first, top, a, b, c, parity, Residue(first, top, a, b, c, parity))
<1> DEFINE On(y) == OnLattice(first, top, a, b, c, parity, y)
<1>1. ASSUME NEW y \in Nat
      PROVE  On(y) <=> On(y % 4)
  BY DEF OnLattice
<1>2. On(0) \/ On(1) \/ On(2) \/ On(3)
  BY DEF OnLattice
<1>3. \A y \in 0 .. 3, z \in 0 .. 3 : On(y) /\ On(z) => y = z
  BY DEF OnLattice
<1> HIDE DEF On
<1>4. PICK r \in 0 .. 3 : On(r)
  BY <1>2
<1>5. \A y \in Nat : On(y) <=> y % 4 = r
  BY <1>1, <1>3, <1>4
<1>6. EveryFourth(first, top, a, b, c, parity, r)
  BY <1>5 DEF On, EveryFourth
<1> QED
  BY <1>6 DEF Residue
LEMMA Progression ==
  ASSUME NEW n \in Nat, NEW r \in 0 .. 3
  PROVE  LET rows == {y \in 0 .. (4 * n - 1) : y % 4 = r}
         IN  /\ IsFiniteSet(rows) /\ Cardinality(rows) = n
             /\ rows = {r + 4 * (k - 1) : k \in 1 .. n}
<1> DEFINE rows == {y \in 0 .. (4 * n - 1) : y % 4 = r}
           f == [k \in 1 .. n |-> r + 4 * (k - 1)]
<1>1. ASSUME NEW k \in 1 .. n
      PROVE  r + 4 * (k - 1) \in rows
  OBVIOUS
<1>2. ASSUME NEW y \in rows
      PROVE  \E k \in 1 .. n : y = r + 4 * (k - 1)
  <2> DEFINE q == y \div 4
  <2>1. q \in 0 .. (n - 1) /\ y = r + 4 * q
    OBVIOUS
  <2> HIDE DEF q
  <2> DEFINE k == q + 1
  <2>2. k \in 1 .. n /\ y = r + 4 * (k - 1)
    BY <2>1
  <2> HIDE DEF k
  <2> QED
    BY <2>2
<1>3. rows = {r + 4 * (k - 1) : k \in 1 .. n}
  BY <1>1, <1>2
<1>4. f \in Surjection(1 .. n, rows)
  <2>1. f \in [1 .. n -> rows]
    BY <1>1
  <2>2. \A y \in rows : \E k \in 1 .. n : f[k] = y
    BY <1>2
  <2> HIDE DEF f, rows
  <2> QED
    BY <2>1, <2>2, Fun_IsSurj
<1>5. f \in Injection(1 .. n, rows)
  <2>1. f \in [1 .. n -> rows]
    BY <1>1
  <2>2. \A k, l \in 1 .. n : f[k] = f[l] => k = l
    OBVIOUS
  <2> HIDE DEF f, rows
  <2> QED
    BY <2>1, <2>2, Fun_IsInj
<1>6. IsFiniteSet(1 .. n) /\ Cardinality(1 .. n) = n
  BY FS_Interval
<1> HIDE DEF f, rows
<1>7. IsFiniteSet(rows) /\ Cardinality(rows) = n
  BY <1>4, <1>5, <1>6, FS_Surjection
<1> QED
  BY <1>3, <1>7 DEF rows

\* The residue, modulo four, of the active rows a component has on one parity.
LatticeRow(anchors, c, parity) ==
  Residue(crop.first, TopPad, anchors[1], anchors[2], c, parity)

LEMMA LatticeRows ==
  ASSUME Committed, ActiveHeight % 4 = 0, NEW anchors \in {0, 1} \X {0, 1},
         NEW c \in {0, 1}, NEW parity \in {0, 1}
  PROVE  /\ LatticeRow(anchors, c, parity) \in 0 .. 3
         /\ {y \in 0 .. (ActiveHeight - 1) :
               LatticeMap(anchors)[crop.first + y] = c /\ (TopPad + y) % 2 = parity}
              = {y \in 0 .. (ActiveHeight - 1) : y % 4 = LatticeRow(anchors, c, parity)}
<1>1. /\ crop.first \in Nat /\ TopPad \in Nat /\ ActiveHeight \in Nat
      /\ crop.last \in Int /\ crop.last < FrameHeight
      /\ ActiveHeight = crop.last - crop.first + 1
  BY CropFields, OutputSize DEF ActiveHeight, Committed, ValidCrop
<1>2. FrameHeight \in Int
  BY PictureAssumption DEF FrameHeight
<1>3. anchors[1] \in {0, 1} /\ anchors[2] \in {0, 1}
  OBVIOUS
<1> DEFINE r == LatticeRow(anchors, c, parity)
<1>4. r \in 0 .. 3 /\ EveryFourth(crop.first, TopPad, anchors[1], anchors[2], c, parity, r)
  BY <1>1, <1>3, OneInFour DEF LatticeRow
<1> HIDE DEF r
<1>5. ASSUME NEW y \in 0 .. (ActiveHeight - 1)
      PROVE  LatticeMap(anchors)[crop.first + y] = c /\ (TopPad + y) % 2 = parity
               <=> OnLattice(crop.first, TopPad, anchors[1], anchors[2], c, parity, y)
  <2> DEFINE row == crop.first + y
  <2>1. row \in 0 .. (FrameHeight - 1) /\ ~(row < crop.first \/ row > crop.last)
    BY <1>1, <1>2
  <2>2. row % 2 = 0 \/ row % 2 = 1
    BY <2>1, <1>2
  <2>3. LatticeMap(anchors)[row] = ((row \div 2) + anchors[(row % 2) + 1]) % 2
    <3> HIDE DEF row
    <3> QED
      BY <2>1 DEF LatticeMap
  <2>4. anchors[(row % 2) + 1] = IF row % 2 = 0 THEN anchors[1] ELSE anchors[2]
    <3> HIDE DEF row
    <3> QED
      BY <2>2
  <2> QED
    BY <2>3, <2>4 DEF OnLattice
<1>6. ASSUME NEW y \in 0 .. (ActiveHeight - 1)
      PROVE  LatticeMap(anchors)[crop.first + y] = c /\ (TopPad + y) % 2 = parity
               <=> y % 4 = r
  <2>1. y \in Nat
    BY <1>1
  <2> QED
    BY <1>4, <1>5, <2>1 DEF EveryFourth
<1> QED
  BY <1>4, <1>6 DEF r

\* The rows of a component and parity are every fourth one.
LEMMA ComponentRowsAre ==
  ASSUME Committed, ActiveHeight % 4 = 0, NEW anchors \in {0, 1} \X {0, 1},
         NEW c \in {0, 1}, NEW parity \in {0, 1}
  PROVE  ComponentRows(LatticeMap(anchors), c, parity)
           = [k \in 1 .. (ActiveHeight \div 4) |-> LatticeRow(anchors, c, parity) + 4 * (k - 1)]
<1> DEFINE n == ActiveHeight \div 4
           r == LatticeRow(anchors, c, parity)
           rows == {y \in 0 .. (ActiveHeight - 1) :
                      LatticeMap(anchors)[crop.first + y] = c /\ (TopPad + y) % 2 = parity}
           Before(y) == Cardinality({z \in rows : z < y})
<1>1. ActiveHeight \in Nat /\ n \in Nat /\ ActiveHeight = 4 * n /\ r \in 0 .. 3
  BY CropFields, LatticeRows
<1>2. rows = {y \in 0 .. (4 * n - 1) : y % 4 = r}
  BY <1>1, LatticeRows
<1>3. ComponentRows(LatticeMap(anchors), c, parity)
        = [k \in 1 .. Cardinality(rows) |-> CHOOSE y \in rows : Before(y) = k - 1]
  BY DEF ComponentRows
<1> HIDE DEF n, r, rows
<1>4. Cardinality(rows) = n /\ rows = {r + 4 * (k - 1) : k \in 1 .. n}
  BY <1>1, <1>2, Progression
<1>5. ASSUME NEW k \in 1 .. n
      PROVE  Before(r + 4 * (k - 1)) = k - 1
  <2>1. {z \in rows : z < r + 4 * (k - 1)} = {z \in 0 .. (4 * (k - 1) - 1) : z % 4 = r}
    BY <1>1, <1>2
  <2>2. k - 1 \in Nat
    BY <1>1
  <2> QED
    BY <1>1, <2>1, <2>2, Progression
<1> HIDE DEF Before
<1>6. ASSUME NEW k \in 1 .. n
      PROVE  (CHOOSE y \in rows : Before(y) = k - 1) = r + 4 * (k - 1)
  <2>1. r + 4 * (k - 1) \in rows /\ Before(r + 4 * (k - 1)) = k - 1
    BY <1>4, <1>5
  <2>2. ASSUME NEW y \in rows, Before(y) = k - 1
        PROVE  y = r + 4 * (k - 1)
    <3>1. PICK l \in 1 .. n : y = r + 4 * (l - 1)
      BY <1>4
    <3>2. l - 1 = k - 1
      BY <1>5, <2>2, <3>1
    <3>3. l = k
      BY <1>1, <3>2
    <3> QED
      BY <3>1, <3>3
  <2> QED
    BY <2>1, <2>2
<1> QED
  BY <1>3, <1>4, <1>6 DEF r, n

LEMMA LatticeParity ==
  ASSUME Committed, NEW anchors \in {0, 1} \X {0, 1}, NEW c \in {0, 1},
         NEW parity \in {0, 1}, NEW j \in Nat
  PROVE  (TopPad + LatticeRow(anchors, c, parity) + 4 * j) % 2 = parity
<1> DEFINE r == LatticeRow(anchors, c, parity)
           a == anchors[1]
           b == anchors[2]
<1>1. crop.first \in Nat /\ TopPad \in Nat /\ a \in {0, 1} /\ b \in {0, 1}
  BY CropFields, OutputSize
<1>2. r \in 0 .. 3 /\ EveryFourth(crop.first, TopPad, a, b, c, parity, r)
  BY <1>1, OneInFour DEF LatticeRow
<1> HIDE DEF r, a, b
<1>3. r + 4 * j \in Nat /\ (r + 4 * j) % 4 = r
  BY <1>2
<1>4. OnLattice(crop.first, TopPad, a, b, c, parity, r + 4 * j)
  BY <1>2, <1>3 DEF EveryFourth
<1>5. (TopPad + (r + 4 * j)) % 2 = parity
  BY <1>4 DEF OnLattice
<1>6. TopPad + (r + 4 * j) = TopPad + r + 4 * j
  BY <1>1, <1>2
<1> QED
  BY <1>5, <1>6 DEF r

\* The k-th row of a woven plane.
WovenRow(anchors, c, k) ==
  IF k % 2 = 1 THEN LatticeRow(anchors, c, 0) + 4 * ((k + 1) \div 2 - 1)
  ELSE LatticeRow(anchors, c, 1) + 4 * (k \div 2 - 1)

LEMMA Woven ==
  ASSUME Committed, ActiveHeight % 4 = 0, NEW anchors \in {0, 1} \X {0, 1},
         NEW c \in {0, 1}
  PROVE  /\ WeaveRows(LatticeMap(anchors), c)
              = [k \in 1 .. 2 * (ActiveHeight \div 4) |-> WovenRow(anchors, c, k)]
         /\ Len(ComponentRows(LatticeMap(anchors), c, 0)) = ActiveHeight \div 4
         /\ Len(ComponentRows(LatticeMap(anchors), c, 1)) = ActiveHeight \div 4
<1> DEFINE n == ActiveHeight \div 4
           r == LatticeRow(anchors, c, 0)
           s == LatticeRow(anchors, c, 1)
           even == ComponentRows(LatticeMap(anchors), c, 0)
           odd == ComponentRows(LatticeMap(anchors), c, 1)
<1>1. ActiveHeight \in Nat /\ n \in Nat /\ r \in 0 .. 3 /\ s \in 0 .. 3
  BY CropFields, LatticeRows
<1>2. /\ even = [k \in 1 .. n |-> r + 4 * (k - 1)]
      /\ odd = [k \in 1 .. n |-> s + 4 * (k - 1)]
  BY ComponentRowsAre
<1>3. WeaveRows(LatticeMap(anchors), c)
        = [k \in 1 .. 2 * Len(even) |->
             IF k % 2 = 1 THEN even[(k + 1) \div 2] ELSE odd[k \div 2]]
  BY DEF WeaveRows
<1>4. ASSUME NEW k \in 1 .. 2 * n
      PROVE  WovenRow(anchors, c, k) = IF k % 2 = 1 THEN r + 4 * ((k + 1) \div 2 - 1)
                                       ELSE s + 4 * (k \div 2 - 1)
  BY DEF WovenRow
<1> HIDE DEF n, r, s, even, odd
<1>5. Len(even) = n /\ Len(odd) = n
  BY <1>1, <1>2
<1>6. ASSUME NEW k \in 1 .. 2 * n
      PROVE  (IF k % 2 = 1 THEN even[(k + 1) \div 2] ELSE odd[k \div 2])
               = IF k % 2 = 1 THEN r + 4 * ((k + 1) \div 2 - 1) ELSE s + 4 * (k \div 2 - 1)
  <2>1. k % 2 = 1 => (k + 1) \div 2 \in 1 .. n
    BY <1>1
  <2>2. k % 2 # 1 => k \div 2 \in 1 .. n
    BY <1>1
  <2> QED
    BY <1>2, <2>1, <2>2
<1> QED
  BY <1>3, <1>4, <1>5, <1>6 DEF n, even, odd

-----------------------------------------------------------------------------
(* The samples of a buffer. *)

\* The planes of a format, and the rows each one has.
PlanesOf(f) ==
  IF f \in {"GRAY16", "GRAYS"} THEN {"Y"}
  ELSE IF f \in {"RGB48", "RGBS"} THEN {"R", "G", "B"}
  ELSE {"Y", "CB", "CR"}

LEMMA PlanesAre ==
  ASSUME NEW f
  PROVE  /\ Range(Planes(f)) = PlanesOf(f)
         /\ DOMAIN Planes(f) \subseteq 1 .. 3
         /\ \A i \in DOMAIN Planes(f) : Planes(f)[i] \in PlanesOf(f)
         /\ f \in {"RGB48", "RGBS"} => Planes(f) = <<"R", "G", "B">>
         /\ Is440(f) => Planes(f) = <<"Y", "CB", "CR">>
<1>1. CASE f \in {"GRAY16", "GRAYS"}
  <2>1. Planes(f) = <<"Y">>
    BY <1>1 DEF Planes
  <2> QED
    BY <1>1, <2>1 DEF PlanesOf, Range, Is440
<1>2. CASE f \in {"RGB48", "RGBS"}
  <2>1. Planes(f) = <<"R", "G", "B">>
    BY <1>2 DEF Planes
  <2> QED
    BY <1>2, <2>1 DEF PlanesOf, Range, Is440
<1>3. CASE f \notin {"GRAY16", "GRAYS", "RGB48", "RGBS"}
  <2>1. Planes(f) = <<"Y", "CB", "CR">>
    BY <1>3 DEF Planes
  <2> QED
    BY <1>3, <2>1 DEF PlanesOf, Range
<1> QED
  BY <1>1, <1>2, <1>3

\* The buffer row a plane begins at, and its channel in a packed pixel.
PlaneTop(f, map, plane) ==
  IF IsFloat(f) \/ plane = "Y" \/ f = "RGB48" THEN 0
  ELSE IF plane = "CB" THEN OutputHeight
  ELSE IF Is440(f) THEN OutputHeight + PlaneHeight(f, map, "CB")
  ELSE 2 * OutputHeight
Channel(f, plane) ==
  IF f # "RGB48" THEN 0 ELSE IF plane = "R" THEN 0 ELSE IF plane = "G" THEN 1 ELSE 2

LEMMA Distributes ==
  ASSUME NEW w \in Nat, NEW a \in Nat, NEW b \in Nat, NEW h \in Nat
  PROVE  /\ w * (a + b) = w * a + w * b
         /\ w * (2 * h + b) = 2 * (w * h) + w * b
<1>1. w * (a + b) = w * a + w * b
  OBVIOUS
<1>2. w * (2 * h + b) = w * (2 * h) + w * b
  OBVIOUS
<1>3. w * (2 * h) = 2 * (w * h)
  OBVIOUS
<1> QED
  BY <1>1, <1>2, <1>3

LEMMA ReadPlaces ==
  ASSUME Committed, NEW f, NEW map, PlaneHeight(f, map, "CB") \in Nat,
         NEW plane \in PlanesOf(f), NEW y \in Nat, NEW x \in Nat
  PROVE  ReadAt(f, map, plane, y, x)
           = Channel(f, plane)
             + Pixel(f) * (OutputWidth * (PlaneTop(f, map, plane) + y) + x)
<1>1. OutputWidth \in Nat /\ OutputHeight \in Nat
  BY OutputSize
<1> DEFINE w == OutputWidth
           h == OutputHeight
           cb == PlaneHeight(f, map, "CB")
<1> HIDE DEF w, h, cb
<1>2. w \in Nat /\ h \in Nat /\ cb \in Nat
  BY <1>1 DEF w, h, cb
<1>3. CASE f = "RGB48"
  <2>1. plane \in {"R", "G", "B"} /\ Planes(f) = <<"R", "G", "B">>
    BY <1>3, PlanesAre DEF PlanesOf
  <2>2. (CHOOSE i \in 1 .. 3 : Planes(f)[i] = plane) - 1 = Channel(f, plane)
    <3>1. plane = "R" => (CHOOSE i \in 1 .. 3 : Planes(f)[i] = plane) = 1
      BY <2>1
    <3>2. plane = "G" => (CHOOSE i \in 1 .. 3 : Planes(f)[i] = plane) = 2
      BY <2>1
    <3>3. plane = "B" => (CHOOSE i \in 1 .. 3 : Planes(f)[i] = plane) = 3
      BY <2>1
    <3> QED
      BY <1>3, <2>1, <3>1, <3>2, <3>3 DEF Channel
  <2>3. PlaneBase(f, map, plane) = Channel(f, plane)
    BY <1>3, <2>1, <2>2 DEF PlaneBase, IsFloat
  <2>4. PlaneTop(f, map, plane) + y = y
    BY <1>3 DEF PlaneTop
  <2> QED
    BY <2>3, <2>4 DEF ReadAt
<1>4. CASE f # "RGB48"
  <2>1. Pixel(f) = 1 /\ Channel(f, plane) = 0
    BY <1>4 DEF Pixel, Channel
  <2> DEFINE top == PlaneTop(f, map, plane)
  <2>2. top \in Nat /\ PlaneBase(f, map, plane) + w * y = w * (top + y)
    <3>1. CASE IsFloat(f) \/ plane = "Y"
      <4>1. top = 0 /\ PlaneBase(f, map, plane) = 0
        BY <3>1 DEF PlaneTop, PlaneBase
      <4> HIDE DEF top
      <4>2. w * y \in Nat /\ top + y = y
        BY <1>2, <4>1
      <4> QED
        BY <4>1, <4>2
    <3>2. CASE ~(IsFloat(f) \/ plane = "Y") /\ plane = "CB"
      <4>1. top = h /\ PlaneBase(f, map, plane) = w * h
        BY <1>4, <3>2 DEF PlaneTop, PlaneBase, w, h
      <4> HIDE DEF top
      <4> QED
        BY <1>2, <4>1, Distributes
    <3>3. CASE ~(IsFloat(f) \/ plane = "Y") /\ plane # "CB" /\ Is440(f)
      <4>1. top = h + cb /\ PlaneBase(f, map, plane) = w * h + w * cb
        BY <1>4, <3>3 DEF PlaneTop, PlaneBase, w, h, cb
      <4> HIDE DEF top
      <4>2. top \in Nat /\ w * top = w * h + w * cb
        BY <1>2, <4>1, Distributes
      <4> QED
        BY <1>2, <4>1, <4>2, Distributes
    <3>4. CASE ~(IsFloat(f) \/ plane = "Y") /\ plane # "CB" /\ ~Is440(f)
      <4>1. top = 2 * h /\ PlaneBase(f, map, plane) = 2 * (w * h)
        BY <1>4, <3>4 DEF PlaneTop, PlaneBase, w, h
      <4> HIDE DEF top
      <4>2. w * (2 * h + y) = 2 * (w * h) + w * y
        BY <1>2, Distributes
      <4> QED
        BY <1>2, <4>1, <4>2
    <3> QED
      BY <3>1, <3>2, <3>3, <3>4
  <2>3. PlaneBase(f, map, plane) \in Int
    <3>1. w * h \in Int /\ w * cb \in Int
      BY <1>2
    <3> QED
      BY <1>4, <3>1 DEF PlaneBase, w, h, cb
  <2>4. ReadAt(f, map, plane, y, x) = PlaneBase(f, map, plane) + 1 * (w * y + x)
    BY <2>1 DEF ReadAt, w
  <2> DEFINE base == PlaneBase(f, map, plane)
             p == w * y
             q == w * (top + y)
  <2>5. p \in Int /\ q \in Int
    <3> HIDE DEF top
    <3> QED
      BY <1>2, <2>2
  <2>6. base + p = q /\ base \in Int
    BY <2>2, <2>3
  <2> HIDE DEF base, p, q
  <2>7. base + 1 * (p + x) = 0 + 1 * (q + x)
    BY <2>5, <2>6
  <2> QED
    BY <2>1, <2>4, <2>7 DEF base, p, q, w
<1> QED
  BY <1>3, <1>4

\* No two samples of a buffer share a place.
LEMMA PlacesDiffer ==
  ASSUME Committed, NEW f, NEW map,
         PlaneHeight(f, map, "CB") \in Nat, PlaneHeight(f, map, "CR") \in Nat,
         NEW p \in PlanesOf(f), NEW q \in PlanesOf(f), IsFloat(f) => p = q,
         NEW y \in 0 .. (PlaneHeight(f, map, p) - 1),
         NEW z \in 0 .. (PlaneHeight(f, map, q) - 1),
         NEW x \in 0 .. (OutputWidth - 1), NEW v \in 0 .. (OutputWidth - 1),
         ReadAt(f, map, p, y, x) = ReadAt(f, map, q, z, v)
  PROVE  p = q /\ y = z /\ x = v
<1>1. OutputWidth \in Nat /\ OutputHeight \in Nat
  BY OutputSize
<1>2. \A plane \in PlanesOf(f) : PlaneHeight(f, map, plane) \in Nat
  BY <1>1 DEF PlaneHeight, PlanesOf, Is440
<1>3. y \in Nat /\ z \in Nat /\ x \in Nat /\ v \in Nat
  BY <1>1, <1>2
<1> DEFINE a == PlaneTop(f, map, p) + y
           b == PlaneTop(f, map, q) + z
<1>4. a \in Nat /\ b \in Nat
  BY <1>1, <1>3 DEF PlaneTop
<1>5. Channel(f, p) + Pixel(f) * (OutputWidth * a + x)
        = Channel(f, q) + Pixel(f) * (OutputWidth * b + v)
  BY <1>3, ReadPlaces
<1> HIDE DEF a, b
<1>6. OutputWidth * a + x = OutputWidth * b + v /\ Channel(f, p) = Channel(f, q)
  <2> DEFINE s == OutputWidth * a + x
             t == OutputWidth * b + v
  <2>1. s \in Int /\ t \in Int
    BY <1>1, <1>3, <1>4
  <2> HIDE DEF s, t
  <2>2. Channel(f, p) + Pixel(f) * s = Channel(f, q) + Pixel(f) * t
    BY <1>5 DEF s, t
  <2>3. s = t /\ Channel(f, p) = Channel(f, q)
    BY <2>1, <2>2 DEF Channel, Pixel
  <2> QED
    BY <2>3 DEF s, t
<1>7. a = b /\ x = v
  BY <1>1, <1>4, <1>6, RowMajor
<1>8. p = q
  <2>1. CASE f = "RGB48"
    BY <1>6, <2>1 DEF Channel, PlanesOf
  <2>2. CASE IsFloat(f)
    BY <2>2
  <2>3. CASE f # "RGB48" /\ ~IsFloat(f)
    <3>1. p \in {"Y", "CB", "CR"} /\ q \in {"Y", "CB", "CR"}
      BY <2>3 DEF PlanesOf, IsFloat
    <3>2. ~Is440(f) => PlaneHeight(f, map, "CB") = OutputHeight
      BY DEF PlaneHeight
    <3>3. PlaneHeight(f, map, "Y") = OutputHeight
      BY DEF PlaneHeight
    <3>4. /\ PlaneTop(f, map, "Y") = 0 /\ PlaneTop(f, map, "CB") = OutputHeight
          /\ PlaneTop(f, map, "CR") = OutputHeight + PlaneHeight(f, map, "CB")
      BY <1>1, <2>3, <3>2 DEF PlaneTop
    <3> DEFINE h == OutputHeight
               cb == PlaneHeight(f, map, "CB")
    <3> HIDE DEF h, cb
    <3>5. h \in Nat /\ cb \in Nat
      BY <1>1 DEF h, cb
    <3>6. /\ p = "Y" => a = y /\ y < h
          /\ p = "CB" => a = h + y /\ y < cb
          /\ p = "CR" => a = h + cb + y
      BY <1>1, <1>3, <3>3, <3>4 DEF a, h, cb
    <3>7. /\ q = "Y" => b = z /\ z < h
          /\ q = "CB" => b = h + z /\ z < cb
          /\ q = "CR" => b = h + cb + z
      BY <1>1, <1>3, <3>3, <3>4 DEF b, h, cb
    <3> QED
      BY <1>3, <1>7, <3>1, <3>5, <3>6, <3>7
  <2> QED
    BY <2>1, <2>2, <2>3
<1>9. y = z
  <2>1. PlaneTop(f, map, p) \in Int
    BY <1>1 DEF PlaneTop
  <2> QED
    BY <1>3, <1>7, <1>8, <2>1 DEF a, b
<1> QED
  BY <1>7, <1>8, <1>9

\* The picture rows of a plane.
KnownMap(f, map) ==
  Is440(f) => /\ ActiveHeight % 4 = 0
              /\ \E anchors \in {0, 1} \X {0, 1} : map = LatticeMap(anchors)
RowCount(f, plane) ==
  IF Is440(f) /\ plane # "Y" THEN 2 * (ActiveHeight \div 4) ELSE ActiveHeight

LEMMA RowsKnown ==
  ASSUME Committed, NEW f, NEW map, KnownMap(f, map), NEW plane \in PlanesOf(f)
  PROVE  /\ RowCount(f, plane) \in Nat
         /\ PlaneRows(f, map, plane) \in [1 .. RowCount(f, plane) -> Int]
         /\ PlaneHeight(f, map, plane)
              = IF Is440(f) /\ plane # "Y" THEN RowCount(f, plane) ELSE OutputHeight
         /\ \A k \in 1 .. RowCount(f, plane) :
              WriteRow(f, plane, k) \in 0 .. (PlaneHeight(f, map, plane) - 1)
<1>1. /\ ActiveHeight \in Nat /\ TopPad \in Nat /\ OutputHeight \in Nat
      /\ TopPad + ActiveHeight <= OutputHeight
  BY CropFields, OutputSize
<1>2. CASE Is440(f) /\ plane # "Y"
  <2> DEFINE c == IF plane = "CB" THEN 0 ELSE 1
  <2>1. PICK anchors \in {0, 1} \X {0, 1} : map = LatticeMap(anchors)
    BY <1>2 DEF KnownMap
  <2>2. PlaneRows(f, map, plane) = WeaveRows(map, c)
    BY <1>2 DEF PlaneRows, PlanesOf, Is440
  <2>3. PlaneRows(f, map, plane)
          = [k \in 1 .. RowCount(f, plane) |-> WovenRow(anchors, c, k)]
    BY <1>2, <2>1, <2>2, Woven DEF KnownMap, RowCount
  <2>4. RowCount(f, plane) \in Nat
    BY <1>1 DEF RowCount
  <2>5. ASSUME NEW k \in 1 .. RowCount(f, plane)
        PROVE  WovenRow(anchors, c, k) \in Int
    <3>1. LatticeRow(anchors, c, 0) \in Int /\ LatticeRow(anchors, c, 1) \in Int
      BY <1>2, LatticeRows DEF KnownMap
    <3>2. k \in Int
      BY <2>4
    <3> QED
      BY <3>1, <3>2 DEF WovenRow
  <2> HIDE DEF c
  <2>6. PlaneRows(f, map, plane) \in [1 .. RowCount(f, plane) -> Int]
    BY <2>3, <2>5
  <2>7. PlaneHeight(f, map, plane) = RowCount(f, plane)
    <3>1. PlaneHeight(f, map, plane) = Len(PlaneRows(f, map, plane))
      BY <1>2 DEF PlaneHeight
    <3> QED
      BY <2>4, <2>6, <3>1
  <2>8. \A k \in 1 .. RowCount(f, plane) : WriteRow(f, plane, k) = k - 1
    BY <1>2 DEF WriteRow
  <2> QED
    BY <1>2, <2>4, <2>6, <2>7, <2>8
<1>3. CASE ~(Is440(f) /\ plane # "Y")
  <2>1. RowCount(f, plane) = ActiveHeight
    BY <1>3 DEF RowCount
  <2>2. PlaneRows(f, map, plane) = [i \in 1 .. ActiveHeight |-> i - 1]
    BY <1>3 DEF PlaneRows
  <2>3. PlaneHeight(f, map, plane) = OutputHeight
    BY <1>3 DEF PlaneHeight
  <2>4. \A k \in 1 .. ActiveHeight : WriteRow(f, plane, k) = TopPad + k - 1
    BY <1>3 DEF WriteRow
  <2>5. PlaneRows(f, map, plane) \in [1 .. ActiveHeight -> Int]
    BY <1>1, <2>2
  <2>6. \A k \in 1 .. ActiveHeight : TopPad + k - 1 \in 0 .. (OutputHeight - 1)
    BY <1>1
  <2> QED
    BY <1>1, <1>3, <2>1, <2>3, <2>4, <2>5, <2>6
<1> QED
  BY <1>2, <1>3

\* What convert writes into the buffer a plane is read from.
Writers(f, plane) == IF IsFloat(f) THEN {plane} ELSE PlanesOf(f)
SampleOf(f, map, p, k, v) ==
  [at |-> WriteAt(f, map, p, k, v),
   value |-> <<p, crop.first + PlaneRows(f, map, p)[k], crop.start + v>>]
Samples(f, map, plane) == UNION {Range(Written(f, map, p)) : p \in Writers(f, plane)}

LEMMA SamplesAre ==
  ASSUME Committed, NEW f, NEW map, KnownMap(f, map), NEW plane \in PlanesOf(f), NEW w
  PROVE  w \in Samples(f, map, plane)
           <=> \E p \in Writers(f, plane) :
                 \E k \in 1 .. RowCount(f, p), v \in 0 .. (ActiveWidth - 1) :
                   w = SampleOf(f, map, p, k, v)
<1>1. ASSUME NEW p \in Writers(f, plane)
      PROVE  w \in Range(Written(f, map, p))
               <=> \E k \in 1 .. RowCount(f, p), v \in 0 .. (ActiveWidth - 1) :
                     w = SampleOf(f, map, p, k, v)
  <2>1. p \in PlanesOf(f)
    BY DEF Writers
  <2>2. DOMAIN PlaneRows(f, map, p) = 1 .. RowCount(f, p)
    BY <2>1, RowsKnown
  <2> DEFINE cells == (1 .. RowCount(f, p)) \X (0 .. (ActiveWidth - 1))
  <2>3. Written(f, map, p) = [c \in cells |-> SampleOf(f, map, p, c[1], c[2])]
    BY <2>2 DEF Written, SampleOf
  <2>4. w \in Range(Written(f, map, p)) <=> \E c \in cells : w = SampleOf(f, map, p, c[1], c[2])
    BY <2>3 DEF Range
  <2>5. ASSUME NEW k \in 1 .. RowCount(f, p), NEW v \in 0 .. (ActiveWidth - 1),
               w = SampleOf(f, map, p, k, v)
        PROVE  \E c \in cells : w = SampleOf(f, map, p, c[1], c[2])
    <3>1. <<k, v>> \in cells /\ <<k, v>>[1] = k /\ <<k, v>>[2] = v
      OBVIOUS
    <3> QED
      BY <2>5, <3>1
  <2>6. ASSUME NEW c \in cells, w = SampleOf(f, map, p, c[1], c[2])
        PROVE  \E k \in 1 .. RowCount(f, p), v \in 0 .. (ActiveWidth - 1) :
                 w = SampleOf(f, map, p, k, v)
    <3>1. c[1] \in 1 .. RowCount(f, p) /\ c[2] \in 0 .. (ActiveWidth - 1)
      OBVIOUS
    <3> QED
      BY <2>6, <3>1
  <2> QED
    BY <2>4, <2>5, <2>6
<1>2. w \in Samples(f, map, plane)
        <=> \E p \in Writers(f, plane) : w \in Range(Written(f, map, p))
  BY DEF Samples
<1> QED
  BY <1>1, <1>2

\* A write lands on the sample read exactly when it is the write of that sample.
LEMMA WritesMeetReads ==
  ASSUME Committed, NEW f, NEW map, KnownMap(f, map), NEW plane \in PlanesOf(f),
         NEW y \in 0 .. (PlaneHeight(f, map, plane) - 1), NEW x \in 0 .. (OutputWidth - 1),
         NEW p \in Writers(f, plane), NEW k \in 1 .. RowCount(f, p),
         NEW v \in 0 .. (ActiveWidth - 1)
  PROVE  WriteAt(f, map, p, k, v) = ReadAt(f, map, plane, y, x)
           <=> p = plane /\ WriteRow(f, p, k) = y /\ LeftPad + v = x
<1>1. p \in PlanesOf(f) /\ (IsFloat(f) => p = plane)
  BY DEF Writers
<1>2. /\ LeftPad \in Nat /\ OutputWidth \in Nat /\ OutputHeight \in Nat
      /\ ActiveWidth \in Nat /\ LeftPad + ActiveWidth <= OutputWidth
  BY CropFields, OutputSize
<1>3. \A q \in PlanesOf(f) : PlaneHeight(f, map, q) \in Nat
  BY <1>2, RowsKnown
<1>4. WriteRow(f, p, k) \in 0 .. (PlaneHeight(f, map, p) - 1)
  BY <1>1, RowsKnown
<1>5. LeftPad + v \in 0 .. (OutputWidth - 1)
  BY <1>2
<1>6. WriteAt(f, map, p, k, v) = ReadAt(f, map, p, WriteRow(f, p, k), LeftPad + v)
  <2> DEFINE row == WriteRow(f, p, k)
  <2>1. row \in Int
    BY <1>1, <1>3, <1>4
  <2> HIDE DEF row
  <2> DEFINE start == OutputWidth * row
  <2>2. start \in Int
    BY <1>2, <2>1
  <2> HIDE DEF start
  <2>3. start + LeftPad + v = start + (LeftPad + v)
    BY <1>2, <2>2
  <2> QED
    BY <2>3 DEF WriteAt, ReadAt, start, row
<1>7. PlaneHeight(f, map, "CB") \in Nat /\ PlaneHeight(f, map, "CR") \in Nat
  BY <1>2, <1>3 DEF PlaneHeight, PlanesOf, Is440
<1>8. WriteAt(f, map, p, k, v) = ReadAt(f, map, plane, y, x)
        => p = plane /\ WriteRow(f, p, k) = y /\ LeftPad + v = x
  BY <1>1, <1>4, <1>5, <1>6, <1>7, PlacesDiffer
<1> QED
  BY <1>6, <1>8

LEMMA ReadsBack ==
  ASSUME Committed, NEW f, NEW map, KnownMap(f, map), NEW plane \in PlanesOf(f),
         NEW y \in 0 .. (PlaneHeight(f, map, plane) - 1), NEW x \in 0 .. (OutputWidth - 1)
  PROVE  LET at == ReadAt(f, map, plane, y, x)
             buffer == Buffer(f, map, plane)
         IN  /\ at \in DOMAIN buffer
                  => /\ PictureColumn(x)
                     /\ \E k \in 1 .. RowCount(f, plane) : WriteRow(f, plane, k) = y
             /\ \A k \in 1 .. RowCount(f, plane) :
                  PictureColumn(x) /\ WriteRow(f, plane, k) = y =>
                    /\ at \in DOMAIN buffer
                    /\ buffer[at] = <<plane, crop.first + PlaneRows(f, map, plane)[k],
                                      SourceColumn(x)>>
<1> DEFINE at == ReadAt(f, map, plane, y, x)
           writes == Samples(f, map, plane)
           ats == {w.at : w \in writes}
<1>1. Buffer(f, map, plane) = [i \in ats |-> (CHOOSE w \in writes : w.at = i).value]
  <2>1. Writers(f, plane) = IF IsFloat(f) THEN {plane} ELSE Range(Planes(f))
    BY PlanesAre DEF Writers
  <2>2. writes = UNION {Range(Written(f, map, p)) :
                          p \in (IF IsFloat(f) THEN {plane} ELSE Range(Planes(f)))}
    BY <2>1 DEF Samples
  <2> HIDE DEF writes
  <2> QED
    BY <2>2 DEF Buffer
<1>2. /\ LeftPad \in Nat /\ OutputWidth \in Nat /\ ActiveWidth \in Nat
      /\ LeftPad + ActiveWidth <= OutputWidth /\ crop.start \in Int
  BY CropFields, OutputSize
<1>3. plane \in Writers(f, plane)
  BY DEF Writers
<1>4. ASSUME NEW w \in writes, w.at = at
      PROVE  /\ PictureColumn(x)
             /\ \E k \in 1 .. RowCount(f, plane) :
                  /\ WriteRow(f, plane, k) = y
                  /\ w.value = <<plane, crop.first + PlaneRows(f, map, plane)[k], SourceColumn(x)>>
  <2>1. PICK p \in Writers(f, plane) :
          \E k \in 1 .. RowCount(f, p), v \in 0 .. (ActiveWidth - 1) :
            w = SampleOf(f, map, p, k, v)
    BY SamplesAre
  <2>2. PICK k \in 1 .. RowCount(f, p), v \in 0 .. (ActiveWidth - 1) :
          w = SampleOf(f, map, p, k, v)
    BY <2>1
  <2>3. /\ w.at = WriteAt(f, map, p, k, v)
        /\ w.value = <<p, crop.first + PlaneRows(f, map, p)[k], crop.start + v>>
    BY <2>2 DEF SampleOf
  <2>4. p = plane /\ WriteRow(f, p, k) = y /\ LeftPad + v = x
    <3>1. WriteAt(f, map, p, k, v) = ReadAt(f, map, plane, y, x)
      BY <1>4, <2>3
    <3> HIDE DEF at, writes
    <3> QED
      BY <3>1, WritesMeetReads
  <2>5. PictureColumn(x) /\ crop.start + v = SourceColumn(x)
    BY <1>2, <2>4 DEF PictureColumn, SourceColumn
  <2> QED
    BY <2>3, <2>4, <2>5
<1>5. ASSUME NEW k \in 1 .. RowCount(f, plane), NEW l \in 1 .. RowCount(f, plane),
             WriteRow(f, plane, k) = WriteRow(f, plane, l)
      PROVE  k = l
  BY <1>5, RowsKnown, OutputSize DEF WriteRow
<1>6. ASSUME NEW k \in 1 .. RowCount(f, plane), PictureColumn(x), WriteRow(f, plane, k) = y
      PROVE  /\ at \in ats
             /\ (CHOOSE w \in writes : w.at = at).value
                   = <<plane, crop.first + PlaneRows(f, map, plane)[k], SourceColumn(x)>>
  <2> DEFINE v == x - LeftPad
             s == SampleOf(f, map, plane, k, v)
  <2>1. v \in 0 .. (ActiveWidth - 1) /\ LeftPad + v = x
    BY <1>2, <1>6 DEF PictureColumn
  <2>2. s \in writes
    BY <1>3, <2>1, SamplesAre
  <2>3. s.at = at
    <3>1. s.at = WriteAt(f, map, plane, k, v)
      BY DEF SampleOf
    <3> HIDE DEF v
    <3> QED
      BY <1>3, <1>6, <2>1, <3>1, WritesMeetReads
  <2> HIDE DEF at, writes, s
  <2> DEFINE chosen == CHOOSE w \in writes : w.at = at
  <2>4. chosen \in writes /\ chosen.at = at
    BY <2>2, <2>3
  <2> HIDE DEF chosen
  <2>5. PICK l \in 1 .. RowCount(f, plane) :
          /\ WriteRow(f, plane, l) = y
          /\ chosen.value = <<plane, crop.first + PlaneRows(f, map, plane)[l], SourceColumn(x)>>
    BY <1>4, <2>4
  <2>6. l = k
    BY <1>5, <1>6, <2>5
  <2> QED
    BY <2>2, <2>3, <2>5, <2>6 DEF chosen
<1>7. at \in ats => \E w \in writes : w.at = at
  OBVIOUS
<1> HIDE DEF at, ats, writes
<1>8. DOMAIN Buffer(f, map, plane) = ats
  BY <1>1
<1>9. at \in ats => Buffer(f, map, plane)[at] = (CHOOSE w \in writes : w.at = at).value
  BY <1>1
<1> QED
  BY <1>4, <1>6, <1>7, <1>8, <1>9 DEF at

-----------------------------------------------------------------------------
(* The planes a caller reads. *)

LEMMA PlaneRead ==
  ASSUME Committed, NEW fr, KnownMap(fr.format, fr.map), NEW plane \in PlanesOf(fr.format),
         NEW y \in 0 .. (PlaneHeight(fr.format, fr.map, plane) - 1),
         NEW x \in 0 .. (OutputWidth - 1)
  PROVE  /\ \A k \in 1 .. RowCount(fr.format, plane) :
              PictureColumn(x) /\ WriteRow(fr.format, plane, k) = y =>
                ReadPlane(fr, plane)[y][x]
                  = <<plane, crop.first + PlaneRows(fr.format, fr.map, plane)[k],
                      SourceColumn(x)>>
         /\ ~(/\ PictureColumn(x)
              /\ \E k \in 1 .. RowCount(fr.format, plane) : WriteRow(fr.format, plane, k) = y)
              => ReadPlane(fr, plane)[y][x] = Border(fr.format, plane)
<1> DEFINE at == ReadAt(fr.format, fr.map, plane, y, x)
           buffer == Buffer(fr.format, fr.map, plane)
<1>1. ReadPlane(fr, plane)[y][x] = IF at \in DOMAIN buffer THEN buffer[at]
                                   ELSE Border(fr.format, plane)
  BY DEF ReadPlane
<1>2. /\ at \in DOMAIN buffer
           => /\ PictureColumn(x)
              /\ \E k \in 1 .. RowCount(fr.format, plane) : WriteRow(fr.format, plane, k) = y
      /\ \A k \in 1 .. RowCount(fr.format, plane) :
           PictureColumn(x) /\ WriteRow(fr.format, plane, k) = y =>
             /\ at \in DOMAIN buffer
             /\ buffer[at] = <<plane, crop.first + PlaneRows(fr.format, fr.map, plane)[k],
                               SourceColumn(x)>>
  BY ReadsBack
<1> HIDE DEF at, buffer
<1> QED
  BY <1>1, <1>2

\* A plane of every picture row.
LEMMA FlatPlane ==
  ASSUME Committed, NEW fr, KnownMap(fr.format, fr.map), NEW plane \in PlanesOf(fr.format),
         ~(Is440(fr.format) /\ plane # "Y"),
         NEW y \in 0 .. (OutputHeight - 1), NEW x \in 0 .. (OutputWidth - 1)
  PROVE  ReadPlane(fr, plane)[y][x]
           = IF PictureRow(y) /\ PictureColumn(x)
             THEN <<plane, SourceRow(y), SourceColumn(x)>>
             ELSE Border(fr.format, plane)
<1>1. /\ ActiveHeight \in Nat /\ TopPad \in Nat /\ OutputHeight \in Nat /\ crop.first \in Int
  BY CropFields, OutputSize
<1>2. /\ RowCount(fr.format, plane) = ActiveHeight
      /\ PlaneHeight(fr.format, fr.map, plane) = OutputHeight
      /\ PlaneRows(fr.format, fr.map, plane) = [i \in 1 .. ActiveHeight |-> i - 1]
  BY DEF RowCount, PlaneHeight, PlaneRows
<1>3. \A k \in 1 .. ActiveHeight : WriteRow(fr.format, plane, k) = TopPad + k - 1
  BY DEF WriteRow
<1>4. ASSUME PictureRow(y)
      PROVE  LET k == y - TopPad + 1
             IN  /\ k \in 1 .. ActiveHeight /\ WriteRow(fr.format, plane, k) = y
                 /\ crop.first + PlaneRows(fr.format, fr.map, plane)[k] = SourceRow(y)
  <2> DEFINE k == y - TopPad + 1
  <2>1. k \in 1 .. ActiveHeight /\ TopPad + k - 1 = y /\ crop.first + (k - 1) = SourceRow(y)
    BY <1>1, <1>4 DEF PictureRow, SourceRow
  <2> HIDE DEF k
  <2>2. WriteRow(fr.format, plane, k) = y
    BY <1>3, <2>1
  <2>3. PlaneRows(fr.format, fr.map, plane)[k] = k - 1
    BY <1>2, <2>1
  <2> QED
    BY <2>1, <2>2, <2>3 DEF k
<1>5. ASSUME NEW k \in 1 .. ActiveHeight, WriteRow(fr.format, plane, k) = y
      PROVE  PictureRow(y)
  BY <1>1, <1>3, <1>5 DEF PictureRow
<1>6. y \in 0 .. (PlaneHeight(fr.format, fr.map, plane) - 1)
  BY <1>2
<1>7. CASE PictureRow(y) /\ PictureColumn(x)
  <2>1. PICK k \in 1 .. RowCount(fr.format, plane) :
          /\ WriteRow(fr.format, plane, k) = y
          /\ crop.first + PlaneRows(fr.format, fr.map, plane)[k] = SourceRow(y)
    BY <1>2, <1>4, <1>7
  <2>2. ReadPlane(fr, plane)[y][x]
          = <<plane, crop.first + PlaneRows(fr.format, fr.map, plane)[k], SourceColumn(x)>>
    BY <1>6, <1>7, <2>1, PlaneRead
  <2> QED
    BY <1>7, <2>1, <2>2
<1>8. CASE ~(PictureRow(y) /\ PictureColumn(x))
  <2>1. ~(/\ PictureColumn(x)
          /\ \E k \in 1 .. RowCount(fr.format, plane) : WriteRow(fr.format, plane, k) = y)
    BY <1>2, <1>5, <1>8
  <2>2. ReadPlane(fr, plane)[y][x] = Border(fr.format, plane)
    BY <1>6, <2>1, PlaneRead
  <2> QED
    BY <1>8, <2>2
<1> QED
  BY <1>7, <1>8

\* The rows of a woven plane: rows of the component, each once, in order within a field and
\* on the plane row of their parity.
LEMMA WovenRows ==
  ASSUME Committed, ActiveHeight % 4 = 0, NEW anchors \in {0, 1} \X {0, 1},
         NEW c \in {0, 1}
  PROVE  LET n == ActiveHeight \div 4
         IN  /\ \A k \in 1 .. 2 * n :
                  /\ WovenRow(anchors, c, k) \in 0 .. (ActiveHeight - 1)
                  /\ (TopPad + WovenRow(anchors, c, k)) % 2 = (k - 1) % 2
                  /\ LatticeMap(anchors)[crop.first + WovenRow(anchors, c, k)] = c
             /\ \A y \in 0 .. (ActiveHeight - 1) :
                  LatticeMap(anchors)[crop.first + y] = c
                    => \E k \in 1 .. 2 * n : WovenRow(anchors, c, k) = y
             /\ \A k, l \in 1 .. 2 * n :
                  k < l /\ k % 2 = l % 2 => WovenRow(anchors, c, k) < WovenRow(anchors, c, l)
<1> DEFINE n == ActiveHeight \div 4
           r == LatticeRow(anchors, c, 0)
           s == LatticeRow(anchors, c, 1)
           On(y) == LatticeMap(anchors)[crop.first + y] = c
<1>1. /\ ActiveHeight \in Nat /\ TopPad \in Nat /\ n \in Nat /\ ActiveHeight = 4 * n
      /\ r \in 0 .. 3 /\ s \in 0 .. 3
  BY CropFields, OutputSize, LatticeRows
<1>2. ASSUME NEW y \in 0 .. (ActiveHeight - 1)
      PROVE  /\ On(y) /\ (TopPad + y) % 2 = 0 <=> y % 4 = r
             /\ On(y) /\ (TopPad + y) % 2 = 1 <=> y % 4 = s
  <2>1. {z \in 0 .. (ActiveHeight - 1) : On(z) /\ (TopPad + z) % 2 = 0}
          = {z \in 0 .. (ActiveHeight - 1) : z % 4 = r}
    BY LatticeRows
  <2>2. {z \in 0 .. (ActiveHeight - 1) : On(z) /\ (TopPad + z) % 2 = 1}
          = {z \in 0 .. (ActiveHeight - 1) : z % 4 = s}
    BY LatticeRows
  <2> HIDE DEF On, r, s
  <2> QED
    BY <2>1, <2>2
<1>3. ASSUME NEW k \in 1 .. 2 * n
      PROVE  WovenRow(anchors, c, k) = IF k % 2 = 1 THEN r + 4 * ((k + 1) \div 2 - 1)
                                       ELSE s + 4 * (k \div 2 - 1)
  BY DEF WovenRow
<1> HIDE DEF n, r, s, On
<1>4. ASSUME NEW k \in 1 .. 2 * n
      PROVE  LET y == WovenRow(anchors, c, k)
             IN  /\ y \in 0 .. (ActiveHeight - 1)
                 /\ k % 2 = 1 => y % 4 = r
                 /\ k % 2 # 1 => y % 4 = s
  <2> DEFINE a == (k + 1) \div 2 - 1
             b == k \div 2 - 1
  <2>1. /\ k % 2 = 1 => a \in 0 .. (n - 1)
        /\ k % 2 # 1 => b \in 0 .. (n - 1)
    BY <1>1
  <2>2. WovenRow(anchors, c, k) = IF k % 2 = 1 THEN r + 4 * a ELSE s + 4 * b
    BY <1>3
  <2> HIDE DEF a, b
  <2>3. ASSUME k % 2 = 1
        PROVE  r + 4 * a \in 0 .. (4 * n - 1) /\ (r + 4 * a) % 4 = r
    BY <1>1, <2>1, <2>3
  <2>4. ASSUME k % 2 # 1
        PROVE  s + 4 * b \in 0 .. (4 * n - 1) /\ (s + 4 * b) % 4 = s
    BY <1>1, <2>1, <2>4
  <2> QED
    BY <1>1, <2>2, <2>3, <2>4
<1>5. ASSUME NEW k \in 1 .. 2 * n
      PROVE  /\ WovenRow(anchors, c, k) \in 0 .. (ActiveHeight - 1)
             /\ (TopPad + WovenRow(anchors, c, k)) % 2 = (k - 1) % 2
             /\ On(WovenRow(anchors, c, k))
  <2> DEFINE y == WovenRow(anchors, c, k)
  <2>1. y \in 0 .. (ActiveHeight - 1)
    BY <1>4
  <2>2. k % 2 = 1 => On(y) /\ (TopPad + y) % 2 = 0
    BY <1>2, <1>4
  <2>3. k % 2 # 1 => On(y) /\ (TopPad + y) % 2 = 1
    BY <1>2, <1>4
  <2>4. /\ k % 2 = 1 => (k - 1) % 2 = 0
        /\ k % 2 # 1 => (k - 1) % 2 = 1
    BY <1>1
  <2> HIDE DEF y
  <2>5. (TopPad + y) % 2 = (k - 1) % 2 /\ On(y)
    BY <2>2, <2>3, <2>4
  <2> QED
    BY <2>1, <2>5 DEF y
<1>6. ASSUME NEW y \in 0 .. (ActiveHeight - 1), On(y)
      PROVE  \E k \in 1 .. 2 * n : WovenRow(anchors, c, k) = y
  <2> DEFINE j == y \div 4
  <2>1. j \in 0 .. (n - 1) /\ y = 4 * j + (y % 4)
    BY <1>1
  <2>2. y % 4 = r \/ y % 4 = s
    <3>1. (TopPad + y) % 2 = 0 \/ (TopPad + y) % 2 = 1
      BY <1>1
    <3> QED
      BY <1>2, <1>6, <3>1
  <2> HIDE DEF j
  <2> DEFINE k == 2 * j + 1
  <2>3. /\ k \in 1 .. 2 * n /\ k % 2 = 1 /\ (k + 1) \div 2 - 1 = j
        /\ k + 1 \in 1 .. 2 * n /\ (k + 1) % 2 # 1 /\ (k + 1) \div 2 - 1 = j
    BY <1>1, <2>1
  <2> HIDE DEF k
  <2>4. WovenRow(anchors, c, k) = r + 4 * j
    BY <1>3, <2>3
  <2>5. WovenRow(anchors, c, k + 1) = s + 4 * j
    BY <1>3, <2>3
  <2>6. 4 * j + r = r + 4 * j /\ 4 * j + s = s + 4 * j
    BY <1>1, <2>1
  <2>7. CASE y % 4 = r
    BY <2>1, <2>3, <2>4, <2>6, <2>7
  <2>8. CASE y % 4 = s
    BY <2>1, <2>3, <2>5, <2>6, <2>8
  <2> QED
    BY <2>2, <2>7, <2>8
<1>7. ASSUME NEW k \in 1 .. 2 * n, NEW l \in 1 .. 2 * n, k < l, k % 2 = l % 2
      PROVE  WovenRow(anchors, c, k) < WovenRow(anchors, c, l)
  BY <1>1, <1>3, <1>7
<1> QED
  BY <1>5, <1>6, <1>7 DEF n, On

\* A chroma plane of a 4:4:0 frame: the woven rows, and beside them neutral.
WovenPlane(fr, anchors, c) ==
  LET plane == Planes(fr.format)[c + 2]
        n == ActiveHeight \div 4
    IN  /\ plane \in {"CB", "CR"}
        /\ PlaneHeight(fr.format, fr.map, plane) = 2 * n
        /\ PlaneRows(fr.format, fr.map, plane) = [k \in 1 .. 2 * n |-> WovenRow(anchors, c, k)]
        /\ \A y \in 0 .. (2 * n - 1), x \in 0 .. (OutputWidth - 1) :
             ReadPlane(fr, plane)[y][x]
               = IF PictureColumn(x)
                 THEN <<plane, crop.first + WovenRow(anchors, c, y + 1), SourceColumn(x)>>
                 ELSE "neutral"

LEMMA ChromaPlane ==
  ASSUME Committed, NEW fr, Is440(fr.format), ActiveHeight % 4 = 0,
         NEW anchors \in {0, 1} \X {0, 1}, fr.map = LatticeMap(anchors),
         NEW c \in {0, 1}
  PROVE  WovenPlane(fr, anchors, c)
<1> DEFINE plane == Planes(fr.format)[c + 2]
           n == ActiveHeight \div 4
<1>1. Planes(fr.format) = <<"Y", "CB", "CR">> /\ PlanesOf(fr.format) = {"Y", "CB", "CR"}
  BY PlanesAre DEF PlanesOf, Is440
<1>2. /\ plane = IF c = 0 THEN "CB" ELSE "CR"
      /\ plane \in {"CB", "CR"} /\ plane # "Y" /\ plane \in PlanesOf(fr.format)
  BY <1>1
<1>3. n \in Nat /\ KnownMap(fr.format, fr.map)
  BY CropFields DEF KnownMap
<1> HIDE DEF plane
<1>4. RowCount(fr.format, plane) = 2 * n
  BY <1>2 DEF RowCount
<1>5. PlaneRows(fr.format, fr.map, plane) = [k \in 1 .. 2 * n |-> WovenRow(anchors, c, k)]
  <2>1. PlaneRows(fr.format, fr.map, plane) = WeaveRows(fr.map, c)
    BY <1>2 DEF PlaneRows
  <2> QED
    BY <2>1, Woven
<1>6. PlaneHeight(fr.format, fr.map, plane) = 2 * n
  BY <1>2, <1>3, <1>4, RowsKnown
<1> HIDE DEF n
<1>7. ASSUME NEW y \in 0 .. (2 * n - 1), NEW x \in 0 .. (OutputWidth - 1)
      PROVE  ReadPlane(fr, plane)[y][x]
               = IF PictureColumn(x)
                 THEN <<plane, crop.first + WovenRow(anchors, c, y + 1), SourceColumn(x)>>
                 ELSE "neutral"
  <2>1. y + 1 \in 1 .. 2 * n /\ y + 1 - 1 = y
    BY <1>3
  <2>2. WriteRow(fr.format, plane, y + 1) = y
    BY <1>2, <2>1 DEF WriteRow
  <2>3. PlaneRows(fr.format, fr.map, plane)[y + 1] = WovenRow(anchors, c, y + 1)
    BY <1>5, <2>1
  <2>4. Border(fr.format, plane) = "neutral"
    BY <1>2 DEF Border
  <2>5. /\ y \in 0 .. (PlaneHeight(fr.format, fr.map, plane) - 1)
        /\ y + 1 \in 1 .. RowCount(fr.format, plane)
    BY <1>4, <1>6, <2>1
  <2>6. PictureColumn(x) => ReadPlane(fr, plane)[y][x]
          = <<plane, crop.first + WovenRow(anchors, c, y + 1), SourceColumn(x)>>
    BY <1>2, <1>3, <2>2, <2>3, <2>5, PlaneRead
  <2>7. ~PictureColumn(x) => ReadPlane(fr, plane)[y][x] = "neutral"
    BY <1>2, <1>3, <2>4, <2>5, PlaneRead
  <2> QED
    BY <2>6, <2>7
<1> QED
  BY <1>2, <1>5, <1>6, <1>7 DEF WovenPlane, plane, n

-----------------------------------------------------------------------------
(* The invariant. *)

\* A frame of a line-sequential format converts, because its rows weave.
FrameConverts ==
  /\ Is440(format) => ActiveHeight % 4 = 0
  /\ picture.status # "internal"
  /\ picture.status = "ok" => picture.format = format /\ KnownMap(format, picture.map)

\* A mask is what the records and the spans of the frame say.
MaskIsBoth ==
  mask.mode # "none" =>
    /\ mask.mode \in Mode
    /\ mask.spans \in SUBSET ConcealedSpan
    /\ mask.marked = MaskOf(FieldSpans(mask.mode) \cup PublishedSpans(mask.spans))

\* The geometry and the dropouts are those of the commit; the spans kept beside a frame are
\* the ones its decode concealed.
PictureInv ==
  /\ Committed
  /\ FrameConverts
  /\ damage \in SUBSET DropoutRecord
  /\ picture.spans \in SUBSET ConcealedSpan
  /\ concealed = PublishedSpans(picture.spans)
  /\ MaskIsBoth

\* What a step that keeps the committed geometry keeps.
LEMMA GeometryStays ==
  ASSUME crop' = crop, writer' = writer
  PROVE  /\ ActiveWidth' = ActiveWidth /\ ActiveHeight' = ActiveHeight
         /\ LeftPad' = LeftPad /\ TopPad' = TopPad
         /\ OutputWidth' = OutputWidth /\ OutputHeight' = OutputHeight
BY DEF ActiveWidth, ActiveHeight, LeftPad, TopPad, OutputWidth, OutputHeight

LEMMA SpansStay ==
  ASSUME crop' = crop, writer' = writer, damage' = damage
  PROVE  /\ \A mode : mask'.mode = mode =>
              (FieldSpans(mask.mode))' = FieldSpans(mode)
         /\ \A spans : mask'.spans = spans =>
              (PublishedSpans(mask.spans))' = PublishedSpans(spans)
         /\ \A spans : picture'.spans = spans =>
              (PublishedSpans(picture.spans))' = PublishedSpans(spans)
<1>1. /\ LeftPad' = LeftPad /\ TopPad' = TopPad /\ ActiveWidth' = ActiveWidth
      /\ OutputHeight' = OutputHeight
  BY GeometryStays
<1>2. ASSUME NEW mode, mask'.mode = mode
      PROVE  (FieldSpans(mask.mode))' = FieldSpans(mode)
  BY <1>1, <1>2 DEF FieldSpans, Widened
<1>3. ASSUME NEW spans, mask'.spans = spans
      PROVE  (PublishedSpans(mask.spans))' = PublishedSpans(spans)
  BY <1>1, <1>3 DEF PublishedSpans
<1>4. ASSUME NEW spans, picture'.spans = spans
      PROVE  (PublishedSpans(picture.spans))' = PublishedSpans(spans)
  BY <1>1, <1>4 DEF PublishedSpans
<1> QED
  BY <1>2, <1>3, <1>4

LEMMA RowsStay ==
  ASSUME crop' = crop, writer' = writer, format' = format
  PROVE  /\ picture' = picture => KnownMap(format, picture.map)' = KnownMap(format, picture.map)
         /\ \A map : picture'.map = map => KnownMap(format, picture.map)' = KnownMap(format, map)
<1>1. ActiveHeight' = ActiveHeight
  BY GeometryStays
<1>2. ASSUME NEW map, picture'.map = map
      PROVE  KnownMap(format, picture.map)' = KnownMap(format, map)
  BY <1>1, <1>2 DEF KnownMap, LatticeMap
<1> QED
  BY <1>2

LEMMA PictureInitInv ==
  PictureInit => PictureInv
<1> SUFFICES ASSUME PictureInit
             PROVE  PictureInv
  OBVIOUS
<1>1. Committed /\ damage \in SUBSET DropoutRecord
  <2>1. /\ crop \in [start : Int, end : Int, first : Int, last : Int] /\ ValidCrop(crop)
        /\ padding \in Nat /\ writer = Configured /\ damage \in SUBSET DropoutRecord
    BY PictureAssumption DEF PictureInit
  <2>2. ActiveWidth \in Nat /\ ActiveHeight \in Nat
    BY <2>1 DEF ValidCrop, ActiveWidth, ActiveHeight
  <2> QED
    BY <2>1, <2>2, ConfiguredFits DEF Committed
<1>2. /\ picture.spans = {} /\ concealed = {} /\ mask.mode = "none"
      /\ FrameConverts
  BY DEF PictureInit, NoFrame, FrameConverts
<1>3. PublishedSpans({}) = {}
  BY PublishedSpansAre
<1> QED
  BY <1>1, <1>2, <1>3 DEF PictureInv, MaskIsBoth

LEMMA PictureNextInv ==
  PictureInv /\ [PictureNext]_pictureVars => PictureInv'
<1> SUFFICES ASSUME PictureInv, [PictureNext]_pictureVars
             PROVE  PictureInv'
  OBVIOUS
<1>1. crop' = crop /\ writer' = writer /\ damage' = damage /\ format' = format
  BY DEF PictureNext, DecodeFrame, DecodeMask, pictureVars
<1>2. Committed' /\ damage' \in SUBSET DropoutRecord
  BY <1>1 DEF PictureInv, Committed, ValidCrop, ActiveWidth, ActiveHeight
<1>3. ASSUME mask' = mask
      PROVE  MaskIsBoth'
  <2>1. /\ (FieldSpans(mask.mode))' = FieldSpans(mask.mode)
        /\ (PublishedSpans(mask.spans))' = PublishedSpans(mask.spans)
    BY <1>1, <1>3, SpansStay
  <2> QED
    BY <1>3, <2>1 DEF PictureInv, MaskIsBoth, MaskOf
<1>4. ASSUME picture' = picture
      PROVE  FrameConverts'
  <2>1. KnownMap(format, picture.map)' = KnownMap(format, picture.map)
    BY <1>1, <1>4, RowsStay
  <2>2. ActiveHeight' = ActiveHeight
    BY <1>1, GeometryStays
  <2> QED
    BY <1>1, <1>4, <2>1, <2>2 DEF PictureInv, FrameConverts
<1>5. ASSUME NEW anchors \in {0, 1} \X {0, 1}, NEW spans,
             DecodeFrame(LatticeMap(anchors), spans)
      PROVE  FrameConverts'
  <2> DEFINE map == LatticeMap(anchors)
  <2>1. Committed /\ (Is440(format) => ActiveHeight % 4 = 0) /\ ActiveHeight' = ActiveHeight
    BY <1>1, GeometryStays DEF PictureInv, FrameConverts
  <2>2. HasRowMap(map)
    <3>1. /\ crop.first \in Int /\ crop.last \in Int /\ 0 <= crop.last /\ crop.last < FrameHeight
          /\ crop.first + ActiveHeight - 1 = crop.last
      BY <2>1, CropFields DEF Committed, ValidCrop, ActiveHeight
    <3>2. FrameHeight \in Int
      BY PictureAssumption DEF FrameHeight
    <3>3. crop.last \in 0 .. (FrameHeight - 1)
      BY <3>1, <3>2
    <3> QED
      BY <3>1, <3>3 DEF HasRowMap, LatticeMap
  <2>3. Is440(format) => WeavesEvenly(map)
    BY <2>1, Woven DEF WeavesEvenly
  <2> HIDE DEF map
  <2>4. picture' = [status |-> "ok", format |-> format, map |-> map, spans |-> spans]
    BY <1>5, <2>2, <2>3 DEF DecodeFrame, map
  <2>5. picture'.status = "ok" /\ picture'.format = format /\ picture'.map = map
    BY <2>4
  <2>6. KnownMap(format, picture.map)' = KnownMap(format, map)
    BY <1>1, <2>5, RowsStay
  <2>7. KnownMap(format, map)
    BY <2>1 DEF KnownMap, map
  <2> QED
    BY <1>1, <2>1, <2>5, <2>6, <2>7 DEF FrameConverts
<1>6. ASSUME NEW anchors \in {0, 1} \X {0, 1}, NEW spans \in Concealments,
             DecodeFrame(LatticeMap(anchors), spans)
      PROVE  PictureInv'
  <2>1. spans \in SUBSET ConcealedSpan
    BY PictureAssumption
  <2>2. picture'.spans = spans /\ concealed' = PublishedSpans(spans) /\ mask' = mask
    BY <1>6 DEF DecodeFrame
  <2>3. (PublishedSpans(picture.spans))' = PublishedSpans(spans)
    BY <1>1, <2>2, SpansStay
  <2> QED
    BY <1>2, <1>3, <1>6, <1>5, <2>1, <2>2, <2>3 DEF PictureInv
<1>7. ASSUME NEW mode \in Mode, DecodeMask(mode)
      PROVE  PictureInv'
  <2>1. /\ picture' = picture /\ concealed' = concealed
        /\ mask'.mode = mode /\ mask'.spans = picture.spans
        /\ mask'.marked = MaskOf(Spans(mode))
    BY <1>7 DEF DecodeMask
  <2>2. mask'.marked = MaskOf(FieldSpans(mode) \cup PublishedSpans(picture.spans))
    BY <2>1 DEF Spans, PictureInv
  <2>3. /\ (FieldSpans(mask.mode))' = FieldSpans(mode)
        /\ (PublishedSpans(mask.spans))' = PublishedSpans(picture.spans)
        /\ (PublishedSpans(picture.spans))' = PublishedSpans(picture.spans)
    BY <1>1, <2>1, SpansStay
  <2>4. MaskIsBoth'
    BY <2>1, <2>2, <2>3 DEF PictureInv, MaskIsBoth, MaskOf
  <2> QED
    BY <1>2, <1>4, <2>1, <2>3, <2>4 DEF PictureInv
<1>8. CASE UNCHANGED pictureVars
  <2>1. picture' = picture /\ concealed' = concealed /\ mask' = mask
    BY <1>8 DEF pictureVars
  <2>2. (PublishedSpans(picture.spans))' = PublishedSpans(picture.spans)
    BY <1>1, <2>1, SpansStay
  <2> QED
    BY <1>2, <1>3, <1>4, <2>1, <2>2 DEF PictureInv
<1> QED
  BY <1>6, <1>7, <1>8 DEF PictureNext, Mode

\* Whatever the crop, the padding and the dropouts, the mask chd_decode_dropout_mask gives
\* marks a picture sample exactly when its source sample lies in a dropout record of its
\* field, widened as asked, or in a span the decode concealed.
THEOREM MaskMatches ==
  PictureSpec => []MaskMatchesPicture
<1>1. PictureInv => MaskMatchesPicture
  <2> SUFFICES ASSUME PictureInv, mask.mode # "none",
                      NEW y \in 0 .. (OutputHeight - 1), NEW x \in 0 .. (OutputWidth - 1),
                      PictureRow(y), PictureColumn(x)
               PROVE  LET dots == IF mask.mode = "detected" THEN 0 ELSE OverDots
                      IN  <<y, x>> \in mask.marked
                            <=> \/ \E d \in damage :
                                     /\ 2 * (d.line - 1) + d.offset = SourceRow(y)
                                     /\ d.x0 - dots <= SourceColumn(x)
                                     /\ SourceColumn(x) < d.x1 + dots
                                \/ \E s \in mask.spans :
                                     /\ s.frameRow = SourceRow(y)
                                     /\ s.x0 <= SourceColumn(x) /\ SourceColumn(x) < s.x1
    BY DEF MaskMatchesPicture
  <2>1. /\ Committed /\ damage \subseteq DropoutRecord
        /\ mask.mode \in Mode /\ mask.spans \in SUBSET ConcealedSpan
        /\ mask.marked = MaskOf(FieldSpans(mask.mode) \cup PublishedSpans(mask.spans))
    BY DEF PictureInv, MaskIsBoth
  <2>2. y \in Int /\ x \in Int
    BY <2>1, OutputSize
  <2>3. <<y, x>> \in mask.marked
          <=> \/ \E s \in FieldSpans(mask.mode) : s.y = y /\ s.x0 <= x /\ x < s.x1
              \/ \E s \in PublishedSpans(mask.spans) : s.y = y /\ s.x0 <= x /\ x < s.x1
    <3>1. FieldSpans(mask.mode) \cup PublishedSpans(mask.spans) \in SUBSET OutputSpan
      BY <2>1, SpansAreOutputSpans
    <3> QED
      BY <2>1, <2>2, <3>1, MaskMembers
  <2> QED
    BY <2>1, <2>2, <2>3, RecordsMark, ConcealedMark DEF Dots
<1> QED
  BY <1>1, PictureInitInv, PictureNextInv, PTL DEF PictureSpec

\* Whatever the format, the crop and the padding, the pointers and strides that
\* chd_frame_get_plane gives read back the picture's own samples, in place, with border
\* around them; and the chroma planes of a 4:4:0 frame hold each row of their component once,
\* in the order and on the parity of its field.
THEOREM PlanesKept ==
  PictureSpec => []PlanesKeepThePicture
<1>1. ASSUME PictureInv
      PROVE  PlanesReadBack
  <2> SUFFICES ASSUME picture.status = "ok", ~Is440(format), NEW i \in DOMAIN Planes(format),
                      NEW y \in 0 .. (OutputHeight - 1), NEW x \in 0 .. (OutputWidth - 1)
               PROVE  ReadPlane(picture, Planes(format)[i])[y][x]
                        = IF PictureRow(y) /\ PictureColumn(x)
                          THEN <<Planes(format)[i], SourceRow(y), SourceColumn(x)>>
                          ELSE Border(format, Planes(format)[i])
    BY DEF PlanesReadBack
  <2>1. Planes(format)[i] \in PlanesOf(format)
    BY PlanesAre
  <2>2. Committed /\ picture.format = format /\ KnownMap(format, picture.map)
    BY <1>1 DEF PictureInv, FrameConverts
  <2> QED
    BY <2>1, <2>2, FlatPlane
<1>2. ASSUME PictureInv
      PROVE  ChromaPlanesKeepFields
  <2>1. picture.status # "internal"
    BY <1>2 DEF PictureInv, FrameConverts
  <2> SUFFICES ASSUME picture.status = "ok", Is440(format)
               PROVE  ChromaPlanesKeepFields
    BY <2>1 DEF ChromaPlanesKeepFields
  <2>2. /\ Committed /\ picture.format = format /\ KnownMap(format, picture.map)
        /\ ActiveHeight % 4 = 0
    BY <1>2 DEF PictureInv, FrameConverts
  <2>3. PICK anchors \in {0, 1} \X {0, 1} : picture.map = LatticeMap(anchors)
    BY <2>2 DEF KnownMap
  <2>4. ASSUME NEW y \in 0 .. (OutputHeight - 1), NEW x \in 0 .. (OutputWidth - 1)
        PROVE  ReadPlane(picture, "Y")[y][x]
                 = IF PictureRow(y) /\ PictureColumn(x)
                   THEN <<"Y", SourceRow(y), SourceColumn(x)>> ELSE "black"
    <3>1. "Y" \in PlanesOf(format) /\ Border(format, "Y") = "black"
      BY DEF PlanesOf, Border, Is440
    <3> QED
      BY <2>2, <3>1, FlatPlane
  <2>5. ASSUME NEW c \in {0, 1}
        PROVE  LET plane == Planes(format)[c + 2]
                   read == ReadPlane(picture, plane)
                   row(k) == read[k][LeftPad][2] - crop.first + TopPad
                   rows == DOMAIN read
               IN  /\ \A k \in rows, x \in 0 .. (OutputWidth - 1) :
                        read[k][x] = IF PictureColumn(x)
                                     THEN <<plane, SourceRow(row(k)), SourceColumn(x)>>
                                     ELSE "neutral"
                   /\ {row(k) : k \in rows}
                        = {y \in 0 .. (OutputHeight - 1) : RowComponent(picture, y) = c}
                   /\ \A k \in rows : row(k) % 2 = k % 2
                   /\ \A k, l \in rows : k < l /\ k % 2 = l % 2 => row(k) < row(l)
                   /\ row(0) = FirstFrameRow(format, picture.map, plane)
    <3> DEFINE plane == Planes(format)[c + 2]
               read == ReadPlane(picture, plane)
               row(k) == read[k][LeftPad][2] - crop.first + TopPad
               n == ActiveHeight \div 4
               Held(k) == WovenRow(anchors, c, k)
    <3>1. /\ crop.first \in Int /\ TopPad \in Nat /\ LeftPad \in Nat
          /\ ActiveHeight \in Nat /\ n \in Nat /\ n > 0
          /\ OutputHeight \in Nat /\ TopPad + ActiveHeight <= OutputHeight
          /\ LeftPad \in 0 .. (OutputWidth - 1) /\ PictureColumn(LeftPad)
      BY <2>2, CropFields, OutputSize DEF PictureColumn
    <3>2. /\ plane \in {"CB", "CR"}
          /\ PlaneHeight(format, picture.map, plane) = 2 * n
          /\ PlaneRows(format, picture.map, plane) = [k \in 1 .. 2 * n |-> Held(k)]
          /\ \A y \in 0 .. (2 * n - 1), x \in 0 .. (OutputWidth - 1) :
               read[y][x] = IF PictureColumn(x)
                            THEN <<plane, crop.first + Held(y + 1), SourceColumn(x)>>
                            ELSE "neutral"
      <4> DEFINE same == Planes(picture.format)[c + 2]
      <4>1. same = plane
        BY <2>2
      <4> HIDE DEF plane, n
      <4>2. /\ same \in {"CB", "CR"}
            /\ PlaneHeight(picture.format, picture.map, same) = 2 * n
            /\ PlaneRows(picture.format, picture.map, same) = [k \in 1 .. 2 * n |-> Held(k)]
            /\ \A y \in 0 .. (2 * n - 1), x \in 0 .. (OutputWidth - 1) :
                 ReadPlane(picture, same)[y][x]
                   = IF PictureColumn(x)
                     THEN <<same, crop.first + Held(y + 1), SourceColumn(x)>>
                     ELSE "neutral"
        <5>1. Is440(picture.format) /\ ActiveHeight % 4 = 0 /\ Committed
          BY <2>2
        <5>2. WovenPlane(picture, anchors, c)
          BY <2>3, <5>1, ChromaPlane
        <5> QED
          BY <5>2 DEF WovenPlane, n
      <4> HIDE DEF same, Held
      <4> QED
        BY <2>2, <4>1, <4>2
    <3>3. /\ \A k \in 1 .. 2 * n :
               /\ Held(k) \in 0 .. (ActiveHeight - 1)
               /\ (TopPad + Held(k)) % 2 = (k - 1) % 2
               /\ picture.map[crop.first + Held(k)] = c
          /\ \A y \in 0 .. (ActiveHeight - 1) :
               picture.map[crop.first + y] = c => \E k \in 1 .. 2 * n : Held(k) = y
          /\ \A k, l \in 1 .. 2 * n : k < l /\ k % 2 = l % 2 => Held(k) < Held(l)
      BY <2>2, <2>3, WovenRows
    <3>4. DOMAIN read = 0 .. (2 * n - 1)
      BY <2>2, <3>2 DEF ReadPlane
    <3> HIDE DEF plane, read, n, Held
    <3>5. ASSUME NEW k \in 0 .. (2 * n - 1)
          PROVE  /\ k + 1 \in 1 .. 2 * n /\ Held(k + 1) \in Int
                 /\ row(k) = Held(k + 1) + TopPad
      <4>1. k + 1 \in 1 .. 2 * n
        BY <3>1
      <4>2. Held(k + 1) \in Int
        BY <3>1, <3>3, <4>1
      <4>3. read[k][LeftPad] = <<plane, crop.first + Held(k + 1), SourceColumn(LeftPad)>>
        BY <3>1, <3>2
      <4> QED
        BY <3>1, <4>1, <4>2, <4>3
    <3> HIDE DEF row
    <3>6. ASSUME NEW k \in 0 .. (2 * n - 1), NEW x \in 0 .. (OutputWidth - 1)
          PROVE  read[k][x] = IF PictureColumn(x)
                              THEN <<plane, SourceRow(row(k)), SourceColumn(x)>>
                              ELSE "neutral"
      <4>1. SourceRow(row(k)) = crop.first + Held(k + 1)
        BY <3>1, <3>5 DEF SourceRow
      <4> QED
        BY <3>2, <4>1
    <3>7. ASSUME NEW k \in 0 .. (2 * n - 1)
          PROVE  /\ row(k) \in 0 .. (OutputHeight - 1)
                 /\ RowComponent(picture, row(k)) = c
                 /\ row(k) % 2 = k % 2
      <4>1. k + 1 \in 1 .. 2 * n /\ row(k) = Held(k + 1) + TopPad /\ k + 1 - 1 = k
        BY <3>1, <3>5
      <4>2. /\ Held(k + 1) \in 0 .. (ActiveHeight - 1)
            /\ (TopPad + Held(k + 1)) % 2 = k % 2
            /\ picture.map[crop.first + Held(k + 1)] = c
        BY <3>3, <4>1
      <4> DEFINE w == Held(k + 1)
      <4> HIDE DEF w
      <4>3. /\ row(k) \in 0 .. (OutputHeight - 1)
            /\ TopPad <= row(k) /\ row(k) < TopPad + ActiveHeight
            /\ crop.first + row(k) - TopPad = crop.first + w
            /\ row(k) = TopPad + w
        BY <3>1, <4>1, <4>2 DEF w
      <4> QED
        BY <4>2, <4>3 DEF RowComponent, w
    <3>8. ASSUME NEW y \in 0 .. (OutputHeight - 1), RowComponent(picture, y) = c
          PROVE  \E k \in 0 .. (2 * n - 1) : row(k) = y
      <4>1. TopPad <= y /\ y < TopPad + ActiveHeight /\ picture.map[crop.first + y - TopPad] = c
        BY <3>1, <3>8 DEF RowComponent
      <4> DEFINE z == y - TopPad
      <4>2. z \in 0 .. (ActiveHeight - 1) /\ crop.first + z = crop.first + y - TopPad
            /\ z + TopPad = y
        BY <3>1, <4>1
      <4> HIDE DEF z
      <4>3. PICK l \in 1 .. 2 * n : Held(l) = z
        BY <3>3, <4>1, <4>2
      <4> DEFINE k == l - 1
      <4>4. k \in 0 .. (2 * n - 1) /\ k + 1 = l
        BY <3>1
      <4> HIDE DEF k
      <4>5. row(k) = y
        BY <3>5, <4>2, <4>3, <4>4
      <4> QED
        BY <4>4, <4>5
    <3>9. {row(k) : k \in 0 .. (2 * n - 1)}
            = {y \in 0 .. (OutputHeight - 1) : RowComponent(picture, y) = c}
      BY <3>7, <3>8
    <3>10. ASSUME NEW k \in 0 .. (2 * n - 1), NEW l \in 0 .. (2 * n - 1),
                  k < l, k % 2 = l % 2
           PROVE  row(k) < row(l)
      <4>1. k + 1 < l + 1 /\ (k + 1) % 2 = (l + 1) % 2
        BY <3>1, <3>10
      <4>2. Held(k + 1) < Held(l + 1)
        BY <3>3, <3>5, <4>1
      <4> QED
        BY <3>1, <3>5, <4>2
    <3>11. row(0) = FirstFrameRow(format, picture.map, plane)
      <4>1. 0 \in 0 .. (2 * n - 1) /\ 1 \in 1 .. 2 * n
        BY <3>1
      <4>2. row(0) = Held(1) + TopPad
        BY <3>5, <4>1
      <4>3. PlaneRows(format, picture.map, plane)[1] = Held(1)
        BY <3>2, <4>1
      <4>4. PlaneRows(format, picture.map, plane) # <<>>
        BY <3>2, <4>1
      <4> QED
        BY <3>2, <4>2, <4>3, <4>4 DEF FirstFrameRow
    <3> QED
      BY <3>4, <3>6, <3>7, <3>9, <3>10, <3>11 DEF row, read, plane
  <2> QED
    BY <2>1, <2>4, <2>5 DEF ChromaPlanesKeepFields
<1>3. PictureInv => PlanesKeepThePicture
  BY <1>1, <1>2 DEF PlanesKeepThePicture
<1> QED
  BY <1>3, PictureInitInv, PictureNextInv, PTL DEF PictureSpec

-----------------------------------------------------------------------------
(* Dropout correction.  Its state keeps to CorrectorInv, near the end of the
   module.  First, the list of dropouts. *)

\* The members of a sequence at some of its indices are just those.
LEMMA AtMembers ==
  ASSUME NEW T, NEW ds \in Seq(T), NEW S \in SUBSET (DOMAIN ds)
  PROVE  /\ At(ds, S) \in Seq(T)
         /\ \A k \in DOMAIN At(ds, S) : \E i \in S : At(ds, S)[k] = ds[i]
         /\ \A i \in S : \E k \in DOMAIN At(ds, S) : At(ds, S)[k] = ds[i]
<1> DEFINE n == Cardinality(S)
           Below(i) == {j \in S : j <= i}
           rank == [i \in S |-> Cardinality(Below(i))]
<1>1. /\ Len(ds) \in Nat /\ DOMAIN ds = 1 .. Len(ds)
      /\ S \subseteq Nat
  OBVIOUS
<1>2. IsFiniteSet(S) /\ n \in Nat
  <2>1. IsFiniteSet(1 .. Len(ds))
    BY <1>1, FS_Interval
  <2> QED
    BY <1>1, <2>1, FS_Subset, FS_CardinalityType
<1>3. ASSUME NEW i \in S
      PROVE  IsFiniteSet(Below(i)) /\ Cardinality(Below(i)) \in 1 .. n
  <2>1. Below(i) \in SUBSET S /\ i \in Below(i)
    BY <1>1
  <2>2. IsFiniteSet(Below(i)) /\ Cardinality(Below(i)) <= n
    BY <1>2, <2>1, FS_Subset
  <2>3. Cardinality(Below(i)) \in Nat
    BY <2>2, FS_CardinalityType
  <2>4. Cardinality(Below(i)) # 0
    BY <2>1, <2>2, FS_EmptySet
  <2> HIDE DEF Below, n
  <2> QED
    BY <1>2, <2>2, <2>3, <2>4
<1>4. ASSUME NEW i \in S, NEW j \in S, Cardinality(Below(i)) = Cardinality(Below(j))
      PROVE  i = j
  <2>1. ASSUME NEW a \in S, NEW b \in S, a < b
        PROVE  Cardinality(Below(a)) # Cardinality(Below(b))
    <3>1. Below(a) \in SUBSET Below(b) /\ b \in Below(b) /\ b \notin Below(a)
      BY <1>1, <2>1
    <3> QED
      BY <1>3, <3>1, FS_Subset
  <2> HIDE DEF Below
  <2> QED
    BY <1>1, <1>4, <2>1
<1>5. rank \in Injection(S, 1 .. n)
  <2>1. rank \in [S -> 1 .. n]
    BY <1>3
  <2>2. \A i, j \in S : rank[i] = rank[j] => i = j
    BY <1>4
  <2> HIDE DEF rank
  <2> QED
    BY <2>1, <2>2, Fun_IsInj
<1>6. rank \in Surjection(S, 1 .. n)
  <2>1. IsFiniteSet(1 .. n) /\ Cardinality(1 .. n) = n
    BY <1>2, FS_Interval
  <2> HIDE DEF rank
  <2> QED
    BY <1>5, <2>1, FS_Injection DEF n
<1>7. \A k \in 1 .. n : \E i \in S : Cardinality(Below(i)) = k
  <2>1. \A k \in 1 .. n : \E i \in S : rank[i] = k
    BY <1>6 DEF Surjection
  <2> QED
    BY <2>1
<1> DEFINE pick(k) == CHOOSE i \in S : Cardinality(Below(i)) = k
<1>8. /\ \A k \in 1 .. n : pick(k) \in S
      /\ \A i \in S : pick(Cardinality(Below(i))) = i
  <2>1. \A k \in 1 .. n : pick(k) \in S /\ Cardinality(Below(pick(k))) = k
    BY <1>7
  <2> HIDE DEF pick
  <2> QED
    BY <1>3, <1>4, <2>1
<1>9. At(ds, S) = [k \in 1 .. n |-> ds[pick(k)]]
  BY DEF At
<1>10. \A i \in S : ds[i] \in T
  BY <1>1
<1> HIDE DEF n, Below, pick, rank
<1> QED
  BY <1>2, <1>3, <1>8, <1>9, <1>10

\* What listing makes of the dropouts of a field.
ListOf(ds) == SetDropOutLocations(Populate(ds))

LEMMA ConstantsAre ==
  /\ LineLength \in Nat /\ LineCount \in Nat /\ OverCorrectionDots \in Nat
  /\ ExtraSources \in Nat /\ ColourBurstEnd \in Nat /\ ActiveVideoEnd \in Nat
  /\ ColourBurstEnd < ActiveVideoEnd /\ ActiveVideoEnd <= LineLength
  /\ FirstActiveFieldLine \in Nat
  /\ LastActiveFieldLine \in Int /\ LastActiveFieldLine <= LineCount - 1
  /\ 0 \in AvailableSources
BY CorrectorAssumption DEF AvailableSources

\* A dropout keeps its line and its start when its end is cut.
LEMMA ShortenedIs ==
  ASSUME NEW d \in Dropout
  PROVE  /\ Shortened(d) \in Dropout
         /\ Shortened(d).line = d.line /\ Shortened(d).startx = d.startx
         /\ Location(Shortened(d)) = Location(d)
         /\ Location(d) = "colourBurst" =>
              /\ d.startx <= ColourBurstEnd
              /\ Shortened(d).endx <= ColourBurstEnd
              /\ \A x \in Int : x < d.endx /\ x < ColourBurstEnd => x < Shortened(d).endx
         /\ Location(d) = "visibleLine" =>
              /\ d.startx > ColourBurstEnd
              /\ Shortened(d).endx <= ActiveVideoEnd
              /\ \A x \in Int : x < d.endx /\ x < ActiveVideoEnd => x < Shortened(d).endx
         /\ Location(d) \notin {"colourBurst", "visibleLine"} => d.startx > ActiveVideoEnd
<1>1. d.line \in Int /\ d.startx \in Int /\ d.endx \in Int
  BY DEF Dropout
<1>2. Shortened(d) = [line |-> d.line, startx |-> d.startx,
                      endx |-> IF d.startx <= ColourBurstEnd THEN Lesser(d.endx, ColourBurstEnd)
                               ELSE IF d.startx <= ActiveVideoEnd
                                    THEN Lesser(d.endx, ActiveVideoEnd)
                               ELSE d.endx]
  <2>1. d = [line |-> d.line, startx |-> d.startx, endx |-> d.endx]
    BY DEF Dropout
  <2> QED
    BY <2>1 DEF Shortened, Location
<1> QED
  BY <1>1, <1>2, ConstantsAre DEF Dropout, Location, Lesser

LEMMA OverCorrectedIs ==
  ASSUME NEW d \in Dropout
  PROVE  /\ OverCorrected(d) \in Dropout
         /\ OverCorrected(d).line = d.line
         /\ OverCorrected(d).startx >= 0
         /\ \A x \in Nat : x < ActiveVideoEnd /\ Covers(d, d.line, x)
                             => Covers(OverCorrected(d), d.line, x)
<1>1. d.line \in Int /\ d.startx \in Int /\ d.endx \in Int
  BY DEF Dropout
<1>2. OverCorrected(d) =
        [line |-> d.line,
         startx |-> IF d.startx > OverCorrectionDots THEN d.startx - OverCorrectionDots ELSE 0,
         endx |-> IF d.endx < LineLength - OverCorrectionDots THEN d.endx + OverCorrectionDots
                  ELSE LineLength]
  BY DEF OverCorrected
<1> QED
  BY <1>1, <1>2, ConstantsAre DEF Dropout, Covers

LEMMA Populated ==
  ASSUME NEW ds \in Seq(Dropout), overCorrect \in BOOLEAN
  PROVE  /\ Populate(ds) \in Seq(Dropout)
         /\ \A k \in DOMAIN Populate(ds) :
              /\ Populate(ds)[k].line \in 1 .. LineCount
              /\ overCorrect => Populate(ds)[k].startx >= 0
         /\ \A i \in DOMAIN ds, x \in Int :
              /\ ds[i].line \in 1 .. LineCount
              /\ overCorrect => x >= 0
              /\ x < ActiveVideoEnd
              /\ Covers(ds[i], ds[i].line, x)
              => \E k \in DOMAIN Populate(ds) : Covers(Populate(ds)[k], ds[i].line, x)
<1> DEFINE S == {i \in DOMAIN ds : ds[i].line \in 1 .. LineCount}
           inField == At(ds, S)
<1>1. /\ inField \in Seq(Dropout)
      /\ \A k \in DOMAIN inField : \E i \in S : inField[k] = ds[i]
      /\ \A i \in S : \E k \in DOMAIN inField : inField[k] = ds[i]
  <2>1. S \in SUBSET (DOMAIN ds)
    OBVIOUS
  <2> HIDE DEF S
  <2> QED
    BY <2>1, AtMembers
<1>2. Populate(ds) = IF overCorrect THEN [i \in DOMAIN inField |-> OverCorrected(inField[i])]
                     ELSE inField
  BY DEF Populate
<1>3. \A k \in DOMAIN inField : inField[k] \in Dropout /\ inField[k].line \in 1 .. LineCount
  BY <1>1
<1>4. \A i \in DOMAIN ds : ds[i].line \in 1 .. LineCount => i \in S
  OBVIOUS
<1>5. DOMAIN inField = 1 .. Len(inField) /\ Len(inField) \in Nat
  BY <1>1
<1> HIDE DEF S, inField
<1>6. CASE ~overCorrect
  <2>1. Populate(ds) = inField
    BY <1>2, <1>6
  <2> QED
    BY <1>1, <1>3, <1>4, <1>6, <2>1
<1>7. CASE overCorrect
  <2>1. Populate(ds) = [i \in DOMAIN inField |-> OverCorrected(inField[i])]
    BY <1>2, <1>7
  <2>2. \A k \in DOMAIN inField :
          /\ OverCorrected(inField[k]) \in Dropout
          /\ OverCorrected(inField[k]).line = inField[k].line
          /\ OverCorrected(inField[k]).startx >= 0
    BY <1>3, OverCorrectedIs
  <2>3. Populate(ds) \in Seq(Dropout)
    BY <1>5, <2>1, <2>2
  <2>4. ASSUME NEW i \in DOMAIN ds, NEW x \in Int, ds[i].line \in 1 .. LineCount,
               x >= 0, x < ActiveVideoEnd, Covers(ds[i], ds[i].line, x)
        PROVE  \E k \in DOMAIN Populate(ds) : Covers(Populate(ds)[k], ds[i].line, x)
    <3>1. PICK k \in DOMAIN inField : inField[k] = ds[i]
      BY <1>1, <1>4, <2>4
    <3>2. Covers(OverCorrected(ds[i]), ds[i].line, x)
      <4>1. ds[i] \in Dropout /\ x \in Nat
        BY <1>3, <2>4, <3>1
      <4> QED
        BY <2>4, <4>1, OverCorrectedIs
    <3> QED
      BY <2>1, <3>1, <3>2
  <2> QED
    BY <1>3, <1>7, <2>1, <2>2, <2>3, <2>4
<1> QED
  BY <1>6, <1>7

\* The list of a field's dropouts covers each of their samples up to the end of the
\* active video, except the one that ends the burst; and each of its members keeps to
\* the area it starts in.
LEMMA Listing ==
  ASSUME NEW ds \in Seq(Dropout), overCorrect \in BOOLEAN
  PROVE  LET list == ListOf(ds) IN
         /\ list \in Seq(Dropout)
         /\ \A k \in DOMAIN list :
              /\ list[k].line \in 1 .. LineCount
              /\ overCorrect => list[k].startx >= 0
              /\ Location(list[k]) = "colourBurst" => list[k].endx <= ColourBurstEnd
              /\ Location(list[k]) = "visibleLine" =>
                   list[k].startx > ColourBurstEnd /\ list[k].endx <= ActiveVideoEnd
         /\ \A i \in DOMAIN ds, x \in Int :
              /\ ds[i].line \in 1 .. LineCount
              /\ overCorrect => x >= 0
              /\ x < ActiveVideoEnd /\ x # ColourBurstEnd
              /\ Covers(ds[i], ds[i].line, x)
              => \E k \in DOMAIN list : Covers(list[k], ds[i].line, x)
<1> DEFINE ps == Populate(ds)
           S == {i \in DOMAIN ps : Crosses(ps[i])}
           crossing == At(ps, S)
           kept == [i \in DOMAIN ps |-> Shortened(ps[i])]
           rest == [i \in DOMAIN crossing |-> Shortened(AfterBurst(crossing[i]))]
           list == ListOf(ds)
<1>1. list = kept \o rest
  BY DEF ListOf, SetDropOutLocations
<1>2. /\ ps \in Seq(Dropout)
      /\ \A k \in DOMAIN ps : /\ ps[k].line \in 1 .. LineCount
                              /\ overCorrect => ps[k].startx >= 0
      /\ \A i \in DOMAIN ds, x \in Int :
              /\ ds[i].line \in 1 .. LineCount
              /\ overCorrect => x >= 0
              /\ x < ActiveVideoEnd
              /\ Covers(ds[i], ds[i].line, x)
              => \E k \in DOMAIN ps : Covers(ps[k], ds[i].line, x)
  BY Populated
<1> HIDE DEF ps
<1>3. /\ crossing \in Seq(Dropout)
      /\ \A k \in DOMAIN crossing : \E i \in S : crossing[k] = ps[i]
      /\ \A i \in S : \E k \in DOMAIN crossing : crossing[k] = ps[i]
  <2>1. S \in SUBSET (DOMAIN ps)
    OBVIOUS
  <2> HIDE DEF S
  <2> QED
    BY <1>2, <2>1, AtMembers
<1>4. \A i \in S : i \in DOMAIN ps /\ Crosses(ps[i])
  OBVIOUS
<1>5. \A i \in DOMAIN ps : Crosses(ps[i]) => i \in S
  OBVIOUS
<1> HIDE DEF S, crossing
<1>6. \A d \in Dropout :
        /\ AfterBurst(d) \in Dropout /\ AfterBurst(d).line = d.line
        /\ AfterBurst(d).startx = ColourBurstEnd + 1 /\ AfterBurst(d).endx = d.endx
  <2> TAKE d \in Dropout
  <2>1. AfterBurst(d) = [line |-> d.line, startx |-> ColourBurstEnd + 1, endx |-> d.endx]
    <3>1. d = [line |-> d.line, startx |-> d.startx, endx |-> d.endx]
      BY DEF Dropout
    <3> QED
      BY <3>1 DEF AfterBurst
  <2> QED
    BY <2>1, ConstantsAre DEF Dropout
<1> DEFINE Apart(d) == /\ d.line \in 1 .. LineCount
                       /\ overCorrect => d.startx >= 0
                       /\ Location(d) = "colourBurst" => d.endx <= ColourBurstEnd
                       /\ Location(d) = "visibleLine" =>
                            d.startx > ColourBurstEnd /\ d.endx <= ActiveVideoEnd
<1>7. ASSUME NEW k \in DOMAIN ps
      PROVE  ps[k] \in Dropout /\ Shortened(ps[k]) \in Dropout /\ Apart(Shortened(ps[k]))
  BY <1>2, ShortenedIs
<1>8. ASSUME NEW k \in DOMAIN crossing
      PROVE  /\ crossing[k] \in Dropout /\ AfterBurst(crossing[k]) \in Dropout
             /\ Shortened(AfterBurst(crossing[k])) \in Dropout
             /\ Apart(Shortened(AfterBurst(crossing[k])))
  <2>1. PICK i \in S : crossing[k] = ps[i]
    BY <1>3
  <2>2. crossing[k] \in Dropout /\ crossing[k].line \in 1 .. LineCount
    BY <1>2, <1>4, <1>7, <2>1
  <2>3. /\ AfterBurst(crossing[k]) \in Dropout
        /\ AfterBurst(crossing[k]).line \in 1 .. LineCount
        /\ AfterBurst(crossing[k]).startx = ColourBurstEnd + 1
    BY <1>6, <2>2
  <2> QED
    BY <2>2, <2>3, ShortenedIs, ConstantsAre
<1>9. kept \in Seq(Dropout) /\ rest \in Seq(Dropout)
  <2>1. /\ DOMAIN ps = 1 .. Len(ps) /\ Len(ps) \in Nat
        /\ DOMAIN crossing = 1 .. Len(crossing) /\ Len(crossing) \in Nat
    BY <1>2, <1>3
  <2> QED
    BY <1>7, <1>8, <2>1
<1>10. /\ DOMAIN kept = DOMAIN ps /\ DOMAIN rest = DOMAIN crossing
       /\ \A k \in DOMAIN kept : kept[k] = Shortened(ps[k])
       /\ \A k \in DOMAIN rest : rest[k] = Shortened(AfterBurst(crossing[k]))
  OBVIOUS
<1> HIDE DEF kept, rest
<1>11. /\ list \in Seq(Dropout)
       /\ \A k \in DOMAIN list : \/ \E i \in DOMAIN kept : list[k] = kept[i]
                                 \/ \E i \in DOMAIN rest : list[k] = rest[i]
       /\ \A i \in DOMAIN kept : \E k \in DOMAIN list : list[k] = kept[i]
       /\ \A i \in DOMAIN rest : \E k \in DOMAIN list : list[k] = rest[i]
  <2>1. /\ DOMAIN kept = 1 .. Len(kept) /\ Len(kept) \in Nat
        /\ DOMAIN rest = 1 .. Len(rest) /\ Len(rest) \in Nat
    BY <1>9
  <2>2. /\ kept \o rest \in Seq(Dropout) /\ Len(kept \o rest) = Len(kept) + Len(rest)
        /\ DOMAIN (kept \o rest) = 1 .. (Len(kept) + Len(rest))
        /\ \A k \in 1 .. (Len(kept) + Len(rest)) :
             (kept \o rest)[k] = IF k <= Len(kept) THEN kept[k] ELSE rest[k - Len(kept)]
    BY <1>9, <2>1
  <2> HIDE DEF list
  <2>3. \A k \in DOMAIN list : \/ \E i \in DOMAIN kept : list[k] = kept[i]
                               \/ \E i \in DOMAIN rest : list[k] = rest[i]
    <3> TAKE k \in DOMAIN list
    <3>1. CASE k <= Len(kept)
      BY <1>1, <2>1, <2>2, <3>1
    <3>2. CASE k > Len(kept)
      <4>1. k - Len(kept) \in DOMAIN rest /\ list[k] = rest[k - Len(kept)]
        BY <1>1, <2>1, <2>2, <3>2
      <4> QED
        BY <4>1
    <3> QED
      BY <1>1, <2>1, <2>2, <3>1, <3>2
  <2>4. \A i \in DOMAIN kept : i \in DOMAIN list /\ list[i] = kept[i]
    BY <1>1, <2>1, <2>2
  <2>5. \A i \in DOMAIN rest : i + Len(kept) \in DOMAIN list /\ list[i + Len(kept)] = rest[i]
    BY <1>1, <2>1, <2>2
  <2> QED
    BY <1>1, <2>2, <2>3, <2>4, <2>5
<1>12. ASSUME NEW k \in DOMAIN list
       PROVE  Apart(list[k])
  <2> HIDE DEF Apart, list
  <2> QED
    BY <1>7, <1>8, <1>10, <1>11
<1>13. ASSUME NEW i \in DOMAIN ds, NEW x \in Int,
              ds[i].line \in 1 .. LineCount, overCorrect => x >= 0,
              x < ActiveVideoEnd, x # ColourBurstEnd, Covers(ds[i], ds[i].line, x)
       PROVE  \E k \in DOMAIN list : Covers(list[k], ds[i].line, x)
  <2>1. PICK p \in DOMAIN ps : Covers(ps[p], ds[i].line, x)
    BY <1>2, <1>13
  <2> DEFINE d == ps[p]
  <2>2. d \in Dropout /\ d.startx \in Int /\ d.endx \in Int
        /\ d.line = ds[i].line /\ d.startx <= x /\ x < d.endx
    <3>1. d \in Dropout
      BY <1>7
    <3> QED
      BY <2>1, <3>1 DEF Covers, Dropout
  <2>3. Shortened(d).line = d.line /\ Shortened(d).startx = d.startx /\ Shortened(d) \in Dropout
    BY <2>2, ShortenedIs
  <2>4. \E k \in DOMAIN list : list[k] = Shortened(d)
    BY <1>10, <1>11
  <2> HIDE DEF list
  <2>5. CASE x < ColourBurstEnd
    <3>1. Location(d) = "colourBurst"
      BY <2>2, <2>5, ConstantsAre DEF Location
    <3>2. x < Shortened(d).endx
      BY <2>2, <2>5, <3>1, ShortenedIs
    <3>3. Covers(Shortened(d), ds[i].line, x)
      BY <2>2, <2>3, <3>2 DEF Covers, Dropout
    <3> QED
      BY <2>4, <3>3
  <2>6. CASE x > ColourBurstEnd /\ d.startx > ColourBurstEnd
    <3>1. Location(d) = "visibleLine"
      BY <1>13, <2>2, <2>6, ConstantsAre DEF Location
    <3>2. x < Shortened(d).endx
      BY <1>13, <2>2, <3>1, ShortenedIs
    <3>3. Covers(Shortened(d), ds[i].line, x)
      BY <2>2, <2>3, <3>2 DEF Covers, Dropout
    <3> QED
      BY <2>4, <3>3
  <2>7. CASE x > ColourBurstEnd /\ d.startx <= ColourBurstEnd
    <3>1. Crosses(d)
      BY <2>2, <2>7, ConstantsAre DEF Crosses
    <3>2. PICK q \in DOMAIN crossing : crossing[q] = d
      BY <1>3, <1>5, <3>1
    <3> DEFINE e == AfterBurst(d)
    <3>3. /\ e \in Dropout /\ e.line = d.line
          /\ e.startx = ColourBurstEnd + 1 /\ e.endx = d.endx
      BY <1>6, <2>2
    <3> HIDE DEF e
    <3>4. Location(e) = "visibleLine"
      BY <3>3, ConstantsAre DEF Location
    <3>5. /\ x < Shortened(e).endx /\ Shortened(e).line = d.line
          /\ Shortened(e).startx = ColourBurstEnd + 1 /\ Shortened(e) \in Dropout
      BY <1>13, <2>2, <3>3, <3>4, ShortenedIs
    <3>6. Covers(Shortened(e), ds[i].line, x)
      <4>1. Shortened(e).endx \in Int
        BY <3>5 DEF Dropout
      <4>2. x \in (ColourBurstEnd + 1) .. (Shortened(e).endx - 1)
        BY <2>7, <3>5, <4>1, ConstantsAre
      <4> QED
        BY <2>2, <3>5, <4>2 DEF Covers
    <3>7. \E k \in DOMAIN list : list[k] = Shortened(e)
      BY <1>10, <1>11, <3>2 DEF e
    <3> QED
      BY <3>6, <3>7
  <2> QED
    BY <1>13, <2>2, <2>5, <2>6, <2>7, ConstantsAre
<1> QED
  BY <1>11, <1>12, <1>13

-----------------------------------------------------------------------------
(* The search for a replacement. *)

Chosen == /\ system \in {"PAL", "PAL_M", "NTSC", "SECAM"}
          /\ overCorrect \in BOOLEAN /\ intraField \in BOOLEAN

Steps == {-4, -2, -1, 1, 2, 4}

LEMMA SearchedAre ==
  /\ SearchedLines \subseteq 1 .. LineCount
  /\ \A l \in Int : l \in SearchedLines <=> FirstActiveFieldLine + 1 <= l /\ l <= LastActiveFieldLine
BY ConstantsAre DEF SearchedLines

\* A search starts on a searched line, keeps its direction and its step, and finds a clean
\* line no further from its start than any other clean one on its way.
LEMMA PotentialLines ==
  ASSUME NEW d, NEW s, NEW f, NEW start \in Int, NEW step \in Steps
  PROVE  LET lines == PotentialReplacementLine(d, s, f, start, step)
             OnTheWay(l) == /\ l \in SearchedLines
                            /\ (l - start) * step >= 0 /\ (l - start) % Abs(step) = 0
         IN  /\ \A l \in lines : start \in SearchedLines /\ OnTheWay(l) /\ Clean(d, s, f, l)
             /\ \A m : start \in SearchedLines /\ OnTheWay(m) /\ Clean(d, s, f, m)
                         => \E l \in lines : Abs(l - start) <= Abs(m - start)
<1> DEFINE visited == {l \in SearchedLines : (l - start) * step >= 0
                                             /\ (l - start) % Abs(step) = 0}
           clean == {l \in visited : Clean(d, s, f, l)}
           far == {n \in Nat : \E l \in clean : n = Abs(l - start)}
           nearest == {l \in clean : \A m \in clean : Abs(l - start) <= Abs(m - start)}
<1>1. PotentialReplacementLine(d, s, f, start, step)
        = IF start \in SearchedLines THEN nearest ELSE {}
  BY DEF PotentialReplacementLine
<1>2. ASSUME NEW m \in clean
      PROVE  \E l \in nearest : Abs(l - start) <= Abs(m - start)
  <2>1. \A l \in clean : l \in Int /\ Abs(l - start) \in Nat
    BY SearchedAre, ConstantsAre DEF Abs, SearchedLines
  <2> HIDE DEF clean
  <2>2. Abs(m - start) \in far
    BY <2>1
  <2>3. far \in SUBSET Nat /\ far # {}
    BY <2>2
  <2>4. Least(far) \in far /\ \A n \in far : Least(far) <= n
    BY <2>3, LeastIsLeast
  <2>5. PICK l \in clean : Least(far) = Abs(l - start)
    BY <2>4
  <2>6. \A k \in clean : Abs(l - start) <= Abs(k - start)
    BY <2>1, <2>4, <2>5
  <2> QED
    BY <2>5, <2>6
<1> QED
  BY <1>1, <1>2

LEMMA StepsAre ==
  ASSUME Chosen, NEW f \in Fields, NEW matchPhase \in BOOLEAN
  PROVE  /\ StepAmount(matchPhase) \in {1, 2, 4}
         /\ StepAmount(matchPhase) \in Steps /\ -StepAmount(matchPhase) \in Steps
         /\ OtherFieldOffset(f, matchPhase) \in {-1, -3}
         /\ OtherFieldOffset(f, matchPhase) \in Int
         /\ ~matchPhase => StepAmount(matchPhase) = 1 /\ OtherFieldOffset(f, matchPhase) = -1
         /\ matchPhase =>
              /\ system \in {"PAL", "PAL_M"} =>
                   /\ StepAmount(matchPhase) = 4
                   /\ OtherFieldOffset(f, matchPhase) = IF f = "first" THEN -3 ELSE -1
              /\ system \notin {"PAL", "PAL_M"} =>
                   StepAmount(matchPhase) = 2 /\ OtherFieldOffset(f, matchPhase) = -1
BY DEF Chosen, StepAmount, OtherFieldOffset, Steps

LEMMA FieldsAre ==
  ASSUME NEW f \in Fields
  PROVE  /\ OtherField(f) \in Fields /\ OtherField(f) # f
         /\ \A g \in Fields : g = f \/ g = OtherField(f)
         /\ f \in {"first", "second"}
BY DEF Fields, OtherField

\* A candidate is a clean searched line, a whole number of steps from the dropout, counted in
\* the other field from the line the offset leads to.
LEMMA CandidatesAre ==
  ASSUME Chosen, NEW f \in Fields, NEW d \in Dropout, NEW matchPhase \in BOOLEAN,
         NEW isColourBurst \in BOOLEAN,
         NEW c \in Candidates(f, d, matchPhase, isColourBurst)
  PROVE  /\ c \in Places /\ c # NoReplacement
         /\ c.line \in SearchedLines /\ c.line \in Int
         /\ Clean(d, c.source, c.field, c.line)
         /\ isColourBurst \/ intraField => c.field = f
         /\ (c.line - d.line - (IF c.field = f THEN 0 ELSE OtherFieldOffset(f, matchPhase)))
              % StepAmount(matchPhase) = 0
<1> DEFINE step == StepAmount(matchPhase)
           offset == OtherFieldOffset(f, matchPhase)
<1>0. PICK s \in AvailableSources, q \in Searches(f, matchPhase, isColourBurst) :
        \E l \in PotentialReplacementLine(d, s, q[1], d.line + q[2], q[3]) :
          c = [source |-> s, field |-> q[1], line |-> l]
  BY DEF Candidates
<1>1. PICK l \in PotentialReplacementLine(d, s, q[1], d.line + q[2], q[3]) :
        c = [source |-> s, field |-> q[1], line |-> l]
  BY <1>0
<1>2. /\ \/ q = <<f, 0, -step>> \/ q = <<f, step, step>>
         \/ q = <<OtherField(f), offset, -step>> \/ q = <<OtherField(f), offset + step, step>>
      /\ isColourBurst \/ intraField => q[1] = f
  BY FieldsAre DEF Searches
<1>3. /\ step \in {1, 2, 4} /\ step \in Steps /\ -step \in Steps /\ offset \in {-1, -3}
  BY StepsAre
<1>4. d.line \in Int
  BY DEF Dropout
<1> HIDE DEF step, offset
<1>5. /\ q[1] \in Fields /\ q[2] \in Int /\ q[3] \in Steps /\ Abs(q[3]) = step
      /\ (q[2] - (IF q[1] = f THEN 0 ELSE offset)) \in {0, step}
  BY <1>2, <1>3, FieldsAre DEF Steps, Abs
<1>6. d.line + q[2] \in Int
  BY <1>4, <1>5
<1>7. /\ l \in SearchedLines /\ Clean(d, s, q[1], l)
      /\ (l - (d.line + q[2])) % step = 0
  BY <1>5, <1>6, PotentialLines
<1>8. l \in 1 .. LineCount /\ l \in Int
  BY <1>7, SearchedAre, ConstantsAre
<1>9. (l - d.line - (IF q[1] = f THEN 0 ELSE offset)) % step = 0
  <2> DEFINE a == IF q[1] = f THEN 0 ELSE offset
  <2>1. a \in Int /\ (q[2] = a \/ q[2] = a + step)
    BY <1>3, <1>5
  <2> HIDE DEF a
  <2>2. a \in Int
    BY <1>3 DEF a
  <2>3. (l - d.line - a) % step = 0
    BY <1>3, <1>4, <1>7, <1>8, <2>1, <2>2
  <2> QED
    BY <2>3 DEF a
<1> QED
  BY <1>1, <1>2, <1>5, <1>7, <1>8, <1>9 DEF Places, NoReplacement, step, offset

\* Within a few steps of a whole number of cycles.
LEMMA NearAWhole ==
  ASSUME NEW n \in Int, NEW t \in Nat, NEW r \in Int, NEW q \in Int,
         n = r + 10000 * q, -t <= r, r <= t
  PROVE  n % 10000 <= t \/ n % 10000 >= 10000 - t
<1>1. n % 10000 = r % 10000
  OBVIOUS
<1>2. CASE r >= 0
  <2>1. r % 10000 <= r
    BY <1>2
  <2> QED
    BY <1>1, <2>1
<1>3. CASE r < 0
  <2>1. r % 10000 >= r + 10000
    BY <1>3
  <2> QED
    BY <1>1, <2>1
<1> QED
  BY <1>2, <1>3

\* How many lines of signal lie between a line of a field and a place.
LEMMA SignalBetween ==
  ASSUME NEW f \in Fields, NEW l \in Int, NEW c \in Places
  PROVE  LET n == SignalLine(f, l) - SignalLine(c.field, c.line)
             m == l - c.line
         IN  /\ m \in Int /\ n \in Int
             /\ FieldLines = IF system \in {"PAL", "SECAM"} THEN 313 ELSE 263
             /\ c.field = f => n = m
             /\ c.field # f /\ f = "first" => n = m - FieldLines
             /\ c.field # f /\ f # "first" => n = m + FieldLines
<1>1. /\ c.field \in Fields /\ c.line \in Int
      /\ f \in {"first", "second"} /\ c.field \in {"first", "second"}
  BY ConstantsAre DEF Places, Fields
<1>2. FieldLines \in {263, 313} /\ FieldLines = IF system \in {"PAL", "SECAM"} THEN 313 ELSE 263
  BY DEF FieldLines
<1> QED
  BY <1>1, <1>2 DEF SignalLine

\* A line of the dropout's field a whole number of steps away, or one of the other field a
\* whole number of steps from the offset, has the dropout's phase.
LEMMA PhaseOfSteps ==
  ASSUME Chosen, NEW f \in Fields, NEW l \in Int, NEW c \in Places, NEW away \in Int,
         c.field = f => away = 0,
         c.field # f => away = IF system \in {"PAL", "PAL_M"} /\ f = "first" THEN -3 ELSE -1,
         system \in {"PAL", "PAL_M"} => (c.line - l - away) % 4 = 0,
         system \notin {"PAL", "PAL_M"} => (c.line - l - away) % 2 = 0
  PROVE  SamePhase(f, l, c)
<1> DEFINE n == SignalLine(f, l) - SignalLine(c.field, c.line)
           m == l - c.line
<1>1. /\ m \in Int /\ n \in Int
      /\ FieldLines = IF system \in {"PAL", "SECAM"} THEN 313 ELSE 263
      /\ c.field = f => n = m
      /\ c.field # f /\ f = "first" => n = m - FieldLines
      /\ c.field # f /\ f # "first" => n = m + FieldLines
  BY SignalBetween
<1>2. c.line - l - away = -m - away
  BY ConstantsAre DEF Places
<1>3. SamePhase(f, l, c)
        <=> /\ LET drift == IF system = "PAL" THEN 16 * (Abs(m) + 1) ELSE 0
               IN  Turn(n) <= drift \/ Turn(n) >= 10000 - drift
            /\ system # "NTSC" => n % 2 = 0
  BY DEF SamePhase
<1> HIDE DEF n, m
<1>4. CASE system = "PAL"
  <2> DEFINE drift == 16 * (Abs(m) + 1)
  <2>1. (-m - away) % 4 = 0 /\ FieldLines = 313
    BY <1>1, <1>2, <1>4
  <2>2. PICK k \in Int : m = -away - 4 * k
    <3> DEFINE k == (-m - away) \div 4
    <3>1. k \in Int /\ m = -away - 4 * k
      BY <1>1, <2>1
    <3> HIDE DEF k
    <3> QED
      BY <3>1
  <2>3. drift \in Nat
    BY <1>1 DEF Abs
  <2>4. Turn(n) = (7516 * n) % 10000
    BY <1>4 DEF Turn, TurnOfALine
  <2> DEFINE turned == 7516 * n
  <2>5. /\ turned % 10000 <= drift \/ turned % 10000 >= 10000 - drift
        /\ n % 2 = 0
    <3>1. CASE c.field = f
      <4>1. n = -4 * k /\ m = -4 * k
        BY <1>1, <2>2, <3>1
      <4>2. /\ 7516 * n = (-64 * k) + 10000 * (-3 * k) /\ n % 2 = 0
            /\ -drift <= -64 * k /\ -64 * k <= drift
        BY <4>1 DEF Abs
      <4> DEFINE r == -64 * k
                 q == -3 * k
      <4>3. /\ r \in Int /\ q \in Int
            /\ 7516 * n = r + 10000 * q /\ -drift <= r /\ r <= drift /\ n % 2 = 0
        BY <4>2
      <4>4. turned = r + 10000 * q /\ turned \in Int
        BY <4>3, <1>1
      <4> HIDE DEF drift, r, q, turned
      <4> QED
        BY <2>3, <4>3, <4>4, NearAWhole
    <3>2. CASE c.field # f /\ f = "first"
      <4>1. n = -310 - 4 * k /\ m = 3 - 4 * k
        BY <1>1, <1>4, <2>1, <2>2, <3>2
      <4>2. /\ 7516 * n = (40 - 64 * k) + 10000 * (-233 - 3 * k) /\ n % 2 = 0
            /\ -drift <= 40 - 64 * k /\ 40 - 64 * k <= drift
        BY <4>1 DEF Abs
      <4> DEFINE r == 40 - 64 * k
                 q == -233 - 3 * k
      <4>3. /\ r \in Int /\ q \in Int
            /\ 7516 * n = r + 10000 * q /\ -drift <= r /\ r <= drift /\ n % 2 = 0
        BY <4>2
      <4>4. turned = r + 10000 * q /\ turned \in Int
        BY <4>3, <1>1
      <4> HIDE DEF drift, r, q, turned
      <4> QED
        BY <2>3, <4>3, <4>4, NearAWhole
    <3>3. CASE c.field # f /\ f # "first"
      <4>1. n = 314 - 4 * k /\ m = 1 - 4 * k
        BY <1>1, <1>4, <2>1, <2>2, <3>3
      <4>2. /\ 7516 * n = (24 - 64 * k) + 10000 * (236 - 3 * k) /\ n % 2 = 0
            /\ -drift <= 24 - 64 * k /\ 24 - 64 * k <= drift
        BY <4>1 DEF Abs
      <4> DEFINE r == 24 - 64 * k
                 q == 236 - 3 * k
      <4>3. /\ r \in Int /\ q \in Int
            /\ 7516 * n = r + 10000 * q /\ -drift <= r /\ r <= drift /\ n % 2 = 0
        BY <4>2
      <4>4. turned = r + 10000 * q /\ turned \in Int
        BY <4>3, <1>1
      <4> HIDE DEF drift, r, q, turned
      <4> QED
        BY <2>3, <4>3, <4>4, NearAWhole
    <3> QED
      BY <3>1, <3>2, <3>3
  <2>6. Turn(n) <= drift \/ Turn(n) >= 10000 - drift
    BY <2>4, <2>5
  <2> QED
    BY <1>3, <1>4, <2>5, <2>6 DEF drift
<1>5. CASE system = "PAL_M"
  <2>1. (-m - away) % 4 = 0 /\ FieldLines = 263
    BY <1>1, <1>2, <1>5
  <2>2. n % 4 = 0
    BY <1>1, <1>5, <2>1
  <2>3. (2500 * n) % 10000 = 0 /\ n % 2 = 0
    BY <1>1, <2>2
  <2>4. Turn(n) = (2500 * n) % 10000
    BY <1>5 DEF Turn, TurnOfALine
  <2> QED
    BY <1>3, <1>5, <2>3, <2>4
<1>6. CASE system = "NTSC"
  <2>1. (-m - away) % 2 = 0 /\ FieldLines = 263
    BY <1>1, <1>2, <1>6
  <2>2. n % 2 = 0
    BY <1>1, <1>6, <2>1
  <2>3. (5000 * n) % 10000 = 0
    BY <1>1, <2>2
  <2>4. Turn(n) = (5000 * n) % 10000
    BY <1>6 DEF Turn, TurnOfALine
  <2> QED
    BY <1>3, <1>6, <2>3, <2>4
<1>7. CASE system = "SECAM"
  <2>1. (-m - away) % 2 = 0 /\ FieldLines = 313
    BY <1>1, <1>2, <1>7
  <2>2. n % 2 = 0
    BY <1>1, <1>7, <2>1
  <2>3. Turn(n) = (0 * n) % 10000
    BY <1>7 DEF Turn, TurnOfALine
  <2>4. (0 * n) % 10000 = 0
    BY <1>1
  <2> QED
    BY <1>3, <1>7, <2>2, <2>3, <2>4
<1> QED
  BY <1>4, <1>5, <1>6, <1>7 DEF Chosen

LEMMA CandidatesInPhase ==
  ASSUME Chosen, NEW f \in Fields, NEW d \in Dropout,
         NEW matchPhase \in BOOLEAN, matchPhase, NEW isColourBurst \in BOOLEAN,
         NEW c \in Candidates(f, d, matchPhase, isColourBurst)
  PROVE  SamePhase(f, d.line, c)
<1> DEFINE away == IF c.field = f THEN 0 ELSE OtherFieldOffset(f, matchPhase)
           step == StepAmount(matchPhase)
<1>1. /\ c \in Places /\ d.line \in Int
      /\ (c.line - d.line - away) % step = 0
  BY CandidatesAre DEF Dropout
<1>2. /\ away \in Int
      /\ c.field = f => away = 0
      /\ c.field # f => away = IF system \in {"PAL", "PAL_M"} /\ f = "first" THEN -3 ELSE -1
      /\ system \in {"PAL", "PAL_M"} => step = 4
      /\ system \notin {"PAL", "PAL_M"} => step = 2
  <2>1. /\ system \in {"PAL", "PAL_M"} =>
             /\ step = 4
             /\ OtherFieldOffset(f, matchPhase) = IF f = "first" THEN -3 ELSE -1
        /\ system \notin {"PAL", "PAL_M"} =>
             step = 2 /\ OtherFieldOffset(f, matchPhase) = -1
    BY StepsAre
  <2>2. /\ c.field = f => away = 0
        /\ c.field # f => away = OtherFieldOffset(f, matchPhase)
    OBVIOUS
  <2>3. away \in Int
    <3>1. OtherFieldOffset(f, matchPhase) \in Int
      BY StepsAre
    <3>2. 0 \in Int
      OBVIOUS
    <3> QED
      BY <3>1, <3>2, Zenon
  <2>4. c.field # f => away = IF system \in {"PAL", "PAL_M"} /\ f = "first" THEN -3 ELSE -1
    <3> HIDE DEF away, step
    <3>1. CASE system \in {"PAL", "PAL_M"}
      BY <2>1, <2>2, <3>1
    <3>2. CASE system \notin {"PAL", "PAL_M"}
      BY <2>1, <2>2, <3>2
    <3> QED
      BY <3>1, <3>2
  <2> QED
    BY <2>1, <2>2, <2>3, <2>4
<1> HIDE DEF away, step
<1>3. /\ system \in {"PAL", "PAL_M"} => (c.line - d.line - away) % 4 = 0
      /\ system \notin {"PAL", "PAL_M"} => (c.line - d.line - away) % 2 = 0
  BY <1>1, <1>2
<1> QED
  BY <1>1, <1>2, <1>3, PhaseOfSteps

LEMMA DistancesAre ==
  ASSUME NEW f \in Fields, NEW d \in Dropout, NEW c \in Places
  PROVE  /\ Distance(f, d, c) \in Nat
         /\ c.field = f =>
              Distance(f, d, c) = 2 * Abs(d.line - c.line)
         /\ c.field # f =>
              Distance(f, d, c) = IF f = "first" THEN Abs(2 * (d.line - c.line) - 1)
                                  ELSE Abs(2 * (d.line - c.line) + 1)
<1>1. d.line \in Int /\ c.line \in Int /\ c.field \in Fields
  BY ConstantsAre DEF Dropout, Places
<1>2. f \in {"first", "second"} /\ c.field \in {"first", "second"}
  BY <1>1 DEF Fields
<1> QED
  BY <1>1, <1>2 DEF Distance, FrameLine, Abs

\* What one of the searches finds in one of the captures is a candidate.
LEMMA FoundIsCandidate ==
  ASSUME NEW f, NEW d, NEW matchPhase, NEW isColourBurst, NEW s \in AvailableSources,
         NEW q \in Searches(f, matchPhase, isColourBurst),
         NEW l \in PotentialReplacementLine(d, s, q[1], d.line + q[2], q[3])
  PROVE  [source |-> s, field |-> q[1], line |-> l] \in Candidates(f, d, matchPhase, isColourBurst)
<1> DEFINE Lines(t, p) == {[source |-> t, field |-> p[1], line |-> m] :
                             m \in PotentialReplacementLine(d, t, p[1], d.line + p[2], p[3])}
<1>1. [source |-> s, field |-> q[1], line |-> l] \in Lines(s, q)
  OBVIOUS
<1>2. Candidates(f, d, matchPhase, isColourBurst)
        = UNION {Lines(t, p) : t \in AvailableSources, p \in Searches(f, matchPhase, isColourBurst)}
  BY DEF Candidates
<1> HIDE DEF Lines
<1> QED
  BY <1>1, <1>2

\* Every line the dropout could be repaired from is passed by one of the four searches, so
\* one of the candidates is as near.
LEMMA NearestIsFound ==
  ASSUME Chosen, NEW f \in Fields, NEW d \in Dropout, d.line \in SearchedLines,
         NEW u \in Usable(f, d), NEW matchPhase \in BOOLEAN, ~matchPhase,
         NEW isColourBurst \in BOOLEAN, ~isColourBurst
  PROVE  \E c \in Candidates(f, d, matchPhase, isColourBurst) : Distance(f, d, c) <= Distance(f, d, u)
<1>1. /\ u \in Places /\ u.line \in SearchedLines
      /\ u.field = f \/ ~intraField
      /\ Clean(d, u.source, u.field, u.line)
      /\ u.field \in Fields /\ u.source \in AvailableSources
      /\ u.line \in Int /\ d.line \in Int
  BY ConstantsAre DEF Usable, Places, Dropout
<1>2. /\ <<f, 0, -1>> \in Searches(f, matchPhase, isColourBurst)
      /\ <<f, 1, 1>> \in Searches(f, matchPhase, isColourBurst)
      /\ ~intraField => /\ <<OtherField(f), -1, -1>> \in Searches(f, matchPhase, isColourBurst)
                        /\ <<OtherField(f), 0, 1>> \in Searches(f, matchPhase, isColourBurst)
  <2>1. StepAmount(matchPhase) = 1 /\ OtherFieldOffset(f, matchPhase) = -1
    BY StepsAre
  <2>2. -1 + 1 = 0
    OBVIOUS
  <2> QED
    BY <2>1, <2>2 DEF Searches
<1>3. PICK from \in {-1, 0, 1}, way \in {-1, 1} :
        /\ <<u.field, from, way>> \in Searches(f, matchPhase, isColourBurst)
        /\ d.line + from \in SearchedLines
        /\ way = 1 => u.line >= d.line + from
        /\ way = -1 => u.line <= d.line + from
        /\ u.field = f /\ way = 1 => from = 1
        /\ u.field = f /\ way = -1 => from = 0
        /\ u.field # f /\ way = 1 => from = 0
        /\ u.field # f /\ way = -1 => from = -1
  <2>0. /\ FirstActiveFieldLine + 1 <= d.line /\ d.line <= LastActiveFieldLine
        /\ FirstActiveFieldLine + 1 <= u.line /\ u.line <= LastActiveFieldLine
        /\ u.field # f => u.field = OtherField(f) /\ ~intraField
    BY <1>1, SearchedAre, FieldsAre
  <2>1. CASE u.field = f /\ u.line <= d.line
    <3>1. <<u.field, 0, -1>> \in Searches(f, matchPhase, isColourBurst) /\ d.line + 0 \in SearchedLines
      BY <1>1, <1>2, <2>1
    <3> QED
      BY <1>1, <2>1, <3>1
  <2>2. CASE u.field = f /\ u.line > d.line
    <3>1. <<u.field, 1, 1>> \in Searches(f, matchPhase, isColourBurst) /\ d.line + 1 \in SearchedLines
      BY <1>1, <1>2, <2>0, <2>2, SearchedAre, ConstantsAre
    <3> QED
      BY <1>1, <2>2, <3>1
  <2>3. CASE u.field # f /\ u.line < d.line
    <3>1. <<u.field, -1, -1>> \in Searches(f, matchPhase, isColourBurst) /\ d.line + (-1) \in SearchedLines
      BY <1>1, <1>2, <2>0, <2>3, SearchedAre, ConstantsAre
    <3> QED
      BY <1>1, <2>3, <3>1
  <2>4. CASE u.field # f /\ u.line >= d.line
    <3>1. <<u.field, 0, 1>> \in Searches(f, matchPhase, isColourBurst) /\ d.line + 0 \in SearchedLines
      BY <1>1, <1>2, <2>0, <2>4
    <3> QED
      BY <1>1, <2>4, <3>1
  <2> QED
    BY <1>1, <2>1, <2>2, <2>3, <2>4
<1> DEFINE start == d.line + from
<1>4. start \in Int /\ way \in Steps /\ Abs(way) = 1
  BY <1>1 DEF Steps, Abs
<1>5. (u.line - start) * way >= 0 /\ (u.line - start) % Abs(way) = 0
  <2>1. CASE way = 1
    BY <1>1, <1>3, <1>4, <2>1
  <2>2. CASE way = -1
    BY <1>1, <1>3, <1>4, <2>2
  <2> QED
    BY <2>1, <2>2
<1>6. PICK l \in PotentialReplacementLine(d, u.source, u.field, start, way) :
        Abs(l - start) <= Abs(u.line - start)
  <2>1. start \in SearchedLines
    BY <1>3
  <2> HIDE DEF start
  <2> QED
    BY <1>1, <1>4, <1>5, <2>1, PotentialLines
<1>7. /\ l \in SearchedLines /\ l \in Int
      /\ (l - start) * way >= 0
  <2>1. l \in SearchedLines /\ (l - start) * way >= 0
    <3> HIDE DEF start
    <3> QED
      BY <1>4, PotentialLines
  <2> QED
    BY <2>1, SearchedAre, ConstantsAre
<1> DEFINE c == [source |-> u.source, field |-> u.field, line |-> l]
<1>8. c \in Candidates(f, d, matchPhase, isColourBurst)
  <2> DEFINE q == <<u.field, from, way>>
  <2>1. l \in PotentialReplacementLine(d, u.source, q[1], d.line + q[2], q[3])
    OBVIOUS
  <2>2. q \in Searches(f, matchPhase, isColourBurst)
    BY <1>3
  <2>3. c = [source |-> u.source, field |-> q[1], line |-> l]
    OBVIOUS
  <2> HIDE DEF q, c
  <2>4. [source |-> u.source, field |-> q[1], line |-> l]
          \in Candidates(f, d, matchPhase, isColourBurst)
    BY <1>1, <2>1, <2>2, FoundIsCandidate
  <2> QED
    BY <2>3, <2>4
<1>9. c \in Places /\ c.field = u.field /\ c.line = l
  BY <1>1, <1>7, SearchedAre, ConstantsAre DEF Places
<1> HIDE DEF c
<1>10. /\ way = 1 => l >= start /\ l <= u.line
       /\ way = -1 => l <= start /\ l >= u.line
  <2>1. CASE way = 1
    BY <1>1, <1>3, <1>4, <1>6, <1>7, <2>1 DEF Abs
  <2>2. CASE way = -1
    BY <1>1, <1>3, <1>4, <1>6, <1>7, <2>2 DEF Abs
  <2> QED
    BY <2>1, <2>2
<1>11. Distance(f, d, c) <= Distance(f, d, u)
  <2>1. CASE u.field = f
    BY <1>1, <1>3, <1>7, <1>9, <1>10, <2>1, DistancesAre DEF Abs
  <2>2. CASE u.field # f
    <3>1. d.line - u.line \in Int /\ d.line - l \in Int
      BY <1>1, <1>7
    <3>2. CASE way = 1
      <4>1. d.line <= l /\ l <= u.line
        BY <1>1, <1>3, <1>7, <1>10, <2>2, <3>2
      <4>2. /\ Distance(f, d, c) = IF f = "first" THEN Abs(2 * (d.line - l) - 1)
                                 ELSE Abs(2 * (d.line - l) + 1)
            /\ Distance(f, d, u) = IF f = "first" THEN Abs(2 * (d.line - u.line) - 1)
                                 ELSE Abs(2 * (d.line - u.line) + 1)
        BY <1>1, <1>9, <2>2, DistancesAre
      <4> QED
        BY <1>1, <1>7, <4>1, <4>2 DEF Abs
    <3>3. CASE way = -1
      <4>1. l <= d.line - 1 /\ u.line <= l
        BY <1>1, <1>3, <1>7, <1>10, <2>2, <3>3
      <4> QED
        BY <1>1, <1>7, <1>9, <2>2, <4>1, DistancesAre, FieldsAre DEF Abs
    <3> QED
      BY <1>3, <3>2, <3>3
  <2> QED
    BY <2>1, <2>2
<1> QED
  BY <1>8, <1>11

-----------------------------------------------------------------------------
(* What the state of a correction is.  Only its dropouts' places in the lists, and   *)
(* the options it was called with, decide what a search finds: none of them changes  *)
(* once the lists are made.                                                         *)

Held == UNCHANGED <<inputVars, listed>>

EmptyLists == [f \in Fields |-> [s \in AvailableSources |-> <<>>]]
Lists == [f \in Fields |-> [s \in AvailableSources |-> ListOf(found[f][s])]]

InputsAre == Chosen /\ found \in [Fields -> [AvailableSources -> Seq(Dropout)]]

ListsAre ==
  \/ listed = EmptyLists /\ written = <<>> /\ phase \in {"listing", "done"} /\ index = 1
  \/ listed = Lists /\ phase \in {"done"} \cup Fields

Undamaged(c, x) ==
  \A i \in DOMAIN listed[c.field][c.source] :
    ~Covers(listed[c.field][c.source][i], c.line, x)

InPicture(d) == Location(d) = "visibleLine" /\ d.line \in SearchedLines

NoNearer(f, d, c) ==
  InPicture(d) => \A u \in Usable(f, d) : Distance(f, d, c) <= Distance(f, d, u)

ChromaLines(f, d) == Candidates(f, d, TRUE, FALSE)

\* What a dropout may have its samples on line l overwritten with.
Repaired(f, d, l, w) ==
  /\ Location(d) \in {"colourBurst", "visibleLine"}
  /\ NoNearer(f, d, w.luma)
  /\ \/ SamePhase(f, l, w.chroma)
     \/ Location(d) = "visibleLine" /\ ChromaLines(f, d) = {}

WrittenAre ==
  /\ DOMAIN written \subseteq Fields \X (1 .. LineCount) \X Int
  /\ \A t \in DOMAIN written :
       /\ written[t] \in [luma : Places, chroma : Places]
       /\ Undamaged(written[t].luma, t[3]) /\ Undamaged(written[t].chroma, t[3])
       /\ \E i \in DOMAIN listed[t[1]][0] :
            /\ Covers(listed[t[1]][0][i], t[2], t[3])
            /\ Repaired(t[1], listed[t[1]][0][i], t[2], written[t])

Passed(f, i) ==
  \/ phase = "done"
  \/ phase = "second" /\ f = "first"
  \/ phase = f /\ i < index

AllWritten(f, d) == \A x \in d.startx .. d.endx - 1 : <<f, d.line, x>> \in DOMAIN written

PassedAre ==
  \A f \in Fields : \A i \in DOMAIN listed[f][0] :
    Passed(f, i) /\ InPicture(listed[f][0][i]) /\ Usable(f, listed[f][0][i]) # {}
      => AllWritten(f, listed[f][0][i])

CountsAre ==
  /\ index \in Nat \ {0}
  /\ corrected \in Nat /\ failed \in Nat /\ totalDistance \in Nat

CorrectorInv == InputsAre /\ ListsAre /\ WrittenAre /\ PassedAre /\ CountsAre

LEMMA InputsHeld ==
  ASSUME Held
  PROVE  /\ system' = system /\ intraField' = intraField /\ overCorrect' = overCorrect
         /\ found' = found /\ listed' = listed
         /\ \A d, s, f, l : Clean(d, s, f, l)' <=> Clean(d, s, f, l)
         /\ \A ds : ListOf(ds)' = ListOf(ds)
<1>1. /\ system' = system /\ intraField' = intraField /\ overCorrect' = overCorrect
      /\ found' = found /\ listed' = listed
  BY DEF Held, inputVars
<1>2. \A d, s, f, l : Clean(d, s, f, l)' <=> Clean(d, s, f, l)
  BY <1>1 DEF Clean
<1>3. \A ds : ListOf(ds)' = ListOf(ds)
  <2>1. \A ds : Populate(ds)' = Populate(ds)
    BY <1>1 DEF Populate
  <2> QED
    BY <2>1 DEF ListOf, SetDropOutLocations
<1> QED
  BY <1>1, <1>2, <1>3

LEMMA UsableHeld ==
  ASSUME Held, NEW f, NEW d
  PROVE  Usable(f, d)' = Usable(f, d)
BY InputsHeld DEF Usable

LEMMA SearchesHeld ==
  ASSUME Held, NEW f, NEW matchPhase, NEW isColourBurst
  PROVE  Searches(f, matchPhase, isColourBurst)' = Searches(f, matchPhase, isColourBurst)
<1>1. StepAmount(matchPhase)' = StepAmount(matchPhase)
  BY InputsHeld DEF StepAmount
<1>2. OtherFieldOffset(f, matchPhase)' = OtherFieldOffset(f, matchPhase)
  BY InputsHeld DEF OtherFieldOffset
<1> QED
  BY <1>1, <1>2, InputsHeld DEF Searches

LEMMA PotentialLinesHeld ==
  ASSUME Held, NEW d, NEW s, NEW f, NEW start, NEW step
  PROVE  PotentialReplacementLine(d, s, f, start, step)'
           = PotentialReplacementLine(d, s, f, start, step)
<1> DEFINE visited == {l \in SearchedLines : (l - start) * step >= 0
                                             /\ (l - start) % Abs(step) = 0}
<1>1. {l \in visited : Clean(d, s, f, l)'} = {l \in visited : Clean(d, s, f, l)}
  BY InputsHeld
<1> QED
  BY <1>1 DEF PotentialReplacementLine

LEMMA CandidatesHeld ==
  ASSUME Held, NEW f, NEW d, NEW matchPhase, NEW isColourBurst
  PROVE  Candidates(f, d, matchPhase, isColourBurst)' = Candidates(f, d, matchPhase, isColourBurst)
<1> DEFINE Lines(s, q) == {[source |-> s, field |-> q[1], line |-> l] :
                             l \in PotentialReplacementLine(d, s, q[1], d.line + q[2], q[3])}
<1>1. \A s, q : PotentialReplacementLine(d, s, q[1], d.line + q[2], q[3])'
                  = PotentialReplacementLine(d, s, q[1], d.line + q[2], q[3])
  BY PotentialLinesHeld
<1>2. Searches(f, matchPhase, isColourBurst)' = Searches(f, matchPhase, isColourBurst)
  BY SearchesHeld
<1>3. \A s, q : Lines(s, q)' = Lines(s, q)
  BY <1>1
<1>4. Candidates(f, d, matchPhase, isColourBurst)'
        = UNION {Lines(s, q)' : s \in AvailableSources,
                                q \in Searches(f, matchPhase, isColourBurst)'}
  BY DEF Candidates
<1>5. Candidates(f, d, matchPhase, isColourBurst)
        = UNION {Lines(s, q) : s \in AvailableSources,
                               q \in Searches(f, matchPhase, isColourBurst)}
  BY DEF Candidates
<1> HIDE DEF Lines
<1> QED
  BY <1>2, <1>3, <1>4, <1>5

LEMMA RepairedHeld ==
  ASSUME Held, NEW f, NEW d, NEW l, NEW w, Repaired(f, d, l, w)
  PROVE  Repaired(f, d, l, w)'
<1>1. NoNearer(f, d, w.luma)' <=> NoNearer(f, d, w.luma)
  BY UsableHeld DEF NoNearer
<1>2. SamePhase(f, l, w.chroma)' <=> SamePhase(f, l, w.chroma)
  BY InputsHeld DEF SamePhase, Turn, SignalLine, FieldLines
<1>3. ChromaLines(f, d)' = ChromaLines(f, d)
  BY CandidatesHeld DEF ChromaLines
<1> QED
  BY <1>1, <1>2, <1>3 DEF Repaired

-----------------------------------------------------------------------------
(* What a field's list holds, and what a dropout of it is repaired from. *)

\* The columns whose damage the lists cannot leave out.
InColumns(x) ==
  x \in Int /\ x < ActiveVideoEnd /\ x # ColourBurstEnd /\ (overCorrect => x >= 0)

LEMMA ListedAre ==
  ASSUME InputsAre, ListsAre, NEW f \in Fields, NEW s \in AvailableSources
  PROVE  /\ listed[f][s] \in Seq(Dropout)
         /\ \A k \in DOMAIN listed[f][s] :
              /\ listed[f][s][k] \in Dropout
              /\ listed[f][s][k].line \in 1 .. LineCount
              /\ Location(listed[f][s][k]) \in {"colourBurst", "visibleLine"} =>
                   \A x \in Int : Covers(listed[f][s][k], listed[f][s][k].line, x) => InColumns(x)
         /\ listed = Lists =>
              \A i \in DOMAIN found[f][s], x \in Int :
                found[f][s][i].line \in 1 .. LineCount /\ InColumns(x)
                  /\ Covers(found[f][s][i], found[f][s][i].line, x)
                => \E k \in DOMAIN listed[f][s] : Covers(listed[f][s][k], found[f][s][i].line, x)
<1>1. CASE listed = EmptyLists
  <2>1. listed[f][s] = <<>>
    BY <1>1 DEF EmptyLists
  <2>2. listed = Lists => listed[f][s] = ListOf(found[f][s])
    BY DEF Lists
  <2>3. found[f][s] \in Seq(Dropout)
    BY DEF InputsAre
  <2> DEFINE ds == found[f][s]
  <2>4. \A i \in DOMAIN ds, x \in Int :
              /\ ds[i].line \in 1 .. LineCount
              /\ overCorrect => x >= 0
              /\ x < ActiveVideoEnd /\ x # ColourBurstEnd
              /\ Covers(ds[i], ds[i].line, x)
              => \E k \in DOMAIN ListOf(ds) : Covers(ListOf(ds)[k], ds[i].line, x)
    BY <2>3, Listing DEF InputsAre, Chosen
  <2> HIDE DEF ds
  <2> QED
    BY <2>1, <2>2, <2>4 DEF ds, InColumns
<1>2. CASE listed = Lists
  <2> DEFINE ds == found[f][s]
             list == ListOf(ds)
  <2>1. ds \in Seq(Dropout) /\ overCorrect \in BOOLEAN
    BY DEF InputsAre, Chosen
  <2>2. listed[f][s] = list
    BY <1>2 DEF Lists
  <2> HIDE DEF ds
  <2>3. /\ list \in Seq(Dropout)
        /\ \A k \in DOMAIN list :
              /\ list[k].line \in 1 .. LineCount
              /\ overCorrect => list[k].startx >= 0
              /\ Location(list[k]) = "colourBurst" => list[k].endx <= ColourBurstEnd
              /\ Location(list[k]) = "visibleLine" =>
                   list[k].startx > ColourBurstEnd /\ list[k].endx <= ActiveVideoEnd
        /\ \A i \in DOMAIN ds, x \in Int :
              /\ ds[i].line \in 1 .. LineCount
              /\ overCorrect => x >= 0
              /\ x < ActiveVideoEnd /\ x # ColourBurstEnd
              /\ Covers(ds[i], ds[i].line, x)
              => \E k \in DOMAIN list : Covers(list[k], ds[i].line, x)
    BY <2>1, Listing
  <2> HIDE DEF list
  <2>4. ASSUME NEW k \in DOMAIN list
        PROVE  /\ list[k] \in Dropout
               /\ Location(list[k]) \in {"colourBurst", "visibleLine"} =>
                    \A x \in Int : Covers(list[k], list[k].line, x) => InColumns(x)
    <3>1. list[k] \in Dropout /\ list[k].startx \in Int /\ list[k].endx \in Int
      <4>1. list[k] \in Dropout
        BY <2>3
      <4> QED
        BY <4>1 DEF Dropout
    <3>2. ASSUME NEW x \in Int, Covers(list[k], list[k].line, x),
                 Location(list[k]) \in {"colourBurst", "visibleLine"}
          PROVE  InColumns(x)
      <4>1. list[k].startx <= x /\ x < list[k].endx
        BY <3>1, <3>2 DEF Covers
      <4> QED
        BY <2>3, <3>1, <3>2, <4>1, ConstantsAre DEF InColumns
    <3> QED
      BY <3>1, <3>2
  <2>5. listed[f][s] \in Seq(Dropout)
    BY <2>2, <2>3
  <2>6. \A i \in DOMAIN ds, x \in Int :
           ds[i].line \in 1 .. LineCount /\ InColumns(x) /\ Covers(ds[i], ds[i].line, x)
           => \E k \in DOMAIN list : Covers(list[k], ds[i].line, x)
    BY <2>3 DEF InColumns
  <2> QED
    BY <2>2, <2>3, <2>4, <2>5, <2>6 DEF ds
<1> QED
  BY <1>1, <1>2 DEF ListsAre

\* A line that is clean for a dropout has no listed damage in the dropout's columns.
LEMMA CleanIsUndamaged ==
  ASSUME InputsAre, ListsAre, NEW d \in Dropout, NEW c \in Places,
         Clean(d, c.source, c.field, c.line),
         NEW x \in d.startx .. d.endx - 1
  PROVE  Undamaged(c, x)
<1> DEFINE list == listed[c.field][c.source]
<1>1. c.field \in Fields /\ c.source \in AvailableSources
  BY DEF Places
<1>2. \A k \in DOMAIN list : list[k] \in Dropout
  BY <1>1, ListedAre
<1>3. \A k \in DOMAIN list : list[k].line = c.line => ~Overlaps(d, list[k])
  BY DEF Clean
<1> HIDE DEF list
<1>4. ASSUME NEW k \in DOMAIN list, Covers(list[k], c.line, x)
      PROVE  FALSE
  <2>1. /\ list[k].startx \in Int /\ list[k].endx \in Int /\ d.startx \in Int /\ d.endx \in Int
        /\ list[k].line = c.line /\ x \in list[k].startx .. list[k].endx - 1
    BY <1>2, <1>4 DEF Covers, Dropout
  <2>2. ~Overlaps(d, list[k])
    BY <1>3, <2>1
  <2> QED
    BY <2>1, <2>2 DEF Overlaps
<1> QED
  BY <1>4 DEF Undamaged, list

\* A sample of a clean line was not overwritten: it is what its capture holds.
LEMMA CleanIsOriginal ==
  ASSUME InputsAre, ListsAre, WrittenAre, NEW d \in Dropout, NEW c \in Places,
         Clean(d, c.source, c.field, c.line),
         NEW x \in d.startx .. d.endx - 1
  PROVE  Sample(c, x) = [luma |-> c, chroma |-> c]
<1>1. Undamaged(c, x)
  BY CleanIsUndamaged
<1>2. ASSUME c.source = 0, <<c.field, c.line, x>> \in DOMAIN written
      PROVE  FALSE
  <2>1. \E i \in DOMAIN listed[c.field][0] : Covers(listed[c.field][0][i], c.line, x)
    BY <1>2 DEF WrittenAre
  <2> QED
    BY <1>1, <1>2, <2>1 DEF Undamaged
<1> QED
  BY <1>2 DEF Sample

\* The best of the candidates is one of the nearest, and there is none only if there are no
\* candidates.
LEMMA BestIsNearest ==
  ASSUME NEW f, NEW d, NEW cs, NoReplacement \notin cs, NEW c \in BestOf(f, d, cs)
  PROVE  /\ c = NoReplacement <=> cs = {}
         /\ c # NoReplacement =>
              c \in cs /\ \A e \in cs : Distance(f, d, c) <= Distance(f, d, e)
BY DEF BestOf

BurstLines(f, d) == Candidates(f, d, TRUE, TRUE)
PictureLines(f, d) == Candidates(f, d, FALSE, FALSE)

LEMMA LinesAre ==
  ASSUME Chosen, NEW f \in Fields, NEW d \in Dropout
  PROVE  /\ \A c \in BurstLines(f, d) \cup PictureLines(f, d) \cup ChromaLines(f, d) :
              /\ c \in Places /\ c # NoReplacement
              /\ c.line \in SearchedLines
              /\ Clean(d, c.source, c.field, c.line)
         /\ \A c \in BurstLines(f, d) \cup ChromaLines(f, d) : SamePhase(f, d.line, c)
         /\ d.line \in SearchedLines =>
              \A u \in Usable(f, d) : \E c \in PictureLines(f, d) :
                Distance(f, d, c) <= Distance(f, d, u)
<1>1. \A m \in BOOLEAN, b \in BOOLEAN : \A c \in Candidates(f, d, m, b) :
        /\ c \in Places /\ c # NoReplacement
        /\ c.line \in SearchedLines
        /\ Clean(d, c.source, c.field, c.line)
  BY CandidatesAre
<1>2. \A m \in BOOLEAN, b \in BOOLEAN : \A c \in Candidates(f, d, m, b) :
        m => SamePhase(f, d.line, c)
  BY CandidatesInPhase
<1>3. \A m \in BOOLEAN, b \in BOOLEAN :
        ~m /\ ~b /\ d.line \in SearchedLines =>
          \A u \in Usable(f, d) : \E c \in Candidates(f, d, m, b) :
            Distance(f, d, c) <= Distance(f, d, u)
  BY NearestIsFound
<1>4. TRUE \in BOOLEAN /\ FALSE \in BOOLEAN
  OBVIOUS
<1>5. \A c \in BurstLines(f, d) :
        /\ c \in Places /\ c # NoReplacement /\ c.line \in SearchedLines
        /\ Clean(d, c.source, c.field, c.line) /\ SamePhase(f, d.line, c)
  BY <1>1, <1>2, <1>4, Zenon DEF BurstLines
<1>6. \A c \in ChromaLines(f, d) :
        /\ c \in Places /\ c # NoReplacement /\ c.line \in SearchedLines
        /\ Clean(d, c.source, c.field, c.line) /\ SamePhase(f, d.line, c)
  BY <1>1, <1>2, <1>4, Zenon DEF ChromaLines
<1>7. \A c \in PictureLines(f, d) :
        /\ c \in Places /\ c # NoReplacement /\ c.line \in SearchedLines
        /\ Clean(d, c.source, c.field, c.line)
  BY <1>1, <1>4, Zenon DEF PictureLines
<1>8. d.line \in SearchedLines =>
        \A u \in Usable(f, d) : \E c \in PictureLines(f, d) :
          Distance(f, d, c) <= Distance(f, d, u)
  BY <1>3, <1>4, Zenon DEF PictureLines
<1> QED
  BY <1>5, <1>6, <1>7, <1>8

LEMMA ReplacementsFrom ==
  ASSUME NEW f, NEW d, NEW r \in Replacements(f, d), NEW c \in ChromaReplacements(f, d)
  PROVE  /\ Location(d) = "colourBurst" => r \in BestOf(f, d, BurstLines(f, d))
         /\ Location(d) = "visibleLine" => /\ r \in BestOf(f, d, PictureLines(f, d))
                                           /\ c \in BestOf(f, d, ChromaLines(f, d))
         /\ Location(d) # "visibleLine" => c = NoReplacement
         /\ Location(d) \notin {"colourBurst", "visibleLine"} => r = NoReplacement
<1>1. CASE Location(d) = "colourBurst"
  <2>1. Location(d) # "visibleLine"
    BY <1>1
  <2>2. Replacements(f, d) = BestOf(f, d, BurstLines(f, d))
    BY <1>1 DEF Replacements, BurstLines
  <2>3. ChromaReplacements(f, d) = {NoReplacement}
    BY <2>1 DEF ChromaReplacements
  <2> QED
    BY <1>1, <2>1, <2>2, <2>3
<1>2. CASE Location(d) = "visibleLine"
  <2>1. Location(d) # "colourBurst"
    BY <1>2
  <2>2. Replacements(f, d) = BestOf(f, d, PictureLines(f, d))
    BY <1>2, <2>1 DEF Replacements, PictureLines
  <2>3. ChromaReplacements(f, d) = BestOf(f, d, ChromaLines(f, d))
    BY <1>2 DEF ChromaReplacements, ChromaLines
  <2> QED
    BY <1>2, <2>1, <2>2, <2>3
<1>3. CASE Location(d) \notin {"colourBurst", "visibleLine"}
  <2>1. Replacements(f, d) = {NoReplacement}
    BY <1>3 DEF Replacements
  <2>2. ChromaReplacements(f, d) = {NoReplacement}
    BY <1>3 DEF ChromaReplacements
  <2> QED
    BY <1>3, <2>1, <2>2
<1> QED
  BY <1>1, <1>2, <1>3

\* On a dropout's own line of its own field its phase is its own.
LEMMA OwnLineInPhase ==
  ASSUME Chosen, NEW f \in Fields, NEW l \in Int, NEW c \in Places, c.field = f, c.line = l
  PROVE  SamePhase(f, l, c)
<1>1. c.line - l - 0 = 0 /\ 0 % 4 = 0 /\ 0 % 2 = 0
  OBVIOUS
<1> QED
  BY <1>1, PhaseOfSteps

\* The line a dropout's luma comes from, and the one its chroma comes from: clean lines of
\* its columns, the nearest there is and one of its phase, unless there is none.
ChromaFrom(d, r, c) ==
  IF c = NoReplacement \/ (d.line = r.line /\ d.line = c.line) THEN r ELSE c

LEMMA ReplacementsAre ==
  ASSUME InputsAre, NEW f \in Fields, NEW d \in Dropout,
         NEW r \in Replacements(f, d), NEW c \in ChromaReplacements(f, d)
  PROVE  /\ r # NoReplacement =>
              /\ Location(d) \in {"colourBurst", "visibleLine"}
              /\ r \in Places /\ Clean(d, r.source, r.field, r.line)
              /\ NoNearer(f, d, r)
              /\ \/ SamePhase(f, d.line, ChromaFrom(d, r, c))
                 \/ Location(d) = "visibleLine" /\ ChromaLines(f, d) = {}
         /\ c # NoReplacement => c \in Places /\ Clean(d, c.source, c.field, c.line)
         /\ InPicture(d) /\ Usable(f, d) # {} => r # NoReplacement
<1>1. Chosen /\ d.line \in Int
  BY DEF InputsAre, Dropout
<1>2. CASE Location(d) = "colourBurst"
  <2>1. NoReplacement \notin BurstLines(f, d)
    BY <1>1, LinesAre
  <2>2. c = NoReplacement /\ (r # NoReplacement => r \in BurstLines(f, d))
    <3>1. r \in BestOf(f, d, BurstLines(f, d)) /\ c = NoReplacement
      BY <1>2, ReplacementsFrom
    <3> QED
      BY <2>1, <3>1, BestIsNearest
  <2>3. ~InPicture(d)
    BY <1>2 DEF InPicture
  <2>4. NoNearer(f, d, r)
    BY <2>3 DEF NoNearer
  <2>5. ChromaFrom(d, r, c) = r
    BY <2>2 DEF ChromaFrom
  <2> QED
    BY <1>1, <1>2, <2>2, <2>3, <2>4, <2>5, LinesAre
<1>3. CASE Location(d) = "visibleLine"
  <2>1. NoReplacement \notin PictureLines(f, d) /\ NoReplacement \notin ChromaLines(f, d)
    BY <1>1, LinesAre
  <2>2. r \in BestOf(f, d, PictureLines(f, d)) /\ c \in BestOf(f, d, ChromaLines(f, d))
    BY <1>3, ReplacementsFrom
  <2>3. /\ r = NoReplacement <=> PictureLines(f, d) = {}
        /\ r # NoReplacement =>
             r \in PictureLines(f, d)
             /\ \A e \in PictureLines(f, d) : Distance(f, d, r) <= Distance(f, d, e)
    BY <2>1, <2>2, BestIsNearest
  <2>4. /\ c = NoReplacement <=> ChromaLines(f, d) = {}
        /\ c # NoReplacement => c \in ChromaLines(f, d)
    BY <2>1, <2>2, BestIsNearest
  <2>5. r # NoReplacement => r \in Places /\ Clean(d, r.source, r.field, r.line)
    BY <1>1, <2>3, LinesAre
  <2>6. c # NoReplacement => /\ c \in Places /\ Clean(d, c.source, c.field, c.line)
                             /\ c.line \in SearchedLines /\ SamePhase(f, d.line, c)
    BY <1>1, <2>4, LinesAre
  <2>7. ASSUME r # NoReplacement, d.line \in SearchedLines, NEW u \in Usable(f, d)
        PROVE  Distance(f, d, r) <= Distance(f, d, u)
    <3>1. PICK e \in PictureLines(f, d) : Distance(f, d, e) <= Distance(f, d, u)
      BY <1>1, <2>7, LinesAre
    <3>2. e \in Places /\ u \in Places
      BY <1>1, LinesAre DEF Usable
    <3>3. /\ Distance(f, d, r) \in Nat /\ Distance(f, d, e) \in Nat /\ Distance(f, d, u) \in Nat
      BY <2>5, <2>7, <3>2, DistancesAre
    <3> QED
      BY <2>3, <2>7, <3>1, <3>3
  <2>8. r # NoReplacement => NoNearer(f, d, r)
    BY <2>7 DEF NoNearer, InPicture
  <2>9. InPicture(d) /\ Usable(f, d) # {} => r # NoReplacement
    BY <1>1, <2>3, LinesAre DEF InPicture
  <2>10. ASSUME r # NoReplacement, c # NoReplacement, d.line = r.line, d.line = c.line
         PROVE  SamePhase(f, d.line, r)
    <3>1. c.field = f
      <4>1. (c.line - d.line - (IF c.field = f THEN 0 ELSE OtherFieldOffset(f, TRUE)))
              % StepAmount(TRUE) = 0
        <5>1. \A m \in BOOLEAN, b \in BOOLEAN : \A e \in Candidates(f, d, m, b) :
                (e.line - d.line - (IF e.field = f THEN 0 ELSE OtherFieldOffset(f, m)))
                  % StepAmount(m) = 0
          BY <1>1, CandidatesAre
        <5> QED
          BY <2>4, <2>10, <5>1, Zenon DEF ChromaLines
      <4>2. /\ StepAmount(TRUE) \in {2, 4} /\ OtherFieldOffset(f, TRUE) \in {-1, -3}
            /\ StepAmount(TRUE) = 2 => OtherFieldOffset(f, TRUE) = -1
        BY <1>1 DEF Chosen, StepAmount, OtherFieldOffset
      <4> DEFINE o == OtherFieldOffset(f, TRUE)
                 n == StepAmount(TRUE)
      <4>3. c.field # f => (c.line - d.line - o) % n = 0
        BY <4>1
      <4>4. c.line - d.line = 0
        BY <1>1, <2>10
      <4>5. n \in {2, 4} /\ o \in {-1, -3} /\ (n = 2 => o = -1)
        BY <4>2
      <4> HIDE DEF o, n
      <4>6. (0 - o) % n # 0
        BY <4>5
      <4> QED
        BY <4>3, <4>4, <4>6
    <3>2. c \in Usable(f, d) /\ d.line \in SearchedLines
      BY <2>6, <2>10, <3>1 DEF Usable
    <3>3. Distance(f, d, c) = 0
      BY <1>1, <2>6, <2>10, <3>1, DistancesAre DEF Abs
    <3>4. Distance(f, d, r) <= 0
      BY <2>7, <2>10, <3>2, <3>3
    <3>5. r.field = f
      <4>1. r.field # f => Distance(f, d, r) = IF f = "first" THEN Abs(2 * (d.line - r.line) - 1)
                                  ELSE Abs(2 * (d.line - r.line) + 1)
        BY <2>5, <2>10, DistancesAre
      <4>2. d.line - r.line = 0
        BY <1>1, <2>10
      <4>3. r.field # f => Distance(f, d, r) = 1
        BY <4>1, <4>2 DEF Abs
      <4> QED
        BY <3>4, <4>3
    <3> QED
      BY <1>1, <2>5, <2>10, <3>5, OwnLineInPhase
  <2>11. r # NoReplacement => \/ SamePhase(f, d.line, ChromaFrom(d, r, c))
                              \/ ChromaLines(f, d) = {}
    BY <2>4, <2>6, <2>10 DEF ChromaFrom
  <2> QED
    BY <1>3, <2>5, <2>6, <2>8, <2>9, <2>11
<1>4. CASE Location(d) \notin {"colourBurst", "visibleLine"}
  <2>1. r = NoReplacement /\ c = NoReplacement /\ ~InPicture(d)
    BY <1>4, ReplacementsFrom DEF InPicture
  <2> QED
    BY <2>1
<1> QED
  BY <1>2, <1>3, <1>4

\* What a dropout is overwritten with is what the captures hold there.
LEMMA NewSampleIs ==
  ASSUME InputsAre, ListsAre, WrittenAre, NEW f \in Fields, NEW d \in Dropout,
         NEW r \in Replacements(f, d), NEW c \in ChromaReplacements(f, d), r # NoReplacement,
         NEW x \in d.startx .. d.endx - 1
  PROVE  /\ NewSample(d, r, c, x) = [luma |-> r, chroma |-> ChromaFrom(d, r, c)]
         /\ ChromaFrom(d, r, c) \in Places
         /\ Undamaged(r, x) /\ Undamaged(ChromaFrom(d, r, c), x)
<1>1. r \in Places /\ Clean(d, r.source, r.field, r.line)
  BY ReplacementsAre
<1>2. Sample(r, x) = [luma |-> r, chroma |-> r] /\ Undamaged(r, x)
  BY <1>1, CleanIsOriginal, CleanIsUndamaged
<1>3. CASE ChromaFrom(d, r, c) = r /\ (c = NoReplacement \/ (d.line = r.line /\ d.line = c.line))
  BY <1>1, <1>2, <1>3 DEF NewSample
<1>4. CASE ~(c = NoReplacement \/ (d.line = r.line /\ d.line = c.line))
  <2>1. c \in Places /\ Clean(d, c.source, c.field, c.line)
    BY <1>4, ReplacementsAre
  <2>2. Sample(c, x) = [luma |-> c, chroma |-> c] /\ Undamaged(c, x)
    BY <2>1, CleanIsOriginal, CleanIsUndamaged
  <2>3. ChromaFrom(d, r, c) = c
    BY <1>4 DEF ChromaFrom
  <2> QED
    BY <1>2, <1>4, <2>1, <2>2, <2>3 DEF NewSample
<1> QED
  BY <1>3, <1>4 DEF ChromaFrom

-----------------------------------------------------------------------------
(* The invariant. *)

LEMMA CorrectorInitInv == CorrectorInit => CorrectorInv
<1> SUFFICES ASSUME CorrectorInit PROVE CorrectorInv
  OBVIOUS
<1>1. InputsAre
  BY CorrectorAssumption DEF CorrectorInit, InputsAre, Chosen
<1>2. listed = EmptyLists /\ written = <<>> /\ phase = "listing" /\ index = 1
  BY DEF CorrectorInit, EmptyLists
<1>3. ListsAre
  BY <1>2 DEF ListsAre
<1>4. WrittenAre
  BY <1>2 DEF WrittenAre
<1>5. PassedAre
  BY <1>2 DEF PassedAre, Passed, Fields
<1>6. CountsAre
  BY DEF CorrectorInit, CountsAre
<1> QED
  BY <1>1, <1>3, <1>4, <1>5, <1>6 DEF CorrectorInv

\* While the lists stay, so does what is known of a sample that is not overwritten.
LEMMA WrittenHeld ==
  ASSUME Held, WrittenAre, NEW t \in DOMAIN written,
         t \in DOMAIN written', written'[t] = written[t]
  PROVE  (/\ t \in Fields \X (1 .. LineCount) \X Int
          /\ written[t] \in [luma : Places, chroma : Places]
          /\ Undamaged(written[t].luma, t[3]) /\ Undamaged(written[t].chroma, t[3])
          /\ \E i \in DOMAIN listed[t[1]][0] :
               /\ Covers(listed[t[1]][0][i], t[2], t[3])
               /\ Repaired(t[1], listed[t[1]][0][i], t[2], written[t]))'
<1> DEFINE w == written[t]
<1>1. /\ t \in Fields \X (1 .. LineCount) \X Int
      /\ w \in [luma : Places, chroma : Places]
      /\ Undamaged(w.luma, t[3]) /\ Undamaged(w.chroma, t[3])
  BY DEF WrittenAre
<1>2. PICK i \in DOMAIN listed[t[1]][0] :
        /\ Covers(listed[t[1]][0][i], t[2], t[3])
        /\ Repaired(t[1], listed[t[1]][0][i], t[2], w)
  BY DEF WrittenAre
<1>3. listed' = listed
  BY InputsHeld
<1>4. \A v : Undamaged(v, t[3])' <=> Undamaged(v, t[3])
  BY <1>3 DEF Undamaged
<1>5. w' = w
  OBVIOUS
<1> DEFINE d == listed[t[1]][0][i]
<1>6. Repaired(t[1], d, t[2], w)'
  <2>1. \A f, e, l, v : Repaired(f, e, l, v) => Repaired(f, e, l, v)'
    BY RepairedHeld
  <2> QED
    BY <1>2, <1>3, <1>5, <2>1 DEF Repaired
<1> QED
  BY <1>1, <1>2, <1>3, <1>4, <1>5, <1>6

LEMMA ListDropoutsInv ==
  ASSUME CorrectorInv, ListDropouts
  PROVE  CorrectorInv'
<1> USE DEF CorrectorInv
<1>0. phase = "listing" /\ UNCHANGED <<inputVars, index, written, stats>>
  BY DEF ListDropouts
<1>1. /\ system' = system /\ intraField' = intraField /\ overCorrect' = overCorrect
      /\ found' = found /\ index' = index /\ written' = written
      /\ corrected' = corrected /\ failed' = failed /\ totalDistance' = totalDistance
  BY <1>0 DEF inputVars, stats
<1>2. listed = EmptyLists /\ written = <<>> /\ index = 1
  BY <1>0 DEF ListsAre, Fields
<1>3. InputsAre'
  BY <1>1 DEF InputsAre, Chosen
<1>4. \A ds : ListOf(ds)' = ListOf(ds)
  <2>1. \A ds : Populate(ds)' = Populate(ds)
    BY <1>1 DEF Populate
  <2> QED
    BY <2>1 DEF ListOf, SetDropOutLocations
<1>5. Lists' = Lists
  BY <1>1, <1>4 DEF Lists
<1>6. ListsAre'
  <2>1. CASE phase' = "done" /\ UNCHANGED listed
    BY <1>1, <1>2, <2>1 DEF ListsAre, EmptyLists
  <2>2. CASE /\ phase' = "first"
             /\ listed' = [f \in Fields |-> [s \in AvailableSources |->
                             SetDropOutLocations(Populate(found[f][s]))]]
    <3>1. listed' = Lists'
      BY <1>5, <2>2 DEF Lists, ListOf
    <3> QED
      BY <2>2, <3>1 DEF ListsAre, Fields
  <2> QED
    BY <2>1, <2>2 DEF ListDropouts
<1>7. WrittenAre'
  BY <1>1, <1>2 DEF WrittenAre
<1>8. CountsAre'
  BY <1>1 DEF CountsAre
<1>9. PassedAre'
  <2>1. CASE phase' = "done" /\ UNCHANGED listed
    BY <1>2, <2>1, ConstantsAre DEF PassedAre, EmptyLists
  <2>2. CASE phase' = "first" /\ ~(\A f \in Fields : found[f][0] = <<>>)
    <3>1. \A f, i : Passed(f, i)' => i < 1
      BY <1>1, <1>2, <2>2 DEF Passed
    <3>2. \A f \in Fields : \A i \in DOMAIN listed'[f][0] : i \in Int /\ i >= 1
      <4> TAKE f \in Fields
      <4>1. listed'[f][0] \in Seq(Dropout)
        <5>1. listed' = [g \in Fields |-> [s \in AvailableSources |->
                           SetDropOutLocations(Populate(found[g][s]))]]
          BY <2>2 DEF ListDropouts
        <5>2. listed'[f][0] = ListOf(found[f][0])
          BY <5>1, ConstantsAre DEF ListOf
        <5>3. found[f][0] \in Seq(Dropout) /\ overCorrect \in BOOLEAN
          BY ConstantsAre DEF InputsAre, Chosen
        <5> QED
          BY <5>2, <5>3, Listing
      <4> QED
        BY <4>1
    <3>3. ASSUME NEW f \in Fields, NEW i \in DOMAIN listed'[f][0]
          PROVE  ~Passed(f, i)'
      <4>1. i >= 1 /\ i \in Int
        BY <3>2
      <4> QED
        BY <3>1, <4>1
    <3> QED
      BY <3>3 DEF PassedAre
  <2> QED
    BY <2>1, <2>2 DEF ListDropouts
<1> QED
  BY <1>3, <1>6, <1>7, <1>8, <1>9

LEMMA FinishFieldInv ==
  ASSUME CorrectorInv, NEW f \in Fields, FinishField(f)
  PROVE  CorrectorInv'
<1> USE DEF CorrectorInv
<1>1. /\ Held /\ written' = written /\ index' = 1 /\ index > Len(listed[f][0])
      /\ corrected' = corrected /\ failed' = failed /\ totalDistance' = totalDistance
      /\ phase = f /\ phase' = IF f = "first" THEN "second" ELSE "done"
  BY DEF FinishField, Held, stats
<1>2. /\ system' = system /\ intraField' = intraField /\ overCorrect' = overCorrect
      /\ found' = found /\ listed' = listed
  BY <1>1, InputsHeld
<1>3. InputsAre'
  BY <1>2 DEF InputsAre, Chosen
<1>4. ListsAre'
  <2>1. Lists' = Lists
    BY <1>1, <1>2, InputsHeld DEF Lists
  <2>2. listed = Lists
    BY <1>1 DEF ListsAre, Fields
  <2> QED
    BY <1>1, <1>2, <2>1, <2>2 DEF ListsAre, Fields
<1>5. WrittenAre'
  <2>1. (DOMAIN written \subseteq Fields \X (1 .. LineCount) \X Int)'
    BY <1>1 DEF WrittenAre
  <2> QED
    BY <1>1, <2>1, WrittenHeld DEF WrittenAre
<1>6. PassedAre'
  <2> SUFFICES ASSUME NEW g \in Fields, NEW i \in DOMAIN listed[g][0], Passed(g, i)',
                      InPicture(listed[g][0][i]), Usable(g, listed[g][0][i]) # {}
               PROVE  AllWritten(g, listed[g][0][i])'
    <3>1. \A g, d : Usable(g, d)' = Usable(g, d)
      BY <1>1, UsableHeld
    <3> QED
      BY <1>2, <3>1 DEF PassedAre, InPicture
  <2>1. i \in 1 .. Len(listed[g][0]) /\ Len(listed[g][0]) \in Nat
    BY ListedAre, ConstantsAre
  <2>2. f \in {"first", "second"} /\ g \in {"first", "second"} /\ index \in Nat
    BY DEF Fields, CountsAre
  <2>3. Passed(g, i)
    <3>1. CASE g = f
      BY <1>1, <2>1, <2>2, <3>1 DEF Passed
    <3>2. CASE g # f /\ f = "first"
      <4>1. phase' = "second" /\ index' = 1 /\ g = "second" /\ i >= 1
        BY <1>1, <2>1, <2>2, <3>2
      <4> QED
        BY <2>1, <4>1 DEF Passed
    <3>3. CASE g # f /\ f = "second"
      BY <1>1, <2>2, <3>3 DEF Passed
    <3> QED
      BY <2>2, <3>1, <3>2, <3>3
  <2>4. AllWritten(g, listed[g][0][i])
    BY <2>3 DEF PassedAre
  <2> QED
    BY <1>1, <1>2, <2>4 DEF AllWritten
<1>7. CountsAre'
  BY <1>1 DEF CountsAre
<1> QED
  BY <1>3, <1>4, <1>5, <1>6, <1>7

LEMMA CorrectDropOutInv ==
  ASSUME CorrectorInv, NEW f \in Fields, CorrectDropOut(f)
  PROVE  CorrectorInv'
<1> USE DEF CorrectorInv
<1>0. PICK k : k = index
  OBVIOUS
<1> DEFINE d == listed[f][0][k]
           targets == {<<f, d.line, x>> : x \in d.startx .. d.endx - 1}
<1>1. /\ Held /\ phase' = phase /\ index' = index + 1 /\ index <= Len(listed[f][0])
      /\ phase = f
  BY DEF CorrectDropOut, Held
<1>2. PICK r \in Replacements(f, d), c \in ChromaReplacements(f, d) :
        /\ written' = Overwrite(f, d, r, c)
        /\ IF r = NoReplacement
             THEN failed' = failed + 1 /\ UNCHANGED <<corrected, totalDistance>>
             ELSE /\ corrected' = corrected + 1
                  /\ totalDistance' = totalDistance + Distance(f, d, r)
                  /\ UNCHANGED failed
  BY <1>0 DEF CorrectDropOut
<1>3. /\ system' = system /\ intraField' = intraField /\ overCorrect' = overCorrect
      /\ found' = found /\ listed' = listed
  BY <1>1, InputsHeld
<1>4. /\ k \in DOMAIN listed[f][0]
      /\ k \in Nat /\ d \in Dropout
      /\ d.line \in 1 .. LineCount /\ d.startx \in Int /\ d.endx \in Int
  <2>1. k \in DOMAIN listed[f][0] /\ k \in Nat
    BY <1>0, <1>1, ListedAre, ConstantsAre DEF CountsAre
  <2>2. d \in Dropout /\ d.line \in 1 .. LineCount
    BY <2>1, ListedAre, ConstantsAre
  <2> QED
    BY <2>1, <2>2 DEF Dropout
<1> HIDE DEF d
<1>5. InputsAre'
  BY <1>3 DEF InputsAre, Chosen
<1>6. ListsAre'
  <2>1. Lists' = Lists
    BY <1>1, <1>3, InputsHeld DEF Lists
  <2>2. listed = Lists
    BY <1>1 DEF ListsAre, Fields
  <2> QED
    BY <1>1, <1>3, <2>1, <2>2 DEF ListsAre
<1>7. /\ r = NoReplacement => written' = written
      /\ r # NoReplacement =>
           /\ DOMAIN written' = targets \cup DOMAIN written
           /\ \A t \in targets : written'[t] = NewSample(d, r, c, t[3])
           /\ \A t \in DOMAIN written \ targets : written'[t] = written[t]
  <2> DEFINE new == [t \in targets \cup DOMAIN written |->
                       IF t \in targets THEN NewSample(d, r, c, t[3]) ELSE written[t]]
  <2>1. Overwrite(f, d, r, c) = IF r = NoReplacement THEN written ELSE new
    BY DEF Overwrite
  <2> HIDE DEF targets
  <2> QED
    BY <1>2, <2>1
<1>8. WrittenAre'
  <2>1. (DOMAIN written \subseteq Fields \X (1 .. LineCount) \X Int)'
    <3>1. targets \subseteq Fields \X (1 .. LineCount) \X Int
      BY <1>4
    <3> QED
      BY <1>7, <3>1 DEF WrittenAre
  <2>2. ASSUME NEW t \in DOMAIN written, t \in DOMAIN written', written'[t] = written[t]
        PROVE  (/\ written[t] \in [luma : Places, chroma : Places]
                /\ Undamaged(written[t].luma, t[3]) /\ Undamaged(written[t].chroma, t[3])
                /\ \E i \in DOMAIN listed[t[1]][0] :
                     /\ Covers(listed[t[1]][0][i], t[2], t[3])
                     /\ Repaired(t[1], listed[t[1]][0][i], t[2], written[t]))'
    BY <1>1, <2>2, WrittenHeld
  <2>3. ASSUME r # NoReplacement, NEW t \in targets
        PROVE  (/\ written[t] \in [luma : Places, chroma : Places]
                /\ Undamaged(written[t].luma, t[3]) /\ Undamaged(written[t].chroma, t[3])
                /\ \E i \in DOMAIN listed[t[1]][0] :
                     /\ Covers(listed[t[1]][0][i], t[2], t[3])
                     /\ Repaired(t[1], listed[t[1]][0][i], t[2], written[t]))'
    <3>1. PICK x \in d.startx .. d.endx - 1 : t = <<f, d.line, x>>
      OBVIOUS
    <3> DEFINE w == [luma |-> r, chroma |-> ChromaFrom(d, r, c)]
    <3>2. /\ written'[t] = w /\ ChromaFrom(d, r, c) \in Places
          /\ Undamaged(r, x) /\ Undamaged(ChromaFrom(d, r, c), x)
      BY <1>4, <1>7, <2>3, <3>1, NewSampleIs
    <3>3. /\ Location(d) \in {"colourBurst", "visibleLine"}
          /\ r \in Places
          /\ NoNearer(f, d, r)
          /\ \/ SamePhase(f, d.line, ChromaFrom(d, r, c))
             \/ Location(d) = "visibleLine" /\ ChromaLines(f, d) = {}
      BY <1>4, <2>3, ReplacementsAre
    <3>4. Repaired(f, d, d.line, w)
      BY <3>3 DEF Repaired
    <3>5. \A v : Undamaged(v, x)' <=> Undamaged(v, x)
      BY <1>3 DEF Undamaged
    <3>6. \A g, e, l, v : Repaired(g, e, l, v) => Repaired(g, e, l, v)'
      BY <1>1, RepairedHeld
    <3>7. Covers(d, d.line, x)
      BY <1>4 DEF Covers
    <3>8. k \in DOMAIN listed'[f][0] /\ listed'[f][0][k] = d
      BY <1>3, <1>4 DEF d
    <3>9. t[1] = f /\ t[2] = d.line /\ t[3] = x
      BY <3>1
    <3>10. w \in [luma : Places, chroma : Places] /\ w.luma = r /\ w.chroma = ChromaFrom(d, r, c)
      BY <3>2, <3>3
    <3>11. Undamaged(written[t].luma, t[3])' /\ Undamaged(written[t].chroma, t[3])'
      BY <3>2, <3>5, <3>9, <3>10 DEF Undamaged
    <3>12. Repaired(f, listed[f][0][k], t[2], written[t])'
      BY <3>2, <3>4, <3>6, <3>8, <3>9
    <3>13. Covers(listed[f][0][k], t[2], t[3])'
      BY <3>7, <3>8, <3>9
    <3> QED
      BY <3>2, <3>8, <3>9, <3>10, <3>11, <3>12, <3>13
  <2>4. CASE r = NoReplacement
    BY <1>7, <2>1, <2>2, <2>4 DEF WrittenAre
  <2>5. CASE r # NoReplacement
    <3>1. \A t \in DOMAIN written' : t \in targets \/ t \in DOMAIN written \ targets
      BY <1>7, <2>5
    <3> HIDE DEF targets
    <3> QED
      BY <1>7, <2>1, <2>2, <2>3, <2>5, <3>1 DEF WrittenAre
  <2> QED
    BY <2>4, <2>5
<1>9. PassedAre'
  <2>1. DOMAIN written \subseteq DOMAIN written'
    BY <1>7
  <2> SUFFICES ASSUME NEW g \in Fields, NEW i \in DOMAIN listed[g][0], Passed(g, i)',
                      InPicture(listed[g][0][i]), Usable(g, listed[g][0][i]) # {}
               PROVE  AllWritten(g, listed[g][0][i])'
    <3>1. \A g, e : Usable(g, e)' = Usable(g, e)
      BY <1>1, UsableHeld
    <3> QED
      BY <1>3, <3>1 DEF PassedAre, InPicture
  <2>2. i \in Int
    BY ListedAre, ConstantsAre
  <2>3. Passed(g, i) \/ (g = f /\ i = k)
    BY <1>0, <1>1, <1>4, <2>2 DEF Passed
  <2>4. CASE Passed(g, i)
    <3>1. AllWritten(g, listed[g][0][i])
      BY <2>4 DEF PassedAre
    <3> QED
      BY <1>3, <2>1, <3>1 DEF AllWritten
  <2>5. CASE g = f /\ i = k
    <3>1. InPicture(d) /\ Usable(f, d) # {}
      BY <2>5 DEF d
    <3>2. r # NoReplacement
      BY <1>4, <3>1, ReplacementsAre
    <3>3. \A x \in d.startx .. d.endx - 1 : <<f, d.line, x>> \in DOMAIN written'
      BY <1>7, <3>2
    <3> QED
      BY <1>3, <2>5, <3>3 DEF AllWritten, d
  <2> QED
    BY <2>3, <2>4, <2>5
<1>10. CountsAre'
  <2>1. r # NoReplacement => Distance(f, d, r) \in Nat
    BY <1>4, ReplacementsAre, DistancesAre
  <2> QED
    BY <1>1, <1>2, <2>1 DEF CountsAre
<1> QED
  BY <1>5, <1>6, <1>8, <1>9, <1>10

LEMMA CorrectorStepInv ==
  CorrectorInv /\ [CorrectorNext]_correctorVars => CorrectorInv'
<1> SUFFICES ASSUME CorrectorInv, [CorrectorNext]_correctorVars PROVE CorrectorInv'
  OBVIOUS
<1>1. CASE ListDropouts
  BY <1>1, ListDropoutsInv
<1>2. ASSUME NEW f \in Fields, CorrectDropOut(f) PROVE CorrectorInv'
  BY <1>2, CorrectDropOutInv
<1>3. ASSUME NEW f \in Fields, FinishField(f) PROVE CorrectorInv'
  BY <1>3, FinishFieldInv
<1>4. CASE UNCHANGED correctorVars
  <2>1. /\ Held /\ system' = system /\ intraField' = intraField /\ overCorrect' = overCorrect
        /\ found' = found /\ listed' = listed /\ phase' = phase /\ index' = index
        /\ written' = written /\ corrected' = corrected /\ failed' = failed
        /\ totalDistance' = totalDistance
    BY <1>4 DEF correctorVars, inputVars, stats, Held
  <2>2. InputsAre' /\ CountsAre'
    BY <2>1 DEF CorrectorInv, InputsAre, Chosen, CountsAre
  <2>3. ListsAre'
    <3>1. Lists' = Lists
      BY <2>1, InputsHeld DEF Lists
    <3> QED
      BY <2>1, <3>1 DEF CorrectorInv, ListsAre
  <2>4. WrittenAre'
    <3>1. (DOMAIN written \subseteq Fields \X (1 .. LineCount) \X Int)'
      BY <2>1 DEF CorrectorInv, WrittenAre
    <3> QED
      BY <2>1, <3>1, WrittenHeld DEF CorrectorInv, WrittenAre
  <2>5. PassedAre'
    <3>1. \A g, e : Usable(g, e)' = Usable(g, e)
      BY <2>1, UsableHeld
    <3> QED
      BY <2>1, <3>1 DEF CorrectorInv, PassedAre, Passed, InPicture, AllWritten
  <2> QED
    BY <2>2, <2>3, <2>4, <2>5 DEF CorrectorInv
<1> QED
  BY <1>1, <1>2, <1>3, <1>4 DEF CorrectorNext

LEMMA CorrectorInvariant == CorrectorSpec => []CorrectorInv
BY CorrectorInitInv, CorrectorStepInv, PTL DEF CorrectorSpec

-----------------------------------------------------------------------------
(* The properties. *)

\* The corrector's state has its type: dropouts are overwritten inside the fields, with
\* samples of lines of the captures.
THEOREM CorrectorType == CorrectorSpec => []CorrectorTypeOK
<1>1. CorrectorInv => CorrectorTypeOK
  <2> SUFFICES ASSUME CorrectorInv PROVE CorrectorTypeOK
    OBVIOUS
  <2>1. phase \in {"listing", "done"} \cup Fields
    BY DEF CorrectorInv, ListsAre
  <2> QED
    BY <2>1 DEF CorrectorInv, WrittenAre, CountsAre, CorrectorTypeOK
<1> QED
  BY <1>1, CorrectorInvariant, PTL

\* No bad data is copied over bad data (correctDropOut): whatever the dropouts, their order
\* and the captures, a sample used in a repair is one its own capture lists no damage on.
THEOREM NoDamageIsCopied == CorrectorSpec => []NoDamageCopied
<1>1. CorrectorInv => NoDamageCopied
  <2> SUFFICES ASSUME CorrectorInv, NEW t \in DOMAIN written
               PROVE  /\ ~Damaged(written[t].luma, t[3])
                      /\ ~Damaged(written[t].chroma, t[3])
                      /\ \E i \in DOMAIN listed[t[1]][0] :
                           Covers(listed[t[1]][0][i], t[2], t[3])
    BY DEF NoDamageCopied
  <2>1. /\ InputsAre /\ ListsAre
        /\ t \in Fields \X (1 .. LineCount) \X Int
        /\ written[t] \in [luma : Places, chroma : Places]
        /\ Undamaged(written[t].luma, t[3]) /\ Undamaged(written[t].chroma, t[3])
    BY DEF CorrectorInv, WrittenAre
  <2>2. PICK i \in DOMAIN listed[t[1]][0] :
          /\ Covers(listed[t[1]][0][i], t[2], t[3])
          /\ Repaired(t[1], listed[t[1]][0][i], t[2], written[t])
    BY DEF CorrectorInv, WrittenAre
  <2>3. InColumns(t[3])
    <3>1. t[1] \in Fields /\ t[3] \in Int
      BY <2>1
    <3>2. listed[t[1]][0][i].line = t[2]
      BY <2>2 DEF Covers
    <3>3. Location(listed[t[1]][0][i]) \in {"colourBurst", "visibleLine"}
      BY <2>2 DEF Repaired
    <3> QED
      BY <2>1, <2>2, <3>1, <3>2, <3>3, ListedAre, ConstantsAre
  <2>4. listed = Lists
    BY <2>1 DEF ListsAre
  <2>5. ASSUME NEW c \in Places, Undamaged(c, t[3])
        PROVE  ~Damaged(c, t[3])
    <3>1. c.field \in Fields /\ c.source \in AvailableSources /\ c.line \in 1 .. LineCount
      BY DEF Places
    <3>2. ASSUME NEW k \in DOMAIN found[c.field][c.source],
                 Covers(found[c.field][c.source][k], c.line, t[3])
          PROVE  FALSE
      <4>1. found[c.field][c.source][k].line = c.line
        BY <3>2 DEF Covers
      <4>2. \E j \in DOMAIN listed[c.field][c.source] :
              Covers(listed[c.field][c.source][j], c.line, t[3])
        BY <2>1, <2>3, <2>4, <3>1, <3>2, <4>1, ListedAre DEF InColumns
      <4> QED
        BY <2>5, <4>2 DEF Undamaged
    <3> QED
      BY <3>2 DEF Damaged
  <2> QED
    BY <2>1, <2>2, <2>5
<1> QED
  BY <1>1, CorrectorInvariant, PTL

\* A repair takes its chroma from a line of the subcarrier phase, and of the V-switch state
\* or SECAM component, of the line it repairs, unless no such line is clean
\* (findReplacementLine with matchChromaPhase), in every system and between any two lines.
THEOREM ChromaKeepsPhase == CorrectorSpec => []ChromaInPhase
<1>1. CorrectorInv => ChromaInPhase
  <2> SUFFICES ASSUME CorrectorInv, NEW t \in DOMAIN written
               PROVE  \/ SamePhase(t[1], t[2], written[t].chroma)
                      \/ \E i \in DOMAIN listed[t[1]][0] :
                           LET d == listed[t[1]][0][i]
                           IN  /\ Covers(d, t[2], t[3])
                               /\ Location(d) = "visibleLine"
                               /\ Candidates(t[1], d, TRUE, FALSE) = {}
    BY DEF ChromaInPhase
  <2>1. PICK i \in DOMAIN listed[t[1]][0] :
          /\ Covers(listed[t[1]][0][i], t[2], t[3])
          /\ Repaired(t[1], listed[t[1]][0][i], t[2], written[t])
    BY DEF CorrectorInv, WrittenAre
  <2> QED
    BY <2>1 DEF Repaired, ChromaLines
<1> QED
  BY <1>1, CorrectorInvariant, PTL

\* When the correction ends, each dropout on a searched line of the picture that some clean
\* line could repair has been repaired, from the nearest of those lines
\* (findPotentialReplacementLine, findReplacementLine), unless another dropout covers the
\* same sample.
THEOREM NearestLineUsed == CorrectorSpec => []NearestCleanLineUsed
<1>1. CorrectorInv => NearestCleanLineUsed
  <2> SUFFICES ASSUME CorrectorInv, phase = "done",
                      NEW f \in Fields, NEW i \in DOMAIN listed[f][0],
                      InPicture(listed[f][0][i]), Usable(f, listed[f][0][i]) # {},
                      NEW x \in listed[f][0][i].startx .. listed[f][0][i].endx - 1
               PROVE  LET d == listed[f][0][i] IN
                      /\ <<f, d.line, x>> \in DOMAIN written
                      /\ \/ \A c \in Usable(f, d) :
                              Distance(f, d, written[<<f, d.line, x>>].luma) <= Distance(f, d, c)
                         \/ \E j \in DOMAIN listed[f][0] \ {i} : Covers(listed[f][0][j], d.line, x)
    BY DEF NearestCleanLineUsed, InPicture
  <2> DEFINE d == listed[f][0][i]
             t == <<f, d.line, x>>
  <2>1. t \in DOMAIN written
    BY DEF CorrectorInv, PassedAre, Passed, AllWritten
  <2>2. t[1] = f /\ t[2] = d.line /\ t[3] = x
    OBVIOUS
  <2>3. PICK j \in DOMAIN listed[f][0] :
          Covers(listed[f][0][j], d.line, x) /\ Repaired(f, listed[f][0][j], d.line, written[t])
    <3> HIDE DEF d, t
    <3> QED
      BY <2>1, <2>2 DEF CorrectorInv, WrittenAre
  <2>4. CASE j = i
    <3>1. NoNearer(f, d, written[t].luma)
      BY <2>3, <2>4 DEF Repaired
    <3> QED
      BY <2>1, <3>1 DEF NoNearer
  <2>5. CASE j # i
    BY <2>1, <2>3, <2>5
  <2> QED
    BY <2>4, <2>5
<1> QED
  BY <1>1, CorrectorInvariant, PTL

=============================================================================
