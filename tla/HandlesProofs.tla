---------------------------- MODULE HandlesProofs ----------------------------
(***************************************************************************)
(* Theorems about one video and its decoders: frames and fields, for every *)
(* capture, and decoders that share them, for any number of decoders and   *)
(* any orders they commit (SharedVideo); and opening and committing, for   *)
(* any directories, kinds, options and extra captures (DecoderLifecycle).  *)
(***************************************************************************)
EXTENDS SharedVideo, DecoderLifecycle, FieldNumberingProofs, TLAPS

-----------------------------------------------------------------------------
\* Types.

LEMMA InitTypeOK == Init => TypeOK
<1> SUFFICES ASSUME Init PROVE TypeOK
  OBVIOUS
<1>1. isFirst \in Seq(BOOLEAN) /\ Len(isFirst) \in Nat /\ opened \in BOOLEAN
  BY VideoAssumption DEF Init
<1>2. sourceFields \in Nat
  <2>1. PICK missing \in SourceFields : sourceFields = Len(isFirst) - missing
    BY DEF Init
  <2>2. missing \in Nat /\ sourceFields >= 0
    BY VideoAssumption DEF Init
  <2> QED
    BY <1>1, <2>1, <2>2
<1>3. Blank \in FieldPairs
  BY <1>1 DEF Blank, FieldPairs
<1> QED
  BY <1>1, <1>2, <1>3 DEF Init, TypeOK, NotTold

LEMMA OrdersFound ==
  ASSUME TypeOK, NEW d \in Decoders, NEW found \in SUBSET BOOLEAN,
         \/ orders' = [orders EXCEPT ![d] = found] \/ OrderSeen(d)
  PROVE  orders' \in [Decoders -> SUBSET BOOLEAN]
<1>1. orders \in [Decoders -> SUBSET BOOLEAN] /\ firstFieldFirst \in BOOLEAN
  BY DEF TypeOK
<1>2. orders[d] \cup {firstFieldFirst} \in SUBSET BOOLEAN
  BY <1>1
<1>3. orders' = [orders EXCEPT ![d] = found] \/ orders' = [orders EXCEPT ![d] = orders[d] \cup {firstFieldFirst}]
  BY DEF OrderSeen
<1> QED
  BY <1>1, <1>2, <1>3

LEMMA NextTypeOK == TypeOK /\ [Next]_vars => TypeOK'
<1> SUFFICES ASSUME TypeOK, [Next]_vars PROVE TypeOK'
  OBVIOUS
<1> USE DEF TypeOK
<1>1. FramesNow \in Int
  BY FrameCounts DEF FramesNow
<1>10. \A d \in Decoders : OrderSeen(d) => orders' \in [Decoders -> SUBSET BOOLEAN]
  <2>1. {} \in SUBSET BOOLEAN
    OBVIOUS
  <2> QED
    BY <2>1, OrdersFound
<1>2. CASE UNCHANGED vars
  BY <1>2 DEF vars, videoVars, callVars, resultVars, FieldPairs
<1>3. ASSUME NEW d \in Decoders, CommitFailsLate(d) PROVE TypeOK'
  BY <1>3, VideoAssumption DEF CommitFailsLate, videoVars, callVars, resultVars, FieldPairs
<1>4. ASSUME NEW d \in Decoders, Commit(d) PROVE TypeOK'
  BY <1>4, VideoAssumption DEF Commit, videoVars, callVars, resultVars, FieldPairs
<1>5. ASSUME NEW d \in Decoders, GetOutputInfo(d) PROVE TypeOK'
  BY <1>1, <1>5 DEF GetOutputInfo, videoVars, callVars, resultVars, FieldPairs
<1>6. ASSUME NEW d \in Decoders, StartFrame(d) PROVE TypeOK'
  <2>1. PICK f \in 1 .. MaxFrame :
          /\ frame' = [frame EXCEPT ![d] = f]
          /\ pc' = [pc EXCEPT ![d] = IF f <= FramesNow THEN "count" ELSE "idle"]
          /\ status' = [status EXCEPT ![d] = IF f <= FramesNow THEN "none" ELSE "outOfRange"]
    BY <1>6 DEF StartFrame
  <2>2. f \in Nat
    BY VideoAssumption
  <2>3. orders' \in [Decoders -> SUBSET BOOLEAN]
    <3>1. {firstFieldFirst} \in SUBSET BOOLEAN
      OBVIOUS
    <3> QED
      BY <1>6, <3>1, OrdersFound DEF StartFrame
  <2> QED
    BY <1>6, <2>1, <2>2, <2>3 DEF StartFrame, videoVars, FieldPairs
<1>7. ASSUME NEW d \in Decoders, ReadCount(d) PROVE TypeOK'
  BY <1>1, <1>10, <1>7 DEF ReadCount, videoVars, resultVars, FieldPairs
<1>8. ASSUME NEW d \in Decoders, ReadFirst(d) PROVE TypeOK'
  <2>1. NumbersNow(d).first \in Int
    BY NumbersArePairs DEF NumbersNow
  <2> QED
    BY <1>10, <1>8, <2>1 DEF ReadFirst, videoVars, resultVars, FieldPairs
<1>9. ASSUME NEW d \in Decoders, ReadSecond(d) PROVE TypeOK'
  <2>1. shown' \in [Decoders -> FieldPairs]
    BY <1>9, LoadedTypes DEF ReadSecond, FieldPairs
  <2>2. ChromaFields(frame[d]) \in FieldPairs
    <3>1. frame[d] \in Nat
      OBVIOUS
    <3>2. PICK a, b : FieldNumbers(isFirst, opened, frame[d]) = [first |-> a, second |-> b]
      BY <3>1, NumbersArePairs
    <3> QED
      BY <3>2, LoadedTypes DEF ChromaFields, FieldPairs
  <2>3. Blank \in FieldPairs
    BY DEF Blank, FieldPairs
  <2>4. shownChroma' \in [Decoders -> FieldPairs] /\ status' \in [Decoders -> {"none", "ok", "outOfRange"}]
    BY <1>9, <2>2, <2>3 DEF ReadSecond
  <2>5. UNCHANGED <<isFirst, sourceFields, opened, firstFieldFirst, phase, frame, told>> /\ FieldPairs' = FieldPairs
    BY <1>9 DEF ReadSecond, videoVars, FieldPairs
  <2>6. pc' \in [Decoders -> {"idle", "count", "first", "second"}]
        /\ count' \in [Decoders -> Int] /\ first' \in [Decoders -> Int]
    BY <1>9 DEF ReadSecond
  <2>7. orders' \in [Decoders -> SUBSET BOOLEAN]
    BY <1>10, <1>9 DEF ReadSecond
  <2> QED
    BY <2>1, <2>4, <2>5, <2>6, <2>7
<1> QED
  BY <1>2, <1>3, <1>4, <1>5, <1>6, <1>7, <1>8, <1>9 DEF Next

\* Every field number, frame count and result keeps its type, whatever the capture and
\* however the calls of the decoders interleave (core.cpp, source_field.cpp).
THEOREM TypeCorrect == Spec => []TypeOK
BY InitTypeOK, NextTypeOK, PTL DEF Spec

-----------------------------------------------------------------------------
\* The frames of a capture.

LEMMA Tile == TypeOK => AlternatingFramesTile
<1> SUFFICES ASSUME TypeOK, Alternating(isFirst), NEW f \in 1 .. FramesNow, NEW g \in 1 .. FramesNow
             PROVE  LET p == FieldNumbers(isFirst, firstFieldFirst, f)
                        q == FieldNumbers(isFirst, firstFieldFirst, g)
                    IN  /\ p # NoFields
                        /\ f # g => {p.first, p.second} \cap {q.first, q.second} = {}
  BY DEF AlternatingFramesTile
<1> DEFINE order == firstFieldFirst
           skipped == IF IsFirstField(isFirst, 1) = order THEN 0 ELSE 1
           At(k) == SearchStart(order, k) + skipped
           p == FieldNumbers(isFirst, order, f)
           q == FieldNumbers(isFirst, order, g)
<1>1. isFirst \in Seq(BOOLEAN) /\ order \in BOOLEAN /\ FramesNow = NumberOfFrames(isFirst, order)
  BY DEF TypeOK, FramesNow
<1>2. /\ p = [first |-> At(f), second |-> At(f) + ToSecond(order)]
      /\ q = [first |-> At(g), second |-> At(g) + ToSecond(order)]
  BY <1>1, AlternatingPairs
<1>3. FramesNow \in Int /\ f \in Nat \ {0} /\ g \in Nat \ {0} /\ skipped \in {0, 1}
  BY <1>1, FrameCounts
<1>4. /\ At(f) \in Nat \ {0}
      /\ {At(f), At(f) + ToSecond(order)} = {2 * f - 1 + skipped, 2 * f + skipped}
      /\ {At(g), At(g) + ToSecond(order)} = {2 * g - 1 + skipped, 2 * g + skipped}
  BY <1>3, <1>1 DEF SearchStart, ToSecond
<1>5. p.first \in Nat
  BY <1>2, <1>4
<1>6. p # NoFields
  BY <1>5 DEF NoFields
<1>7. f # g => {2 * f - 1 + skipped, 2 * f + skipped} \cap {2 * g - 1 + skipped, 2 * g + skipped} = {}
  BY <1>3
<1> QED
  BY <1>2, <1>4, <1>6, <1>7

LEMMA Onward == TypeOK => FramesNeverGoBack
<1> SUFFICES ASSUME TypeOK, NEW f \in 1 .. FramesNow - 1
             PROVE  LET p == FieldNumbers(isFirst, firstFieldFirst, f)
                        q == FieldNumbers(isFirst, firstFieldFirst, f + 1)
                    IN  q = NoFields \/ (p # NoFields /\ p.first <= q.first)
  BY DEF FramesNeverGoBack
<1> DEFINE order == firstFieldFirst
           n == Found(isFirst, order, f)
           m == Found(isFirst, order, f + 1)
<1>1. isFirst \in Seq(BOOLEAN) /\ order \in BOOLEAN /\ Len(isFirst) \in Nat /\ FramesNow \in Int
  BY FrameCounts DEF TypeOK, FramesNow
<1>2. f \in Nat \ {0} /\ f + 1 \in Nat \ {0}
  BY <1>1
<1>3. n \in Nat /\ m \in Nat /\ n <= m
  BY <1>1, <1>2, SearchEnds, SearchAdvances
<1>4. InFile(isFirst, order, m) => InFile(isFirst, order, n)
  <2> HIDE DEF n, m
  <2> QED
    BY <1>1, <1>3 DEF InFile, ToSecond
<1>5. /\ IF InFile(isFirst, order, n)
           THEN /\ FieldNumbers(isFirst, order, f) = [first |-> n, second |-> n + ToSecond(order)]
                /\ FieldNumbers(isFirst, order, f) # NoFields
           ELSE FieldNumbers(isFirst, order, f) = NoFields
      /\ IF InFile(isFirst, order, m)
           THEN FieldNumbers(isFirst, order, f + 1) = [first |-> m, second |-> m + ToSecond(order)]
           ELSE FieldNumbers(isFirst, order, f + 1) = NoFields
  BY <1>1, <1>2, FrameShape
<1> HIDE DEF n, m
<1> QED
  BY <1>3, <1>4, <1>5

\* The frames getFieldNumber() makes of any capture never go back, and when the fields
\* alternate they tile it: none of the frames getNumberOfFrames() counts is empty and no
\* two share a field.
THEOREM Following == Spec => []FramesFollow
<1>1. TypeOK => FramesFollow
  BY Tile, Onward DEF FramesFollow
<1> QED
  BY <1>1, TypeCorrect, PTL

-----------------------------------------------------------------------------
\* Decoders that commit any orders.

\* The fields of frame[d] when the frame count, the first field and the second one are
\* those of three orders.
Read(d, forCount, forFirst, forSecond) ==
  LoadedFields(isFirst, sourceFields, NumberOfFrames(isFirst, forCount), frame[d],
               [first |-> FieldNumbers(isFirst, forFirst, frame[d]).first,
                second |-> FieldNumbers(isFirst, forSecond, frame[d]).second])

\* What a call has read so far is the frame count, and the first field, of orders it found.
ReadsAreOfOrders ==
  \A d \in Decoders :
    /\ pc[d] # "idle" => status[d] = "none"
    /\ pc[d] \in {"first", "second"} =>
         \E order \in orders[d] : count[d] = NumberOfFrames(isFirst, order)
    /\ pc[d] = "second" =>
         \E order \in orders[d] : first[d] = FieldNumbers(isFirst, order, frame[d]).first

\* What a call has returned is a frame of orders it found.
ShownIsOfOrders ==
  \A d \in Decoders : status[d] = "ok" =>
    \E forCount, forFirst, forSecond \in orders[d] :
      shown[d] = Read(d, forCount, forFirst, forSecond)

IInv == TypeOK /\ ReadsAreOfOrders /\ ShownIsOfOrders

LEMMA InitIInv == Init => IInv
<1> SUFFICES ASSUME Init PROVE IInv
  OBVIOUS
<1>1. ReadsAreOfOrders /\ ShownIsOfOrders
  BY DEF Init, ReadsAreOfOrders, ShownIsOfOrders
<1> QED
  BY <1>1, InitTypeOK DEF IInv

\* What is said of a decoder, for a step that leaves it alone.
LEMMA OthersKeep ==
  ASSUME ReadsAreOfOrders, ShownIsOfOrders, NEW d \in Decoders,
         UNCHANGED <<isFirst, sourceFields>>,
         pc'[d] = pc[d], frame'[d] = frame[d], count'[d] = count[d], first'[d] = first[d],
         orders'[d] = orders[d], shown'[d] = shown[d], status'[d] = status[d]
  PROVE  /\ pc'[d] # "idle" => status'[d] = "none"
         /\ pc'[d] \in {"first", "second"} =>
              \E order \in orders'[d] : count'[d] = NumberOfFrames(isFirst', order)
         /\ pc'[d] = "second" =>
              \E order \in orders'[d] : first'[d] = FieldNumbers(isFirst', order, frame'[d]).first
         /\ status'[d] = "ok" =>
              \E forCount, forFirst, forSecond \in orders'[d] :
                shown'[d] = Read(d, forCount, forFirst, forSecond)'
<1>1. \A a, b, c : Read(d, a, b, c)' = Read(d, a, b, c)
  BY DEF Read
<1> QED
  BY <1>1 DEF ReadsAreOfOrders, ShownIsOfOrders

LEMMA StepIInv ==
  ASSUME IInv, TypeOK', NEW d \in Decoders,
         \/ CommitFailsLate(d) \/ Commit(d) \/ GetOutputInfo(d)
         \/ StartFrame(d) \/ ReadCount(d) \/ ReadFirst(d) \/ ReadSecond(d)
  PROVE  IInv'
<1> USE DEF IInv
<1>1. UNCHANGED <<isFirst, sourceFields>> /\ firstFieldFirst \in BOOLEAN
  BY DEF CommitFailsLate, Commit, GetOutputInfo, StartFrame, ReadCount, ReadFirst, ReadSecond,
         videoVars, TypeOK
<1>2. ASSUME UNCHANGED <<pc, callVars, resultVars>>
      PROVE  IInv'
  BY <1>1, <1>2, OthersKeep DEF ReadsAreOfOrders, ShownIsOfOrders, callVars, resultVars
<1>3. ASSUME NEW e \in Decoders, e # d,
             StartFrame(d) \/ ReadCount(d) \/ ReadFirst(d) \/ ReadSecond(d)
      PROVE  /\ pc'[e] = pc[e] /\ frame'[e] = frame[e] /\ count'[e] = count[e]
             /\ first'[e] = first[e] /\ orders'[e] = orders[e]
             /\ shown'[e] = shown[e] /\ status'[e] = status[e]
  <2>1. ReadCount(d) \/ ReadFirst(d) \/ ReadSecond(d) =>
          orders' = [orders EXCEPT ![d] = orders[d] \cup {firstFieldFirst}] /\ frame' = frame
    BY DEF ReadCount, ReadFirst, ReadSecond, OrderSeen
  <2>2. CASE StartFrame(d)
    BY <1>3, <2>2 DEF StartFrame, TypeOK
  <2>3. CASE ReadCount(d)
    BY <1>3, <2>1, <2>3 DEF ReadCount, resultVars, TypeOK
  <2>4. CASE ReadFirst(d)
    BY <1>3, <2>1, <2>4 DEF ReadFirst, resultVars, TypeOK
  <2>5. CASE ReadSecond(d)
    BY <1>3, <2>1, <2>5 DEF ReadSecond, TypeOK
  <2> QED
    BY <1>3, <2>2, <2>3, <2>4, <2>5
<1>4. ASSUME StartFrame(d) \/ ReadCount(d) \/ ReadFirst(d) \/ ReadSecond(d),
             pc'[d] # "idle" => status'[d] = "none",
             pc'[d] \in {"first", "second"} =>
               \E order \in orders'[d] : count'[d] = NumberOfFrames(isFirst, order),
             pc'[d] = "second" =>
               \E order \in orders'[d] : first'[d] = FieldNumbers(isFirst, order, frame'[d]).first,
             status'[d] = "ok" =>
               \E forCount, forFirst, forSecond \in orders'[d] :
                 shown'[d] = Read(d, forCount, forFirst, forSecond)'
      PROVE  IInv'
  <2>1. ReadsAreOfOrders'
    BY <1>1, <1>3, <1>4, OthersKeep DEF ReadsAreOfOrders
  <2>2. ShownIsOfOrders'
    BY <1>1, <1>3, <1>4, OthersKeep DEF ShownIsOfOrders
  <2> QED
    BY <2>1, <2>2
<1>5. CASE CommitFailsLate(d) \/ Commit(d) \/ GetOutputInfo(d)
  BY <1>2, <1>5 DEF CommitFailsLate, Commit, GetOutputInfo
<1>6. CASE StartFrame(d)
  <2>1. /\ status'[d] # "ok" /\ pc'[d] \in {"count", "idle"}
        /\ pc'[d] # "idle" => status'[d] = "none"
    BY <1>6 DEF StartFrame, TypeOK
  <2> QED
    BY <1>4, <1>6, <2>1
<1>7. CASE ReadCount(d)
  <2>1. /\ pc'[d] = "first" /\ status'[d] = "none"
        /\ count'[d] = NumberOfFrames(isFirst, firstFieldFirst)
        /\ firstFieldFirst \in orders'[d]
    BY <1>7 DEF ReadCount, OrderSeen, FramesNow, ReadsAreOfOrders, resultVars, TypeOK
  <2> QED
    BY <1>4, <1>7, <2>1
<1>8. CASE ReadFirst(d)
  <2>1. /\ pc[d] = "first" /\ pc'[d] = "second" /\ status'[d] = "none"
        /\ frame' = frame /\ count' = count
        /\ first'[d] = FieldNumbers(isFirst, firstFieldFirst, frame[d]).first
        /\ firstFieldFirst \in orders'[d] /\ orders[d] \subseteq orders'[d]
    BY <1>8 DEF ReadFirst, OrderSeen, NumbersNow, ReadsAreOfOrders, resultVars, TypeOK
  <2>2. \E order \in orders'[d] : count'[d] = NumberOfFrames(isFirst, order)
    BY <2>1 DEF ReadsAreOfOrders
  <2> QED
    BY <1>4, <1>8, <2>1, <2>2
<1>9. CASE ReadSecond(d)
  <2>1. /\ pc[d] = "second" /\ pc'[d] = "idle" /\ frame' = frame
        /\ firstFieldFirst \in orders'[d] /\ orders[d] \subseteq orders'[d]
        /\ shown'[d] = LoadedFields(isFirst, sourceFields, count[d], frame[d],
                         [first |-> first[d],
                          second |-> FieldNumbers(isFirst, firstFieldFirst, frame[d]).second])
    BY <1>9 DEF ReadSecond, OrderSeen, NumbersNow, TypeOK
  <2>2. PICK a \in orders[d], b \in orders[d] :
          /\ count[d] = NumberOfFrames(isFirst, a)
          /\ first[d] = FieldNumbers(isFirst, b, frame[d]).first
    BY <2>1 DEF ReadsAreOfOrders
  <2>3. PICK c \in BOOLEAN : c = firstFieldFirst
    BY <1>1
  <2>4. shown'[d] = Read(d, a, b, c)
    BY <2>1, <2>2, <2>3 DEF Read
  <2>5. Read(d, a, b, c)' = Read(d, a, b, c)
    BY <1>1, <2>1 DEF Read
  <2> QED
    BY <1>4, <1>9, <2>1, <2>2, <2>3, <2>4, <2>5
<1> QED
  BY <1>5, <1>6, <1>7, <1>8, <1>9

LEMMA NextIInv == IInv /\ [Next]_vars => IInv'
<1> SUFFICES ASSUME IInv, [Next]_vars PROVE IInv'
  OBVIOUS
<1>1. TypeOK'
  BY NextTypeOK DEF IInv
<1>2. CASE Next
  BY <1>1, <1>2, StepIInv DEF Next
<1>3. CASE UNCHANGED vars
  BY <1>1, <1>3, OthersKeep
     DEF IInv, ReadsAreOfOrders, ShownIsOfOrders, vars, videoVars, callVars, resultVars
<1> QED
  BY <1>2, <1>3

\* A frame of any three orders that is not blank is made of fields the sample file has, the
\* one called first is a first field, and the two are neighbours when the orders of the fields
\* are one, or the capture alternates.
LEMMA PairRead ==
  ASSUME TypeOK, NEW d \in Decoders,
         NEW a \in BOOLEAN, NEW b \in BOOLEAN, NEW c \in BOOLEAN, Read(d, a, b, c) # Blank
  PROVE  LET p == Read(d, a, b, c)
         IN  /\ {p.first, p.second} \subseteq 1 .. sourceFields
             /\ IsFirstField(isFirst, p.first)
             /\ Alternating(isFirst) \/ b = c => p.second - p.first \in {-1, 1}
<1> DEFINE p == Read(d, a, b, c)
           f == frame[d]
           n == Found(isFirst, b, f)
<1>1. /\ isFirst \in Seq(BOOLEAN) /\ sourceFields \in Nat /\ f \in Nat
      /\ NumberOfFrames(isFirst, a) \in Int /\ Len(isFirst) \in Nat
  BY FrameCounts DEF TypeOK
<1>2. /\ p.first = FieldNumbers(isFirst, b, f).first
      /\ p.second = FieldNumbers(isFirst, c, f).second
      /\ f \in 1 .. NumberOfFrames(isFirst, a)
      /\ p.first \in 1 .. Len(isFirst) /\ p.second \in 1 .. Len(isFirst)
      /\ p.first <= sourceFields /\ p.second <= sourceFields
  BY <1>1 DEF Read, LoadedFields
<1>3. f \in Nat \ {0} /\ p.first \in Nat \ {0} /\ p.second \in Nat \ {0}
  BY <1>1, <1>2
<1>4. FieldNumbers(isFirst, b, f) # NoFields /\ FieldNumbers(isFirst, c, f) # NoFields
  BY <1>2, <1>3 DEF NoFields
<1>5. /\ FieldNumbers(isFirst, b, f) = [first |-> n, second |-> n + ToSecond(b)]
      /\ IsFirstField(isFirst, n) /\ n \in Nat
  BY <1>1, <1>3, <1>4, FrameShape, SearchEnds
<1>6. IsFirstField(isFirst, p.first)
  BY <1>2, <1>5
<1>7. b = c => p.second - p.first \in {-1, 1}
  <2>1. b = c => p.first = n /\ p.second = n + ToSecond(b)
    BY <1>2, <1>5
  <2> HIDE DEF p, n
  <2> QED
    BY <1>5, <2>1 DEF ToSecond
<1>8. Alternating(isFirst) => p.second - p.first \in {-1, 1}
  BY <1>1, <1>2, <1>3, <1>4, TornPairs
<1>9. {p.first, p.second} \subseteq 1 .. sourceFields
  BY <1>1, <1>2, <1>3
<1> QED
  BY <1>6, <1>7, <1>8, <1>9

LEMMA PairShown == IInv => ShownIsOneInterlacedPair
<1> SUFFICES ASSUME IInv, NEW d \in Decoders, status[d] = "ok"
             PROVE  /\ \A order \in BOOLEAN : orders[d] = {order} => shown[d] = FrameOf(order, d)
                    /\ shown[d] # Blank =>
                         /\ {shown[d].first, shown[d].second} \subseteq 1 .. sourceFields
                         /\ IsFirstField(isFirst, shown[d].first)
                         /\ Alternating(isFirst) \/ orders[d] # BOOLEAN =>
                              shown[d].second - shown[d].first \in {-1, 1}
  BY DEF ShownIsOneInterlacedPair
<1>1. PICK a \in orders[d], b \in orders[d], c \in orders[d] : shown[d] = Read(d, a, b, c)
  BY DEF IInv, ShownIsOfOrders
<1>2. TypeOK /\ a \in BOOLEAN /\ b \in BOOLEAN /\ c \in BOOLEAN
      /\ isFirst \in Seq(BOOLEAN) /\ frame[d] \in Nat
  BY DEF IInv, TypeOK
<1>3. ASSUME NEW order \in BOOLEAN, orders[d] = {order}
      PROVE  shown[d] = FrameOf(order, d)
  <2>1. a = order /\ b = order /\ c = order
    BY <1>3
  <2> DEFINE q == FieldNumbers(isFirst, order, frame[d])
  <2>2. q = [first |-> q.first, second |-> q.second]
    BY <1>2, NumbersArePairs
  <2> QED
    BY <1>1, <2>1, <2>2 DEF Read, FrameOf
<1>4. orders[d] # BOOLEAN => b = c
  <2>1. orders[d] \subseteq BOOLEAN
    BY <1>2 DEF TypeOK
  <2>2. CASE b = c
    BY <2>2
  <2>3. CASE b = TRUE /\ c = FALSE
    BY <1>1, <2>1, <2>3
  <2>4. CASE b = FALSE /\ c = TRUE
    BY <1>1, <2>1, <2>4
  <2>5. b = c \/ (b = TRUE /\ c = FALSE) \/ (b = FALSE /\ c = TRUE)
    BY <1>2
  <2> QED
    BY <2>2, <2>3, <2>4, <2>5
<1> QED
  BY <1>1, <1>2, <1>3, <1>4, PairRead

\* Whatever orders the decoders of a video commit, and wherever a commit falls between the
\* reads of another's decode (source_field.cpp, core.cpp): a decode whose reads find one order
\* shows the frame of that order, and any frame shown is in the sample file and begins with a
\* first field, with its neighbour beside it unless the reads found two orders in a capture
\* whose fields do not alternate.
THEOREM InterlacedPair == Spec => []ShownIsOneInterlacedPair
<1>1. Spec => []IInv
  BY InitIInv, NextIInv, PTL DEF Spec
<1> QED
  BY <1>1, PairShown, PTL

-----------------------------------------------------------------------------
(* Opening. *)

\* The raster of a system tells its line standard.
Rasters == {Raster(s) : s \in System}
HasRaster(system, raster) == Is625Line(system) <=> raster = Raster("PAL")

LEMMA RasterOfSystem ==
  ASSUME NEW system \in System
  PROVE  Raster(system) \in Rasters /\ HasRaster(system, Raster(system))
<1>1. <<910, 263>> # <<1135, 313>> /\ <<909, 263>> # <<1135, 313>>
  OBVIOUS
<1> QED
  BY <1>1 DEF System, Rasters, Raster, HasRaster, Is625Line

\* A plane whose source and metadata name one system, with a raster of its line standard.
AgreedPlane == {p \in Plane : p.source = p.metadata /\ HasRaster(p.source, p.raster)}

\* Planes before their standard is declared.
RawPlane == [source : System \cup {"none"}, metadata : System \cup {"none"},
             raster : Rasters, frames : Nat, synthesized : BOOLEAN]

LEMMA PlaneFields ==
  ASSUME NEW system \in System, NEW raster \in Rasters, HasRaster(system, raster),
         NEW frames \in Nat, NEW synthesized \in BOOLEAN
  PROVE  [source |-> system, metadata |-> system, raster |-> raster, frames |-> frames,
          synthesized |-> synthesized] \in AgreedPlane
BY DEF AgreedPlane, Plane, Rasters

LEMMA Redeclared ==
  ASSUME NEW p \in RawPlane, NEW system \in System, HasRaster(system, p.raster)
  PROVE  Redeclare(p, system) \in AgreedPlane
<1>1. /\ Redeclare(p, system) \in Plane
      /\ Redeclare(p, system).source = system
      /\ Redeclare(p, system).metadata = system
      /\ Redeclare(p, system).raster = p.raster
  BY DEF Redeclare, RawPlane, Plane, Rasters
<1> QED
  BY <1>1 DEF AgreedPlane

LEMMA NoPlaneIsNone ==
  /\ NoPlane \notin Plane
  /\ NoPlane.source = NoPlane.metadata
BY DEF NoPlane, Plane, System

LEMMA Sidecars ==
  ASSUME NEW s \in Sidecar
  PROVE  s.system \in System /\ s.frames \in Nat /\ s.readable \in BOOLEAN
BY DEF Sidecar

LEMMA Overrides ==
  ASSUME NEW override \in Override
  PROVE  override.standard \in System \cup {"UNKNOWN"}
<1>1. CASE override = NoOverride
  BY <1>1 DEF NoOverride
<1>2. CASE override \in [given : {TRUE}, standard : System \cup {"UNKNOWN"}, complete : BOOLEAN]
  BY <1>2
<1> QED
  BY <1>1, <1>2 DEF Override

LEMMA ResolvedFields ==
  ASSUME NEW explicit \in BOOLEAN, NEW found \in BOOLEAN, NEW isCvbs \in BOOLEAN, NEW sidecar
  PROVE  LET sc == [explicit |-> explicit, found |-> found, isCvbs |-> isCvbs,
                    sidecar |-> sidecar]
         IN  sc.found = found /\ sc.isCvbs = isCvbs /\ sc.sidecar = sidecar
OBVIOUS

\* What the sidecar search returns.
LEMMA ResolvedSidecar ==
  ASSUME NEW dir \in Directories, NEW path \in {"auto"} \cup SidecarName
  PROVE  LET sc == Resolve(dir, path)
         IN  /\ sc.sidecar \in Sidecar \cup {Absent}
             /\ sc.found <=> sc.sidecar # Absent
             /\ sc.isCvbs => sc.sidecar = dir["meta"]
             /\ dir["meta"] \in Sidecar \cup {Absent}
<1>1. \A n \in SidecarName : dir[n] \in Sidecar \cup {Absent}
  BY DirectoriesAssumption
<1>2. {"db", "json", "meta"} = SidecarName
  BY DEF SidecarName
<1> DEFINE name == IF path # "auto" THEN path
                   ELSE IF dir.db # Absent THEN "db"
                   ELSE IF dir.json # Absent THEN "json" ELSE "meta"
<1>3. name \in SidecarName
  BY <1>2
<1>4. Resolve(dir, path) = [explicit |-> path # "auto", found |-> dir[name] # Absent,
                            isCvbs |-> name = "meta", sidecar |-> dir[name]]
  BY DEF Resolve
<1> HIDE DEF name
<1>5. /\ Resolve(dir, path).sidecar = dir[name]
      /\ Resolve(dir, path).found = (dir[name] # Absent)
      /\ Resolve(dir, path).isCvbs = (name = "meta")
  BY <1>4, ResolvedFields
<1> QED
  BY <1>1, <1>2, <1>3, <1>5

\* An ld-decode sidecar that was found gives an agreeing plane, or none.
LEMMA OpenedLd ==
  ASSUME NEW s \in Sidecar, NEW override \in Override
  PROVE  OpenLd(s, override) \in AgreedPlane \cup {NoPlane}
<1> DEFINE system == IF override.standard = "UNKNOWN" THEN s.system ELSE override.standard
           raw == [NoPlane EXCEPT !.raster = Raster(s.system), !.frames = s.frames]
<1>1. system \in System
  BY Sidecars, Overrides
<1>2. raw \in RawPlane /\ raw.raster = Raster(s.system) /\ HasRaster(s.system, Raster(s.system))
  BY Sidecars, RasterOfSystem DEF NoPlane, RawPlane
<1>3. \/ OpenLd(s, override) = NoPlane
      \/ /\ OpenLd(s, override) = Redeclare(raw, system)
         /\ Is625Line(system) = Is625Line(s.system)
  BY DEF OpenLd
<1> HIDE DEF system, raw
<1>4. Is625Line(system) = Is625Line(s.system) => HasRaster(system, raw.raster)
  BY <1>2 DEF HasRaster
<1> QED
  BY <1>1, <1>2, <1>3, <1>4, Redeclared

LEMMA OpenedCvbs ==
  ASSUME NEW s \in Sidecar \cup {Absent}, NEW override \in Override
  PROVE  OpenCvbs(s, override) \in AgreedPlane \cup {NoPlane}
<1> DEFINE preset == CvbsPreset(s, override)
           n == IF s = Absent THEN 1 ELSE s.frames
           described == [source |-> preset, metadata |-> preset, raster |-> Raster(preset),
                         frames |-> n, synthesized |-> TRUE]
<1>1. preset \in System \cup {"none"}
  <2>1. s # Absent => s.system \in System
    BY Sidecars
  <2> QED
    BY <2>1, Overrides DEF CvbsPreset, System
<1>2. n \in Nat
  BY Sidecars
<1>3. /\ preset = "none" => OpenCvbs(s, override) = NoPlane
      /\ OpenCvbs(s, override) \in {NoPlane, described, Redeclare(described, "SECAM")}
  BY DEF OpenCvbs
<1>4. preset # "none" /\ override.standard = "SECAM" => preset = "PAL"
  BY DEF CvbsPreset
<1>5. override.standard # "SECAM" => OpenCvbs(s, override) \in {NoPlane, described}
  BY DEF OpenCvbs
<1> HIDE DEF preset, n
<1>6. preset # "none" => /\ described \in AgreedPlane /\ described \in RawPlane
                         /\ described.raster = Raster(preset)
  BY <1>1, <1>2, RasterOfSystem, PlaneFields DEF RawPlane
<1> HIDE DEF described
<1>7. HasRaster("SECAM", Raster("PAL")) /\ "SECAM" \in System
  BY DEF HasRaster, Is625Line, System
<1>8. preset = "PAL" => Redeclare(described, "SECAM") \in AgreedPlane
  BY <1>6, <1>7, Redeclared
<1> QED
  BY <1>3, <1>4, <1>5, <1>6, <1>8

\* Whichever sidecar an open call takes, its plane agrees with itself.
LEMMA OpenedSource ==
  ASSUME NEW dir \in Directories, NEW path \in {"auto"} \cup SidecarName,
         NEW override \in Override
  PROVE  OpenSource(Resolve(dir, path), override) \in AgreedPlane \cup {NoPlane}
BY ResolvedSidecar, OpenedLd, OpenedCvbs DEF OpenSource

LEMMA OpenedChroma ==
  ASSUME NEW dir \in Directories, NEW path \in {"auto"} \cup SidecarName,
         NEW chromaDir \in Directories, NEW override \in Override
  PROVE  OpenSource(ChromaSidecar(Resolve(dir, path), chromaDir), override)
           \in AgreedPlane \cup {NoPlane}
BY OpenedSource DEF ChromaSidecar

LEMMA OpenedSingle ==
  ASSUME NEW dir \in Directories, NEW path \in {"auto"} \cup SidecarName,
         NEW override \in Override
  PROVE  LET sc == Resolve(dir, path)
         IN  OpenCvbs(IF sc.found THEN sc.sidecar ELSE dir.meta, override)
               \in AgreedPlane \cup {NoPlane}
BY ResolvedSidecar, OpenedCvbs

\* Two agreeing planes of one raster are of one line standard.
LEMMA SameRasterSources ==
  ASSUME NEW p \in AgreedPlane, NEW q \in AgreedPlane, SameRaster(p, q)
  PROVE  Is625Line(p.source) <=> Is625Line(q.source)
BY DEF AgreedPlane, SameRaster, HasRaster

-----------------------------------------------------------------------------
(* The video. *)

AgreedVideo == [luma : AgreedPlane \cup {NoPlane}, chroma : AgreedPlane \cup {NoPlane},
                extras : Seq(AgreedPlane), chromaExtras : Seq(AgreedPlane)]

\* The planes of a pair have one line standard, whatever sidecars and override they were
\* opened with.
OneLineStandard ==
  YcMerge => (Is625Line(video.luma.source) <=> Is625Line(video.chroma.source))

\* What is true of an open video, and survives every call that changes it.
VideoInv ==
  /\ video \in AgreedVideo
  /\ IsOpen => video.luma \in AgreedPlane
  /\ OneLineStandard

LEMMA NoVideoIsEmpty ==
  NoVideo \in AgreedVideo /\ NoVideo.chroma = NoPlane
<1>1. <<>> \in Seq(AgreedPlane)
  OBVIOUS
<1> QED
  BY <1>1 DEF NoVideo, AgreedVideo

LEMMA AgreedPlanesArePlanes ==
  Seq(AgreedPlane) \subseteq Seq(Plane)
<1>1. AgreedPlane \subseteq Plane
  BY DEF AgreedPlane
<1> QED
  BY <1>1

LEMMA VideoInvImplies ==
  ASSUME VideoInv
  PROVE  video \in Video /\ SourceAndMetadataAgree
<1>1. /\ video.luma \in AgreedPlane \cup {NoPlane}
      /\ video.chroma \in AgreedPlane \cup {NoPlane}
      /\ video.extras \in Seq(AgreedPlane)
      /\ video.chromaExtras \in Seq(AgreedPlane)
  BY DEF VideoInv, AgreedVideo
<1>2. Planes \subseteq AgreedPlane \cup {NoPlane}
  <2>1. \A i \in 1 .. Len(video.extras) : video.extras[i] \in AgreedPlane
    BY <1>1
  <2>2. \A i \in 1 .. Len(video.chromaExtras) : video.chromaExtras[i] \in AgreedPlane
    BY <1>1
  <2> QED
    BY <1>1, <2>1, <2>2 DEF Planes
<1>3. SourceAndMetadataAgree
  <2>1. \A p \in AgreedPlane : p.source = p.metadata
    BY DEF AgreedPlane
  <2> QED
    BY <1>2, <2>1, NoPlaneIsNone DEF SourceAndMetadataAgree
<1>4. AgreedPlane \subseteq Plane
  BY DEF AgreedPlane
<1>5. video \in Video
  <2>1. video \in AgreedVideo
    BY DEF VideoInv
  <2>2. AgreedVideo \subseteq Video
    BY <1>4, AgreedPlanesArePlanes DEF AgreedVideo, Video
  <2> QED
    BY <2>1, <2>2
<1> QED
  BY <1>3, <1>5

LEMMA OpenKeepsVideoInv ==
  ASSUME Open
  PROVE  VideoInv'
<1>1. PICK dir \in Directories, path \in {"auto"} \cup SidecarName, override \in Override :
        \/ OpenComposite(dir, path, override)
        \/ OpenYcSingle(dir, path, override)
        \/ \E chromaDir \in Directories : OpenYcMerge(dir, path, chromaDir, override)
  BY DEF Open
<1>2. ASSUME NEW p \in AgreedPlane, video' = [NoVideo EXCEPT !.luma = p]
      PROVE  VideoInv'
  <2>1. video' \in AgreedVideo /\ (video').luma = p /\ (video').chroma = NoPlane
    BY <1>2, NoVideoIsEmpty DEF AgreedVideo
  <2> QED
    BY <2>1 DEF VideoInv, OneLineStandard, YcMerge
<1>3. CASE OpenComposite(dir, path, override)
  BY <1>2, <1>3, OpenedSource DEF OpenComposite
<1>4. CASE OpenYcSingle(dir, path, override)
  BY <1>2, <1>4, OpenedSingle DEF OpenYcSingle
<1>5. ASSUME NEW chromaDir \in Directories, OpenYcMerge(dir, path, chromaDir, override)
      PROVE  VideoInv'
  <2> DEFINE luma == OpenSource(Resolve(dir, path), override)
             chroma == OpenSource(ChromaSidecar(Resolve(dir, path), chromaDir), override)
  <2>1. /\ luma # NoPlane /\ chroma # NoPlane
        /\ SameRaster(luma, chroma)
        /\ luma.frames = chroma.frames
        /\ video' = [NoVideo EXCEPT !.luma = luma, !.chroma = chroma]
    BY <1>5 DEF OpenYcMerge
  <2>2. luma \in AgreedPlane /\ chroma \in AgreedPlane
    BY <2>1, OpenedSource, OpenedChroma
  <2> HIDE DEF luma, chroma
  <2>3. video' \in AgreedVideo /\ (video').luma = luma /\ (video').chroma = chroma
    BY <2>1, <2>2, NoVideoIsEmpty DEF AgreedVideo
  <2>4. Is625Line(luma.source) <=> Is625Line(chroma.source)
    BY <2>1, <2>2, SameRasterSources
  <2> QED
    BY <2>1, <2>2, <2>3, <2>4 DEF VideoInv, OneLineStandard
<1> QED
  BY <1>1, <1>3, <1>4, <1>5

LEMMA AppendedPlanes ==
  ASSUME NEW extras \in Seq(AgreedPlane), NEW p \in AgreedPlane \cup {NoPlane}
  PROVE  /\ Appended(extras, p) \in Seq(AgreedPlane)
         /\ p # NoPlane => Append(extras, p) \in Seq(AgreedPlane)
BY DEF Appended

LEMMA AddExtraKeepsVideoInv ==
  ASSUME VideoInv, AddExtra
  PROVE  VideoInv'
<1>1. video \in AgreedVideo /\ video.luma \in AgreedPlane /\ OneLineStandard
  BY DEF VideoInv, AddExtra, MayAddExtra
<1>2. ASSUME NEW s \in Seq(AgreedPlane), NEW c \in Seq(AgreedPlane),
             video' = [video EXCEPT !.extras = s, !.chromaExtras = c]
      PROVE  VideoInv'
  <2>1. /\ video' \in AgreedVideo
        /\ (video').luma = video.luma
        /\ (video').chroma = video.chroma
    BY <1>1, <1>2 DEF AgreedVideo
  <2> QED
    BY <1>1, <2>1 DEF VideoInv, OneLineStandard, YcMerge
<1>3. /\ video.extras \in Seq(AgreedPlane)
      /\ video.chromaExtras \in Seq(AgreedPlane)
  BY <1>1 DEF AgreedVideo
<1>4. ASSUME NEW s \in Seq(AgreedPlane), video' = [video EXCEPT !.extras = s]
      PROVE  VideoInv'
  <2>1. [video EXCEPT !.extras = s] = [video EXCEPT !.extras = s, !.chromaExtras = video.chromaExtras]
    BY <1>1 DEF AgreedVideo
  <2> QED
    BY <1>2, <1>3, <1>4, <2>1
<1>5. NoOverride \in Override
  BY DEF Override
<1>6. PICK dir \in Directories, path \in {"auto"} \cup SidecarName :
        \/ AddExtraComposite(dir, path)
        \/ \E chromaDir \in Directories : AddExtraYc(dir, path, chromaDir)
  BY DEF AddExtra
<1>7. CASE AddExtraComposite(dir, path)
  BY <1>3, <1>4, <1>5, <1>7, OpenedSource, AppendedPlanes DEF AddExtraComposite
<1>8. ASSUME NEW chromaDir \in Directories, AddExtraYc(dir, path, chromaDir)
      PROVE  VideoInv'
  <2> DEFINE sc == Resolve(dir, path)
             luma == OpenSource(sc, NoOverride)
             chroma == OpenSource(ChromaSidecar(sc, chromaDir), NoOverride)
             single == OpenCvbs(IF sc.found THEN sc.sidecar ELSE dir.meta, NoOverride)
  <2>1. \/ video' = [video EXCEPT !.extras = Appended(video.extras, single)]
        \/ video' = video
        \/ /\ luma # NoPlane
           /\ video' = [video EXCEPT !.extras = Append(video.extras, luma),
                                     !.chromaExtras = Appended(video.chromaExtras, chroma)]
    BY <1>8 DEF AddExtraYc
  <2>2. /\ single \in AgreedPlane \cup {NoPlane}
        /\ luma \in AgreedPlane \cup {NoPlane}
        /\ chroma \in AgreedPlane \cup {NoPlane}
    BY <1>5, OpenedSingle, OpenedSource, OpenedChroma
  <2> HIDE DEF sc, luma, chroma, single
  <2>3. CASE video' = video
    BY <1>1, <2>3 DEF VideoInv, OneLineStandard, YcMerge
  <2> QED
    BY <1>2, <1>3, <1>4, <2>1, <2>2, <2>3, AppendedPlanes
<1> QED
  BY <1>6, <1>7, <1>8

LEMMA FreeVideoKeepsVideoInv ==
  ASSUME FreeVideo
  PROVE  VideoInv'
BY NoVideoIsEmpty DEF FreeVideo, VideoInv, IsOpen, OneLineStandard, YcMerge

-----------------------------------------------------------------------------
(* Options. *)

LEMMA OptionNames ==
  OptionName = {"format", "y4m", "padding", "crop", "filter", "upper", "profile",
                "phaseCompensation", "identMode", "identManual", "clickLevel",
                "clickThreshold"}
BY DEF OptionName, OptionValues

LEMMA OptionsFacts ==
  ASSUME NEW o \in Options
  PROVE  /\ o \in [OptionName -> OptionValue]
         /\ \A n \in OptionName : IsSet(o, n) => o[n] \in OptionValues[n]
BY DEF Options

LEMMA NoOptionsAreUnset ==
  NoOptions \in Options /\ \A n \in OptionName : ~IsSet(NoOptions, n)
<1>1. \A n \in OptionName : NoOptions[n] = "unset"
  BY DEF NoOptions
<1>2. "unset" \in OptionValue
  BY DEF OptionValue
<1>3. NoOptions \in [OptionName -> OptionValue]
  BY <1>2 DEF NoOptions
<1> QED
  BY <1>1, <1>3 DEF Options, IsSet

LEMMA SetOneOption ==
  ASSUME NEW o \in Options, NEW name \in OptionName, NEW value \in OptionValues[name]
  PROVE  LET p == [o EXCEPT ![name] = value]
         IN  /\ p \in Options
             /\ \A n \in OptionName : IsSet(p, n) => n = name \/ IsSet(o, n)
<1> DEFINE p == [o EXCEPT ![name] = value]
<1>1. o \in [OptionName -> OptionValue]
      /\ \A n \in OptionName : IsSet(o, n) => o[n] \in OptionValues[n]
  BY OptionsFacts
<1>2. value \in OptionValue
  BY DEF OptionValue
<1>3. p \in [OptionName -> OptionValue]
  BY <1>1, <1>2
<1>4. \A n \in OptionName : p[n] = IF n = name THEN value ELSE o[n]
  BY <1>1
<1> HIDE DEF p
<1>5. \A n \in OptionName : IsSet(p, n) => p[n] \in OptionValues[n]
  BY <1>1, <1>4 DEF IsSet
<1>6. \A n \in OptionName : IsSet(p, n) => n = name \/ IsSet(o, n)
  BY <1>4 DEF IsSet
<1>7. p \in Options
  BY <1>3, <1>5 DEF Options
<1> QED
  BY <1>6, <1>7 DEF p

-----------------------------------------------------------------------------
(* The decoder. *)

\* Every option set is one the kind asked for takes.
OptionsApply(d) == \A n \in OptionName : IsSet(d.options, n) => OptionApplies(d.kind, n)

\* A decoder keeps its video open, which no call then changes.
DecoderInv ==
  HasDecoder => /\ IsOpen
                /\ decoder \in Decoder
                /\ OptionsApply(decoder)

LifecycleInv ==
  VideoInv /\ DecoderInv /\ CommittedDecoderFits /\ BuiltAsAsked

-----------------------------------------------------------------------------
(* The instances the registry makes. *)

BuildableKind == CombKind \cup PalKind \cup LdzeugKind \cup {"MONO", "SECAM"}

LEMMA KindsAreDisjoint ==
  /\ CombKind \cap PalKind = {} /\ CombKind \cap LdzeugKind = {}
  /\ PalKind \cap LdzeugKind = {}
  /\ {"MONO", "SECAM", "NONE", "AUTO", "none"} \cap (CombKind \cup PalKind \cup LdzeugKind) = {}
BY DEF CombKind, PalKind, LdzeugKind

LEMMA FilterValues ==
  ASSUME NEW o \in Options
  PROVE  /\ Get(o, "filter", "compat") \in OptionValues.filter
         /\ CombModeFor(Get(o, "filter", "compat")) \in OptionValues.filter
         /\ Get(o, "identMode", "auto") \in OptionValues.identMode \cup {"auto"}
<1>1. "filter" \in OptionName /\ "identMode" \in OptionName
  BY OptionNames
<1>2. /\ OptionValues["filter"] = {"compat", "equiband_wide", "equiband", "wideband_i_ssb",
                                  "equiband_vsb"}
      /\ OptionValues["identMode"] = {"porch", "manual"}
  BY DEF OptionValues
<1>3. /\ IsSet(o, "filter") => o["filter"] \in OptionValues["filter"]
      /\ IsSet(o, "identMode") => o["identMode"] \in OptionValues["identMode"]
  BY <1>1, OptionsFacts
<1> QED
  BY <1>2, <1>3 DEF Get, CombModeFor

\* An instance no family has configured yet.
LEMMA NoInstanceIsEmpty ==
  /\ NoInstance \in InstanceRecord
  /\ NoInstance.kind = "none" /\ NoInstance.filter = "none"
  /\ NoInstance.profile = FALSE /\ NoInstance.upper = FALSE
BY DEF NoInstance, InstanceRecord, InstanceKind

LEMMA BuildableKinds ==
  BuildableKind \subseteq InstanceKind
BY DEF BuildableKind, InstanceKind

\* What the registry builds of a kind, before it is configured.
BuiltFrom(i, kind, o) ==
  /\ i \in InstanceRecord
  /\ i.kind = kind
  /\ kind \in CombKind => /\ i.filter = CombModeFor(Get(o, "filter", "compat"))
                         /\ i.profile = (o.profile = "active")
                         /\ i.upper = FALSE
  /\ kind \in PalKind => /\ i.filter = Get(o, "filter", "compat")
                        /\ i.upper = IsSet(o, "upper")
  /\ kind \notin CombKind \cup PalKind => i.filter = "none" /\ i.upper = FALSE
  /\ kind = "SECAM" => i.ident = Get(o, "identMode", "auto")

LEMMA CombBuilt ==
  ASSUME NEW o \in Options, NEW kind \in CombKind
  PROVE  BuiltFrom(CombInstance(kind, o), kind, o)
<1> DEFINE mode == CombModeFor(Get(o, "filter", "compat"))
           compensated == \/ o.phaseCompensation = "on"
                          \/ mode = "wideband_i_ssb" /\ ~IsSet(o, "phaseCompensation")
           active == o.profile = "active"
<1>1. kind \in InstanceKind
  BY BuildableKinds DEF BuildableKind
<1>2. mode \in OptionValues.filter \cup {"none"}
  BY FilterValues
<1>3. compensated \in BOOLEAN /\ active \in BOOLEAN
  OBVIOUS
<1>4. kind \notin PalKind /\ kind # "SECAM"
  BY KindsAreDisjoint
<1>5. CombInstance(kind, o) = [NoInstance EXCEPT !.kind = kind, !.filter = mode,
                                 !.phaseCompensation = compensated, !.profile = active]
  BY DEF CombInstance
<1> HIDE DEF mode, compensated
<1>6. LET i == CombInstance(kind, o)
      IN  /\ i \in InstanceRecord
          /\ i.kind = kind /\ i.filter = mode /\ i.profile = active /\ i.upper = FALSE
  <2> HIDE DEF active
  <2> QED
    BY <1>1, <1>2, <1>3, <1>5, NoInstanceIsEmpty DEF InstanceRecord
<1> QED
  BY <1>4, <1>6 DEF BuiltFrom, mode

LEMMA PalBuilt ==
  ASSUME NEW o \in Options, NEW kind \in PalKind
  PROVE  BuiltFrom(PalInstance(kind, o), kind, o)
<1> DEFINE filter == Get(o, "filter", "compat")
           upper == IsSet(o, "upper")
<1>1. kind \in InstanceKind
  BY BuildableKinds DEF BuildableKind
<1>2. filter \in OptionValues.filter \cup {"none"}
  BY FilterValues
<1>3. upper \in BOOLEAN
  BY DEF IsSet
<1>4. kind \notin CombKind /\ kind # "SECAM"
  BY KindsAreDisjoint
<1>5. PalInstance(kind, o) = [NoInstance EXCEPT !.kind = kind, !.filter = filter,
                                                !.upper = upper]
  BY DEF PalInstance
<1> HIDE DEF filter, upper
<1>6. LET i == PalInstance(kind, o)
      IN  i \in InstanceRecord /\ i.kind = kind /\ i.filter = filter /\ i.upper = upper
  BY <1>1, <1>2, <1>3, <1>5, NoInstanceIsEmpty DEF InstanceRecord
<1> QED
  BY <1>4, <1>6 DEF BuiltFrom, filter, upper

LEMMA OtherBuilt ==
  ASSUME NEW o \in Options, NEW kind \in BuildableKind \ (CombKind \cup PalKind)
  PROVE  BuiltFrom(Build(kind, o), kind, o)
<1> DEFINE ident == Get(o, "identMode", "auto")
           compensated == o.phaseCompensation = "on"
<1>1. kind \in InstanceKind
  BY BuildableKinds
<1>2. ident \in OptionValues.identMode \cup {"auto"}
  BY FilterValues
<1>3. compensated \in BOOLEAN
  OBVIOUS
<1>4. /\ kind = "SECAM" => Build(kind, o) = [NoInstance EXCEPT !.kind = kind, !.ident = ident]
      /\ kind # "SECAM" => \/ Build(kind, o) = [NoInstance EXCEPT !.kind = kind,
                                                       !.phaseCompensation = compensated]
                          \/ Build(kind, o) = [NoInstance EXCEPT !.kind = kind]
  BY KindsAreDisjoint DEF Build
<1> HIDE DEF ident, compensated
<1>5. LET i == Build(kind, o)
      IN  /\ i \in InstanceRecord
          /\ i.kind = kind /\ i.filter = "none" /\ i.upper = FALSE
          /\ kind = "SECAM" => i.ident = ident
  <2>1. CASE kind = "SECAM"
    <3> DEFINE i == [NoInstance EXCEPT !.kind = kind, !.ident = ident]
    <3>1. i \in InstanceRecord
      BY <1>1, <1>2, NoInstanceIsEmpty DEF InstanceRecord
    <3>2. i.kind = kind /\ i.filter = "none" /\ i.upper = FALSE /\ i.ident = ident
      BY NoInstanceIsEmpty DEF InstanceRecord
    <3> QED
      BY <1>4, <2>1, <3>1, <3>2
  <2>2. CASE Build(kind, o) = [NoInstance EXCEPT !.kind = kind,
                                                 !.phaseCompensation = compensated]
             /\ kind # "SECAM"
    BY <1>1, <1>3, <2>2, NoInstanceIsEmpty DEF InstanceRecord
  <2>3. CASE Build(kind, o) = [NoInstance EXCEPT !.kind = kind] /\ kind # "SECAM"
    BY <1>1, <2>3, NoInstanceIsEmpty DEF InstanceRecord
  <2> QED
    BY <1>4, <2>1, <2>2, <2>3
<1> QED
  BY <1>5 DEF BuiltFrom, ident

LEMMA Built ==
  ASSUME NEW o \in Options, NEW kind \in BuildableKind
  PROVE  BuiltFrom(Build(kind, o), kind, o)
<1>1. CASE kind \in CombKind
  BY <1>1, CombBuilt, KindsAreDisjoint DEF Build
<1>2. CASE kind \in PalKind
  BY <1>2, PalBuilt, KindsAreDisjoint DEF Build
<1> QED
  BY <1>1, <1>2, OtherBuilt

\* Configuring an instance writes its system and its engine.
Configured(kind, o, system, engine) ==
  [Build(kind, o) EXCEPT !.system = system, !.engine = engine]

LEMMA ConfiguredInstance ==
  ASSUME NEW o \in Options, NEW kind \in BuildableKind, NEW system \in System,
         NEW engine \in BOOLEAN
  PROVE  /\ BuiltFrom(Configured(kind, o, system, engine), kind, o)
         /\ Configured(kind, o, system, engine).engine = engine
         /\ Configured(kind, o, system, engine).system = system
         /\ Configured(kind, o, system, engine) # NoInstance
<1> DEFINE b == Build(kind, o)
           i == Configured(kind, o, system, engine)
<1>1. BuiltFrom(b, kind, o)
  BY Built
<1>2. b \in InstanceRecord
  BY <1>1 DEF BuiltFrom
<1>3. i = [b EXCEPT !.system = system, !.engine = engine]
  BY DEF Configured
<1> HIDE DEF b, i
<1>4. /\ i \in InstanceRecord
      /\ i.kind = b.kind /\ i.filter = b.filter /\ i.profile = b.profile
      /\ i.upper = b.upper /\ i.ident = b.ident
      /\ i.engine = engine /\ i.system = system
  BY <1>2, <1>3 DEF InstanceRecord
<1>5. BuiltFrom(i, kind, o)
  BY <1>1, <1>4 DEF BuiltFrom
<1>6. kind # "none"
  BY KindsAreDisjoint DEF BuildableKind
<1>7. i # NoInstance
  BY <1>5, <1>6, NoInstanceIsEmpty DEF BuiltFrom
<1> QED
  BY <1>4, <1>5, <1>7 DEF i

-----------------------------------------------------------------------------
(* What the checks of a commit leave of the options. *)

LEMMA ResolvedIsBuildable ==
  ASSUME NEW kind \in Kinds, kind # "NONE", NEW system \in System
  PROVE  ResolveAuto(kind, system) \in BuildableKind
BY KindsAssumption DEF ResolveAuto, BuildableKind, CombKind, PalKind, System

LEMMA FieldsOfOptions ==
  ASSUME NEW o \in Options
  PROVE  /\ o["filter"] = o.filter /\ o["upper"] = o.upper
         /\ o["profile"] = o.profile /\ o["identMode"] = o.identMode
BY OptionNames, OptionsFacts

LEMMA FilterDecides ==
  ASSUME NEW kind \in Kinds, NEW system \in System, NEW o \in Options,
         \A n \in OptionName : IsSet(o, n) => OptionApplies(kind, n),
         OptionsAccepted(o, system),
         Configures(ResolveAuto(kind, system), system, o.crop),
         IsSet(o, "filter")
  PROVE  /\ ResolveAuto(kind, system) \in CombKind \cup PalKind
         /\ ResolveAuto(kind, system) \in CombKind => o.filter # "equiband_vsb"
         /\ o.filter = "wideband_i_ssb" => ResolveAuto(kind, system) \in CombKind
<1> DEFINE resolved == ResolveAuto(kind, system)
<1>1. kind \in CombKind \cup PalKind \cup {"AUTO"}
  BY OptionNames DEF OptionApplies
<1>2. /\ system # "SECAM"
      /\ FilterValid(o.filter, system)
  BY DEF OptionsAccepted, ChromaFilterAccepted
<1>3. resolved \in CombKind \cup PalKind
  BY <1>1, <1>2 DEF ResolveAuto, CombKind, PalKind, System
<1>4. /\ resolved \in CombKind => system = "NTSC"
      /\ resolved \in PalKind => system \in {"PAL", "PAL_M"}
  BY KindsAreDisjoint DEF Configures
<1> HIDE DEF resolved
<1>5. /\ o.filter = "equiband_vsb" => system \in {"PAL", "PAL_M"}
      /\ o.filter = "wideband_i_ssb" => system \notin {"PAL", "PAL_M"}
  BY <1>2 DEF FilterValid
<1> QED
  BY <1>3, <1>4, <1>5 DEF resolved

LEMMA ProfileDecides ==
  ASSUME NEW kind \in Kinds, NEW system \in System, NEW o \in Options,
         \A n \in OptionName : IsSet(o, n) => OptionApplies(kind, n),
         OptionsAccepted(o, system),
         Configures(ResolveAuto(kind, system), system, o.crop),
         o.profile = "active"
  PROVE  /\ o.filter = "wideband_i_ssb"
         /\ ResolveAuto(kind, system) \in CombKind
<1>1. o.filter = "wideband_i_ssb"
  BY DEF OptionsAccepted, ChromaFilterAccepted
<1>2. IsSet(o, "filter")
  BY <1>1, FieldsOfOptions DEF IsSet
<1> QED
  BY <1>1, <1>2, FilterDecides

LEMMA IdentDecides ==
  ASSUME NEW kind \in Kinds, NEW system \in System, NEW o \in Options,
         \A n \in OptionName : IsSet(o, n) => OptionApplies(kind, n),
         IsSet(o, "identMode")
  PROVE  ResolveAuto(kind, system) = "SECAM"
BY OptionNames DEF OptionApplies, ResolveAuto

\* The colour instance of an accepted request is the one asked for.
LEMMA InstanceAsAsked ==
  ASSUME NEW kind \in Kinds, NEW system \in System, NEW o \in Options,
         \A n \in OptionName : IsSet(o, n) => OptionApplies(kind, n),
         OptionsAccepted(o, system),
         Configures(ResolveAuto(kind, system), system, o.crop),
         NEW i, BuiltFrom(i, ResolveAuto(kind, system), o)
  PROVE  /\ IsSet(o, "filter") =>
              i.filter = o.filter \/ (o.filter = "compat" /\ i.filter = "equiband_wide")
         /\ o.profile = "active" =>
              i.kind \in CombKind /\ i.profile /\ i.filter = "wideband_i_ssb"
         /\ i.upper <=> i.filter = "equiband_vsb"
         /\ IsSet(o, "identMode") => i.ident = o.identMode
<1> DEFINE resolved == ResolveAuto(kind, system)
<1>1. /\ o["filter"] = o.filter /\ o["upper"] = o.upper
      /\ o["profile"] = o.profile /\ o["identMode"] = o.identMode
  BY FieldsOfOptions
<1>2. IsSet(o, "filter") => Get(o, "filter", "compat") = o.filter
  BY <1>1 DEF Get
<1>3. /\ IsSet(o, "filter") => o.filter \in {"compat", "equiband_wide", "equiband",
                                            "wideband_i_ssb", "equiband_vsb"}
      /\ ~IsSet(o, "filter") => o.filter = "unset"
  <2>1. OptionValues["filter"] = {"compat", "equiband_wide", "equiband", "wideband_i_ssb",
                                  "equiband_vsb"}
    BY DEF OptionValues
  <2>2. "filter" \in OptionName
    BY OptionNames
  <2>3. IsSet(o, "filter") => o["filter"] \in OptionValues["filter"]
    BY <2>2, OptionsFacts
  <2> QED
    BY <1>1, <2>1, <2>3 DEF IsSet
<1>4. IsSet(o, "filter") =>
        /\ resolved \in CombKind \cup PalKind
        /\ resolved \in CombKind => o.filter # "equiband_vsb"
  BY FilterDecides
<1>5. o.profile = "active" => o.filter = "wideband_i_ssb" /\ resolved \in CombKind
  BY ProfileDecides
<1>6. IsSet(o, "upper") <=> o.filter = "equiband_vsb"
  BY DEF OptionsAccepted, ChromaFilterAccepted
<1>7. IsSet(o, "identMode") => resolved = "SECAM"
  BY IdentDecides
<1> HIDE DEF resolved
<1>8. BuiltFrom(i, resolved, o)
  BY DEF resolved
<1>9. CASE resolved \in CombKind
  <2>1. /\ i.kind = resolved /\ i.filter = CombModeFor(Get(o, "filter", "compat"))
        /\ i.profile = (o.profile = "active") /\ i.upper = FALSE
        /\ resolved # "SECAM"
    BY <1>8, <1>9, KindsAreDisjoint DEF BuiltFrom
  <2>2. IsSet(o, "filter") => i.filter = CombModeFor(o.filter)
    BY <1>2, <2>1
  <2>3. i.filter # "equiband_vsb"
    BY <2>1 DEF CombModeFor
  <2> QED
    BY <1>3, <1>4, <1>5, <1>7, <1>9, <2>1, <2>2, <2>3 DEF CombModeFor, IsSet
<1>10. CASE resolved \in PalKind
  <2>1. /\ i.filter = Get(o, "filter", "compat") /\ i.upper = IsSet(o, "upper")
        /\ resolved # "SECAM" /\ resolved \notin CombKind
    BY <1>8, <1>10, KindsAreDisjoint DEF BuiltFrom
  <2>2. ~IsSet(o, "filter") => i.filter = "compat"
    BY <2>1 DEF Get
  <2> QED
    BY <1>2, <1>3, <1>5, <1>6, <1>7, <2>1, <2>2
<1>11. CASE resolved \notin CombKind \cup PalKind
  <2>1. /\ i.filter = "none" /\ i.upper = FALSE
        /\ resolved = "SECAM" => i.ident = Get(o, "identMode", "auto")
    BY <1>8, <1>11 DEF BuiltFrom
  <2> QED
    BY <1>1, <1>4, <1>5, <1>7, <1>11, <2>1 DEF Get
<1> QED
  BY <1>9, <1>10, <1>11

-----------------------------------------------------------------------------
(* Commit. *)

LEMMA VideoUnchanged ==
  ASSUME VideoInv, video' = video
  PROVE  VideoInv' /\ IsOpen' = IsOpen
BY DEF VideoInv, IsOpen, OneLineStandard, YcMerge

\* The facts a commit starts from.
LEMMA CommitStarts ==
  ASSUME LifecycleInv, HasDecoder
  PROVE  /\ IsOpen
         /\ decoder \in Decoder /\ decoder.kind \in Kinds
         /\ decoder.options \in Options /\ decoder.model \in BOOLEAN
         /\ \A n \in OptionName : IsSet(decoder.options, n) => OptionApplies(decoder.kind, n)
         /\ video.luma.source \in System /\ video.luma.metadata = video.luma.source
<1>1. IsOpen /\ decoder \in Decoder /\ OptionsApply(decoder)
  BY DEF LifecycleInv, DecoderInv
<1>2. video.luma \in AgreedPlane
  BY <1>1 DEF LifecycleInv, VideoInv
<1>3. video.luma.source \in System /\ video.luma.metadata = video.luma.source
  BY <1>2 DEF AgreedPlane, Plane
<1> QED
  BY <1>1, <1>3 DEF Decoder, OptionsApply

\* An instance a commit makes: of its kind, configured for the video's system.
LEMMA InstanceMade ==
  ASSUME LifecycleInv, HasDecoder, NEW kind \in BuildableKind, NEW applyNn \in BOOLEAN,
         Instance(kind, decoder.model, applyNn) # NoInstance
  PROVE  /\ BuiltFrom(Instance(kind, decoder.model, applyNn), kind, decoder.options)
         /\ Instance(kind, decoder.model, applyNn).engine = (applyNn /\ decoder.model)
         /\ Instance(kind, decoder.model, applyNn).system = video.luma.source
         /\ applyNn /\ decoder.model => UsesNn(kind)
         /\ Configures(kind, video.luma.source, decoder.options.crop)
<1> DEFINE bound == applyNn /\ decoder.model
           o == decoder.options
           system == video.luma.metadata
<1>1. /\ o \in Options /\ decoder.model \in BOOLEAN
      /\ system \in System /\ system = video.luma.source
  BY CommitStarts
<1>2. bound \in BOOLEAN
  BY <1>1
<1>3. /\ Instance(kind, decoder.model, applyNn) = Configured(kind, o, system, bound)
      /\ bound => UsesNn(kind)
      /\ Configures(kind, system, o.crop)
  BY DEF Instance, Configured
<1> HIDE DEF o, system, bound
<1>4. /\ BuiltFrom(Configured(kind, o, system, bound), kind, o)
      /\ Configured(kind, o, system, bound).engine = bound
      /\ Configured(kind, o, system, bound).system = system
  BY <1>1, <1>2, ConfiguredInstance
<1> QED
  BY <1>1, <1>3, <1>4 DEF o, bound

LEMMA CommitKeepsInv ==
  ASSUME LifecycleInv, CommitDecoder
  PROVE  LifecycleInv'
<1> DEFINE main == Instance(IF YcMerge THEN "MONO" ELSE Resolved, decoder.model, ~YcMerge)
           colour == Instance(Resolved, decoder.model, TRUE)
           chroma == IF YcMerge THEN colour ELSE NoInstance
           o == decoder.options
           system == video.luma.source
           asked == IF YcMerge THEN colour ELSE main
<1>1. /\ HasDecoder /\ decoder.kind # "NONE"
      /\ OptionsAccepted(o, system)
      /\ EngineReady
      /\ main # NoInstance
      /\ YcMerge => colour # NoInstance
      /\ decoder' = [decoder EXCEPT !.committed = TRUE, !.built = main, !.builtChroma = chroma]
      /\ video' = video
  BY DEF CommitDecoder
<1>2. /\ IsOpen
      /\ decoder \in Decoder /\ decoder.kind \in Kinds
      /\ o \in Options /\ decoder.model \in BOOLEAN
      /\ \A n \in OptionName : IsSet(o, n) => OptionApplies(decoder.kind, n)
      /\ system \in System
  BY <1>1, CommitStarts
<1>3. VideoInv' /\ IsOpen'
  BY <1>1, <1>2, VideoUnchanged DEF LifecycleInv
<1>4. /\ Resolved = ResolveAuto(decoder.kind, system)
      /\ Resolved \in BuildableKind /\ "MONO" \in BuildableKind
  BY <1>1, <1>2, ResolvedIsBuildable DEF Resolved, BuildableKind
\* The instance asked for, the colour one of a pair.
<1>5. asked = Instance(Resolved, decoder.model, TRUE) /\ asked # NoInstance
  BY <1>1
<1>6. /\ BuiltFrom(asked, Resolved, o)
      /\ asked.engine = decoder.model /\ asked.system = system
      /\ decoder.model => UsesNn(Resolved)
      /\ Configures(Resolved, system, o.crop)
  <2> HIDE DEF asked
  <2> QED
    BY <1>1, <1>2, <1>4, <1>5, InstanceMade
\* The luma instance of a pair.
<1>7. YcMerge => /\ BuiltFrom(main, "MONO", o)
                 /\ main.engine = FALSE
  <2>1. SUFFICES ASSUME YcMerge
                 PROVE  BuiltFrom(main, "MONO", o) /\ main.engine = FALSE
    OBVIOUS
  <2>2. main = Instance("MONO", decoder.model, FALSE)
    BY <2>1
  <2> HIDE DEF main
  <2> QED
    BY <1>1, <1>2, <1>4, <2>2, InstanceMade
<1>8. /\ chroma = (IF YcMerge THEN asked ELSE NoInstance)
      /\ ~YcMerge => main = asked
      /\ EngineReady => (UsesNn(Resolved) => decoder.model)
  BY DEF EngineReady
<1> HIDE DEF main, colour, chroma, o, system, asked
<1>9. asked \in InstanceRecord /\ main \in InstanceRecord /\ chroma \in InstanceRecord
  BY <1>6, <1>7, <1>8, NoInstanceIsEmpty DEF BuiltFrom
<1>10. /\ decoder' \in Decoder
       /\ (decoder').kind = decoder.kind /\ (decoder').options = o
       /\ (decoder').committed = TRUE
       /\ (decoder').built = main /\ (decoder').builtChroma = chroma
  BY <1>1, <1>2, <1>9 DEF Decoder, o
<1>11. DecoderInv'
  BY <1>2, <1>3, <1>10 DEF DecoderInv, OptionsApply
<1>12. Instances' = IF YcMerge THEN {main, asked} ELSE {asked}
  BY <1>1, <1>5, <1>8, <1>10 DEF Instances
<1>13. /\ YcMerge' = YcMerge /\ (video').luma.source = system
       /\ YcMerge => (Is625Line(asked.system) <=> Is625Line((video').chroma.source))
  <2>1. asked.system = video.luma.source /\ (video').chroma.source = video.chroma.source
    BY <1>1, <1>6 DEF system
  <2>2. YcMerge => (Is625Line(video.luma.source) <=> Is625Line(video.chroma.source))
    BY DEF LifecycleInv, VideoInv, OneLineStandard
  <2> QED
    BY <1>1, <2>1, <2>2 DEF YcMerge, system
<1>14. /\ UsesNn(asked.kind) <=> asked.engine
       /\ Configures(asked.kind, system, "whole")
  <2>1. asked.kind = Resolved
    BY <1>6 DEF BuiltFrom
  <2>2. Configures(Resolved, system, "whole")
    BY <1>6, KindsAreDisjoint DEF Configures
  <2> QED
    BY <1>1, <1>2, <1>6, <1>8, <2>1, <2>2
<1>15. YcMerge => /\ main.kind = "MONO"
                  /\ UsesNn(main.kind) <=> main.engine
                  /\ Configures(main.kind, system, "whole")
                  /\ main.upper = FALSE /\ main.filter = "none"
  <2>1. /\ ~UsesNn("MONO")
        /\ Configures("MONO", system, "whole")
        /\ "MONO" \notin CombKind \cup PalKind
    BY KindsAreDisjoint DEF UsesNn, Configures
  <2> QED
    BY <1>7, <2>1 DEF BuiltFrom
<1>16. CommittedDecoderFits'
  <2>1. \A i \in Instances' : /\ UsesNn(i.kind) <=> i.engine
                              /\ Configures(i.kind, system, "whole")
    BY <1>12, <1>14, <1>15
  <2>2. YcMerge <=> chroma # NoInstance
    BY <1>5, <1>8
  <2> QED
    BY <1>1, <1>8, <1>10, <1>13, <1>15, <2>1, <2>2 DEF CommittedDecoderFits
<1>17. BuiltAsAsked'
  <2>1. /\ IsSet(o, "filter") => \/ asked.filter = o.filter
                                 \/ o.filter = "compat" /\ asked.filter = "equiband_wide"
        /\ o.profile = "active" =>
             asked.kind \in CombKind /\ asked.profile /\ asked.filter = "wideband_i_ssb"
        /\ asked.upper <=> asked.filter = "equiband_vsb"
        /\ IsSet(o, "identMode") => asked.ident = o.identMode
    BY <1>1, <1>2, <1>4, <1>6, InstanceAsAsked
  <2>2. asked \in Instances'
    BY <1>12
  <2>3. \A i \in Instances' : i.upper <=> i.filter = "equiband_vsb"
    BY <1>12, <1>15, <2>1
  <2> QED
    BY <1>10, <2>1, <2>2, <2>3 DEF BuiltAsAsked
<1> QED
  BY <1>3, <1>11, <1>16, <1>17 DEF LifecycleInv

-----------------------------------------------------------------------------
(* The other calls of a decoder. *)

LEMMA CommitNoneKeepsInv ==
  ASSUME LifecycleInv, CommitNone
  PROVE  LifecycleInv'
<1>1. /\ HasDecoder /\ decoder.kind = "NONE" /\ video' = video
      /\ decoder' = [decoder EXCEPT !.committed = TRUE]
  BY DEF CommitNone
<1>2. IsOpen /\ decoder \in Decoder /\ OptionsApply(decoder)
  BY <1>1 DEF LifecycleInv, DecoderInv
<1>3. VideoInv' /\ IsOpen'
  BY <1>1, <1>2, VideoUnchanged DEF LifecycleInv
<1>4. /\ decoder' \in Decoder
      /\ (decoder').kind = "NONE" /\ (decoder').options = decoder.options
  BY <1>1, <1>2 DEF Decoder
<1>5. DecoderInv'
  BY <1>1, <1>2, <1>3, <1>4 DEF DecoderInv, OptionsApply
<1>6. CommittedDecoderFits' /\ BuiltAsAsked'
  BY <1>4 DEF CommittedDecoderFits, BuiltAsAsked
<1> QED
  BY <1>3, <1>5, <1>6 DEF LifecycleInv

\* A decoder that is not committed promises nothing of its instances.
LEMMA UncommittedKeepsInv ==
  ASSUME VideoInv', DecoderInv', (decoder').committed = FALSE
  PROVE  LifecycleInv'
BY DEF LifecycleInv, CommittedDecoderFits, BuiltAsAsked

LEMMA NoDecoderIsNone ==
  /\ NoDecoder.committed = FALSE
  /\ NoDecoder.model \in BOOLEAN
  /\ NoDecoder.built \in InstanceRecord /\ NoDecoder.builtChroma \in InstanceRecord
BY NoInstanceIsEmpty DEF NoDecoder

LEMMA WithoutDecoder ==
  ASSUME VideoInv', decoder' = NoDecoder
  PROVE  LifecycleInv'
<1>1. DecoderInv'
  BY DEF DecoderInv, HasDecoder
<1> QED
  BY <1>1, NoDecoderIsNone, UncommittedKeepsInv

LEMMA CreateKeepsInv ==
  ASSUME LifecycleInv, NEW kind \in Kinds, Create(kind)
  PROVE  LifecycleInv'
<1>1. /\ IsOpen /\ video' = video
      /\ decoder' = [NoDecoder EXCEPT !.kind = kind, !.options = NoOptions]
  BY DEF Create
<1>2. VideoInv' /\ IsOpen'
  BY <1>1, VideoUnchanged DEF LifecycleInv
<1>3. /\ decoder' = [kind |-> kind, options |-> NoOptions, model |-> FALSE,
                     committed |-> FALSE, built |-> NoInstance, builtChroma |-> NoInstance]
  BY <1>1 DEF NoDecoder
<1>4. decoder' \in Decoder /\ (decoder').committed = FALSE
  BY <1>3, NoOptionsAreUnset, NoInstanceIsEmpty DEF Decoder
<1>5. (decoder').options = NoOptions
  BY <1>3
<1>6. DecoderInv'
  BY <1>2, <1>4, <1>5, NoOptionsAreUnset DEF DecoderInv, OptionsApply
<1> QED
  BY <1>2, <1>4, <1>6, UncommittedKeepsInv

LEMMA SetOptionKeepsInv ==
  ASSUME LifecycleInv, NEW name \in OptionName, NEW value \in OptionValues[name],
         SetOption(name, value)
  PROVE  LifecycleInv'
<1>1. /\ HasDecoder /\ ~decoder.committed /\ video' = video
      /\ OptionApplies(decoder.kind, name)
      /\ decoder' = [decoder EXCEPT !.options[name] = value]
  BY DEF SetOption
<1>2. IsOpen /\ decoder \in Decoder /\ OptionsApply(decoder)
  BY <1>1 DEF LifecycleInv, DecoderInv
<1> DEFINE options == [decoder.options EXCEPT ![name] = value]
<1>3. decoder.options \in Options /\ decoder.committed = FALSE
  BY <1>1, <1>2 DEF Decoder
<1>4. /\ options \in Options
      /\ \A n \in OptionName : IsSet(options, n) => n = name \/ IsSet(decoder.options, n)
  BY <1>3, SetOneOption
<1>5. decoder' = [decoder EXCEPT !.options = options]
  BY <1>1
<1> HIDE DEF options
<1>6. /\ decoder' \in Decoder
      /\ (decoder').options = options /\ (decoder').kind = decoder.kind
      /\ (decoder').committed = FALSE
  BY <1>2, <1>3, <1>4, <1>5 DEF Decoder
<1>7. VideoInv' /\ IsOpen'
  BY <1>1, <1>2, VideoUnchanged DEF LifecycleInv
<1>8. DecoderInv'
  BY <1>1, <1>2, <1>4, <1>6, <1>7 DEF DecoderInv, OptionsApply
<1> QED
  BY <1>6, <1>7, <1>8, UncommittedKeepsInv

LEMMA SetNnModelKeepsInv ==
  ASSUME LifecycleInv, NEW m \in BOOLEAN, SetNnModel(m)
  PROVE  LifecycleInv'
<1>1. /\ HasDecoder /\ ~decoder.committed /\ video' = video
      /\ decoder' = [decoder EXCEPT !.model = m]
  BY DEF SetNnModel
<1>2. IsOpen /\ decoder \in Decoder /\ OptionsApply(decoder)
  BY <1>1 DEF LifecycleInv, DecoderInv
<1>3. /\ decoder' \in Decoder
      /\ (decoder').options = decoder.options /\ (decoder').kind = decoder.kind
      /\ (decoder').committed = FALSE
  BY <1>1, <1>2 DEF Decoder
<1>4. VideoInv' /\ IsOpen'
  BY <1>1, <1>2, VideoUnchanged DEF LifecycleInv
<1>5. DecoderInv'
  BY <1>2, <1>3, <1>4 DEF DecoderInv, OptionsApply
<1> QED
  BY <1>3, <1>4, <1>5, UncommittedKeepsInv

-----------------------------------------------------------------------------
(* The theorems. *)

\* While a decoder exists its video is open: only a call without a decoder changes the video.
LEMMA VideoCallsHaveNoDecoder ==
  ASSUME LifecycleInv, Open \/ AddExtra \/ FreeVideo
  PROVE  decoder = NoDecoder /\ decoder' = NoDecoder
<1>1. CASE Open
  <2>1. ASSUME NEW dir, NEW path, NEW override, NEW chromaDir
        PROVE  /\ OpenComposite(dir, path, override) => decoder' = decoder
               /\ OpenYcSingle(dir, path, override) => decoder' = decoder
               /\ OpenYcMerge(dir, path, chromaDir, override) => decoder' = decoder
    BY DEF OpenComposite, OpenYcSingle, OpenYcMerge
  <2>2. ~IsOpen /\ decoder' = decoder
    BY <1>1, <2>1 DEF Open
  <2> QED
    BY <2>2 DEF LifecycleInv, DecoderInv, HasDecoder
<1>2. CASE AddExtra
  BY <1>2 DEF AddExtra, MayAddExtra, HasDecoder, AddExtraComposite, AddExtraYc
<1>3. CASE FreeVideo
  BY <1>3 DEF FreeVideo, HasDecoder
<1> QED
  BY <1>1, <1>2, <1>3

LEMMA InitInv ==
  LifecycleInit => LifecycleInv
<1> SUFFICES ASSUME LifecycleInit
             PROVE  LifecycleInv
  OBVIOUS
<1>1. video = NoVideo /\ decoder = NoDecoder
  BY DEF LifecycleInit
<1>2. VideoInv
  BY <1>1, NoVideoIsEmpty DEF VideoInv, IsOpen, OneLineStandard, YcMerge
<1>3. DecoderInv
  BY <1>1 DEF DecoderInv, HasDecoder
<1> QED
  BY <1>1, <1>2, <1>3, NoDecoderIsNone DEF LifecycleInv, CommittedDecoderFits, BuiltAsAsked

LEMMA NextKeepsInv ==
  LifecycleInv /\ [LifecycleNext]_lifecycleVars => LifecycleInv'
<1> SUFFICES ASSUME LifecycleInv, [LifecycleNext]_lifecycleVars
             PROVE  LifecycleInv'
  OBVIOUS
<1>1. CASE Open
  BY <1>1, OpenKeepsVideoInv, VideoCallsHaveNoDecoder, WithoutDecoder
<1>2. CASE AddExtra
  BY <1>2, AddExtraKeepsVideoInv, VideoCallsHaveNoDecoder, WithoutDecoder DEF LifecycleInv
<1>3. CASE FreeVideo
  BY <1>3, FreeVideoKeepsVideoInv, VideoCallsHaveNoDecoder, WithoutDecoder
<1>4. ASSUME NEW kind \in Kinds, Create(kind)
      PROVE  LifecycleInv'
  BY <1>4, CreateKeepsInv
<1>5. ASSUME NEW name \in OptionName, NEW value \in OptionValues[name], SetOption(name, value)
      PROVE  LifecycleInv'
  BY <1>5, SetOptionKeepsInv
<1>6. ASSUME NEW m \in BOOLEAN, SetNnModel(m)
      PROVE  LifecycleInv'
  BY <1>6, SetNnModelKeepsInv
<1>7. CASE CommitNone
  BY <1>7, CommitNoneKeepsInv
<1>8. CASE CommitDecoder
  BY <1>8, CommitKeepsInv
<1>9. CASE FreeDecoder
  <2>1. video' = video /\ decoder' = NoDecoder
    BY <1>9 DEF FreeDecoder
  <2> QED
    BY <2>1, VideoUnchanged, WithoutDecoder DEF LifecycleInv
<1>10. CASE UNCHANGED lifecycleVars
  <2>1. video' = video /\ decoder' = decoder
    BY <1>10 DEF lifecycleVars
  <2> QED
    BY <2>1 DEF LifecycleInv, VideoInv, DecoderInv, CommittedDecoderFits, BuiltAsAsked,
                Instances, OneLineStandard, YcMerge, IsOpen, HasDecoder
<1> QED
  BY <1>1, <1>2, <1>3, <1>4, <1>5, <1>6, <1>7, <1>8, <1>9, <1>10 DEF LifecycleNext

LEMMA Invariance ==
  LifecycleSpec => []LifecycleInv
<1> QED
  BY InitInv, NextKeepsInv, PTL DEF LifecycleSpec

\* From any directory, kind and options, a decoder that chd_decoder_commit accepts can decode
\* the video it was made for and was built with the filter, profile and ident mode asked for.
THEOREM CommittedAsAsked ==
  LifecycleSpec => []CommittedDecoderIsTheOneAsked
<1>1. LifecycleInv => CommittedDecoderIsTheOneAsked
  BY VideoInvImplies DEF LifecycleInv, DecoderInv, CommittedDecoderIsTheOneAsked,
                         LifecycleTypeOK
<1> QED
  BY <1>1, Invariance, PTL

=============================================================================
