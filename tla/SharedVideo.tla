----------------------------- MODULE SharedVideo -----------------------------
(***************************************************************************)
(* Several decoders on one opened video                                     *)
(* (src/src/abi/c_api_decoder.cpp, c_api_dropout_detect.cpp).               *)
(*                                                                          *)
(* A decoder does not own the video: the metadata that says which field of  *)
(* a pair comes first belongs to the video, chd_decoder_commit writes it     *)
(* there, and every decode of every decoder reads it, a few times per frame. *)
(* Each decoder is used by a thread of its own, so a commit of one may fall  *)
(* between two reads of another.                                            *)
(***************************************************************************)
EXTENDS FieldNumbering

CONSTANTS
  Decoders,        \* decoder handles created on the video
  Reverse,         \* [Decoders -> BOOLEAN]: CHD_OPT_REVERSE_FIELD_ORDER of each
  Captures,        \* the captures considered: their isFirstField flags
  OpenedOrders,    \* isFirstFieldFirst at open: FALSE is is_second_field_first
  SourceFields,    \* how many fields short of the metadata the sample file is
  HasChroma,       \* a luma + chroma pair, each plane with metadata of its own
  MaxFrame         \* frames a caller asks for: 1 .. MaxFrame

ASSUME VideoAssumption ==
  /\ Reverse \in [Decoders -> BOOLEAN]
  /\ Captures \subseteq Seq(BOOLEAN)
  /\ OpenedOrders \subseteq BOOLEAN
  /\ SourceFields \subseteq Nat
  /\ HasChroma \in BOOLEAN
  /\ MaxFrame \in Nat

VARIABLES
  isFirst,            \* the capture: never written after open
  sourceFields,       \* fields in the sample file: likewise
  opened,             \* isFirstFieldFirst of every plane's metadata at open
  firstFieldFirst,    \* isFirstFieldFirst of video->metadata now
  phase,              \* each decoder: "created" or "committed"
  pc,                 \* where its thread is in a call
  frame,              \* the frame it decodes
  count,              \* getNumberOfFrames() as loadFields() read it
  first,              \* getFirstFieldNumber() as loadFields() read it
  orders,             \* the orders its last decode found: no code keeps them
  shown,              \* the fields of the luma (or only) plane of its last frame
  shownChroma,        \* those of the chroma plane
  told,               \* num_frames of its last chd_decoder_get_output_info
  status              \* what its last decode returned

videoVars == <<isFirst, sourceFields, opened>>
callVars == <<frame, count, first, orders>>
resultVars == <<shown, shownChroma, status>>
vars == <<videoVars, firstFieldFirst, phase, pc, callVars, resultVars, told>>

NotTold == -2   \* getNumberOfFrames() may be -1

Init ==
  /\ isFirst \in Captures
  /\ opened \in OpenedOrders
  /\ \E missing \in SourceFields : sourceFields = Len(isFirst) - missing
  /\ sourceFields >= 0
  /\ firstFieldFirst = opened
  /\ phase = [d \in Decoders |-> "created"]
  /\ pc = [d \in Decoders |-> "idle"]
  /\ frame = [d \in Decoders |-> 0]
  /\ count = [d \in Decoders |-> 0]
  /\ first = [d \in Decoders |-> 0]
  /\ orders = [d \in Decoders |-> {}]
  /\ shown = [d \in Decoders |-> Blank]
  /\ shownChroma = [d \in Decoders |-> Blank]
  /\ status = [d \in Decoders |-> "none"]
  /\ told = [d \in Decoders |-> NotTold]

----------------------------------------------------------------------------
\* chd_decoder_commit.  Options the source cannot satisfy are rejected before
\* the field order is written, and change nothing.  Past that point the video has
\* the decoder's order even when the commit then fails: an NN model is missing,
\* or the decoder rejects the video parameters.

CommitFailsLate(d) ==
  /\ phase[d] = "created"
  /\ firstFieldFirst' = ~Reverse[d]
  /\ UNCHANGED <<videoVars, phase, pc, callVars, resultVars, told>>

Commit(d) ==
  /\ phase[d] = "created"
  /\ phase' = [phase EXCEPT ![d] = "committed"]
  /\ firstFieldFirst' = ~Reverse[d]
  /\ UNCHANGED <<videoVars, pc, callVars, resultVars, told>>

----------------------------------------------------------------------------
\* A committed decoder in use.

FramesNow == NumberOfFrames(isFirst, firstFieldFirst)

Idle(d) == phase[d] = "committed" /\ pc[d] = "idle"

\* chd_decoder_get_output_info.
GetOutputInfo(d) ==
  /\ Idle(d)
  /\ told' = [told EXCEPT ![d] = FramesNow]
  /\ UNCHANGED <<videoVars, firstFieldFirst, phase, pc, callVars, resultVars>>

\* The range check of decodeSourceFrame() and of collectSpans().
StartFrame(d) ==
  /\ Idle(d)
  /\ \E f \in 1 .. MaxFrame :
       /\ frame' = [frame EXCEPT ![d] = f]
       /\ pc' = [pc EXCEPT ![d] = IF f <= FramesNow THEN "count" ELSE "idle"]
       /\ status' = [status EXCEPT ![d] = IF f <= FramesNow THEN "none" ELSE "outOfRange"]
  /\ orders' = [orders EXCEPT ![d] = {firstFieldFirst}]
  /\ UNCHANGED <<videoVars, firstFieldFirst, phase, count, first, shown, shownChroma, told>>

OrderSeen(d) == orders' = [orders EXCEPT ![d] = @ \cup {firstFieldFirst}]

\* loadFields() reads the frame count, then each field number.
ReadCount(d) ==
  /\ pc[d] = "count"
  /\ pc' = [pc EXCEPT ![d] = "first"]
  /\ count' = [count EXCEPT ![d] = FramesNow]
  /\ OrderSeen(d)
  /\ UNCHANGED <<videoVars, firstFieldFirst, phase, frame, first, resultVars, told>>

NumbersNow(d) == FieldNumbers(isFirst, firstFieldFirst, frame[d])

ReadFirst(d) ==
  /\ pc[d] = "first"
  /\ pc' = [pc EXCEPT ![d] = "second"]
  /\ first' = [first EXCEPT ![d] = NumbersNow(d).first]
  /\ OrderSeen(d)
  /\ UNCHANGED <<videoVars, firstFieldFirst, phase, frame, count, resultVars, told>>

\* The metadata of a chroma plane is its own, and no commit writes it.
ChromaFields(f) ==
  LoadedFields(isFirst, sourceFields, NumberOfFrames(isFirst, opened), f,
               FieldNumbers(isFirst, opened, f))

\* The luma plane's fields are loaded; a chroma plane is then loaded through the
\* same calls, and its own range check may still refuse the frame.
ReadSecond(d) ==
  /\ pc[d] = "second"
  /\ pc' = [pc EXCEPT ![d] = "idle"]
  /\ shown' = [shown EXCEPT ![d] =
       LoadedFields(isFirst, sourceFields, count[d], frame[d],
                    [first |-> first[d], second |-> NumbersNow(d).second])]
  /\ LET refused == HasChroma /\ frame[d] > NumberOfFrames(isFirst, opened)
     IN  /\ status' = [status EXCEPT ![d] = IF refused THEN "outOfRange" ELSE "ok"]
         /\ shownChroma' = [shownChroma EXCEPT ![d] =
              IF HasChroma /\ ~refused THEN ChromaFields(frame[d]) ELSE Blank]
  /\ count' = [count EXCEPT ![d] = 0]
  /\ first' = [first EXCEPT ![d] = 0]
  /\ OrderSeen(d)
  /\ UNCHANGED <<videoVars, firstFieldFirst, phase, frame, told>>

Next ==
  \E d \in Decoders :
    \/ CommitFailsLate(d)
    \/ Commit(d)
    \/ GetOutputInfo(d)
    \/ StartFrame(d)
    \/ ReadCount(d)
    \/ ReadFirst(d)
    \/ ReadSecond(d)

Spec == Init /\ [][Next]_vars

----------------------------------------------------------------------------
\* Properties.

FieldPairs == [first : 0 .. Len(isFirst), second : 0 .. Len(isFirst)]

TypeOK ==
  /\ isFirst \in Seq(BOOLEAN)
  /\ sourceFields \in Nat
  /\ opened \in BOOLEAN
  /\ firstFieldFirst \in BOOLEAN
  /\ phase \in [Decoders -> {"created", "committed"}]
  /\ pc \in [Decoders -> {"idle", "count", "first", "second"}]
  /\ frame \in [Decoders -> Nat]
  /\ count \in [Decoders -> Int]
  /\ first \in [Decoders -> Int]
  /\ orders \in [Decoders -> SUBSET BOOLEAN]
  /\ shown \in [Decoders -> FieldPairs]
  /\ shownChroma \in [Decoders -> FieldPairs]
  /\ told \in [Decoders -> Int]
  /\ status \in [Decoders -> {"none", "ok", "outOfRange"}]

FrameOf(order, d) ==
  LoadedFields(isFirst, sourceFields, NumberOfFrames(isFirst, order), frame[d],
               FieldNumbers(isFirst, order, frame[d]))

\* Whatever orders the commits of other decoders put on the video between the reads
\* of a decode, and however irregular the capture: fields it shows are in the sample
\* file and the one called first is a first field; where the fields alternate
\* they are neighbours, also when the reads found two orders; and when they found one,
\* the decode shows the frame of that order.
ShownIsOneInterlacedPair ==
  \A d \in Decoders : status[d] = "ok" =>
    /\ \A order \in BOOLEAN : orders[d] = {order} => shown[d] = FrameOf(order, d)
    /\ shown[d] # Blank =>
         /\ {shown[d].first, shown[d].second} \subseteq 1 .. sourceFields
         /\ IsFirstField(isFirst, shown[d].first)
         /\ Alternating(isFirst) \/ orders[d] # BOOLEAN =>
              shown[d].second - shown[d].first \in {-1, 1}

\* When fields alternate and none is missing from the file, no frame of the count
\* is blank, and no two share a field.
AlternatingFramesTile ==
  Alternating(isFirst) =>
    \A f, g \in 1 .. FramesNow :
      LET p == FieldNumbers(isFirst, firstFieldFirst, f)
          q == FieldNumbers(isFirst, firstFieldFirst, g)
      IN  /\ p # NoFields
          /\ f # g => {p.first, p.second} \cap {q.first, q.second} = {}

\* Frames never go back in the capture, however irregular it is, and once one has
\* run off its end so have all later ones.
FramesNeverGoBack ==
  \A f \in 1 .. FramesNow - 1 :
    LET p == FieldNumbers(isFirst, firstFieldFirst, f)
        q == FieldNumbers(isFirst, firstFieldFirst, f + 1)
    IN  q = NoFields \/ (p # NoFields /\ p.first <= q.first)

\* Together: the frames of a capture follow one another, and tile it when they can.
FramesFollow == TypeOK /\ AlternatingFramesTile /\ FramesNeverGoBack

\* "Distinct handles are independent and may be used concurrently from different
\* threads" (docs/api-reference.md): what a committed decoder shows is paired in the
\* order it was committed with, and its num_frames is the number of frames it will
\* decode, whatever other decoders do.
CommittedOrderKept ==
  \A d \in Decoders :
    LET frames == NumberOfFrames(isFirst, ~Reverse[d])
    IN  /\ status[d] = "ok" => shown[d] = FrameOf(~Reverse[d], d)
        /\ status[d] = "outOfRange" => frame[d] > frames
        /\ told[d] \in {NotTold, frames}

\* "The two planes come from one capture; require matching geometry and frame
\* count so the decoded Y and U/V line up" (chd_video_open_yc): luma and chroma
\* of a frame are the same fields.
PlanesLineUp ==
  \A d \in Decoders : HasChroma /\ status[d] = "ok" => shownChroma[d] = shown[d]

=============================================================================
