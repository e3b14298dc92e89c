---------------------------- MODULE MultiSource ----------------------------
(***************************************************************************)
(* Matching extra captures of a disc to the primary one, frame by frame     *)
(* (src/src/dropout/multi_source_alignment.cpp), and fetching their fields  *)
(* for dropout correction (decodeSourceFrame(), src/src/abi/c_api_decoder). *)
(*                                                                          *)
(* Source 0 is the primary capture.  A field is whether it is a first field, *)
(* the picture of the disc it shows, and the disc's number for it as its VBI *)
(* can be read: a CAV picture number, a CLV time-code (as a frame number),   *)
(* or neither, -1.                                                          *)
(***************************************************************************)
EXTENDS FieldNumbering, FiniteSets

CONSTANTS
  Extras,      \* how many extra captures are attached, before any decoder exists
  Sets,        \* the sets of captures considered: subset of [Sources -> Capture]
  Reversals,   \* CHD_OPT_REVERSE_FIELD_ORDER as a caller may set it
  LastNumber   \* the highest number of a disc; the scan's minima start at 1000000

Sources == 0 .. Extras

Number == -1 .. LastNumber
Field == [isFirst : BOOLEAN, picture : Int, cav : Number, clv : Number]
Capture == [fields : Seq(Field), available : Nat]

ASSUME SourcesAssumption ==
  /\ Extras \in Nat \ {0}
  /\ Reversals \subseteq BOOLEAN
  /\ LastNumber \in Nat
  /\ \A c \in Sets : DOMAIN c = Sources /\ \A s \in Sources : c[s] \in Capture

VARIABLES
  captures,         \* [Sources -> Capture]
  firstFieldFirst,  \* [Sources -> BOOLEAN]: isFirstFieldFirst of each metadata
  alignment,        \* [Sources -> range], or NotBuilt: built by the first decode
  frame,            \* the frame decoded last
  used,             \* [1 .. Extras -> fields]: what each extra gave to it
  outcome           \* "none", "decoded", or "threw" out of chd_decode_frame

vars == <<captures, firstFieldFirst, alignment, frame, used, outcome>>

NotBuilt == <<>>
NotCovered == -1
NoneUsed == [s \in 1 .. Extras |-> NoFields]

\* Captures are opened with a first field first, as TBC metadata records them.
Init ==
  /\ captures \in Sets
  /\ firstFieldFirst = [s \in Sources |-> TRUE]
  /\ alignment = NotBuilt
  /\ frame = 0
  /\ used = NoneUsed
  /\ outcome = "none"

Flags(s) == [n \in DOMAIN captures[s].fields |-> captures[s].fields[n].isFirst]

FrameCount(s) == NumberOfFrames(Flags(s), firstFieldFirst[s])
FieldsOf(s, f) == FieldNumbers(Flags(s), firstFieldFirst[s], f)

----------------------------------------------------------------------------
\* Scanning the VBI.

\* The numbers of a field no metadata has.
NoVbi == [cav |-> -1, clv |-> -1]

Vbi(s, n) ==
  IF n \in DOMAIN captures[s].fields
    THEN [cav |-> captures[s].fields[n].cav, clv |-> captures[s].fields[n].clv]
    ELSE NoVbi

\* VbiDecoder::decodeFrame(): the second field is asked where the first is silent.
FrameVbi(s, f) ==
  LET a == Vbi(s, FieldsOf(s, f).first)
      b == Vbi(s, FieldsOf(s, f).second)
  IN  [cav |-> IF a.cav # -1 THEN a.cav ELSE b.cav,
       clv |-> IF a.clv # -1 THEN a.clv ELSE b.clv]

CavFrames(s) == {f \in 1 .. FrameCount(s) : FrameVbi(s, f).cav > 0}
ClvFrames(s) == {f \in 1 .. FrameCount(s) : FrameVbi(s, f).clv # -1}

Bounds(numbers) ==
  [hasVbi |-> TRUE,
   min    |-> CHOOSE n \in numbers : \A m \in numbers : n <= m,
   max    |-> CHOOSE n \in numbers : \A m \in numbers : n >= m]

\* The disc is what most of its codes say.
VbiRange(s) ==
  IF CavFrames(s) = {} /\ ClvFrames(s) = {}
    THEN [hasVbi |-> FALSE, min |-> 0, max |-> 0]
  ELSE IF Cardinality(CavFrames(s)) > Cardinality(ClvFrames(s))
    THEN Bounds({FrameVbi(s, f).cav : f \in CavFrames(s)})
    ELSE Bounds({FrameVbi(s, f).clv : f \in ClvFrames(s)})

----------------------------------------------------------------------------
\* From the primary's frame to an extra's.

\* Frame 1 is taken to carry the lowest number of the capture, and every frame the
\* number after its predecessor's.
ToVbi(a, f, s) == a[s].min - 1 + f
FromVbi(a, n, s) == n - a[s].min + 1

\* The first mutant stops one frame early, the second is off by one.
SourceFrameShort(a, f, s) ==
  LET n == ToVbi(a, f, 0) IN
  IF ~a[0].hasVbi \/ ~a[s].hasVbi THEN f
  ELSE IF n >= a[s].min /\ n < a[s].max THEN FromVbi(a, n, s)
  ELSE NotCovered

SourceFrameOffByOne(a, f, s) ==
  LET n == ToVbi(a, f, 0) IN
  IF ~a[0].hasVbi \/ ~a[s].hasVbi THEN f
  ELSE IF n >= a[s].min /\ n <= a[s].max THEN n - a[s].min
  ELSE NotCovered

\* sourceFrameForPrimaryFrame(), for an extra source.
SourceFrame(a, f, s) ==
  LET n == ToVbi(a, f, 0) IN
  IF ~a[0].hasVbi \/ ~a[s].hasVbi THEN f
  ELSE IF n \in a[s].min .. a[s].max THEN FromVbi(a, n, s)
  ELSE NotCovered

\* What decodeSourceFrame() takes from an extra; a source that does not cover the
\* frame is skipped.

ExtraFields(a, f, s) ==
  LET e == SourceFrame(a, f, s)
  IN  IF e \in 1 .. FrameCount(s) THEN FieldsOf(s, e) ELSE NoFields

Covered(a, f, s) == SourceFrame(a, f, s) \in 1 .. FrameCount(s)

\* getVideoField() throws for a field that is not in the file.
Readable(s, n) == n \in 1 .. captures[s].available

----------------------------------------------------------------------------
\* Actions.

\* chd_decoder_commit of any decoder on the video flips its metadata, not that of
\* the extras.  Commits that follow the first decode are left to SharedVideo.
Commit(reverse) ==
  /\ alignment = NotBuilt
  /\ firstFieldFirst' = [firstFieldFirst EXCEPT ![0] = ~reverse]
  /\ UNCHANGED <<captures, alignment, frame, used, outcome>>

\* The alignment is built once, under call_once, and kept for every later frame.
AlignmentNow == IF alignment = NotBuilt THEN [s \in Sources |-> VbiRange(s)] ELSE alignment

Unreadable(a, f) ==
  \E s \in 1 .. Extras :
    /\ Covered(a, f, s)
    /\ LET p == ExtraFields(a, f, s)
       IN  ~Readable(s, p.first) \/ ~Readable(s, p.second)

Decode(f) ==
  /\ f \in 1 .. FrameCount(0)
  /\ alignment' = AlignmentNow
  /\ ~Unreadable(AlignmentNow, f)
  /\ frame' = f
  /\ used' = [s \in 1 .. Extras |-> ExtraFields(AlignmentNow, f, s)]
  /\ outcome' = "decoded"
  /\ UNCHANGED <<captures, firstFieldFirst>>

\* The fields are fetched outside decodeSourceFrame()'s try block.
DecodeThrows(f) ==
  /\ f \in 1 .. FrameCount(0)
  /\ alignment' = AlignmentNow
  /\ Unreadable(AlignmentNow, f)
  /\ frame' = f
  /\ used' = NoneUsed
  /\ outcome' = "threw"
  /\ UNCHANGED <<captures, firstFieldFirst>>

Next ==
  \/ \E reverse \in Reversals : Commit(reverse)
  \/ \E f \in 1 .. FrameCount(0) : Decode(f) \/ DecodeThrows(f)

Spec == Init /\ [][Next]_vars

----------------------------------------------------------------------------
\* Properties.

TypeOK ==
  /\ firstFieldFirst \in [Sources -> BOOLEAN]
  /\ alignment # NotBuilt =>
       alignment \in [Sources -> [hasVbi : BOOLEAN, min : Int, max : Int]]
  /\ frame = 0 \/ frame \in 1 .. FrameCount(0)
  /\ \A s \in 1 .. Extras :
       used[s] = NoFields \/ {used[s].first, used[s].second} \subseteq DOMAIN captures[s].fields
  /\ outcome \in {"none", "decoded", "threw"}

Picture(s, n) == captures[s].fields[n].picture

\* Frame f of capture s has two fields, and both show this picture of the disc.
Shows(s, f, picture) ==
  LET p == FieldsOf(s, f) IN
  p # NoFields /\ Picture(s, p.first) = picture /\ Picture(s, p.second) = picture

\* A capture that neither skips nor repeats a picture, frame by frame.
Contiguous(s) ==
  \A f \in 1 .. FrameCount(s) : Shows(s, f, Picture(s, FieldsOf(s, 1).first) + f - 1)

\* What can be read of its numbers is right: a disc has picture numbers, which count from
\* 1, or time-codes.
PictureNumbers(s) ==
  \A n \in DOMAIN captures[s].fields :
    LET field == captures[s].fields[n] IN
    field.clv = -1 /\ field.cav \in {-1, field.picture} /\ field.picture > 0

TimeCodes(s) ==
  \A n \in DOMAIN captures[s].fields :
    LET field == captures[s].fields[n] IN
    field.cav = -1 /\ field.clv \in {-1, field.picture} /\ field.picture >= 0

\* It can be registered: no picture is missing, and if any number can be read, its
\* first frame's can.
Anchored(s) ==
  /\ Contiguous(s)
  /\ PictureNumbers(s) \/ TimeCodes(s)
  /\ VbiRange(s).hasVbi => FrameVbi(s, 1) # NoVbi

\* Without numbers, captures must start at the same picture.
Comparable(s) ==
  /\ Anchored(0)
  /\ Anchored(s)
  /\ ~(VbiRange(0).hasVbi /\ VbiRange(s).hasVbi) =>
       Picture(0, FieldsOf(0, 1).first) = Picture(s, FieldsOf(s, 1).first)

\* Damage is repaired from the same picture: captures that can be registered give
\* the fields that show what the primary's fields show, whatever picture each
\* starts at and whichever field of a frame carries the number.
SamePictureUsed ==
  \A s \in 1 .. Extras :
    outcome = "decoded" /\ used[s] # NoFields /\ Comparable(s) =>
      /\ Picture(s, used[s].first) = Picture(0, FieldsOf(0, frame).first)
      /\ Picture(s, used[s].second) = Picture(0, FieldsOf(0, frame).second)

\* An extra that holds the frame's picture, no later than the last frame whose number
\* can be read, is used.
CoveringExtraUsed ==
  \A s \in 1 .. Extras :
    outcome = "decoded" /\ Comparable(s) =>
      \A f \in 1 .. FrameCount(s) :
        /\ Shows(s, f, Picture(0, FieldsOf(0, frame).first))
        /\ VbiRange(s).hasVbi => \E g \in f .. FrameCount(s) : FrameVbi(s, g) # NoVbi
        => used[s] # NoFields

\* "catch C++ exceptions so they never cross the ABI boundary" (architecture.md).
NoExceptionCrosses == outcome # "threw"
=============================================================================
