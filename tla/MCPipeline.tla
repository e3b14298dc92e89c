---------------------------- MODULE MCPipeline -----------------------------
(***************************************************************************)
(* A behaviour is the threaded pipeline over numbered frames (DecoderPool), *)
(* or the pictures of one capture, by an NTSC, PAL or monochrome decoder    *)
(* (ChromaDecoders) or by two SECAM instances (SecamDecoder).               *)
(*                                                                         *)
(* Three-frame captures with eight active lines, cut and uncut in the      *)
(* colour sequence, labelled and not, still and moving, and PAL pictures    *)
(* of both parities at either edge.                                         *)
(*                                                                         *)
(* SECAM frames are of one kind each: clean, moved far by a converter,      *)
(* drifting below and above the recentring threshold, with a blanked, short *)
(* or noisy porch, bottles or without, or lost.  40-row fields with 20      *)
(* active rows: every minimum of the identification (8, 4 and 16 rows) is   *)
(* met and missed.                                                         *)
(***************************************************************************)
EXTENDS DecoderPool, ChromaDecoders, SecamDecoder

\* Not given; in the middle; past the end of the 7 frames.
MCStartFrames == {-1, 3, 9}

\* Not given; nothing; a range that a start of 3 cuts short.
MCLengths == {-1, 0, 6}

-----------------------------------------------------------------------------
Row(b, d, i, q) == [b |-> b, d |-> d, i |-> i, q |-> q]
Still(r) == [l \in Lines |-> r]
Bands(r, s) == [l \in Lines |-> IF l % 4 < 2 THEN r ELSE s]
Red == Row(8, 0, 4, 0)
Green == Row(12, 0, -4, 4)
Texture == Row(8, 4, 0, 0)
Frame(row, position, labelled) ==
    [row |-> row, phase |-> position, ids |-> IF labelled THEN TrueIds(position) ELSE <<0, 0>>]

StillRed == <<Still(Red), Still(Red), Still(Red)>>
StillGreen == <<Still(Green), Still(Green), Still(Green)>>
Moving == <<Still(Red), Bands(Red, Green), Still(Texture)>>
Captured(m, p, unlabelled) == [n \in 1 .. 3 |-> Frame(m[n], p[n], n # unlabelled)]
MCCaptures ==
    {Captured(m, p, 0) : m \in {StillRed, Moving}, p \in {<<0, 1, 0>>, <<1, 0, 1>>, <<0, 0, 1>>, <<1, 0, 0>>}}
      \cup {Captured(StillGreen, <<1, 1, 1>>, 0), Captured(Moving, <<1, 1, 0>>, 2)}
Comb(d, a, c) == [dimensions |-> d, adaptive |-> a, phaseCompensation |-> c]
MCCombs == {Comb(1, TRUE, FALSE), Comb(2, TRUE, TRUE), Comb(3, TRUE, FALSE), Comb(3, TRUE, TRUE), Comb(3, FALSE, FALSE)}
MCCrops ==
    {[first |-> 20 + a, last |-> 44 + b, videoStart |-> 30 + c, videoEnd |-> 70 + c + e] :
        a, b \in 0 .. 1, c, e \in {0, 3}}
MCColours == {<<3, 1>>, <<-2, 5>>, <<1, -4>>}

-----------------------------------------------------------------------------
CONSTANTS w1, w2
MCActive == 20 .. 39
MCPorch == <<3, 8>>

SecamField(seqNo, shift, porch, wrong, bottles, picture, bias, clicks) ==
    [alt |-> (seqNo \div 2) % 2, shift |-> shift, porch |-> porch, wrong |-> wrong,
     bottles |-> bottles, picture |-> picture, bias |-> bias, clicks |-> clicks]

Clicks == {<<22, x>> : x \in {10, 12}} \cup {<<24, x>> : x \in {8, 9, 11, 13, 14}}
          \cup {<<26, x>> : x \in {18, 19}} \cup {<<20, 9>>}

\* The kinds of frame; both fields of a frame are of one kind.
SecamKinds == <<"clean", "moved", "drift", "bottles", "noisy", "few", "lost">>
SecamFieldOfKind(sort, n) ==
    CASE sort = "clean" -> SecamField(n, 0, MCActive, {}, {}, MCActive, <<300, 300>>, {})
      [] sort = "moved" -> SecamField(n, 1000, MCActive, {}, {}, MCActive, <<0, 0>>, Clicks)
      [] sort = "drift" -> SecamField(n, IF n % 2 = 1 THEN 1060 ELSE 1100, 0 .. 39, {}, {}, MCActive, <<0, 0>>, {})
      [] sort = "bottles" -> SecamField(n, 1000, {}, {}, 7 .. 15, MCActive, <<0, 0>>, {})
      [] sort = "noisy" -> SecamField(n, 0, MCActive, {21, 24, 25, 30, 35}, {}, MCActive, <<0, 0>>, {})
      [] sort = "few" -> SecamField(n, 1000, 24 .. 30, {}, 8 .. 10, MCActive, <<0, 0>>, {})
      [] sort = "lost" -> SecamField(n, 0, {}, {}, {}, {}, <<0, 0>>, {})
\* Frames of one kind, or of three: seven triples (the lines of the Fano plane) that
\* put every two kinds into one capture.  Frames are decoded in any order, so
\* theirs does not matter.
KindsOf(a, b, c) == <<((a - 1) % 7) + 1, ((b - 1) % 7) + 1, ((c - 1) % 7) + 1>>
KindTriples == {KindsOf(k, k, k) : k \in 1 .. 7} \cup {KindsOf(k, k + 1, k + 3) : k \in 1 .. 7}
MCSecamCaptures ==
    {[n \in 1 .. 6 |-> SecamFieldOfKind(SecamKinds[k[(n + 1) \div 2]], n)] : k \in KindTriples}

MCWorkers == {w1, w2}

-----------------------------------------------------------------------------
MCModes == {"auto", "manual", "porch", "bottles"}
MCStarts == {9}

ASSUME SecamAssumption == CalibrationAssumption /\ LatticeAssumption /\ ConcealmentAssumption

VARIABLE part

Piping == part = "pipeline"
Secam == part = "secam"

\* A pipeline that is over: no thread of it moves.
NoPipeline ==
  /\ phase = "terminated" /\ startFrame = 1 /\ length = 0 /\ lastError = NoReason
  /\ result = "none" /\ inputFrameNumber = 0 /\ outputFrameNumber = 0
  /\ pending = {} /\ file = <<>> /\ good = TRUE /\ outputMutex = NoWorker
  /\ pc = [w \in Workers |-> "unborn"]
  /\ next = [w \in Workers |-> 0] /\ last = [w \in Workers |-> -1]
  /\ abort = FALSE /\ abortReason = NoReason

\* Instances that decode nothing.
NoSecam ==
  /\ secamCapture = [n \in 1 .. 6 |-> SecamFieldOfKind("clean", n)]
  /\ mode = "auto" /\ SecamInit

NoChroma ==
  /\ kind = "none" /\ cfg = <<>> /\ capture = <<>> /\ crop = <<>> /\ colour = <<>>
  /\ call = Idle /\ bufs = <<>> /\ out = [n \in 1 .. FrameCount |-> {}]

\* The modes that remember nothing are tried on captures of one kind only.
AutoOrOneKind == mode = "auto" \/ secamCapture[1] = secamCapture[5]

MCInit ==
  \/ part = "pipeline" /\ Init /\ NoChroma /\ NoSecam
  \/ part = "chroma" /\ NoPipeline /\ ChromaInit /\ NoSecam
  \/ part = "secam" /\ NoPipeline /\ NoChroma /\ SecamInit /\ AutoOrOneKind
MCNext ==
  \/ Piping /\ Next /\ UNCHANGED <<part, chromaVars, secamVars>>
  \/ part = "chroma" /\ ChromaNext /\ UNCHANGED <<part, vars, secamVars>>
  \/ Secam /\ SecamNext /\ UNCHANGED <<part, vars, chromaVars>>
MCSpec == MCInit /\ [][MCNext]_<<part, vars, chromaVars, secamVars>>

\* The operating system runs the pipeline's threads; nothing calls a decoder again.
MCFairSpec == MCSpec /\ Fairness
=============================================================================
