--------------------------- MODULE ChromaDecoders ---------------------------
(***************************************************************************)
(* One decoder of each comb, PAL or monochrome kind over one capture: runs *)
(* of frames are asked for in any order and any length, each call loading  *)
(* its own look-behind and look-ahead, as the ABI and the pool do.         *)
(***************************************************************************)
EXTENDS CombDecoder, PalColour, TLC

CONSTANTS
    Captures,         \* NTSC captures: sequences of frames
    Combs,            \* comb configurations: [dimensions, adaptive, phaseCompensation]
    Crops,            \* [first, last, videoStart, videoEnd] of a PAL picture
    Colours,          \* flat PAL colours <<U, V>>
    FrameCount,       \* frames of a capture
    MaxRun,           \* frames asked for in one call
    MaxCalls          \* calls of one behaviour

ASSUME RunsAssumption == FrameCount \in Nat /\ MaxRun \in Nat
\* Amplitudes are multiples of 4: see CombDecoder.
ASSUME CapturesAssumption ==
    \A c \in Captures : \A n \in 1 .. FrameCount :
        /\ c[n].phase \in 0 .. 1
        /\ \A l \in Lines : LET r == c[n].row[l]
                           IN  r.b \in Int /\ r.i \in Int /\ r.q \in Int /\ r.i % 4 = 0 /\ r.q % 4 = 0
ASSUME CombsAssumption == \A c \in Combs : c.dimensions \in 1 .. 3
\* The field goes on for two lines past the active ones, as it does around
\* the system's own, which have bursts.
ASSUME CropsAssumption ==
    \A c \in Crops : /\ c.first \in Int /\ c.last \in Int /\ c.videoStart \in Int /\ c.videoEnd \in Int
                     /\ c.first >= 4 /\ c.last <= 2 * FieldLines - 6
ASSUME ColoursAssumption == \A c \in Colours : c \in Int \X Int /\ c # <<0, 0>>

VARIABLES
    kind,             \* "comb", "mono", "palColour" or "transform3D"
    cfg, capture,     \* NTSC: the comb's configuration and its capture
    crop, colour,     \* PAL: the committed crop and the picture
    call,             \* the call under way: [first, count, k, loaded], or Idle
    bufs,             \* the comb's three frame buffers, local to the call
    out               \* frame -> the decodings handed out, each with its call
chromaVars == <<kind, cfg, capture, crop, colour, call, bufs, out>>

Kinds == {"comb", "mono", "palColour", "transform3D"}

\* loadFields(): outside the capture, black with the metadata of frame 1.
Black == [row |-> [l \in Lines |-> EmptyRow], phase |-> capture[1].phase, ids |-> capture[1].ids]
FrameAt(n) == IF n \in 1 .. FrameCount THEN capture[n] ELSE Black
Gathered(first, count, behind, ahead) ==
    [k \in 1 .. (behind + count + ahead) |-> FrameAt(first - behind + k - 1)]

\* The V-switch and phase of a field's first line, from the lines before it.
FieldStart(frame, offset) ==
    LET lines == (625 * frame) + (313 * offset) IN [turns |-> -lines, v |-> lines]

Behind == IF kind = "comb" THEN LookBehind(cfg) ELSE 0
Ahead == IF kind = "comb" THEN LookAhead(cfg) ELSE 0
Frames == Gathered(call.first, call.count, Behind, Ahead)

\* What a call hands out for frame n of the capture.
PalPicture(n) ==
    LET field(o) == DecodeField(FieldStart(n, o), crop.first, crop.last, o, colour)
        even == field(0)
        odd == field(1)
    IN  [l \in DOMAIN even \cup DOMAIN odd |-> IF l \in DOMAIN even THEN even[l] ELSE odd[l]]
\* Transform PAL: which fields of the capture went into each of the two.
TransformReads(n) ==
    LET start == 2 * TransformLookBehind
        base == 2 * (call.first - 1) - start
    IN  [o \in 0 .. 1 |->
            {base + f : f \in ReadFor(start + 2 * (n - call.first) + o, start, start + 2 * call.count)}]
Picture(n) ==
    CASE kind = "comb" -> DecodeBuffers(cfg, bufs.prev, bufs.cur, bufs.next)
      [] kind = "mono" -> DecodeMono(FrameAt(n))
      [] kind = "palColour" -> PalPicture(n)
      [] kind = "transform3D" -> TransformReads(n)

AnyOf(S) == CHOOSE x \in S : TRUE
NtscInit ==
    /\ kind \in {"comb", "mono"} /\ capture \in Captures
    /\ cfg \in (IF kind = "comb" THEN Combs ELSE {AnyOf(Combs)})
    /\ crop = AnyOf(Crops) /\ colour = AnyOf(Colours)
PalInit ==
    /\ kind \in {"palColour", "transform3D"} /\ crop \in Crops
    /\ colour \in (IF kind = "palColour" THEN Colours ELSE {AnyOf(Colours)})
    /\ capture = AnyOf(Captures) /\ cfg = AnyOf(Combs)
Idle == [first |-> 0, count |-> 0, k |-> 0, loaded |-> FALSE]
ChromaInit ==
    /\ NtscInit \/ PalInit
    /\ call = Idle /\ bufs = FreshBuffers /\ out = [n \in 1 .. FrameCount |-> {}]

inputVars == <<kind, cfg, capture, crop, colour>>
Calls == {[first |-> d.at, count |-> d.count] : d \in UNION {out[n] : n \in 1 .. FrameCount}}

\* decodeFrames() is entered; its first iterations only fill the buffers.
DecodeFrames(first, count) ==
    /\ call = Idle /\ first + count - 1 <= FrameCount /\ Cardinality(Calls) < MaxCalls
    /\ call' = [first |-> first, count |-> count, loaded |-> FALSE,
                k |-> IF kind = "comb" THEN PreStart(cfg.dimensions, Behind) ELSE 0]
    /\ UNCHANGED <<inputVars, bufs, out>>

\* An iteration of the comb rotates its buffers and loads the next frame.
Load ==
    /\ call # Idle /\ kind = "comb" /\ ~call.loaded
    /\ bufs' = Rotate(bufs, Frames, call.k)
    /\ call' = IF call.k < Behind THEN [call EXCEPT !.k = @ + 1] ELSE [call EXCEPT !.loaded = TRUE]
    /\ UNCHANGED <<inputVars, out>>

\* Its other half decodes the current frame.  The buffers go with the call.
DecodeFrame ==
    /\ call # Idle /\ (kind = "comb" => call.loaded)
    /\ LET n == call.first + call.k - Behind
           last == n = call.first + call.count - 1
       IN  /\ out' = [out EXCEPT ![n] = @ \cup {[at |-> call.first, count |-> call.count, picture |-> Picture(n)]}]
           /\ call' = IF last THEN Idle ELSE [call EXCEPT !.k = @ + 1, !.loaded = FALSE]
           /\ bufs' = IF last THEN FreshBuffers ELSE bufs
    /\ UNCHANGED inputVars

ChromaNext ==
    \/ \E first \in 1 .. FrameCount, count \in 1 .. MaxRun : DecodeFrames(first, count)
    \/ Load \/ DecodeFrame
ChromaSpec == ChromaInit /\ [][ChromaNext]_chromaVars

-----------------------------------------------------------------------------
(* Properties                                                               *)

\* A frame decodes alike whichever call asks for it, first or last of a run, at
\* the edge of the capture or inside it: the frames gathered around a call are
\* all that the frame needs, and nothing stays from another frame in a buffer.
\* The tiles of Transform PAL 3D are anchored at the call's first field, so it
\* holds there between calls an even number of frames apart.
SameWhateverTheCall ==
    \A n \in 1 .. FrameCount : \A a, b \in out[n] :
        \/ a.picture = b.picture
        \/ kind = "transform3D" /\ (a.at - b.at) % 2 = 1

\* What depends on the capture and the crop alone is checked in the first call.
FirstCall == call # Idle /\ Calls = {}

\* On a still picture of one colour, every row keeps exactly its colour and luma
\* through the adaptive comb of any dimension, however the colour sequence of
\* the capture is cut and whatever black frames surround it: no sample is ever
\* paired with one in the same phase.
Flat(c) ==
    \A n \in 1 .. FrameCount : \A l \in Lines :
        c[n].row[l] = c[1].row[FirstLine] /\ c[n].row[l].d = 0
Labelled(c) == \A n \in 1 .. FrameCount : c[n].ids = TrueIds(c[n].phase)
ColourSurvivesCuts ==
    kind = "comb" /\ cfg.adaptive /\ Flat(capture) /\ Labelled(capture) =>
        \A n \in 1 .. FrameCount : \A d \in out[n], l \in Lines :
            LET r == capture[n].row[l]
            IN  d.picture[l] = [iq |-> [i |-> r.i, q |-> r.q], y |-> [h \in Columns |-> r.b]]

\* The lines of the neighbouring fields that a 3D sample is compared with are
\* half a subcarrier cycle away from it in every uncut capture: the choice of
\* frame by the phases of the rows always names the field just before and after.
FieldCandidatesUsable ==
    kind = "comb" /\ FirstCall /\ Labelled(capture) =>
        \A n \in 2 .. (FrameCount - 1) :
            (\A m \in {n - 1, n + 1} : capture[m].phase # capture[n].phase) =>
                LET b(m) == LoadFields(capture[m])
                IN  \A l \in (FirstLine + 1) .. (LastLine - 1), h \in Columns, c \in {4, 5} :
                        LET place == Places(b(n - 1), b(n), b(n + 1), l, h)[c]
                        IN  /\ Viable(b(n), l, h, place)
                            /\ Positive(place[1].frame.phase, place[2]) # Positive(capture[n].phase, l)

\* Together: the comb finds opposite phases wherever it looks for them.
CombFindsOppositePhases == ColourSurvivesCuts /\ FieldCandidatesUsable

\* From any point of the eight-field sequence PAL decodes every active frame line
\* of both fields, with the transmitted hue, and away from the edges of the
\* picture with the transmitted saturation.
FullGain == 512
PalColoursKept ==
    kind = "palColour" =>
        \A n \in 1 .. FrameCount : \A d \in out[n] :
            /\ DOMAIN d.picture = crop.first .. crop.last
            /\ \A l \in crop.first .. crop.last :
                  LET p == d.picture[l]
                  IN  /\ p.u * colour[2] = p.v * colour[1]
                      /\ (p.u * colour[1]) + (p.v * colour[2]) > 0
                      /\ l \in (crop.first + 6) .. (crop.last - 6) =>
                            p = [u |-> FullGain * colour[1], v |-> FullGain * colour[2]]

\* Transform PAL: exactly two tiles, half a tile apart, cover each active sample
\* on each axis, no tile of a 3D call reads outside the fields it was given, and
\* the symmetry filter keeps or drops a bin together with its reflection, using
\* one threshold a bin.
TwoOver(tiles, lo, hi, half) ==
    \A x \in lo .. (hi - 1) : \E t \in tiles : Covering(tiles, half, x) = {t, t + half}
TransformCovers ==
    kind = "transform3D" /\ FirstCall =>
        /\ \A count \in 1 .. MaxRun :
              LET start == 2 * TransformLookBehind
                  tiles == Filter3D(crop.first, crop.last, crop.videoStart, crop.videoEnd, start, start + 2 * count)
              IN  /\ TwoOver(tiles.z, start, start + 2 * count, HalfZTile)
                  /\ TwoOver(tiles.y, crop.first, crop.last + 1, 16)
                  /\ TwoOver(tiles.x, crop.videoStart, crop.videoEnd, 8)
                  /\ FilterReads(start, start + 2 * count)
                       \subseteq 0 .. (start + 2 * count + 2 * TransformLookAhead - 1)
        /\ \A o \in 0 .. 1 :
              LET f == FirstActiveLine(crop.first, o)
                  e == LastActiveLine(crop.last, o)
                  tiles == Filter2D(f, e, crop.videoStart, crop.videoEnd)
              IN  TwoOver(tiles.y, f, e, 8) /\ TwoOver(tiles.x, crop.videoStart, crop.videoEnd, 16)
SymmetryKept ==
    kind = "transform3D" /\ FirstCall =>
        \A t \in {Tile2D, Tile3D} :
            /\ Cardinality(Bins(t)) = ThresholdsSize(t)
            /\ \A b \in Bins(t) : Reflect(t, Reflect(t, b)) = b
            /\ \A b \in Bins(t) : LET kept == ApplyFilter(t, {b})
                                  IN  b \in kept /\ Reflect(t, b) \in kept
TransformIsWhole == TransformCovers /\ SymmetryKept

\* Together, for the run: what holds of PAL pictures.
PalPicturesAreWhole == PalColoursKept /\ TransformIsWhole
=============================================================================
