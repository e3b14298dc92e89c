---------------------------- MODULE ColourProofs -----------------------------
(***************************************************************************)
(* Theorems about ChromaDecoders: what a frame decodes to, for captures of *)
(* any length and content, any comb, any crop and any calls; and about     *)
(* SecamDecoder: its calibration, its lattice and its concealment, for any *)
(* raster, settings, pool and order of frames.                             *)
(***************************************************************************)
EXTENDS ChromaDecoders, SecamDecoder, FiniteSetTheorems, WellFoundedInduction, TLAPS

-----------------------------------------------------------------------------
(* What a frame decodes to, whoever asks for it. *)

FrameOf(c, n) ==
  IF n \in 1 .. FrameCount THEN c[n]
  ELSE [row |-> [l \in Lines |-> EmptyRow], phase |-> c[1].phase, ids |-> c[1].ids]
Buffer(c, n) == LoadFields(FrameOf(c, n))

\* The tiles of Transform PAL over field o of frame n, in a call whose first
\* frame is an even number of frames before n (parity 0) or an odd one.
OwnTiles(n, parity) ==
  [o \in 0 .. 1 |-> ((2 * (n - 1 - parity)) - 4) .. ((2 * (n - 1 - parity)) + 7)]

OwnPicture(n, parity) ==
  CASE kind = "comb" -> DecodeBuffers(cfg, Buffer(capture, n - 1), Buffer(capture, n), Buffer(capture, n + 1))
    [] kind = "mono" -> DecodeMono(FrameOf(capture, n))
    [] kind = "palColour" -> PalPicture(n)
    [] kind = "transform3D" -> OwnTiles(n, parity)

Called ==
  call # Idle =>
     /\ DOMAIN call = {"first", "count", "k", "loaded"}
     /\ call.first \in 1 .. FrameCount /\ call.count \in Nat \ {0}
     /\ call.first + call.count - 1 <= FrameCount
     /\ call.k \in -1 .. (Behind + call.count - 1)
     /\ kind # "comb" => call.k >= 0
     /\ kind = "comb" /\ call.loaded => call.k >= Behind

\* Before iteration k loads anything the next frame is in the last buffer and
\* the one before it in the second; after, the frame it decodes is in the second.
Buffered ==
  call # Idle /\ kind = "comb" =>
     LET at(j) == Buffer(capture, call.first - Behind + j)
     IN  /\ ~call.loaded => /\ call.k >= 0 => bufs.next = at(call.k)
                            /\ call.k >= 1 => bufs.cur = at(call.k - 1)
         /\ call.loaded => /\ bufs.cur = at(call.k)
                           /\ cfg.dimensions = 3 => bufs.prev = at(call.k - 1)
                           /\ call.k + 1 < Behind + call.count + Ahead => bufs.next = at(call.k + 1)

Decoded ==
  \A n \in 1 .. FrameCount : \A d \in out[n] :
     d.at \in Int /\ d.picture = OwnPicture(n, (n - d.at) % 2)

ColourInv ==
  /\ kind \in Kinds
  /\ kind = "comb" => cfg \in Combs /\ capture \in Captures
  /\ kind \in {"palColour", "transform3D"} => crop \in Crops
  /\ kind = "palColour" => colour \in Colours
  /\ DOMAIN out = 1 .. FrameCount
  /\ Called /\ Buffered /\ Decoded

\* The frames gathered around a call are those of the capture, in order.
LEMMA GatheredAre ==
  ASSUME NEW f \in Int, NEW c \in Nat, NEW b \in Nat, NEW a \in Nat
  PROVE  /\ Len(Gathered(f, c, b, a)) = b + c + a
         /\ \A j \in Nat : j < b + c + a =>
               Gathered(f, c, b, a)[j + 1] = FrameOf(capture, f - b + j)
<1> DEFINE n == b + c + a
           g == [k \in 1 .. n |-> FrameAt(f - b + k - 1)]
           R == {g[k] : k \in 1 .. n}
<1>1. Gathered(f, c, b, a) = g
  BY DEF Gathered
<1>2. n \in Nat
  OBVIOUS
<1>3. \A i \in Int : FrameAt(i) = FrameOf(capture, i)
  BY DEF FrameAt, FrameOf, Black
<1> HIDE DEF n
<1>4. g \in [1 .. n -> R]
  OBVIOUS
<1>5. Len(g) = n
  <2> HIDE DEF g, R
  <2>1. g \in Seq(R)
    BY <1>2, <1>4
  <2> QED BY <1>2, <1>4, <2>1
<1>6. ASSUME NEW j \in Nat, j < n PROVE g[j + 1] = FrameOf(capture, f - b + j)
  <2>1. g[j + 1] = FrameAt(f - b + (j + 1) - 1)
    BY <1>2, <1>6
  <2>2. f - b + (j + 1) - 1 = f - b + j /\ f - b + j \in Int
    OBVIOUS
  <2> HIDE DEF g, R
  <2> QED BY <1>3, <2>1, <2>2
<1> HIDE DEF g
<1> QED BY <1>1, <1>5, <1>6 DEF n

\* A comb that is not 3D looks at its current buffer only.
LEMMA FlatCombs ==
  ASSUME NEW c, c.dimensions \in 1 .. 3, c.dimensions # 3,
         NEW b, NEW p, NEW n, NEW q, NEW m
  PROVE  DecodeBuffers(c, p, b, n) = DecodeBuffers(c, q, b, m)
BY DEF DecodeBuffers

\* t and the tile half a tile after it are the tiles over x.
PairOver(half, lo, hi, x, t) ==
  /\ t \in Int /\ lo - half <= t /\ t <= x - half /\ x <= t + 2 * half - 1
  /\ (t - lo) % half = 0
  /\ Covering(TilesOver(lo, hi, half), half, x) = {t, t + half}

\* Half-overlapping tiles: two of them, half a tile apart, are over each sample.
LEMMA TwoTiles ==
  ASSUME NEW half \in {4, 8, 16}, NEW lo \in Int, NEW hi \in Int, NEW x \in lo .. (hi - 1)
  PROVE  \E t \in TilesOver(lo, hi, half) : PairOver(half, lo, hi, x, t)
<1> DEFINE r == (x - lo) % half
           t == x - r - half
<1>1. r \in 0 .. (half - 1) /\ half \in Nat /\ half >= 4 /\ x \in Int /\ x - lo \in Nat /\ r <= x - lo
      /\ (t - lo) % half = 0
  <2>1. CASE half = 4
    BY <2>1
  <2>2. CASE half = 8
    BY <2>2
  <2>3. CASE half = 16
    BY <2>3
  <2> QED BY <2>1, <2>2, <2>3
<1>2. t \in Int /\ ((t + half) - lo) % half = 0
  <2>1. t \in Int
    BY <1>1
  <2> HIDE DEF t
  <2>2. CASE half = 4
    BY <1>1, <2>1, <2>2
  <2>3. CASE half = 8
    BY <1>1, <2>1, <2>3
  <2>4. CASE half = 16
    BY <1>1, <2>1, <2>4
  <2> QED BY <2>1, <2>2, <2>3, <2>4
<1>3. t \in TilesOver(lo, hi, half) /\ t + half \in TilesOver(lo, hi, half)
  <2>1. t \in (lo - half) .. (hi - 1) /\ t + half \in (lo - half) .. (hi - 1)
    <3> HIDE DEF r
    <3> QED BY <1>1
  <2> HIDE DEF t
  <2> QED BY <1>1, <1>2, <2>1 DEF TilesOver
<1>4. lo - half <= t /\ t <= x - half /\ x <= t + 2 * half - 1
  <2> HIDE DEF r
  <2> QED BY <1>1
<1>5. ASSUME NEW u \in TilesOver(lo, hi, half), x \in u .. (u + 2 * half - 1)
      PROVE  u = t \/ u = t + half
  <2>1. u \in Int /\ (u - lo) % half = 0 /\ u <= x /\ x <= u + 2 * half - 1
    BY <1>1, <1>5 DEF TilesOver
  <2>2. CASE half = 4
    BY <2>1, <2>2
  <2>3. CASE half = 8
    BY <2>1, <2>3
  <2>4. CASE half = 16
    BY <2>1, <2>4
  <2> QED BY <2>2, <2>3, <2>4
<1>6. x \in t .. (t + 2 * half - 1) /\ x \in (t + half) .. ((t + half) + 2 * half - 1)
  <2> HIDE DEF r
  <2> QED BY <1>1
<1>7. Covering(TilesOver(lo, hi, half), half, x) = {t, t + half}
  <2> HIDE DEF t
  <2> QED BY <1>3, <1>5, <1>6 DEF Covering
<1>8. PairOver(half, lo, hi, x, t)
  <2> HIDE DEF t
  <2> QED BY <1>1, <1>2, <1>4, <1>7 DEF PairOver
<1> HIDE DEF t
<1> QED BY <1>3, <1>8

\* The tiles over a field of a 3D call are those over field o of frame n, up to
\* the parity of the frames between the start of the call and it.
LEMMA TilesAreOwn ==
  ASSUME NEW f \in Int, NEW count \in Nat \ {0}, NEW n \in f .. (f + count - 1), NEW o \in 0 .. 1
  PROVE  LET start == 2 * TransformLookBehind
             base == 2 * (f - 1) - start
             first == 2 * (n - 1 - ((n - f) % 2))
         IN  {base + x : x \in ReadFor(start + 2 * (n - f) + o, start, start + 2 * count)}
               = (first - 4) .. (first + 7)
<1> DEFINE j == n - f
           x == 4 + 2 * j + o
           e == 4 + 2 * count
           t == 4 + 4 * (j \div 2)
           first == 2 * (n - 1 - (j % 2))
           base == 2 * (f - 1) - 4
<1>1. 2 * TransformLookBehind = 4
  BY DEF TransformLookBehind, HalfZTile
<1>2. j \in 0 .. (count - 1) /\ j = 2 * (j \div 2) + (j % 2) /\ j % 2 \in 0 .. 1 /\ j \div 2 \in Nat
  OBVIOUS
<1>3. x \in t .. (t + 3) /\ t \in Nat /\ t >= 4 /\ t <= x /\ x < e /\ e \in Nat
  <2> HIDE DEF j
  <2> QED BY <1>2
<1>4. t % 4 = 0
  <2>1. j \div 2 \in Int
    BY <1>2
  <2> QED BY <2>1
<1>5. Covering(TilesOver(4, e, HalfZTile), HalfZTile, x) = {t - 4, t}
  <2> HIDE DEF t, x, e
  <2>1. x \in 4 .. (e - 1) /\ x \in Int
    BY <1>3
  <2>2. PICK u \in TilesOver(4, e, 4) : PairOver(4, 4, e, x, u)
    BY <1>3, <2>1, TwoTiles
  <2>3. /\ u \in Int /\ u <= x - 4 /\ (u - 4) % 4 = 0 /\ x <= u + 2 * 4 - 1
        /\ Covering(TilesOver(4, e, 4), 4, x) = {u, u + 4}
    BY <2>2 DEF PairOver
  <2>4. u = t - 4
    BY <1>3, <1>4, <2>3
  <2>5. u + 4 = t
    BY <1>3, <2>4
  <2> QED BY <2>3, <2>4, <2>5 DEF HalfZTile
<1>6. ReadFor(x, 4, e) = (t - 4) .. (t + 7)
  <2> HIDE DEF t, x, e
  <2> QED BY <1>3, <1>5 DEF ReadFor, HalfZTile
<1>7. base + t = first
  <2>1. n = j + f
    OBVIOUS
  <2> HIDE DEF j
  <2> QED BY <1>2, <2>1
<1>8. {base + y : y \in (t - 4) .. (t + 7)} = (first - 4) .. (first + 7)
  <2>1. base \in Int /\ t \in Int
    BY <1>3
  <2> HIDE DEF base, t, first
  <2>2. ASSUME NEW z \in (first - 4) .. (first + 7)
        PROVE  z \in {base + y : y \in (t - 4) .. (t + 7)}
    <3>1. z - base \in (t - 4) .. (t + 7) /\ z = base + (z - base)
      BY <1>7, <2>1
    <3> QED BY <3>1
  <2>3. ASSUME NEW y \in (t - 4) .. (t + 7) PROVE base + y \in (first - 4) .. (first + 7)
    BY <1>7, <2>1
  <2> QED BY <2>2, <2>3
<1> HIDE DEF x, t
<1> QED BY <1>1, <1>6, <1>8 DEF x

-----------------------------------------------------------------------------
(* The invariant. *)

\* Nothing has been asked for yet.
LEMMA InitiallyOwn == ChromaInit => ColourInv
<1> SUFFICES ASSUME ChromaInit PROVE ColourInv
  OBVIOUS
<1>1. /\ kind \in Kinds
      /\ kind = "comb" => cfg \in Combs /\ capture \in Captures
      /\ kind \in {"palColour", "transform3D"} => crop \in Crops
      /\ kind = "palColour" => colour \in Colours
  BY DEF ChromaInit, NtscInit, PalInit, Kinds
<1>2. /\ call = Idle /\ DOMAIN out = 1 .. FrameCount
      /\ \A n \in 1 .. FrameCount : out[n] = {}
  BY DEF ChromaInit
<1> QED BY <1>1, <1>2 DEF ColourInv, Called, Buffered, Decoded

\* The frames around a call, by iteration.
LEMMA FramesAre ==
  ASSUME ColourInv, call # Idle
  PROVE  /\ Behind \in Nat /\ Ahead \in Nat
         /\ kind = "comb" /\ cfg.dimensions = 3 => Behind = 1 /\ Ahead = 1
         /\ Len(Frames) = Behind + call.count + Ahead
         /\ \A j \in Nat : j < Behind + call.count + Ahead =>
               LoadFields(Frames[j + 1]) = Buffer(capture, call.first - Behind + j)
<1>1. /\ Behind \in Nat /\ Ahead \in Nat
      /\ kind = "comb" /\ cfg.dimensions = 3 => Behind = 1 /\ Ahead = 1
  BY DEF Behind, Ahead, LookBehind, LookAhead
<1>2. call.first \in Int /\ call.count \in Nat
  BY DEF ColourInv, Called
<1>3. Frames = Gathered(call.first, call.count, Behind, Ahead)
  BY DEF Frames
<1>4. /\ Len(Frames) = Behind + call.count + Ahead
      /\ \A j \in Nat : j < Behind + call.count + Ahead =>
            Frames[j + 1] = FrameOf(capture, call.first - Behind + j)
  <2> DEFINE f == call.first
             c == call.count
             b == Behind
             a == Ahead
  <2>1. f \in Int /\ c \in Nat /\ b \in Nat /\ a \in Nat
    BY <1>1, <1>2
  <2> HIDE DEF f, c, b, a
  <2>2. /\ Len(Gathered(f, c, b, a)) = b + c + a
        /\ \A j \in Nat : j < b + c + a => Gathered(f, c, b, a)[j + 1] = FrameOf(capture, f - b + j)
    BY <2>1, GatheredAre
  <2> QED BY <1>3, <2>2 DEF f, c, b, a
<1> QED BY <1>1, <1>4 DEF Buffer

\* What a frame decodes to does not depend on the call or the buffers.
LEMMA PicturesStay ==
  ASSUME UNCHANGED <<kind, cfg, capture, crop, colour>>
  PROVE  \A n, p : OwnPicture(n, p)' = OwnPicture(n, p)
<1> QED BY DEF OwnPicture, PalPicture

LEMMA CallsBegin ==
  ASSUME ColourInv, NEW first \in 1 .. FrameCount, NEW count \in 1 .. MaxRun,
         DecodeFrames(first, count)
  PROVE  ColourInv'
<1> DEFINE c == [first |-> first, count |-> count, loaded |-> FALSE,
                 k |-> IF kind = "comb" THEN PreStart(cfg.dimensions, Behind) ELSE 0]
<1>1. /\ call = Idle /\ first + count - 1 <= FrameCount /\ call' = c
      /\ UNCHANGED <<kind, cfg, capture, crop, colour, bufs, out>>
  BY DEF DecodeFrames, inputVars
<1>2. /\ DOMAIN c = {"first", "count", "k", "loaded"} /\ c.first = first /\ c.count = count
      /\ c.k = (IF kind = "comb" THEN -1 ELSE 0)
  <2>1. kind = "comb" => PreStart(cfg.dimensions, Behind) = -1
    BY CombsAssumption DEF PreStart, Behind, LookBehind, ColourInv
  <2> QED BY <2>1
<1>3. ~c.loaded
  OBVIOUS
<1> HIDE DEF c
<1>4. Behind' = Behind /\ Behind \in Nat
  BY <1>1 DEF Behind, LookBehind
<1>5. Called'
  BY <1>1, <1>2, <1>3, <1>4, RunsAssumption DEF Called
<1>6. Buffered'
  BY <1>1, <1>2, <1>3 DEF Buffered
<1>7. Decoded'
  BY <1>1, PicturesStay DEF Decoded, ColourInv
<1> QED BY <1>1, <1>5, <1>6, <1>7 DEF ColourInv

\* An iteration loads the frame its successor needs next.
LEMMA LoadsAreOwn ==
  ASSUME ColourInv, Load
  PROVE  ColourInv'
<1> DEFINE at(j) == Buffer(capture, call.first - Behind + j)
<1>1. /\ call # Idle /\ kind = "comb" /\ ~call.loaded
      /\ bufs' = Rotate(bufs, Frames, call.k)
      /\ UNCHANGED <<kind, cfg, capture, crop, colour, out>>
      /\ call' = IF call.k < Behind THEN [call EXCEPT !.k = @ + 1] ELSE [call EXCEPT !.loaded = TRUE]
  BY DEF Load, inputVars
<1>2. /\ Behind' = Behind /\ Ahead' = Ahead
      /\ Behind \in Nat /\ Ahead \in Nat
      /\ cfg.dimensions = 3 => Behind = 1 /\ Ahead = 1
  BY <1>1, FramesAre DEF Behind, Ahead, LookBehind, LookAhead
<1>3. /\ call.first \in 1 .. FrameCount /\ call.count \in Nat \ {0} /\ call.k \in Int
      /\ call.first + call.count - 1 <= FrameCount /\ call.k >= -1
      /\ call.k <= Behind + call.count - 1 /\ DOMAIN call = {"first", "count", "k", "loaded"}
  BY <1>1, <1>2 DEF ColourInv, Called
<1>4. /\ bufs'.prev = bufs.cur /\ bufs'.cur = bufs.next
      /\ call.k + 1 < Behind + call.count + Ahead => bufs'.next = at(call.k + 1)
  <2>1. bufs'.prev = bufs.cur /\ bufs'.cur = bufs.next
    BY <1>1 DEF Rotate
  <2>2. ASSUME call.k + 1 < Behind + call.count + Ahead PROVE bufs'.next = at(call.k + 1)
    <3>1. LoadFields(Frames[(call.k + 1) + 1]) = at(call.k + 1)
      <4> DEFINE j == call.k + 1
      <4>1. j \in Nat /\ j < Behind + call.count + Ahead
        BY <1>3, <2>2
      <4> HIDE DEF j
      <4>2. LoadFields(Frames[j + 1]) = Buffer(capture, call.first - Behind + j)
        BY <1>1, <4>1, FramesAre
      <4> QED BY <4>2 DEF j
    <3>2. bufs'.next = LoadFields(Frames[call.k + 2])
      BY <1>1, <2>2, FramesAre DEF Rotate
    <3>3. (call.k + 1) + 1 = call.k + 2
      BY <1>3
    <3> QED BY <3>1, <3>2, <3>3
  <2> QED BY <2>1, <2>2
<1>5. /\ call.k >= 0 => bufs.next = at(call.k)
      /\ call.k >= 1 => bufs.cur = at(call.k - 1)
  BY <1>1 DEF ColourInv, Buffered
<1>6. /\ DOMAIN call' = DOMAIN call /\ call'.first = call.first /\ call'.count = call.count
      /\ IF call.k < Behind THEN call'.k = call.k + 1 /\ ~call'.loaded
                            ELSE call'.k = call.k /\ call'.loaded
  <2>1. CASE call.k < Behind
    BY <1>1, <1>3, <2>1
  <2>2. CASE ~(call.k < Behind)
    BY <1>1, <1>3, <2>2
  <2> QED BY <2>1, <2>2
<1>7. Called'
  BY <1>1, <1>2, <1>3, <1>6 DEF Called
<1>8. Buffered'
  <2> SUFFICES ASSUME call' # Idle
      PROVE /\ ~call'.loaded => /\ call'.k >= 0 => bufs'.next = at(call'.k)
                                /\ call'.k >= 1 => bufs'.cur = at(call'.k - 1)
            /\ call'.loaded => /\ bufs'.cur = at(call'.k)
                               /\ cfg.dimensions = 3 => bufs'.prev = at(call'.k - 1)
                               /\ call'.k + 1 < Behind + call'.count + Ahead => bufs'.next = at(call'.k + 1)
    BY <1>1, <1>2, <1>6 DEF Buffered
  <2> HIDE DEF at
  <2>1. CASE call.k < Behind
    <3>1. (call.k + 1) - 1 = call.k /\ call.k + 1 < Behind + call.count + Ahead
      BY <1>2, <1>3, <2>1
    <3> QED BY <1>3, <1>4, <1>5, <1>6, <2>1, <3>1
  <2>2. CASE ~(call.k < Behind)
    BY <1>2, <1>3, <1>4, <1>5, <1>6, <2>2
  <2> QED BY <2>1, <2>2
<1>9. Decoded'
  BY <1>1, PicturesStay DEF Decoded, ColourInv
<1> QED BY <1>1, <1>7, <1>8, <1>9 DEF ColourInv

\* A frame decodes from the buffers of its neighbours and itself.
LEMMA PictureIsOwn ==
  ASSUME ColourInv, call # Idle, kind = "comb" => call.loaded,
         NEW n, n = call.first + call.k - Behind
  PROVE  n \in 1 .. FrameCount /\ Picture(n) = OwnPicture(n, (n - call.first) % 2)
<1>1. /\ call.first \in 1 .. FrameCount /\ call.count \in Nat \ {0} /\ call.k \in Int
      /\ call.first + call.count - 1 <= FrameCount
      /\ call.k <= Behind + call.count - 1 /\ Behind \in Nat /\ Ahead \in Nat
      /\ kind = "comb" => call.k >= Behind
      /\ kind # "comb" => Behind = 0 /\ call.k >= 0
  BY FramesAre DEF ColourInv, Called, Behind
<1>2. n \in 1 .. FrameCount /\ n \in call.first .. (call.first + call.count - 1)
  BY <1>1, RunsAssumption
<1>3. CASE kind = "comb"
  <2> DEFINE at(j) == Buffer(capture, call.first - Behind + j)
  <2>1. /\ bufs.cur = at(call.k)
        /\ cfg.dimensions = 3 => bufs.prev = at(call.k - 1)
        /\ call.k + 1 < Behind + call.count + Ahead => bufs.next = at(call.k + 1)
    BY <1>3 DEF ColourInv, Buffered
  <2>2. at(call.k) = Buffer(capture, n) /\ at(call.k - 1) = Buffer(capture, n - 1)
        /\ at(call.k + 1) = Buffer(capture, n + 1)
    <3>1. /\ call.first - Behind + call.k = n /\ call.first - Behind + (call.k - 1) = n - 1
          /\ call.first - Behind + (call.k + 1) = n + 1
      BY <1>1
    <3> QED BY <3>1
  <2>3. Picture(n) = DecodeBuffers(cfg, bufs.prev, bufs.cur, bufs.next)
    BY <1>3 DEF Picture
  <2>4. OwnPicture(n, (n - call.first) % 2)
          = DecodeBuffers(cfg, Buffer(capture, n - 1), Buffer(capture, n), Buffer(capture, n + 1))
    BY <1>3 DEF OwnPicture
  <2> HIDE DEF at
  <2>5. CASE cfg.dimensions = 3
    <3>1. Behind = 1 /\ Ahead = 1
      BY <1>3, <2>5, FramesAre
    <3>2. call.k + 1 < Behind + call.count + Ahead
      BY <1>1, <3>1
    <3> QED BY <1>2, <2>1, <2>2, <2>3, <2>4, <2>5, <3>2
  <2>6. CASE cfg.dimensions # 3
    <3>1. cfg.dimensions \in 1 .. 3
      BY <1>3, CombsAssumption DEF ColourInv
    <3> QED BY <1>2, <2>1, <2>2, <2>3, <2>4, <2>6, <3>1, FlatCombs
  <2> QED BY <2>5, <2>6
<1>4. CASE kind = "mono"
  BY <1>2, <1>4 DEF Picture, OwnPicture, FrameAt, FrameOf
<1>5. CASE kind = "palColour"
  BY <1>2, <1>5 DEF Picture, OwnPicture
<1>6. CASE kind = "transform3D"
  <2> DEFINE start == 2 * TransformLookBehind
             base == 2 * (call.first - 1) - start
             own == OwnTiles(n, (n - call.first) % 2)
             reads(o) == {base + f : f \in ReadFor(start + 2 * (n - call.first) + o, start, start + 2 * call.count)}
  <2>1. Picture(n) = [o \in 0 .. 1 |-> reads(o)]
    BY <1>6 DEF Picture, TransformReads
  <2>2. OwnPicture(n, (n - call.first) % 2) = own
    BY <1>6 DEF OwnPicture
  <2>3. ASSUME NEW o \in 0 .. 1 PROVE reads(o) = own[o]
    <3> DEFINE f == call.first
               c == call.count
               first == 2 * (n - 1 - ((n - f) % 2))
    <3>1. f \in Int /\ c \in Nat \ {0} /\ n \in f .. (f + c - 1)
      BY <1>1, <1>2
    <3>2. own[o] = (first - 4) .. (first + 7)
      BY DEF OwnTiles
    <3> HIDE DEF f, c, own
    <3>3. {2 * (f - 1) - start + x : x \in ReadFor(start + 2 * (n - f) + o, start, start + 2 * c)}
            = (first - 4) .. (first + 7)
      BY <3>1, TilesAreOwn
    <3> QED BY <3>2, <3>3 DEF f, c
  <2>4. own = [o \in 0 .. 1 |-> own[o]]
    BY DEF OwnTiles
  <2> HIDE DEF own, reads
  <2> QED BY <1>2, <2>1, <2>2, <2>3, <2>4
<1> QED BY <1>3, <1>4, <1>5, <1>6 DEF ColourInv, Kinds

\* A frame that is handed out is its own picture, and the next one is loaded.
LEMMA DecodesAreOwn ==
  ASSUME ColourInv, DecodeFrame
  PROVE  ColourInv'
<1> DEFINE n == call.first + call.k - Behind
           d == [at |-> call.first, count |-> call.count, picture |-> Picture(n)]
<1>1. /\ call # Idle
      /\ kind = "comb" => call.loaded
      /\ UNCHANGED <<kind, cfg, capture, crop, colour>>
      /\ out' = [out EXCEPT ![n] = @ \cup {d}]
      /\ \/ call' = Idle
         \/ /\ n # call.first + call.count - 1 /\ bufs' = bufs
            /\ call' = [call EXCEPT !.k = @ + 1, !.loaded = FALSE]
  BY DEF DecodeFrame, inputVars
<1>2. n \in 1 .. FrameCount /\ Picture(n) = OwnPicture(n, (n - call.first) % 2)
  BY <1>1, PictureIsOwn
<1>3. /\ Behind' = Behind /\ Ahead' = Ahead /\ Behind \in Nat /\ Ahead \in Nat
      /\ kind = "comb" /\ cfg.dimensions = 3 => Behind = 1 /\ Ahead = 1
  BY <1>1, FramesAre DEF Behind, Ahead, LookBehind, LookAhead
<1>4. /\ call.first \in 1 .. FrameCount /\ call.count \in Nat \ {0} /\ call.k \in Int
      /\ call.first + call.count - 1 <= FrameCount /\ call.k >= -1
      /\ call.k <= Behind + call.count - 1 /\ DOMAIN call = {"first", "count", "k", "loaded"}
      /\ kind = "comb" => call.k >= Behind
      /\ kind # "comb" => Behind = 0 /\ call.k >= 0
  BY <1>1, <1>3 DEF ColourInv, Called, Behind
<1>5. DOMAIN out' = 1 .. FrameCount /\ Decoded'
  <2>1. DOMAIN out' = 1 .. FrameCount
    BY <1>1 DEF ColourInv
  <2>2. d.at = call.first /\ d.picture = Picture(n)
    OBVIOUS
  <2>3. ASSUME NEW m \in 1 .. FrameCount, NEW e \in out'[m]
        PROVE  e.at \in Int /\ e.picture = OwnPicture(m, (m - e.at) % 2)
    <3>1. e \in out[m] \/ (m = n /\ e = d)
      <4> HIDE DEF n, d
      <4> QED BY <1>1, <1>2 DEF ColourInv
    <3>2. CASE e \in out[m]
      BY <3>2 DEF ColourInv, Decoded
    <3>3. CASE m = n /\ e = d
      <4> HIDE DEF n, d
      <4> QED BY <1>2, <1>4, <2>2, <3>3
    <3> QED BY <3>1, <3>2, <3>3
  <2> QED BY <1>1, <2>1, <2>3, PicturesStay DEF Decoded
<1>6. CASE call' = Idle
  BY <1>1, <1>5, <1>6 DEF ColourInv, Called, Buffered
<1>7. CASE /\ n # call.first + call.count - 1 /\ bufs' = bufs
           /\ call' = [call EXCEPT !.k = @ + 1, !.loaded = FALSE]
  <2>1. /\ DOMAIN call' = DOMAIN call /\ call'.first = call.first /\ call'.count = call.count
        /\ call'.k = call.k + 1 /\ ~call'.loaded
    <3> DEFINE c == [call EXCEPT !.k = call.k + 1]
    <3>1. /\ DOMAIN c = DOMAIN call /\ c.first = call.first /\ c.count = call.count
          /\ c.k = call.k + 1
      BY <1>4
    <3>2. call' = [c EXCEPT !.loaded = FALSE]
      BY <1>7
    <3> HIDE DEF c
    <3> QED BY <1>4, <3>1, <3>2
  <2>2. call.k + 1 <= Behind + call.count - 1
    BY <1>3, <1>4, <1>7
  <2>3. Called'
    BY <1>1, <1>3, <1>4, <2>1, <2>2 DEF Called
  <2>4. Buffered'
    <3> SUFFICES ASSUME kind = "comb"
        PROVE  LET at(j) == Buffer(capture, call.first - Behind + j)
               IN  bufs.next = at(call.k + 1) /\ bufs.cur = at((call.k + 1) - 1)
      BY <1>1, <1>3, <1>7, <2>1 DEF Buffered
    <3> DEFINE at(j) == Buffer(capture, call.first - Behind + j)
    <3>1. /\ bufs.cur = at(call.k)
          /\ call.k + 1 < Behind + call.count + Ahead => bufs.next = at(call.k + 1)
      BY <1>1 DEF ColourInv, Buffered
    <3>2. (call.k + 1) - 1 = call.k /\ call.k + 1 < Behind + call.count + Ahead
      BY <1>3, <1>4, <2>2
    <3> HIDE DEF at
    <3>3. bufs.next = at(call.k + 1) /\ bufs.cur = at((call.k + 1) - 1)
      BY <3>1, <3>2
    <3> QED BY <3>3 DEF at
  <2> QED BY <1>1, <1>5, <2>3, <2>4 DEF ColourInv
<1> QED BY <1>1, <1>6, <1>7

LEMMA ColourInvariant == ChromaSpec => []ColourInv
<1>1. ColourInv /\ [ChromaNext]_chromaVars => ColourInv'
  <2> SUFFICES ASSUME ColourInv, [ChromaNext]_chromaVars PROVE ColourInv'
    OBVIOUS
  <2>1. CASE UNCHANGED chromaVars
    <3>1. UNCHANGED <<kind, cfg, capture, crop, colour, call, bufs, out>>
      BY <2>1 DEF chromaVars
    <3> QED BY <3>1, PicturesStay
            DEF ColourInv, Called, Buffered, Decoded, Behind, Ahead, LookBehind, LookAhead
  <2> QED BY <2>1, CallsBegin, LoadsAreOwn, DecodesAreOwn DEF ChromaNext
<1> QED BY <1>1, InitiallyOwn, PTL DEF ChromaSpec

\* Whichever call asks for a frame, first or last of a run, at the edge of the
\* capture or inside it, it decodes alike: for captures of any length, any
\* comb and any order of calls; on Transform PAL 3D between calls an even number
\* of frames apart.
THEOREM FramesAreTheirOwn == ChromaSpec => []SameWhateverTheCall
<1>1. ColourInv => SameWhateverTheCall
  <2> SUFFICES ASSUME ColourInv, NEW n \in 1 .. FrameCount, NEW a \in out[n], NEW b \in out[n],
                      kind = "transform3D" => (a.at - b.at) % 2 # 1
               PROVE  a.picture = b.picture
    BY DEF SameWhateverTheCall
  <2>1. /\ a.at \in Int /\ a.picture = OwnPicture(n, (n - a.at) % 2)
        /\ b.at \in Int /\ b.picture = OwnPicture(n, (n - b.at) % 2)
    BY DEF ColourInv, Decoded
  <2>2. CASE kind = "transform3D"
    <3>1. (n - a.at) % 2 = (n - b.at) % 2
      BY <2>1, <2>2
    <3> QED BY <2>1, <3>1
  <2>3. CASE kind # "transform3D"
    <3>1. \A p, q : OwnPicture(n, p) = OwnPicture(n, q)
      BY <2>3 DEF OwnPicture, ColourInv, Kinds
    <3> QED BY <2>1, <3>1
  <2> QED BY <2>2, <2>3
<1> QED BY <1>1, ColourInvariant, PTL

-----------------------------------------------------------------------------
(* PAL lines. *)

Start(turns, v) == [turns |-> turns, v |-> v]

\* A colour on the line itself, and on the line before it.
OnThis(n, u, y) == Turn(<<u, y>>, n)
OnPrevious(n, u, y) == Turn(<<u, -y>>, n + 1)

\* Two lines on, a line's chroma is inverted; the lines between have V inverted.
LEMMA LinesAround ==
  ASSUME NEW start, start.turns \in Int, start.v \in Int, NEW line \in Int, NEW u \in Int, NEW w \in Int
  PROVE  LET n == start.turns - line
             x == OnThis(n, u, VSwitch(start, line) * w)
             z == OnPrevious(n, u, VSwitch(start, line) * w)
             on(k) == OnLine(start, line + k, u, w)
         IN  /\ on(0) = x /\ on(-2) = Times(-1, x) /\ on(2) = Times(-1, x)
             /\ on(-1) = z /\ on(3) = z /\ on(1) = Times(-1, z) /\ on(-3) = Times(-1, z)
<1> DEFINE n == start.turns - line
           s == VSwitch(start, line)
           on(k) == OnLine(start, line + k, u, w)
<1>1. n \in Int /\ s \in {1, -1}
  BY DEF VSwitch
<1>2. /\ VSwitch(start, line + 0) = s /\ VSwitch(start, line + 2) = s /\ VSwitch(start, line + (-2)) = s
      /\ VSwitch(start, line + 1) = -s /\ VSwitch(start, line + (-1)) = -s
      /\ VSwitch(start, line + 3) = -s /\ VSwitch(start, line + (-3)) = -s
  BY DEF VSwitch
<1> DEFINE y == s * w
<1>3. y \in Int /\ (-s) * w = -y
  BY <1>1
<1>4. \A k \in Int : start.turns - (line + k) = n - k
  OBVIOUS
<1> HIDE DEF n, s
<1>5. /\ on(0) = Turn(<<u, y>>, n - 0) /\ on(2) = Turn(<<u, y>>, n - 2)
      /\ on(-2) = Turn(<<u, y>>, n - (-2))
      /\ on(1) = Turn(<<u, -y>>, n - 1) /\ on(-1) = Turn(<<u, -y>>, n - (-1))
      /\ on(3) = Turn(<<u, -y>>, n - 3) /\ on(-3) = Turn(<<u, -y>>, n - (-3))
  <2>1. ASSUME NEW k \in Int PROVE on(k) = Turn(<<u, VSwitch(start, line + k) * w>>, n - k)
    BY <1>4 DEF OnLine
  <2> HIDE DEF on
  <2>2. s * w = y
    OBVIOUS
  <2> HIDE DEF y
  <2> QED BY <1>2, <1>3, <2>1, <2>2
<1> HIDE DEF on, y
<1>6. n % 4 \in 0 .. 3
  BY <1>1
<1>7. /\ Turn(<<u, y>>, n - 0) = OnThis(n, u, y)
      /\ Turn(<<u, y>>, n - 2) = Times(-1, OnThis(n, u, y))
      /\ Turn(<<u, y>>, n - (-2)) = Times(-1, OnThis(n, u, y))
  <2>1. n - 0 = n
    BY <1>1
  <2>2. \A m \in Int : m % 4 = (n + 2) % 4 => Turn(<<u, y>>, m) = Times(-1, Turn(<<u, y>>, n))
    BY <1>1, <1>3, <1>6 DEF Turn, Times
  <2>3. n - 2 \in Int /\ n - (-2) \in Int /\ (n - 2) % 4 = (n + 2) % 4 /\ (n - (-2)) % 4 = (n + 2) % 4
    BY <1>1
  <2> QED BY <2>1, <2>2, <2>3 DEF OnThis
<1>8. /\ Turn(<<u, -y>>, n - (-1)) = OnPrevious(n, u, y)
      /\ Turn(<<u, -y>>, n - 3) = OnPrevious(n, u, y)
      /\ Turn(<<u, -y>>, n - 1) = Times(-1, OnPrevious(n, u, y))
      /\ Turn(<<u, -y>>, n - (-3)) = Times(-1, OnPrevious(n, u, y))
  BY <1>1, <1>3, <1>6 DEF Turn, Times, OnPrevious
<1>9. /\ on(0) = OnThis(n, u, y) /\ on(-2) = Times(-1, OnThis(n, u, y)) /\ on(2) = Times(-1, OnThis(n, u, y))
      /\ on(-1) = OnPrevious(n, u, y) /\ on(3) = OnPrevious(n, u, y)
      /\ on(1) = Times(-1, OnPrevious(n, u, y)) /\ on(-3) = Times(-1, OnPrevious(n, u, y))
  BY <1>5, <1>7, <1>8
<1> QED BY <1>9 DEF on, y, n, s

\* The two chroma vectors, at each quarter turn.
Quarter(n, u, y, x, z) ==
  \/ n % 4 = 0 /\ x = <<u, y>> /\ z = <<y, u>>
  \/ n % 4 = 1 /\ x = <<-y, u>> /\ z = <<-u, y>>
  \/ n % 4 = 2 /\ x = <<-u, -y>> /\ z = <<-y, -u>>
  \/ n % 4 = 3 /\ x = <<y, -u>> /\ z = <<u, -y>>

LEMMA Quarters ==
  ASSUME NEW n \in Int, NEW u \in Int, NEW y \in Int
  PROVE  Quarter(n, u, y, OnThis(n, u, y), OnPrevious(n, u, y))
<1>1. n % 4 \in 0 .. 3
  OBVIOUS
<1>2. /\ n % 4 = 0 => (n + 1) % 4 = 1
      /\ n % 4 = 1 => (n + 1) % 4 = 2
      /\ n % 4 = 2 => (n + 1) % 4 = 3
      /\ n % 4 = 3 => (n + 1) % 4 = 0
  OBVIOUS
<1> QED BY <1>1, <1>2 DEF OnThis, OnPrevious, Turn, Quarter

\* The burst tells the V-switch and the axis of its line.
LEMMA BurstIsDetected ==
  ASSUME NEW start, start.turns \in Int, start.v \in Int,
         NEW line \in 2 .. (FieldLines - 3)
  PROVE  LET n == start.turns - line
         IN  /\ DetectVsw(start, line) = VSwitch(start, line)
             /\ DetectAxis(start, line) = Turn(<<-32, 0>>, n)
<1> DEFINE n == start.turns - line
           s == VSwitch(start, line)
           x == OnThis(n, -4, s * 4)
           z == OnPrevious(n, -4, s * 4)
<1>1. n \in Int /\ s \in {1, -1} /\ line \in Int
  BY FieldLinesAssumption DEF VSwitch
<1>2. /\ Burst(start, line + 0) = x /\ Burst(start, line + (-2)) = Times(-1, x)
      /\ Burst(start, line + 2) = Times(-1, x)
      /\ Burst(start, line + (-1)) = z /\ Burst(start, line + 1) = Times(-1, z)
  <2>1. \A k \in -2 .. 2 : Burst(start, line + k) = OnLine(start, line + k, -4, 4)
    BY <1>1, FieldLinesAssumption DEF Burst
  <2> QED BY <1>1, <2>1, LinesAround
<1> DEFINE here == Minus(Times(2, x), Plus(Times(-1, x), Times(-1, x)))
           around == Times(2, Minus(Times(-1, z), z))
<1>3. BurstPhasors(start, line) = [here |-> here, around |-> around]
  BY <1>2 DEF BurstPhasors
<1> HIDE DEF n, s, x, z
<1>4. s * 4 \in Int /\ Quarter(n, -4, s * 4, x, z)
  <2>1. s * 4 \in Int /\ -4 \in Int
    BY <1>1
  <2> QED BY <1>1, <2>1, Quarters DEF x, z
<1>5. DetectVsw(start, line) = s
  BY <1>1, <1>3, <1>4 DEF Quarter, DetectVsw, Norm2, Minus, Times, Plus
<1>6. DetectAxis(start, line) = Turn(<<-32, 0>>, n)
  BY <1>1, <1>3, <1>4 DEF Quarter, DetectAxis, Minus, Times, Plus, Turn
<1> QED BY <1>5, <1>6 DEF n, s

\* What the lines around an active one add to its gain: those that are active.
Active(first, last, line) == IF line \in ActiveFieldLines(first, last) THEN 1 ELSE 0
EvenGain(first, last, line) ==
  4 + 2 * (Active(first, last, line - 2) + Active(first, last, line + 2))
OddGain(first, last, line) ==
  3 * (Active(first, last, line - 1) + Active(first, last, line + 1))
    + (Active(first, last, line - 3) + Active(first, last, line + 3))
Gain(first, last, line) == EvenGain(first, last, line) + OddGain(first, last, line)

LEMMA GainIs ==
  ASSUME NEW first \in Int, NEW last \in Int, NEW line \in Int
  PROVE  /\ EvenGain(first, last, line) \in Int /\ OddGain(first, last, line) \in Int
         /\ Gain(first, last, line) \in 4 .. 16
         /\ line - 3 >= first /\ line + 3 < last => Gain(first, last, line) = 16
<1>1. \A l \in Int : Active(first, last, l) \in 0 .. 1
  BY DEF Active
<1>2. /\ EvenGain(first, last, line) \in 4 .. 8 /\ OddGain(first, last, line) \in 0 .. 8
  BY <1>1 DEF EvenGain, OddGain
<1>3. ASSUME line - 3 >= first, line + 3 < last PROVE Gain(first, last, line) = 16
  <2>1. \A l \in (line - 3) .. (line + 3) : Active(first, last, l) = 1
    BY <1>3 DEF Active, ActiveFieldLines
  <2>2. \A k \in -3 .. 3 : line + k \in (line - 3) .. (line + 3)
    OBVIOUS
  <2> QED BY <2>1, <2>2 DEF Gain, EvenGain, OddGain
<1> QED BY <1>2, <1>3 DEF Gain

\* The filter adds up the lines as their phases cancel: the line's own chroma
\* and that of the lines two away in one sum, of the others in another.
LEMMA LinesAddUp ==
  ASSUME NEW start, start.turns \in Int, start.v \in Int,
         NEW first \in Int, NEW last \in Int, NEW line \in first .. (last - 1),
         NEW u \in Int, NEW w \in Int
  PROVE  LET n == start.turns - line
             y == VSwitch(start, line) * w
             even == Times(EvenGain(first, last, line), OnThis(n, u, y))
             odd == Times(OddGain(first, last, line), OnPrevious(n, u, y))
         IN  FilterUV(start, first, last, line, <<u, w>>)
               = [u |-> <<even[1] + odd[2], even[2] - odd[1]>>,
                  v |-> <<even[1] - odd[2], even[2] + odd[1]>>]
<1> DEFINE n == start.turns - line
           y == VSwitch(start, line) * w
           x == OnThis(n, u, y)
           z == OnPrevious(n, u, y)
           in(k) == IF line + k \in ActiveFieldLines(first, last)
                      THEN OnLine(start, line + k, u, w) ELSE <<0, 0>>
           a(k) == Active(first, last, line + k)
<1>1. n \in Int /\ y \in Int
  <2>1. VSwitch(start, line) \in {1, -1}
    BY DEF VSwitch
  <2> QED BY <2>1
<1>2. PICK p, q, r, t \in Int : x = <<p, q>> /\ z = <<r, t>>
  <2> HIDE DEF n, y
  <2>1. Quarter(n, u, y, x, z)
    BY <1>1, Quarters
  <2> HIDE DEF x, z
  <2> QED BY <1>1, <2>1 DEF Quarter
<1>3. /\ in(0) = x
      /\ in(-2) = Times(-a(-2), x) /\ in(2) = Times(-a(2), x)
      /\ in(-1) = Times(a(-1), z) /\ in(3) = Times(a(3), z)
      /\ in(1) = Times(-a(1), z) /\ in(-3) = Times(-a(-3), z)
  <2> DEFINE on(k) == OnLine(start, line + k, u, w)
  <2>1. /\ on(0) = x /\ on(-2) = Times(-1, x) /\ on(2) = Times(-1, x)
        /\ on(-1) = z /\ on(3) = z /\ on(1) = Times(-1, z) /\ on(-3) = Times(-1, z)
    BY LinesAround
  <2>2. ASSUME NEW k \in Int
        PROVE  IF a(k) = 1 THEN in(k) = on(k) ELSE a(k) = 0 /\ in(k) = <<0, 0>>
    BY DEF Active
  <2>3. a(0) = 1
    BY DEF Active, ActiveFieldLines
  <2> HIDE DEF in, on, a, x, z
  <2> QED BY <1>2, <2>1, <2>2, <2>3 DEF Times
<1>4. \A k \in Int : a(k) \in 0 .. 1
  BY DEF Active
<1> DEFINE m1 == Times(-1, Plus(in(-2), in(2)))
           m2 == Minus(in(-1), in(1))
           m3 == Minus(in(3), in(-3))
           even == Plus(Times(Weight(0), in(0)), Times(Weight(2), m1))
           odd == Plus(Times(Weight(1), m2), Times(Weight(3), m3))
           E == EvenGain(first, last, line)
           O == OddGain(first, last, line)
<1>5. FilterUV(start, first, last, line, <<u, w>>)
        = [u |-> <<even[1] + odd[2], even[2] - odd[1]>>, v |-> <<even[1] - odd[2], even[2] + odd[1]>>]
  BY DEF FilterUV
<1>6. E = 4 + 2 * (a(-2) + a(2)) /\ O = 3 * (a(-1) + a(1)) + (a(-3) + a(3))
  <2>1. line - 1 = line + (-1) /\ line - 2 = line + (-2) /\ line - 3 = line + (-3)
    OBVIOUS
  <2> QED BY <2>1 DEF EvenGain, OddGain
<1> HIDE DEF in, a, x, z, E, O
<1> DEFINE b == a(-2)
           c == a(2)
           d == a(-1)
           e == a(1)
           f == a(-3)
           g == a(3)
<1>7. b \in Int /\ c \in Int /\ d \in Int /\ e \in Int /\ f \in Int /\ g \in Int
  BY <1>4
<1>8. /\ in(0) = <<p, q>> /\ in(-2) = <<-b * p, -b * q>> /\ in(2) = <<-c * p, -c * q>>
      /\ in(-1) = <<d * r, d * t>> /\ in(1) = <<-e * r, -e * t>>
      /\ in(-3) = <<-f * r, -f * t>> /\ in(3) = <<g * r, g * t>>
  BY <1>2, <1>3, <1>7 DEF Times
<1>11. E = 4 + 2 * (b + c) /\ O = 3 * (d + e) + (f + g)
  BY <1>6
<1> HIDE DEF b, c, d, e, f, g
<1>9. even = Times(E, x)
  <2>1. even = <<4 * p + 2 * (-1 * ((-b * p) + (-c * p))), 4 * q + 2 * (-1 * ((-b * q) + (-c * q)))>>
    BY <1>2, <1>7, <1>8 DEF Plus, Times, Weight
  <2>2. Times(E, x) = <<(4 + 2 * (b + c)) * p, (4 + 2 * (b + c)) * q>>
    BY <1>2, <1>11 DEF Times
  <2> HIDE DEF even
  <2>3. \A m \in Int : 4 * m + 2 * (-1 * ((-b * m) + (-c * m))) = (4 + 2 * (b + c)) * m
    BY <1>7
  <2> QED BY <1>2, <2>1, <2>2, <2>3
<1>10. odd = Times(O, z)
  <2>1. odd = <<3 * ((d * r) - (-e * r)) + 1 * ((g * r) - (-f * r)),
                3 * ((d * t) - (-e * t)) + 1 * ((g * t) - (-f * t))>>
    BY <1>2, <1>7, <1>8 DEF Plus, Minus, Times, Weight
  <2>2. Times(O, z) = <<(3 * (d + e) + (f + g)) * r, (3 * (d + e) + (f + g)) * t>>
    BY <1>2, <1>11 DEF Times
  <2> HIDE DEF odd
  <2>3. \A m \in Int : 3 * ((d * m) - (-e * m)) + 1 * ((g * m) - (-f * m)) = (3 * (d + e) + (f + g)) * m
    BY <1>7
  <2> QED BY <1>2, <2>1, <2>2, <2>3
<1> HIDE DEF even, odd
<1> QED BY <1>5, <1>9, <1>10 DEF x, z, E, O

\* A line gives back its colour, with the gain of the lines it was filtered from.
LEMMA LineDecodes ==
  ASSUME NEW start, start.turns \in Int, start.v \in Int,
         NEW first \in Int, NEW last \in Int, NEW line \in first .. (last - 1),
         line \in 2 .. (FieldLines - 3), NEW u \in Int, NEW w \in Int
  PROVE  LET g == 32 * Gain(first, last, line)
         IN  DecodeLine(start, first, last, line, <<u, w>>) = [u |-> g * u, v |-> g * w]
<1> DEFINE n == start.turns - line
           s == VSwitch(start, line)
           y == s * w
           x == OnThis(n, u, y)
           z == OnPrevious(n, u, y)
           E == EvenGain(first, last, line)
           O == OddGain(first, last, line)
           f == [u |-> <<Times(E, x)[1] + Times(O, z)[2], Times(E, x)[2] - Times(O, z)[1]>>,
                 v |-> <<Times(E, x)[1] - Times(O, z)[2], Times(E, x)[2] + Times(O, z)[1]>>]
           axis == Turn(<<-32, 0>>, n)
<1>1. n \in Int /\ s \in {1, -1} /\ y \in Int /\ E \in Int /\ O \in Int
  <2>1. s \in {1, -1}
    BY DEF VSwitch
  <2>2. y \in Int
    <3> HIDE DEF s
    <3> QED BY <2>1
  <2>3. E \in Int /\ O \in Int
    <3> HIDE DEF s, y
    <3>1. line \in Int
      OBVIOUS
    <3> QED BY <3>1, GainIs
  <2> HIDE DEF y, E, O
  <2> QED BY <2>1, <2>2, <2>3
<1>2. FilterUV(start, first, last, line, <<u, w>>) = f
  BY LinesAddUp
<1>3. DetectVsw(start, line) = s /\ DetectAxis(start, line) = axis
  BY BurstIsDetected
<1> HIDE DEF f, axis
<1>4. DecodeLine(start, first, last, line, <<u, w>>)
        = [u |-> -((f.u[1] * axis[1]) + (f.u[2] * axis[2])),
           v |-> s * ((f.v[1] * axis[2]) - (f.v[2] * axis[1]))]
  BY <1>2, <1>3 DEF DecodeLine
<1>5. Quarter(n, u, y, x, z)
  <2> HIDE DEF n, y
  <2> QED BY <1>1, Quarters
<1> HIDE DEF n, s, x, z, E, O
<1>6. /\ -((f.u[1] * axis[1]) + (f.u[2] * axis[2])) = 32 * ((E * u) + (O * u))
      /\ (f.v[1] * axis[2]) - (f.v[2] * axis[1]) = 32 * ((E * y) + (O * y))
  BY <1>1, <1>5 DEF Quarter, f, axis, Turn, Times
<1>7. s * y = w
  BY <1>1
<1>8. /\ 32 * ((E * u) + (O * u)) = (32 * (E + O)) * u
      /\ s * (32 * ((E * y) + (O * y))) = (32 * (E + O)) * (s * y)
  <2> HIDE DEF y
  <2> QED BY <1>1
<1> QED BY <1>4, <1>6, <1>7, <1>8 DEF Gain, E, O

\* What a decoded line may hold: the colour, with a gain, which is full away from
\* the edges of the crop.
Keeps(value, c, l, u, w) ==
  \E g \in 4 .. 16 : /\ value = [u |-> (32 * g) * u, v |-> (32 * g) * w]
                     /\ l \in (c.first + 6) .. (c.last - 6) => g = 16

\* A field decodes every other line of the crop, and no other.
LEMMA FieldDecodes ==
  ASSUME NEW c \in Crops, NEW start, start.turns \in Int, start.v \in Int, NEW o \in 0 .. 1,
         NEW u \in Int, NEW w \in Int
  PROVE  LET field == DecodeField(start, c.first, c.last, o, <<u, w>>)
         IN  /\ DOMAIN field = {l \in c.first .. c.last : l % 2 = o}
             /\ \A l \in DOMAIN field : Keeps(field[l], c, l, u, w)
<1> DEFINE f == FirstActiveLine(c.first, o)
           e == LastActiveLine(c.last, o)
           field == DecodeField(start, c.first, c.last, o, <<u, w>>)
           rows == {2 * n + o : n \in ActiveFieldLines(f, e)}
<1>1. /\ c.first \in Int /\ c.last \in Int /\ c.first >= 4 /\ c.last <= 2 * FieldLines - 6
      /\ FieldLines \in Nat
  BY CropsAssumption, FieldLinesAssumption
<1> DEFINE first == c.first
           last == c.last
<1>2. f = (first + 1 - o) \div 2 /\ e - 1 = (last - o) \div 2 /\ f \in Int /\ e \in Int
  BY <1>1 DEF FirstActiveLine, LastActiveLine
<1>3. \A n \in Int : n \in f .. (e - 1) <=> 2 * n + o \in first .. last
  <2> HIDE DEF f, e, first, last
  <2>1. first \in Int /\ last \in Int
    BY <1>1 DEF first, last
  <2> QED BY <1>2, <2>1
<1>4. rows = {l \in first .. last : l % 2 = o}
  <2> HIDE DEF f, e, first, last
  <2>1. ASSUME NEW l \in rows PROVE l \in first .. last /\ l % 2 = o
    <3>1. PICK n \in f .. (e - 1) : l = 2 * n + o
      BY DEF ActiveFieldLines
    <3> QED BY <1>2, <1>3, <3>1
  <2>2. ASSUME NEW l \in first .. last, l % 2 = o PROVE l \in rows
    <3>1. l = 2 * (l \div 2) + o /\ l \div 2 \in Int
      BY <2>2
    <3>2. l \div 2 \in f .. (e - 1)
      BY <1>3, <3>1
    <3> QED BY <3>1, <3>2 DEF ActiveFieldLines
  <2> QED BY <2>1, <2>2
<1>5. field = [l \in rows |-> DecodeLine(start, f, e, (l - o) \div 2, <<u, w>>)]
  BY DEF DecodeField
<1>6. ASSUME NEW l \in rows PROVE Keeps(field[l], c, l, u, w)
  <2> DEFINE n == (l - o) \div 2
  <2>1. n \in f .. (e - 1) /\ l = 2 * n + o /\ n \in Int
    <3> HIDE DEF f, e
    <3>1. PICK m \in f .. (e - 1) : l = 2 * m + o
      BY DEF ActiveFieldLines
    <3>2. (l - o) \div 2 = m
      BY <1>2, <3>1
    <3> QED BY <1>2, <3>1, <3>2
  <2>2. n \in 2 .. (FieldLines - 3)
    <3>1. 2 * n + o \in c.first .. c.last
      BY <1>3, <2>1
    <3> HIDE DEF n
    <3> QED BY <1>1, <2>1, <3>1
  <2>3. l \in (c.first + 6) .. (c.last - 6) => n - 3 >= f /\ n + 3 < e
    <3> SUFFICES ASSUME l \in (c.first + 6) .. (c.last - 6) PROVE n - 3 >= f /\ n + 3 < e
      OBVIOUS
    <3>1. 2 * (n - 3) + o \in c.first .. c.last /\ 2 * (n + 3) + o \in c.first .. c.last
      <4> HIDE DEF n
      <4> QED BY <1>1, <2>1
    <3>2. n - 3 \in Int /\ n + 3 \in Int
      BY <2>1
    <3>3. n - 3 \in f .. (e - 1) /\ n + 3 \in f .. (e - 1)
      BY <1>3, <3>1, <3>2
    <3> HIDE DEF n, f, e
    <3> QED BY <1>2, <2>1, <3>3
  <2> HIDE DEF n, f, e
  <2>4. DecodeLine(start, f, e, n, <<u, w>>) = [u |-> (32 * Gain(f, e, n)) * u, v |-> (32 * Gain(f, e, n)) * w]
    BY <1>2, <2>1, <2>2, LineDecodes
  <2>5. Gain(f, e, n) \in 4 .. 16 /\ (l \in (c.first + 6) .. (c.last - 6) => Gain(f, e, n) = 16)
    BY <1>2, <2>1, <2>3, GainIs
  <2>6. field[l] = DecodeLine(start, f, e, n, <<u, w>>)
    BY <1>5 DEF n
  <2> QED BY <2>4, <2>5, <2>6 DEF Keeps
<1>7. DOMAIN field = rows
  BY <1>5
<1> HIDE DEF field, rows
<1> QED BY <1>4, <1>6, <1>7 DEF field

\* Both fields together are the picture.
LEMMA PictureDecodes ==
  ASSUME NEW n \in Int, crop \in Crops, NEW u \in Int, NEW w \in Int, colour = <<u, w>>
  PROVE  /\ DOMAIN PalPicture(n) = crop.first .. crop.last
         /\ \A l \in crop.first .. crop.last : Keeps(PalPicture(n)[l], crop, l, u, w)
<1> DEFINE field(o) == DecodeField(FieldStart(n, o), crop.first, crop.last, o, <<u, w>>)
           even == field(0)
           odd == field(1)
           lines == crop.first .. crop.last
<1>1. \A o \in 0 .. 1 : FieldStart(n, o).turns \in Int /\ FieldStart(n, o).v \in Int
  BY DEF FieldStart
<1>2. ASSUME NEW o \in 0 .. 1
      PROVE  /\ DOMAIN field(o) = {l \in lines : l % 2 = o}
             /\ \A l \in DOMAIN field(o) : Keeps(field(o)[l], crop, l, u, w)
  <2> DEFINE start == FieldStart(n, o)
  <2>1. start.turns \in Int /\ start.v \in Int
    BY <1>1
  <2> HIDE DEF start
  <2>2. LET g == DecodeField(start, crop.first, crop.last, o, <<u, w>>)
        IN  /\ DOMAIN g = {l \in crop.first .. crop.last : l % 2 = o}
            /\ \A l \in DOMAIN g : Keeps(g[l], crop, l, u, w)
    BY <2>1, FieldDecodes
  <2> QED BY <2>2 DEF start
<1>3. PalPicture(n) = [l \in DOMAIN even \cup DOMAIN odd |-> IF l \in DOMAIN even THEN even[l] ELSE odd[l]]
  BY DEF PalPicture
<1>4. /\ DOMAIN even = {l \in lines : l % 2 = 0} /\ \A l \in DOMAIN even : Keeps(even[l], crop, l, u, w)
      /\ DOMAIN odd = {l \in lines : l % 2 = 1} /\ \A l \in DOMAIN odd : Keeps(odd[l], crop, l, u, w)
  <2>1. 0 \in 0 .. 1 /\ 1 \in 0 .. 1
    OBVIOUS
  <2> HIDE DEF field
  <2> QED BY <1>2, <2>1
<1>5. \A l \in lines : l % 2 = 0 \/ l % 2 = 1
  OBVIOUS
<1>6. DOMAIN even \cup DOMAIN odd = lines
  <2> HIDE DEF even, odd
  <2> QED BY <1>4, <1>5
<1> HIDE DEF even, odd
<1> QED BY <1>3, <1>4, <1>6

\* Every line of a PAL picture has the hue that was transmitted.
LEMMA ColoursAreKept == ColourInv => PalColoursKept
<1> SUFFICES ASSUME ColourInv, kind = "palColour", NEW n \in 1 .. FrameCount, NEW d \in out[n]
             PROVE  /\ DOMAIN d.picture = crop.first .. crop.last
                    /\ \A l \in crop.first .. crop.last :
                          LET p == d.picture[l]
                          IN  /\ p.u * colour[2] = p.v * colour[1]
                              /\ (p.u * colour[1]) + (p.v * colour[2]) > 0
                              /\ l \in (crop.first + 6) .. (crop.last - 6) =>
                                    p = [u |-> FullGain * colour[1], v |-> FullGain * colour[2]]
  BY DEF PalColoursKept
<1>1. d.picture = PalPicture(n) /\ crop \in Crops /\ colour \in Colours
  BY DEF ColourInv, Decoded, OwnPicture
<1>2. PICK u \in Int, w \in Int : colour = <<u, w>> /\ (u # 0 \/ w # 0)
  BY <1>1, ColoursAssumption
<1>3. /\ DOMAIN d.picture = crop.first .. crop.last
      /\ \A l \in crop.first .. crop.last : Keeps(d.picture[l], crop, l, u, w)
  BY <1>1, <1>2, PictureDecodes
<1>4. ASSUME NEW l \in crop.first .. crop.last, NEW p, p = d.picture[l]
      PROVE  /\ p.u * colour[2] = p.v * colour[1]
             /\ (p.u * colour[1]) + (p.v * colour[2]) > 0
             /\ l \in (crop.first + 6) .. (crop.last - 6) =>
                   p = [u |-> FullGain * colour[1], v |-> FullGain * colour[2]]
  <2>1. PICK g \in 4 .. 16 : /\ p = [u |-> (32 * g) * u, v |-> (32 * g) * w]
                             /\ l \in (crop.first + 6) .. (crop.last - 6) => g = 16
    BY <1>3, <1>4 DEF Keeps
  <2> DEFINE k == 32 * g
  <2>2. k \in Nat /\ k >= 1
    OBVIOUS
  <2>3. p.u = k * u /\ p.v = k * w /\ colour[1] = u /\ colour[2] = w
    BY <1>2, <2>1
  <2>4. l \in (crop.first + 6) .. (crop.last - 6) => k = 512
    BY <2>1
  <2>5. l \in (crop.first + 6) .. (crop.last - 6) =>
          p = [u |-> FullGain * colour[1], v |-> FullGain * colour[2]]
    BY <2>1, <2>3, <2>4 DEF FullGain
  <2> HIDE DEF k
  <2>6. (k * u) * w = (k * w) * u
    BY <2>2
  <2>7. u * u >= 0 /\ w * w >= 0 /\ (u # 0 => u * u > 0) /\ (w # 0 => w * w > 0)
    OBVIOUS
  <2>8. (u * u) + (w * w) > 0 /\ (u * u) + (w * w) \in Int
    BY <1>2, <2>7
  <2>9. ((k * u) * u) + ((k * w) * w) = k * ((u * u) + (w * w))
    BY <2>2
  <2>10. \A m \in Int : m > 0 => k * m > 0
    BY <2>2
  <2> QED BY <2>3, <2>5, <2>6, <2>8, <2>9, <2>10
<1> QED BY <1>3, <1>4

-----------------------------------------------------------------------------
(* Transform PAL. *)

\* Two tiles over each sample of a range.
LEMMA TilesCover ==
  ASSUME NEW half \in {4, 8, 16}, NEW lo \in Int, NEW hi \in Int
  PROVE  TwoOver(TilesOver(lo, hi, half), lo, hi, half)
<1> SUFFICES ASSUME NEW x \in lo .. (hi - 1)
             PROVE  \E t \in TilesOver(lo, hi, half) :
                       Covering(TilesOver(lo, hi, half), half, x) = {t, t + half}
  BY DEF TwoOver
<1>1. \E t \in TilesOver(lo, hi, half) : PairOver(half, lo, hi, x, t)
  BY TwoTiles
<1> QED BY <1>1 DEF PairOver

\* No tile over the fields asked for reaches outside those that are given.
LEMMA TilesStayInside ==
  ASSUME NEW count \in Nat
  PROVE  LET start == 2 * TransformLookBehind
         IN  FilterReads(start, start + 2 * count)
               \subseteq 0 .. (start + 2 * count + 2 * TransformLookAhead - 1)
<1> DEFINE e == 4 + 2 * count
<1>1. 2 * TransformLookBehind = 4 /\ 2 * TransformLookAhead = 8 /\ HalfZTile = 4
  BY DEF TransformLookBehind, TransformLookAhead, HalfZTile
<1>2. e \in Nat
  OBVIOUS
<1> HIDE DEF e
<1>3. ASSUME NEW x \in 4 .. (e - 1), NEW y \in ReadFor(x, 4, e)
      PROVE  y \in 0 .. (e + 7)
  <2>1. x \in Int /\ x <= e - 1
    BY <1>2
  <2>2. PICK u \in TilesOver(4, e, 4) : PairOver(4, 4, e, x, u)
    BY <1>2, TwoTiles
  <2>3. u \in Int /\ 0 <= u /\ u <= x - 4 /\ Covering(TilesOver(4, e, 4), 4, x) = {u, u + 4}
    BY <2>2 DEF PairOver
  <2>4. y \in u .. (u + 2 * 4 - 1) \/ y \in (u + 4) .. ((u + 4) + 2 * 4 - 1)
    BY <1>1, <2>3 DEF ReadFor
  <2> QED BY <1>2, <2>1, <2>3, <2>4
<1>4. FilterReads(4, e) \subseteq 0 .. (e + 7)
  BY <1>3 DEF FilterReads
<1>5. e + 8 - 1 = e + 7
  BY <1>2
<1> QED BY <1>1, <1>4, <1>5 DEF e

LEMMA TilesAreWhole == ColourInv => TransformCovers
<1> SUFFICES ASSUME ColourInv, kind = "transform3D" PROVE TransformCovers
  BY DEF TransformCovers
<1>1. /\ crop.first \in Int /\ crop.last \in Int /\ crop.videoStart \in Int /\ crop.videoEnd \in Int
  BY CropsAssumption DEF ColourInv
<1>2. ASSUME NEW count \in 1 .. MaxRun
      PROVE  LET start == 2 * TransformLookBehind
                 tiles == Filter3D(crop.first, crop.last, crop.videoStart, crop.videoEnd, start, start + 2 * count)
             IN  /\ TwoOver(tiles.z, start, start + 2 * count, HalfZTile)
                 /\ TwoOver(tiles.y, crop.first, crop.last + 1, 16)
                 /\ TwoOver(tiles.x, crop.videoStart, crop.videoEnd, 8)
                 /\ FilterReads(start, start + 2 * count)
                      \subseteq 0 .. (start + 2 * count + 2 * TransformLookAhead - 1)
  <2> DEFINE start == 2 * TransformLookBehind
             e == start + 2 * count
             tiles == Filter3D(crop.first, crop.last, crop.videoStart, crop.videoEnd, start, e)
  <2>1. count \in Nat /\ start \in Int /\ e \in Int /\ HalfZTile = 4 /\ crop.last + 1 \in Int
    BY <1>1, RunsAssumption DEF TransformLookBehind, HalfZTile
  <2>2. /\ tiles.z = TilesOver(start, e, HalfZTile)
        /\ tiles.y = TilesOver(crop.first, crop.last + 1, 16)
        /\ tiles.x = TilesOver(crop.videoStart, crop.videoEnd, 8)
    BY DEF Filter3D
  <2>3. FilterReads(start, e) \subseteq 0 .. (e + 2 * TransformLookAhead - 1)
    BY <2>1, TilesStayInside
  <2> HIDE DEF start, e, tiles
  <2>4. TwoOver(tiles.z, start, e, HalfZTile)
    BY <2>1, <2>2, TilesCover
  <2>5. TwoOver(tiles.y, crop.first, crop.last + 1, 16)
    BY <1>1, <2>1, <2>2, TilesCover
  <2>6. TwoOver(tiles.x, crop.videoStart, crop.videoEnd, 8)
    BY <1>1, <2>2, TilesCover
  <2> QED BY <2>3, <2>4, <2>5, <2>6 DEF start, e, tiles
<1>3. ASSUME NEW o \in 0 .. 1
      PROVE  LET f == FirstActiveLine(crop.first, o)
                 e == LastActiveLine(crop.last, o)
                 tiles == Filter2D(f, e, crop.videoStart, crop.videoEnd)
             IN  TwoOver(tiles.y, f, e, 8) /\ TwoOver(tiles.x, crop.videoStart, crop.videoEnd, 16)
  <2> DEFINE f == FirstActiveLine(crop.first, o)
             e == LastActiveLine(crop.last, o)
             tiles == Filter2D(f, e, crop.videoStart, crop.videoEnd)
  <2>1. f \in Int /\ e \in Int
    BY <1>1 DEF FirstActiveLine, LastActiveLine
  <2>2. tiles.y = TilesOver(f, e, 8) /\ tiles.x = TilesOver(crop.videoStart, crop.videoEnd, 16)
    BY DEF Filter2D
  <2> HIDE DEF f, e, tiles
  <2>3. TwoOver(tiles.y, f, e, 8) /\ TwoOver(tiles.x, crop.videoStart, crop.videoEnd, 16)
    BY <1>1, <2>1, <2>2, TilesCover
  <2> QED BY <2>3 DEF f, e, tiles
<1> QED BY <1>2, <1>3 DEF TransformCovers

\* A product of three finite sets has as many elements as the sizes multiply to.
LEMMA TriplesCount ==
  ASSUME NEW A, NEW B, NEW C, IsFiniteSet(A), IsFiniteSet(B), IsFiniteSet(C)
  PROVE  Cardinality(A \X B \X C) = Cardinality(A) * Cardinality(B) * Cardinality(C)
<1> DEFINE S == (A \X B) \X C
           T == A \X B \X C
           f == [s \in S |-> <<s[1][1], s[1][2], s[2]>>]
<1>1. /\ IsFiniteSet(S)
      /\ Cardinality(S) = Cardinality(A) * Cardinality(B) * Cardinality(C)
  <2>1. IsFiniteSet(A \X B) /\ Cardinality(A \X B) = Cardinality(A) * Cardinality(B)
    BY FS_Product
  <2> QED BY <2>1, FS_Product
<1>2. f \in [S -> T]
  OBVIOUS
<1>3. ASSUME NEW t \in T PROVE \E s \in S : f[s] = t
  <2> DEFINE s == <<<<t[1], t[2]>>, t[3]>>
  <2>1. s \in S /\ <<s[1][1], s[1][2], s[2]>> = t
    OBVIOUS
  <2>2. f[s] = <<s[1][1], s[1][2], s[2]>>
    BY <2>1
  <2> HIDE DEF f, s
  <2> QED BY <2>1, <2>2
<1>4. ASSUME NEW a \in S, NEW b \in S, f[a] = f[b] PROVE a = b
  <2>1. <<a[1][1], a[1][2], a[2]>> = <<b[1][1], b[1][2], b[2]>>
    BY <1>4
  <2>2. a[1][1] = b[1][1] /\ a[1][2] = b[1][2] /\ a[2] = b[2]
    BY <2>1
  <2>3. a = <<<<a[1][1], a[1][2]>>, a[2]>> /\ b = <<<<b[1][1], b[1][2]>>, b[2]>>
    OBVIOUS
  <2> QED BY <2>2, <2>3
<1> HIDE DEF S, T, f
<1>5. f \in Surjection(S, T)
  BY <1>2, <1>3 DEF Surjection
<1>6. f \in Injection(S, T)
  <2>1. DOMAIN f = S
    BY <1>2
  <2> QED BY <1>2, <1>4, <2>1 DEF Injection, IsInjective
<1>7. Cardinality(T) = Cardinality(S)
  BY <1>1, <1>5, <1>6, FS_Surjection
<1> QED BY <1>1, <1>7 DEF T

\* The bins of a tile are as many as its rows, its columns and its fields multiply to.
LEMMA BinsCount ==
  ASSUME NEW t, NEW l \in Int, NEW h \in Int, l <= h,
         t.zs \in Nat, t.ys \in Nat, t.xs \div 8 = l, t.xs \div 4 = h
  PROVE  Cardinality(Bins(t)) = (t.zs * t.ys) * (h - l + 1)
<1> DEFINE A == 0 .. (t.zs - 1)
           B == 0 .. (t.ys - 1)
           C == l .. h
<1>1. ASSUME NEW n \in Nat PROVE IsFiniteSet(0 .. (n - 1)) /\ Cardinality(0 .. (n - 1)) = n
  <2> DEFINE z == 0
             m == n - 1
  <2>1. z \in Int /\ m \in Int /\ m - z + 1 = n /\ (z > m => n = 0)
    OBVIOUS
  <2> HIDE DEF z, m
  <2>2. IsFiniteSet(z .. m) /\ Cardinality(z .. m) = n
    BY <2>1, FS_Interval
  <2> QED BY <2>2 DEF z, m
<1>2. IsFiniteSet(A) /\ Cardinality(A) = t.zs /\ IsFiniteSet(B) /\ Cardinality(B) = t.ys
  BY <1>1
<1>3. IsFiniteSet(C) /\ Cardinality(C) = h - l + 1
  BY FS_Interval
<1> HIDE DEF A, B, C
<1>4. Cardinality(A \X B \X C) = Cardinality(A) * Cardinality(B) * Cardinality(C)
  BY <1>2, <1>3, TriplesCount
<1>5. Bins(t) = A \X B \X C
  BY DEF Bins, A, B, C
<1> QED BY <1>2, <1>3, <1>4, <1>5

\* One threshold a bin, in the tiles of both filters.
LEMMA ThresholdsFit ==
  ASSUME NEW t \in {Tile2D, Tile3D}
  PROVE  Cardinality(Bins(t)) = ThresholdsSize(t)
<1> DEFINE l == t.xs \div 8
           h == t.xs \div 4
<1>1. /\ t.zs \in Nat /\ t.ys \in Nat /\ l \in Int /\ h \in Int /\ l <= h
      /\ ThresholdsSize(t) = (t.zs * t.ys) * (h - l + 1)
  <2>1. CASE t = Tile2D
    BY <2>1 DEF Tile2D, ThresholdsSize
  <2>2. CASE t = Tile3D
    BY <2>2 DEF Tile3D, ThresholdsSize
  <2> QED BY <2>1, <2>2
<1>2. t.xs \div 8 = l /\ t.xs \div 4 = h
  OBVIOUS
<1> HIDE DEF l, h
<1> QED BY <1>1, <1>2, BinsCount

\* The reflection of the reflection of a bin is the bin.
LEMMA ReflectionsReturn ==
  ASSUME NEW t \in {Tile2D, Tile3D}, NEW b \in Bins(t)
  PROVE  Reflect(t, Reflect(t, b)) = b
<1> DEFINE r == Reflect(t, b)
<1>1. b = <<b[1], b[2], b[3]>>
  BY DEF Bins
<1>2. CASE t = Tile2D
  <2>1. b[1] \in 0 .. 0 /\ b[2] \in 0 .. 15 /\ b[3] \in 4 .. 8
    BY <1>2 DEF Bins, Tile2D
  <2>2. r = <<(1 - b[1]) % 1, (24 - b[2]) % 16, 16 - b[3]>>
    BY <1>2, <2>1 DEF Reflect, Tile2D
  <2>3. r[1] = (1 - b[1]) % 1 /\ r[2] = (24 - b[2]) % 16 /\ r[3] = 16 - b[3]
    BY <2>2
  <2> HIDE DEF r
  <2>4. Reflect(t, r) = <<(0 + 1 - r[1]) % 1, (8 + 16 - r[2]) % 16, (32 \div 2) - r[3]>>
    BY <1>2 DEF Reflect, Tile2D
  <2>5. (0 + 1 - r[1]) % 1 = b[1] /\ (8 + 16 - r[2]) % 16 = b[2] /\ (32 \div 2) - r[3] = b[3]
    BY <2>1, <2>3
  <2> QED BY <1>1, <2>4, <2>5 DEF r
<1>3. CASE t = Tile3D
  <2>1. b[1] \in 0 .. 7 /\ b[2] \in 0 .. 31 /\ b[3] \in 2 .. 4
    BY <1>3 DEF Bins, Tile3D
  <2>2. r = <<(10 - b[1]) % 8, (40 - b[2]) % 32, 8 - b[3]>>
    BY <1>3, <2>1 DEF Reflect, Tile3D
  <2>3. r[1] = (10 - b[1]) % 8 /\ r[2] = (40 - b[2]) % 32 /\ r[3] = 8 - b[3]
    BY <2>2
  <2> HIDE DEF r
  <2>4. Reflect(t, r) = <<(2 + 8 - r[1]) % 8, (8 + 32 - r[2]) % 32, (16 \div 2) - r[3]>>
    BY <1>3 DEF Reflect, Tile3D
  <2>5. (2 + 8 - r[1]) % 8 = b[1] /\ (8 + 32 - r[2]) % 32 = b[2] /\ (16 \div 2) - r[3] = b[3]
    BY <2>1, <2>3
  <2> QED BY <1>1, <2>4, <2>5 DEF r
<1> QED BY <1>2, <1>3

LEMMA SymmetryIsKept == SymmetryKept
<1> SUFFICES ASSUME NEW t \in {Tile2D, Tile3D}
             PROVE  /\ Cardinality(Bins(t)) = ThresholdsSize(t)
                    /\ \A b \in Bins(t) : Reflect(t, Reflect(t, b)) = b
                    /\ \A b \in Bins(t) : LET kept == ApplyFilter(t, {b})
                                          IN  b \in kept /\ Reflect(t, b) \in kept
  BY DEF SymmetryKept
<1>1. ASSUME NEW b \in Bins(t)
      PROVE  b \in ApplyFilter(t, {b}) /\ Reflect(t, b) \in ApplyFilter(t, {b})
  BY DEF ApplyFilter
<1> QED BY <1>1, ThresholdsFit, ReflectionsReturn

-----------------------------------------------------------------------------
(* What holds of PAL pictures: from any point of the eight-field sequence    *)
(* every active line keeps its hue, and inside the picture its saturation,   *)
(* and Transform PAL's tiles cover every sample twice and ask for no field   *)
(* beyond those gathered, for any crop, colour and length of capture.        *)
THEOREM PalPicturesKept == ChromaSpec => []PalPicturesAreWhole
<1>1. ColourInv => PalPicturesAreWhole
  BY ColoursAreKept, TilesAreWhole, SymmetryIsKept DEF PalPicturesAreWhole, TransformIsWhole
<1>2. ChromaSpec => []ColourInv
  BY ColourInvariant
<1> QED BY <1>1, <1>2, PTL

-----------------------------------------------------------------------------
(* The NTSC comb on still pictures. *)

\* The chroma of a row of colour r in a frame of colour frame parity p.
Chroma(r, p, l, h) ==
  IF Positive(p, l) THEN OnCarrier(r.i, r.q, h) ELSE -OnCarrier(r.i, r.q, h)

\* A row without detail: its luma and its chroma are integers.
Plain(r) == r.d = 0 /\ r.b \in Int /\ r.i \in Int /\ r.q \in Int

\* Half a cycle of the carrier turns the chroma over.
LEMMA CarrierTurns ==
  ASSUME NEW i \in Int, NEW q \in Int, NEW h \in Int
  PROVE  /\ OnCarrier(i, q, h) \in Int
         /\ OnCarrier(i, q, h + 2) = -OnCarrier(i, q, h)
         /\ OnCarrier(i, q, h + 4) = OnCarrier(i, q, h)
         /\ Detail(h) \in Int
<1>1. h % 4 = 0 \/ h % 4 = 1 \/ h % 4 = 2 \/ h % 4 = 3
  OBVIOUS
<1>2. (h + 4) % 4 = h % 4
  OBVIOUS
<1>3. CASE h % 4 = 0
  <2>1. (h + 2) % 4 = 2
    BY <1>3
  <2> QED BY <1>2, <1>3, <2>1 DEF OnCarrier, Detail
<1>4. CASE h % 4 = 1
  <2>1. (h + 2) % 4 = 3
    BY <1>4
  <2> QED BY <1>2, <1>4, <2>1 DEF OnCarrier, Detail
<1>5. CASE h % 4 = 2
  <2>1. (h + 2) % 4 = 0
    BY <1>5
  <2> QED BY <1>2, <1>5, <2>1 DEF OnCarrier, Detail
<1>6. CASE h % 4 = 3
  <2>1. (h + 2) % 4 = 1
    BY <1>6
  <2> QED BY <1>2, <1>6, <2>1 DEF OnCarrier, Detail
<1> QED BY <1>1, <1>3, <1>4, <1>5, <1>6

\* The carrier is upside down two lines away, and in a frame of the other parity.
LEMMA PhaseTurns ==
  ASSUME NEW p \in 0 .. 1, NEW l \in Int
  PROVE  /\ Positive(p, l + 2) <=> ~Positive(p, l)
         /\ Positive(p, l - 2) <=> ~Positive(p, l)
         /\ Positive(1 - p, l) <=> ~Positive(p, l)
BY DEF Positive, LinesBefore

\* True phase IDs tell which rows have the carrier the right way up.
LEMMA LabelsAreTrue ==
  ASSUME NEW buf, buf.frame.phase \in 0 .. 1, buf.frame.ids = TrueIds(buf.frame.phase), NEW l \in Int
  PROVE  GetLinePhase(buf, l) = Positive(buf.frame.phase, l)
<1> DEFINE p == buf.frame.phase
<1>1. l % 2 \in 0 .. 1 /\ l \div 2 \in Int
  OBVIOUS
<1>2. CASE p = 0
  <2>1. buf.frame.ids = <<1, 2>>
    BY <1>2 DEF TrueIds
  <2>2. CASE l % 2 = 0
    BY <1>1, <1>2, <2>1, <2>2 DEF GetLinePhase, GetFieldID, Positive, LinesBefore
  <2>3. CASE l % 2 = 1
    BY <1>1, <1>2, <2>1, <2>3 DEF GetLinePhase, GetFieldID, Positive, LinesBefore
  <2> QED BY <1>1, <2>2, <2>3
<1>3. CASE p = 1
  <2>1. buf.frame.ids = <<3, 4>>
    BY <1>3 DEF TrueIds
  <2>2. CASE l % 2 = 0
    BY <1>1, <1>3, <2>1, <2>2 DEF GetLinePhase, GetFieldID, Positive, LinesBefore
  <2>3. CASE l % 2 = 1
    BY <1>1, <1>3, <2>1, <2>3 DEF GetLinePhase, GetFieldID, Positive, LinesBefore
  <2> QED BY <1>1, <2>2, <2>3
<1> QED BY <1>2, <1>3

FlatFrame(f, r) == f.phase \in 0 .. 1 /\ Plain(r) /\ \A l \in Lines : f.row[l] = r

\* A loaded buffer of one colour, labelled truly.
FlatBuffer(buf, r) ==
  /\ FlatFrame(buf.frame, r) /\ buf.frame.ids = TrueIds(buf.frame.phase)
  /\ \A l \in Lines : \A h \in Columns :
        buf.one[l][h] = Chroma(r, buf.frame.phase, l, h) /\ buf.two[l][h] = Chroma(r, buf.frame.phase, l, h)

LEMMA ChromaTurns ==
  ASSUME NEW r, Plain(r), NEW p \in 0 .. 1, NEW l \in Int, NEW h \in Int
  PROVE  /\ Chroma(r, p, l, h) \in Int
         /\ Chroma(r, p, l, h + 2) = -Chroma(r, p, l, h)
         /\ Chroma(r, p, l, h + 4) = Chroma(r, p, l, h)
         /\ Chroma(r, p, l + 2, h) = -Chroma(r, p, l, h)
         /\ Chroma(r, p, l - 2, h) = -Chroma(r, p, l, h)
<1> DEFINE i == r.i
           q == r.q
<1>1. i \in Int /\ q \in Int
  BY DEF Plain
<1>2. /\ OnCarrier(i, q, h) \in Int
      /\ OnCarrier(i, q, h + 2) = -OnCarrier(i, q, h)
      /\ OnCarrier(i, q, h + 4) = OnCarrier(i, q, h)
  <2> HIDE DEF i, q
  <2> QED BY <1>1, CarrierTurns
<1> QED BY <1>2, PhaseTurns DEF Chroma

LEMMA FlatRaw ==
  ASSUME NEW f, NEW r, FlatFrame(f, r), NEW l \in Lines, NEW h \in Int
  PROVE  Raw(f, l, h) = r.b + Chroma(r, f.phase, l, h)
<1> DEFINE i == r.i
           q == r.q
<1>1. i \in Int /\ q \in Int /\ r.b \in Int /\ r.d = 0 /\ f.row[l] = r
  BY DEF FlatFrame, Plain
<1>2. OnCarrier(i, q, h) \in Int /\ Detail(h) \in Int
  <2> HIDE DEF i, q
  <2> QED BY <1>1, CarrierTurns
<1>3. 0 * Detail(h) = 0
  BY <1>2
<1> QED BY <1>1, <1>2, <1>3 DEF Raw, Chroma

\* Two rows of opposite chroma, or one of them and black, leave a row as it is.
Opposite(x, y) == \A c \in Columns : y[c] = -x[c]
LEMMA BlendsWhole ==
  ASSUME NEW x, NEW p, NEW n, NEW h \in Columns, \A c \in Columns : x[c] \in Int,
         Opposite(x, p) \/ p = BlackLine, Opposite(x, n) \/ n = BlackLine,
         Opposite(x, p) \/ Opposite(x, n)
  PROVE  Blend(x, p, n, h) = x[h]
<1> DEFINE g == Left(h)
<1>1. h \in Columns /\ g \in Columns /\ x[h] \in Int /\ x[g] \in Int
  BY DEF Columns, Left
<1>2. \A c \in Columns : BlackLine[c] = 0
  BY DEF BlackLine
<1>3. \A a \in Int : (Abs(a) = Abs(-a)) /\ (Abs(a) = Abs(0) <=> a = 0)
  BY DEF Abs
<1>4. Alike(x, p, h) <=> Abs(x[h]) = Abs(p[h]) /\ Abs(x[g]) = Abs(p[g])
  BY DEF Alike
<1>5. Alike(x, n, h) <=> Abs(x[h]) = Abs(n[h]) /\ Abs(x[g]) = Abs(n[g])
  BY DEF Alike
<1> HIDE DEF g
<1>6. ASSUME NEW y, Opposite(x, y)
      PROVE  Alike(x, y, h) /\ y[h] = -x[h]
  <2>1. y[h] = -x[h] /\ y[g] = -x[g]
    BY <1>1, <1>6 DEF Opposite
  <2> QED BY <1>1, <1>3, <2>1 DEF Alike, g
<1>7. ASSUME NEW y, y = BlackLine
      PROVE  y[h] = 0 /\ (Alike(x, y, h) => x[h] = 0)
  <2>1. y[h] = 0 /\ y[g] = 0
    BY <1>1, <1>2, <1>7
  <2> QED BY <1>1, <1>3, <2>1 DEF Alike, g
<1> DEFINE a == x[h]
<1>8. a \in Int
  BY <1>1
<1>9. CASE Opposite(x, p) /\ Opposite(x, n)
  <2>1. Blend(x, p, n, h) = (2 * a - p[h] - n[h]) \div 4 /\ p[h] = -a /\ n[h] = -a
    BY <1>6, <1>9 DEF Blend
  <2> HIDE DEF a
  <2> QED BY <1>8, <2>1 DEF a
<1>10. CASE Opposite(x, p) /\ n = BlackLine
  <2>1. Alike(x, p, h) /\ p[h] = -a /\ n[h] = 0 /\ (Alike(x, n, h) => a = 0)
    BY <1>6, <1>7, <1>10
  <2>2. CASE Alike(x, n, h)
    <3>1. Blend(x, p, n, h) = (2 * a - p[h] - n[h]) \div 4
      BY <2>1, <2>2 DEF Blend
    <3> QED BY <2>1, <2>2, <3>1
  <2>3. CASE ~Alike(x, n, h)
    <3>1. Blend(x, p, n, h) = (a - p[h]) \div 2
      BY <2>1, <2>3 DEF Blend
    <3> HIDE DEF a
    <3> QED BY <1>8, <2>1, <3>1 DEF a
  <2> QED BY <2>2, <2>3
<1>11. CASE Opposite(x, n) /\ p = BlackLine
  <2>1. Alike(x, n, h) /\ n[h] = -a /\ p[h] = 0 /\ (Alike(x, p, h) => a = 0)
    BY <1>6, <1>7, <1>11
  <2>2. CASE Alike(x, p, h)
    <3>1. Blend(x, p, n, h) = (2 * a - p[h] - n[h]) \div 4
      BY <2>1, <2>2 DEF Blend
    <3> QED BY <2>1, <2>2, <3>1
  <2>3. CASE ~Alike(x, p, h)
    <3>1. Blend(x, p, n, h) = (a - n[h]) \div 2
      BY <2>1, <2>3 DEF Blend
    <3> HIDE DEF a
    <3> QED BY <1>8, <2>1, <3>1 DEF a
  <2> QED BY <2>2, <2>3
<1> QED BY <1>9, <1>10, <1>11

LEMMA FlatSplits ==
  ASSUME NEW f, NEW r, FlatFrame(f, r), f.ids = TrueIds(f.phase)
  PROVE  FlatBuffer(LoadFields(f), r)
<1> DEFINE p == f.phase
           one == Split1D(f)
           two == Split2D(one)
           row(l) == IF l \in Lines THEN one[l] ELSE BlackLine
<1>1. p \in 0 .. 1 /\ Plain(r) /\ r.b \in Int /\ Lines \subseteq Int /\ Columns \subseteq Int
  BY LinesAssumption DEF FlatFrame, Plain, Lines, Columns
<1>2. ASSUME NEW l \in Lines, NEW h \in Columns
      PROVE  one[l][h] = Chroma(r, p, l, h) /\ one[l][h] \in Int
  <2>1. one[l][h] = (Raw(f, l, h) - Raw(f, l, h + 2)) \div 2
    BY DEF Split1D
  <2> HIDE DEF one, p
  <2>2. h \in Int /\ h + 2 \in Int /\ l \in Int
    BY <1>1
  <2>3. Raw(f, l, h) = r.b + Chroma(r, p, l, h) /\ Raw(f, l, h + 2) = r.b + Chroma(r, p, l, h + 2)
    BY <2>2, FlatRaw DEF p
  <2>4. Chroma(r, p, l, h) \in Int /\ Chroma(r, p, l, h + 2) = -Chroma(r, p, l, h)
    BY <1>1, <2>2, ChromaTurns
  <2> QED BY <1>1, <2>1, <2>3, <2>4
<1>3. ASSUME NEW l \in Lines, NEW h \in Columns
      PROVE  two[l][h] = Chroma(r, p, l, h)
  <2>1. two[l][h] = Blend(row(l), row(l - 2), row(l + 2), h)
    BY DEF Split2D
  <2> HIDE DEF one, two, p
  <2>2. \A c \in Columns : row(l)[c] = Chroma(r, p, l, c) /\ row(l)[c] \in Int
    BY <1>2
  <2>3. \A c \in Columns : Chroma(r, p, l + 2, c) = -Chroma(r, p, l, c) /\ Chroma(r, p, l - 2, c) = -Chroma(r, p, l, c)
    BY <1>1, ChromaTurns
  <2>4. ASSUME NEW m \in {l - 2, l + 2}, m \in Lines
        PROVE  Opposite(row(l), row(m))
    BY <1>2, <2>2, <2>3, <2>4 DEF Opposite
  <2>5. l - 2 \in Lines \/ l + 2 \in Lines
    BY LinesAssumption DEF Lines
  <2>6. ASSUME NEW m \in {l - 2, l + 2}, m \notin Lines
        PROVE  row(m) = BlackLine
    BY <2>6
  <2> HIDE DEF row
  <2>7. Blend(row(l), row(l - 2), row(l + 2), h) = row(l)[h]
    BY <2>2, <2>4, <2>5, <2>6, BlendsWhole
  <2> QED BY <2>1, <2>2, <2>7
<1> QED BY <1>2, <1>3 DEF FlatBuffer, LoadFields

\* Where the candidates of a sample are.
LEMMA PlacesAre ==
  ASSUME NEW prev, NEW cur, NEW next, NEW l \in Int, NEW h \in Int, NEW c \in Candidates
  PROVE  LET place == Places(prev, cur, next, l, h)[c]
         IN  /\ place[1] \in {prev, cur, next} /\ place[2] \in Int /\ place[3] \in Int
             /\ c = 2 => place[1] = cur /\ place[2] = l - 2 /\ place[3] = h
             /\ c = 3 => place[1] = cur /\ place[2] = l + 2 /\ place[3] = h
             /\ c >= 4 => place[3] = h
<1> DEFINE same == GetLinePhase(cur, l) = GetLinePhase(cur, l - 1)
           place == Places(prev, cur, next, l, h)[c]
<1>1. c \in {0, 1, 2, 3, 4, 5, 6, 7}
  BY DEF Candidates
<1>2. place = CASE c = 0 -> <<cur, l, h - 2>> [] c = 1 -> <<cur, l, h + 2>>
           [] c = 2 -> <<cur, l - 2, h>> [] c = 3 -> <<cur, l + 2, h>>
           [] c = 4 -> <<IF same THEN prev ELSE cur, l - 1, h>>
           [] c = 5 -> <<IF same THEN cur ELSE next, l + 1, h>>
           [] c = 6 -> <<prev, l, h>> [] OTHER -> <<next, l, h>>
  BY DEF Places
<1> HIDE DEF place, same
<1>3. \E b \in {prev, cur, next}, m \in {l - 2, l - 1, l, l + 1, l + 2}, x \in {h - 2, h, h + 2} :
         /\ place = <<b, m, x>>
         /\ c = 2 => b = cur /\ m = l - 2 /\ x = h
         /\ c = 3 => b = cur /\ m = l + 2 /\ x = h
         /\ c >= 4 => x = h
  <2>1. CASE c \in {0, 1, 2, 3, 6, 7}
    BY <1>2, <2>1
  <2>2. CASE c = 4
    BY <1>2, <2>2
  <2>3. CASE c = 5
    BY <1>2, <2>3
  <2> QED BY <1>1, <2>1, <2>2, <2>3
<1> QED BY <1>3 DEF place

\* What is left of a row when its chroma is taken out is its luma.
LEMMA LumaIs ==
  ASSUME NEW buf, NEW r, FlatBuffer(buf, r), NEW l \in Lines, NEW x \in Int
  PROVE  /\ Raw(buf.frame, l, x + 4) - buf.two[l][(x + 4) % 4] = r.b
         /\ buf.two[l][(x + 4) % 4] = Chroma(r, buf.frame.phase, l, (x + 4) % 4)
         /\ Chroma(r, buf.frame.phase, l, (x + 4) % 4) \in Int
<1> DEFINE y == x + 4
           k == y % 4
           p == buf.frame.phase
<1>1. y \in Int /\ k \in Columns /\ k \in Int /\ k % 4 = y % 4
  BY DEF Columns
<1>2. FlatFrame(buf.frame, r) /\ Plain(r) /\ p \in 0 .. 1 /\ l \in Int /\ r.b \in Int
  BY LinesAssumption DEF FlatBuffer, FlatFrame, Plain, Lines
<1> HIDE DEF y, k, p
<1>3. Raw(buf.frame, l, y) = r.b + Chroma(r, p, l, y)
  BY <1>1, <1>2, FlatRaw DEF p
<1>4. Chroma(r, p, l, k) = Chroma(r, p, l, y)
  BY <1>1 DEF Chroma, OnCarrier
<1>5. buf.two[l][k] = Chroma(r, p, l, k)
  BY <1>1 DEF FlatBuffer, p
<1>6. Chroma(r, p, l, k) \in Int
  BY <1>1, <1>2, ChromaTurns
<1> QED BY <1>2, <1>3, <1>4, <1>5, <1>6 DEF y, k, p

\* A candidate in the same column is usable when its carrier is the other way up.
LEMMA ViableIs ==
  ASSUME NEW cur, NEW l, NEW h \in Int, NEW place, place[3] = h
  PROVE  Viable(cur, l, h, place) <=>
            place[2] \in Lines /\ (GetLinePhase(place[1], place[2]) <=> ~GetLinePhase(cur, l))
<1>1. /\ (2 + (2 + h)) % 4 # (2 + h) % 4 /\ (2 + (0 + h)) % 4 # (0 + h) % 4
      /\ (2 + (2 + h)) % 4 = (0 + h) % 4 /\ (2 + (0 + h)) % 4 = (2 + h) % 4
  OBVIOUS
<1>2. CASE GetLinePhase(cur, l) /\ GetLinePhase(place[1], place[2])
  BY <1>1, <1>2 DEF Viable, QuarterTurns
<1>3. CASE GetLinePhase(cur, l) /\ ~GetLinePhase(place[1], place[2])
  BY <1>1, <1>3 DEF Viable, QuarterTurns
<1>4. CASE ~GetLinePhase(cur, l) /\ GetLinePhase(place[1], place[2])
  BY <1>1, <1>4 DEF Viable, QuarterTurns
<1>5. CASE ~GetLinePhase(cur, l) /\ ~GetLinePhase(place[1], place[2])
  BY <1>1, <1>5 DEF Viable, QuarterTurns
<1> QED BY <1>2, <1>3, <1>4, <1>5

\* The chroma of two rows added, and the lumas' difference, three columns of each.
Column(x) == (x + 4) % 4
ChromaSum(r, p, l, h, s, pp, m, x, o) ==
  Abs(Chroma(r, p, l, Column(h + o)) + Chroma(s, pp, m, Column(x + o)))

Costs(cur, r, l, h, place, s, c) ==
  LET at(o) == ChromaSum(r, cur.frame.phase, l, h, s, place[1].frame.phase, place[2], place[3], o)
  IN  /\ ~Viable(cur, l, h, place) => Penalty(cur, l, h, place, c) = NotViable
      /\ Viable(cur, l, h, place) =>
            /\ at(-1) \in Nat /\ at(0) \in Nat /\ at(1) \in Nat
            /\ Penalty(cur, l, h, place, c) =
                 2500 * (Abs(r.b - s.b) + Abs(r.b - s.b) + Abs(r.b - s.b))
                   + 525 * (at(-1) + 2 * at(0) + at(1)) + Bonus(c)

\* What a candidate costs, when both frames are of one colour each.
LEMMA PenaltyIs ==
  ASSUME NEW cur, NEW r, FlatBuffer(cur, r), NEW l \in Lines, NEW h \in Int,
         NEW place, NEW s, FlatBuffer(place[1], s), place[3] \in Int,
         NEW c \in Candidates
  PROVE  Costs(cur, r, l, h, place, s, c)
<1> DEFINE p == cur.frame.phase
           buf == place[1]
           pp == buf.frame.phase
           m == place[2]
           x == place[3]
           at(o) == ChromaSum(r, p, l, h, s, pp, m, x, o)
           col(k) == (k + 4) % 4
           y(b, line, k) == Raw(b.frame, line, k + 4) - b.two[line][col(k)]
           luma(o) == Abs(y(cur, l, h + o) - y(buf, m, x + o))
           chroma(o) == Abs(cur.two[l][col(h + o)] + buf.two[m][col(x + o)])
<1>1. CASE ~Viable(cur, l, h, place)
  BY <1>1 DEF Penalty, Costs
<1>2. CASE Viable(cur, l, h, place)
  <2>1. Penalty(cur, l, h, place, c) =
          2500 * (luma(-1) + luma(0) + luma(1)) + 525 * (chroma(-1) + 2 * chroma(0) + chroma(1)) + Bonus(c)
    BY <1>2 DEF Penalty
  <2>2. m \in Lines
    BY <1>2 DEF Viable
  <2>3. ASSUME NEW o \in {-1, 0, 1}
        PROVE  luma(o) = Abs(r.b - s.b) /\ chroma(o) = at(o) /\ at(o) \in Nat
    <3>1. h + o \in Int /\ x + o \in Int
      OBVIOUS
    <3> DEFINE u == h + o
               v == x + o
    <3>2. u \in Int /\ v \in Int
      BY <3>1
    <3> HIDE DEF u, v, x, m, buf
    <3>3. /\ y(cur, l, u) = r.b
          /\ cur.two[l][col(u)] = Chroma(r, p, l, col(u)) /\ Chroma(r, p, l, col(u)) \in Int
      BY <3>2, LumaIs
    <3>4. /\ y(buf, m, v) = s.b
          /\ buf.two[m][col(v)] = Chroma(s, pp, m, col(v)) /\ Chroma(s, pp, m, col(v)) \in Int
      BY <2>2, <3>2, LumaIs DEF buf
    <3>5. \A k \in Int : Abs(k) \in Nat
      BY DEF Abs
    <3>6. at(o) = Abs(Chroma(r, p, l, col(u)) + Chroma(s, pp, m, col(v)))
      BY DEF ChromaSum, Column, u, v
    <3> HIDE DEF y, at, p, pp, col
    <3>7. chroma(o) = at(o) /\ at(o) \in Nat
      BY <3>3, <3>4, <3>5, <3>6 DEF u, v
    <3> QED BY <3>3, <3>4, <3>7 DEF u, v
  <2> HIDE DEF luma, chroma, at
  <2> QED BY <1>2, <2>1, <2>3 DEF at, Costs
<1> QED BY <1>1, <1>2

\* The first of the candidates with the lowest penalty is one of them.
LEMMA BestIs ==
  ASSUME NEW f \in [Candidates -> Int]
  PROVE  LET best == Min({8 * f[c] + c : c \in Candidates}) % 8
         IN  best \in Candidates /\ \A c \in Candidates : f[best] <= f[c]
<1> DEFINE g == [c \in Candidates |-> 8 * f[c] + c]
           ranked == {8 * f[c] + c : c \in Candidates}
<1>1. \A c \in Candidates : g[c] \in Int /\ f[c] \in Int /\ c \in 0 .. 7
  BY DEF Candidates
<1>2. \E a \in Candidates : \A b \in Candidates : g[a] <= g[b]
  <2> HIDE DEF g
  <2>1. PICK a \in {0, 1} : g[a] <= g[0] /\ g[a] <= g[1]
    BY <1>1 DEF Candidates
  <2>2. PICK b \in {2, 3} : g[b] <= g[2] /\ g[b] <= g[3]
    BY <1>1 DEF Candidates
  <2>3. PICK c \in {4, 5} : g[c] <= g[4] /\ g[c] <= g[5]
    BY <1>1 DEF Candidates
  <2>4. PICK d \in {6, 7} : g[d] <= g[6] /\ g[d] <= g[7]
    BY <1>1 DEF Candidates
  <2>5. PICK e \in {a, b, c, d} : g[e] <= g[a] /\ g[e] <= g[b] /\ g[e] <= g[c] /\ g[e] <= g[d]
    <3>1. g[a] \in Int /\ g[b] \in Int /\ g[c] \in Int /\ g[d] \in Int
      BY <1>1 DEF Candidates
    <3> QED BY <3>1
  <2>6. e \in Candidates /\ a \in Candidates /\ b \in Candidates /\ c \in Candidates /\ d \in Candidates
    BY DEF Candidates
  <2>7. \A k \in Candidates : k \in {0, 1, 2, 3, 4, 5, 6, 7} /\ g[k] \in Int
    BY <1>1 DEF Candidates
  <2>8. ASSUME NEW k \in Candidates PROVE g[e] <= g[k]
    <3>1. g[e] \in Int /\ g[a] \in Int /\ g[b] \in Int /\ g[c] \in Int /\ g[d] \in Int /\ g[k] \in Int
      BY <2>6, <2>7
    <3> QED BY <2>1, <2>2, <2>3, <2>4, <2>5, <2>7, <3>1
  <2> QED BY <2>6, <2>8
<1>3. PICK a \in Candidates : \A b \in Candidates : g[a] <= g[b]
  BY <1>2
<1>4. ranked = {g[c] : c \in Candidates}
  OBVIOUS
<1>5. Min(ranked) \in ranked /\ \A y \in ranked : Min(ranked) <= y
  <2> HIDE DEF g, ranked
  <2>1. g[a] \in ranked /\ \A y \in ranked : g[a] <= y
    BY <1>3, <1>4
  <2> QED BY <2>1 DEF Min
<1>6. PICK c \in Candidates : Min(ranked) = 8 * f[c] + c
  BY <1>5
<1>7. Min(ranked) % 8 = c
  <2> HIDE DEF ranked
  <2>1. f[c] \in Int /\ c \in 0 .. 7
    BY <1>1
  <2> QED BY <1>6, <2>1
<1>8. ASSUME NEW k \in Candidates PROVE f[c] <= f[k]
  <2>1. 8 * f[c] + c <= 8 * f[k] + k
    BY <1>5, <1>6
  <2>2. f[c] \in Int /\ f[k] \in Int /\ c \in 0 .. 7 /\ k \in 0 .. 7
    BY <1>1
  <2> QED BY <2>1, <2>2
<1> QED BY <1>7, <1>8

\* Colours: whole multiples of 4, so that none costs less than a bonus, or black.
Colour(r) == Plain(r) /\ r.i % 4 = 0 /\ r.q % 4 = 0

\* A candidate of another field or frame that costs no more than the rows above
\* and below do is in the opposite phase.
LEMMA CheapAreOpposite ==
  ASSUME NEW cur, NEW r, FlatBuffer(cur, r), Colour(r), NEW l \in Lines, NEW h \in Columns,
         NEW place, NEW s \in {r, EmptyRow}, FlatBuffer(place[1], s), place[3] = h,
         NEW c \in Candidates, Penalty(cur, l, h, place, c) <= -600
  PROVE  /\ place[2] \in Lines
         /\ place[1].one[place[2]][h] = -Chroma(r, cur.frame.phase, l, h)
<1> DEFINE p == cur.frame.phase
           buf == place[1]
           pp == buf.frame.phase
           m == place[2]
           at(o) == ChromaSum(r, p, l, h, s, pp, m, h, o)
           C == Chroma(r, p, l, h)
<1>1. h \in Int /\ Column(h + 0) = h /\ l \in Int /\ p \in 0 .. 1 /\ Plain(r)
  BY LinesAssumption DEF Columns, Column, Lines, FlatBuffer, FlatFrame
<1>2. /\ Viable(cur, l, h, place)
      /\ at(-1) \in Nat /\ at(0) \in Nat /\ at(1) \in Nat
      /\ Penalty(cur, l, h, place, c) =
           2500 * (Abs(r.b - s.b) + Abs(r.b - s.b) + Abs(r.b - s.b))
             + 525 * (at(-1) + 2 * at(0) + at(1)) + Bonus(c)
  <2> HIDE DEF at
  <2>1. Costs(cur, r, l, h, place, s, c)
    BY <1>1, PenaltyIs
  <2>2. place[3] = h
    OBVIOUS
  <2> QED BY <2>1, <2>2 DEF Costs, NotViable, at
<1>3. m \in Lines /\ (GetLinePhase(buf, m) <=> ~GetLinePhase(cur, l))
  BY <1>1, <1>2, ViableIs
<1>4. m \in Int /\ pp \in 0 .. 1 /\ (Positive(pp, m) <=> ~Positive(p, l))
  <2>1. m \in Int /\ pp \in 0 .. 1
    BY <1>3, LinesAssumption DEF Lines, FlatBuffer, FlatFrame
  <2>2. GetLinePhase(cur, l) = Positive(p, l)
    BY <1>1, LabelsAreTrue DEF FlatBuffer
  <2>3. GetLinePhase(buf, m) = Positive(pp, m)
    BY <2>1, LabelsAreTrue DEF FlatBuffer
  <2> QED BY <1>3, <2>1, <2>2, <2>3
<1>5. buf.one[m][h] = Chroma(s, pp, m, h)
  BY <1>3 DEF FlatBuffer
<1>6. C \in Int
  BY <1>1, ChromaTurns
<1>7. CASE s = r
  <2>1. OnCarrier(r.i, r.q, h) \in Int
    <3> DEFINE i == r.i
               q == r.q
    <3>1. i \in Int /\ q \in Int
      BY <1>1 DEF Plain
    <3> HIDE DEF i, q
    <3> QED BY <1>1, <3>1, CarrierTurns DEF i, q
  <2>2. Chroma(r, pp, m, h) = -C
    BY <1>4, <2>1 DEF Chroma
  <2> QED BY <1>3, <1>5, <1>7, <2>2
<1>8. CASE s = EmptyRow
  <2>1. Chroma(s, pp, m, h) = 0
    <3>1. s.i = 0 /\ s.q = 0
      BY <1>8 DEF EmptyRow
    <3>2. OnCarrier(0, 0, h) = 0
      BY <1>1 DEF OnCarrier, Columns
    <3> QED BY <3>1, <3>2 DEF Chroma
  <2>2. at(0) = Abs(C)
    <3>1. at(0) = Abs(Chroma(r, p, l, h) + Chroma(s, pp, m, h))
      BY <1>1 DEF ChromaSum
    <3> QED BY <1>6, <2>1, <3>1
  <2>3. C % 4 = 0
    <3> DEFINE i == r.i
               q == r.q
    <3>1. i \in Int /\ q \in Int /\ i % 4 = 0 /\ q % 4 = 0 /\ (-i) % 4 = 0 /\ (-q) % 4 = 0
      BY DEF Colour, Plain
    <3>2. OnCarrier(i, q, h) \in {-q, i, q, -i}
      <4> HIDE DEF i, q
      <4> QED BY <3>1 DEF OnCarrier, Columns
    <3>3. C \in {i, q, -i, -q}
      <4>1. C = OnCarrier(i, q, h) \/ C = -OnCarrier(i, q, h)
        BY DEF Chroma
      <4> HIDE DEF i, q, C
      <4> QED BY <3>1, <3>2, <4>1
    <3> HIDE DEF i, q, C
    <3> QED BY <3>1, <3>3
  <2>4. Abs(r.b - s.b) \in Nat /\ Bonus(c) >= -1800 /\ Bonus(c) \in Int
    BY <1>8 DEF EmptyRow, Colour, Plain, Abs, Bonus, Candidates
  <2>5. C = 0
    <3> DEFINE a == at(-1)
               z == at(1)
               k == Abs(r.b - s.b)
    <3>1. /\ a \in Nat /\ z \in Nat /\ k \in Nat
          /\ 2500 * (k + k + k) + 525 * (a + 2 * Abs(C) + z) + Bonus(c) <= -600
      BY <1>2, <2>2, <2>4
    <3> HIDE DEF a, z, k, at, C
    <3>2. Abs(C) \in Nat /\ (Abs(C) = C \/ Abs(C) = -C)
      BY <1>6 DEF Abs
    <3>3. Abs(C) <= 1
      BY <2>4, <3>1, <3>2
    <3> QED BY <1>6, <2>3, <3>2, <3>3
  <2>6. \A y, z \in Int : y + z = 0 => y = -z
    OBVIOUS
  <2>7. Chroma(s, pp, m, h) \in Int
    BY <2>1
  <2> HIDE DEF C
  <2>8. Chroma(s, pp, m, h) + C = 0
    BY <2>1, <2>5
  <2>9. Chroma(s, pp, m, h) = -C
    BY <1>6, <2>6, <2>7, <2>8
  <2> QED BY <1>3, <1>5, <2>9 DEF C
<1> QED BY <1>3, <1>7, <1>8

\* Between frames of one colour and black, the adaptive comb takes every sample
\* from a place in the opposite phase, or from the rows around it.
LEMMA SplitsAreWhole ==
  ASSUME NEW c, c.adaptive, NEW r, Colour(r),
         NEW cur, FlatBuffer(cur, r),
         NEW prev, FlatBuffer(prev, r) \/ FlatBuffer(prev, EmptyRow),
         NEW next, FlatBuffer(next, r) \/ FlatBuffer(next, EmptyRow),
         NEW l \in Lines, NEW h \in Columns
  PROVE  Split3D(c, prev, cur, next)[l][h] = Chroma(r, cur.frame.phase, l, h)
<1> DEFINE p == cur.frame.phase
           place == Places(prev, cur, next, l, h)
           f == [k \in Candidates |-> Penalty(cur, l, h, place[k], k)]
           best == GetBestCandidate(c, prev, cur, next, l, h)
           C == Chroma(r, p, l, h)
<1>1. l \in Int /\ h \in Int /\ p \in 0 .. 1 /\ Plain(r)
  BY LinesAssumption DEF Columns, Lines, FlatBuffer, FlatFrame
<1>2. ASSUME NEW k \in Candidates
      PROVE  /\ \E s \in {r, EmptyRow} : FlatBuffer(place[k][1], s)
             /\ place[k][2] \in Int /\ place[k][3] \in Int
             /\ k = 2 => place[k][1] = cur /\ place[k][2] = l - 2 /\ place[k][3] = h
             /\ k = 3 => place[k][1] = cur /\ place[k][2] = l + 2 /\ place[k][3] = h
             /\ k >= 4 => place[k][3] = h
  <2>1. /\ place[k][1] \in {prev, cur, next} /\ place[k][2] \in Int /\ place[k][3] \in Int
        /\ k = 2 => place[k][1] = cur /\ place[k][2] = l - 2 /\ place[k][3] = h
        /\ k = 3 => place[k][1] = cur /\ place[k][2] = l + 2 /\ place[k][3] = h
        /\ k >= 4 => place[k][3] = h
    BY <1>1, PlacesAre
  <2> HIDE DEF place
  <2> QED BY <2>1
<1> HIDE DEF place
<1>3. ASSUME NEW k \in Candidates PROVE Penalty(cur, l, h, place[k], k) \in Int
  <2>1. PICK s \in {r, EmptyRow} : FlatBuffer(place[k][1], s)
    BY <1>2
  <2>2. Costs(cur, r, l, h, place[k], s, k)
    BY <1>1, <1>2, <2>1, PenaltyIs
  <2>3. Bonus(k) \in Int /\ Abs(r.b - s.b) \in Int
    BY <1>1 DEF Bonus, Candidates, Plain, EmptyRow, Abs
  <2> QED BY <2>2, <2>3 DEF Costs, NotViable
<1>4. f \in [Candidates -> Int]
  BY <1>3
<1>5. \E k \in {2, 3} : f[k] = -600
  <2>1. PICK k \in {2, 3} : place[k][2] \in Lines /\ k \in Candidates
    <3>1. 2 \in Candidates /\ 3 \in Candidates
      BY DEF Candidates
    <3> QED BY <1>2, <3>1, LinesAssumption DEF Lines
  <2> DEFINE m == place[k][2]
  <2>2. place[k][1] = cur /\ place[k][3] = h /\ (m = l - 2 \/ m = l + 2) /\ m \in Int
    BY <1>1, <1>2, <2>1
  <2>3. GetLinePhase(cur, m) <=> ~GetLinePhase(cur, l)
    <3>1. GetLinePhase(cur, l) = Positive(p, l) /\ GetLinePhase(cur, m) = Positive(p, m)
      BY <1>1, <2>2, LabelsAreTrue DEF FlatBuffer
    <3>2. Positive(p, m) <=> ~Positive(p, l)
      BY <1>1, <2>2, PhaseTurns
    <3> QED BY <3>1, <3>2
  <2>4. Viable(cur, l, h, place[k])
    BY <1>1, <2>1, <2>2, <2>3, ViableIs
  <2>5. Costs(cur, r, l, h, place[k], r, k)
    BY <1>1, <1>2, <2>1, <2>2, PenaltyIs
  <2>6. ASSUME NEW o \in {-1, 0, 1}
        PROVE  ChromaSum(r, p, l, h, r, p, m, h, o) = 0
    <3> DEFINE x == Column(h + o)
    <3>1. x \in Int
      BY <1>1 DEF Column
    <3> HIDE DEF x
    <3>2. Chroma(r, p, m, x) = -Chroma(r, p, l, x) /\ Chroma(r, p, l, x) \in Int
      BY <1>1, <2>2, <3>1, ChromaTurns
    <3>3. Chroma(r, p, l, x) + Chroma(r, p, m, x) = 0
      BY <3>2
    <3> QED BY <3>3 DEF ChromaSum, Abs, x
  <2>7. r.b - r.b = 0 /\ Abs(0) = 0
    BY <1>1 DEF Plain, Abs
  <2>8. Bonus(k) = -600
    BY DEF Bonus
  <2>9. Penalty(cur, l, h, place[k], k) = -600
    <3> DEFINE at(o) == ChromaSum(r, p, l, h, r, place[k][1].frame.phase, place[k][2], place[k][3], o)
    <3>1. Penalty(cur, l, h, place[k], k) =
            2500 * (Abs(r.b - r.b) + Abs(r.b - r.b) + Abs(r.b - r.b))
              + 525 * (at(-1) + 2 * at(0) + at(1)) + Bonus(k)
      BY <2>4, <2>5 DEF Costs
    <3>2. ASSUME NEW o \in {-1, 0, 1} PROVE at(o) = 0
      <4>1. at(o) = ChromaSum(r, p, l, h, r, p, m, h, o)
        BY <2>2
      <4> QED BY <2>6, <4>1
    <3> HIDE DEF at
    <3>3. at(-1) = 0 /\ at(0) = 0 /\ at(1) = 0
      BY <3>2
    <3> QED BY <2>7, <2>8, <3>1, <3>3
  <2> QED BY <2>1, <2>9
<1>6. best \in Candidates /\ Penalty(cur, l, h, place[best], best) <= -600
  <2> DEFINE least == Min({8 * f[k] + k : k \in Candidates}) % 8
  <2>1. best = least
    BY DEF GetBestCandidate, place
  <2> HIDE DEF best, f
  <2>2. least \in Candidates /\ \A k \in Candidates : f[least] <= f[k]
    BY <1>4, BestIs
  <2> HIDE DEF least
  <2>3. best \in Candidates /\ f[best] <= -600
    BY <1>5, <2>1, <2>2 DEF Candidates
  <2> QED BY <2>3 DEF f
<1>7. Split3D(c, prev, cur, next)[l][h] =
        IF best < PrevField THEN cur.two[l][h]
        ELSE (cur.one[l][h] - place[best][1].one[place[best][2]][(place[best][3] + 4) % 4]) \div 2
  BY DEF Split3D, place
<1>8. cur.one[l][h] = C /\ cur.two[l][h] = C /\ C \in Int
  BY <1>1, ChromaTurns DEF FlatBuffer
<1> HIDE DEF best, C
<1>9. CASE best < 4
  BY <1>7, <1>8, <1>9 DEF PrevField, C
<1>10. CASE ~(best < 4)
  <2>1. best >= 4 /\ place[best][3] = h
    BY <1>2, <1>6, <1>10 DEF Candidates
  <2>2. PICK s \in {r, EmptyRow} : FlatBuffer(place[best][1], s)
    BY <1>2, <1>6
  <2>3. place[best][1].one[place[best][2]][h] = -C
    BY <1>6, <2>1, <2>2, CheapAreOpposite DEF C
  <2>4. (place[best][3] + 4) % 4 = h
    BY <2>1 DEF Columns
  <2>5. (C - (-C)) \div 2 = C
    BY <1>8
  <2> QED BY <1>7, <1>8, <1>10, <2>3, <2>4, <2>5 DEF PrevField, C
<1> QED BY <1>6, <1>9, <1>10 DEF Candidates

\* The frames of a still picture are of one colour, and those around it are black.
LEMMA StillsAreFlat ==
  ASSUME capture \in Captures, Flat(capture), Labelled(capture), NEW o \in 1 .. FrameCount
  PROVE  LET r == capture[1].row[FirstLine]
         IN  /\ Colour(r)
             /\ \A n \in 1 .. FrameCount : FlatBuffer(Buffer(capture, n), r) /\ Buffer(capture, n).frame = capture[n]
             /\ \A n \in Int : FlatBuffer(Buffer(capture, n), r) \/ FlatBuffer(Buffer(capture, n), EmptyRow)
<1> DEFINE r == capture[1].row[FirstLine]
<1>1. FirstLine \in Lines /\ 1 \in 1 .. FrameCount
  BY LinesAssumption, RunsAssumption DEF Lines
<1>2. ASSUME NEW n \in 1 .. FrameCount
      PROVE  /\ capture[n].phase \in 0 .. 1 /\ capture[n].ids = TrueIds(capture[n].phase)
             /\ \A l \in Lines : capture[n].row[l] = r
  BY <1>2, CapturesAssumption DEF Flat, Labelled
<1>3. Colour(r)
  <2>1. r.d = 0
    BY <1>1 DEF Flat
  <2>2. r.b \in Int /\ r.i \in Int /\ r.q \in Int /\ r.i % 4 = 0 /\ r.q % 4 = 0
    BY <1>1, CapturesAssumption
  <2> HIDE DEF r
  <2> QED BY <2>1, <2>2 DEF Colour, Plain
<1> HIDE DEF r
<1>4. ASSUME NEW n \in 1 .. FrameCount
      PROVE  FlatBuffer(Buffer(capture, n), r) /\ Buffer(capture, n).frame = capture[n]
  <2>1. FlatFrame(capture[n], r)
    BY <1>2, <1>3 DEF FlatFrame, Colour
  <2>2. Buffer(capture, n) = LoadFields(capture[n])
    BY DEF Buffer, FrameOf
  <2> QED BY <1>2, <2>1, <2>2, FlatSplits DEF LoadFields
<1>5. ASSUME NEW n \in Int, n \notin 1 .. FrameCount
      PROVE  FlatBuffer(Buffer(capture, n), EmptyRow)
  <2> DEFINE f == [row |-> [l \in Lines |-> EmptyRow], phase |-> capture[1].phase, ids |-> capture[1].ids]
  <2>1. Buffer(capture, n) = LoadFields(f)
    BY <1>5 DEF Buffer, FrameOf
  <2>2. f.phase \in 0 .. 1 /\ f.ids = TrueIds(f.phase) /\ \A l \in Lines : f.row[l] = EmptyRow
    BY <1>1, <1>2
  <2>3. Plain(EmptyRow)
    BY DEF Plain, EmptyRow
  <2> HIDE DEF f
  <2> QED BY <2>1, <2>2, <2>3, FlatSplits DEF FlatFrame
<1> QED BY <1>3, <1>4, <1>5 DEF r

\* A row whose chroma is the one that was sent decodes to what was sent.
LEMMA ChromaDecodes ==
  ASSUME NEW c, NEW buf, NEW r, FlatBuffer(buf, r), NEW chroma, NEW l \in Lines,
         \A h \in Columns : chroma[l][h] = Chroma(r, buf.frame.phase, l, h)
  PROVE  /\ SplitIQ(c, buf, chroma, l) = [i |-> r.i, q |-> r.q]
         /\ AdjustY(buf, chroma, l) = [h \in Columns |-> r.b]
<1> DEFINE p == buf.frame.phase
           i == r.i
           q == r.q
<1>1. l \in Int /\ p \in 0 .. 1 /\ i \in Int /\ q \in Int /\ r.b \in Int /\ Plain(r) /\ FlatFrame(buf.frame, r)
  BY LinesAssumption DEF Lines, FlatBuffer, FlatFrame, Plain
<1>2. Positive(p, l) = GetLinePhase(buf, l)
  BY <1>1, LabelsAreTrue DEF FlatBuffer
<1>3. chroma[l][0] = (IF Positive(p, l) THEN -q ELSE q) /\ chroma[l][1] = (IF Positive(p, l) THEN i ELSE -i)
  <2>1. 0 \in Columns /\ 1 \in Columns
    BY DEF Columns
  <2>2. OnCarrier(r.i, r.q, 0) = -r.q /\ OnCarrier(r.i, r.q, 1) = r.i
    BY DEF OnCarrier
  <2>3. -(-q) = q
    <3> HIDE DEF q
    <3> QED BY <1>1
  <2> QED BY <2>1, <2>2, <2>3 DEF Chroma
<1>4. SplitIQ(c, buf, chroma, l) = [i |-> r.i, q |-> r.q]
  <2> DEFINE positive == IF c.phaseCompensation THEN Positive(p, l) ELSE GetLinePhase(buf, l)
             cavg(h) == IF positive THEN -chroma[l][h] ELSE chroma[l][h]
  <2>1. SplitIQ(c, buf, chroma, l) = [i |-> -cavg(1), q |-> cavg(0)]
    BY DEF SplitIQ
  <2>2. positive <=> Positive(p, l)
    BY <1>2
  <2> HIDE DEF positive
  <2>3. -cavg(1) = i /\ cavg(0) = q
    <3> HIDE DEF i, q, p
    <3>1. CASE Positive(p, l)
      BY <1>1, <1>3, <2>2, <3>1
    <3>2. CASE ~Positive(p, l)
      BY <1>1, <1>3, <2>2, <3>2
    <3> QED BY <3>1, <3>2
  <2> QED BY <2>1, <2>3
<1>5. AdjustY(buf, chroma, l) = [h \in Columns |-> r.b]
  <2>1. ASSUME NEW h \in Columns PROVE Raw(buf.frame, l, h) - chroma[l][h] = r.b
    <3>1. h \in Int
      BY DEF Columns
    <3>2. Raw(buf.frame, l, h) = r.b + Chroma(r, p, l, h) /\ Chroma(r, p, l, h) \in Int
      BY <1>1, <3>1, FlatRaw, ChromaTurns
    <3> QED BY <1>1, <3>2
  <2> QED BY <2>1 DEF AdjustY
<1> QED BY <1>4, <1>5

LEMMA ColourSurvives == ColourInv => ColourSurvivesCuts
<1> SUFFICES ASSUME ColourInv, kind = "comb", cfg.adaptive, Flat(capture), Labelled(capture),
                    NEW n \in 1 .. FrameCount, NEW d \in out[n], NEW l \in Lines
             PROVE  LET r == capture[n].row[l]
                    IN  d.picture[l] = [iq |-> [i |-> r.i, q |-> r.q], y |-> [h \in Columns |-> r.b]]
  BY DEF ColourSurvivesCuts
<1> DEFINE r == capture[1].row[FirstLine]
           prev == Buffer(capture, n - 1)
           cur == Buffer(capture, n)
           next == Buffer(capture, n + 1)
           chroma == CASE cfg.dimensions = 1 -> cur.one
                       [] cfg.dimensions = 2 -> cur.two
                       [] OTHER -> Split3D(cfg, prev, cur, next)
<1>1. capture \in Captures /\ cfg.dimensions \in 1 .. 3 /\ d.picture = DecodeBuffers(cfg, prev, cur, next)
  BY CombsAssumption DEF ColourInv, Decoded, OwnPicture
<1>2. capture[n].row[l] = r
  BY DEF Flat
<1>3. /\ Colour(r) /\ FlatBuffer(cur, r)
      /\ FlatBuffer(prev, r) \/ FlatBuffer(prev, EmptyRow)
      /\ FlatBuffer(next, r) \/ FlatBuffer(next, EmptyRow)
  BY <1>1, StillsAreFlat
<1>4. d.picture[l] = [iq |-> SplitIQ(cfg, cur, chroma, l), y |-> AdjustY(cur, chroma, l)]
  BY <1>1 DEF DecodeBuffers
<1> HIDE DEF r, prev, cur, next
<1>5. ASSUME NEW h \in Columns PROVE chroma[l][h] = Chroma(r, cur.frame.phase, l, h)
  <2>1. cur.one[l][h] = Chroma(r, cur.frame.phase, l, h) /\ cur.two[l][h] = Chroma(r, cur.frame.phase, l, h)
    BY <1>3 DEF FlatBuffer
  <2>2. Split3D(cfg, prev, cur, next)[l][h] = Chroma(r, cur.frame.phase, l, h)
    BY <1>3, SplitsAreWhole
  <2> QED BY <2>1, <2>2
<1> HIDE DEF chroma
<1>6. /\ SplitIQ(cfg, cur, chroma, l) = [i |-> r.i, q |-> r.q]
      /\ AdjustY(cur, chroma, l) = [h \in Columns |-> r.b]
  BY <1>3, <1>5, ChromaDecodes
<1> QED BY <1>2, <1>4, <1>6

\* In an uncut capture the neighbouring lines of the neighbouring fields are usable.
LEMMA FieldsAreUsable == ColourInv => FieldCandidatesUsable
<1> SUFFICES ASSUME ColourInv, kind = "comb", Labelled(capture),
                    NEW n \in 2 .. (FrameCount - 1),
                    \A m \in {n - 1, n + 1} : capture[m].phase # capture[n].phase,
                    NEW l \in (FirstLine + 1) .. (LastLine - 1), NEW h \in Columns, NEW c \in {4, 5}
             PROVE  LET b(m) == LoadFields(capture[m])
                        place == Places(b(n - 1), b(n), b(n + 1), l, h)[c]
                    IN  /\ Viable(b(n), l, h, place)
                        /\ Positive(place[1].frame.phase, place[2]) # Positive(capture[n].phase, l)
  BY DEF FieldCandidatesUsable
<1> DEFINE b(m) == LoadFields(capture[m])
           prev == b(n - 1)
           cur == b(n)
           next == b(n + 1)
           p == capture[n].phase
           same == GetLinePhase(cur, l) = GetLinePhase(cur, l - 1)
           place == Places(prev, cur, next, l, h)[c]
<1>1. /\ n - 1 \in 1 .. FrameCount /\ n \in 1 .. FrameCount /\ n + 1 \in 1 .. FrameCount
      /\ l \in Int /\ l - 1 \in Lines /\ l + 1 \in Lines /\ l - 1 \in Int /\ l + 1 \in Int /\ h \in Int
  BY LinesAssumption, RunsAssumption DEF Lines, Columns
<1>2. capture \in Captures
  BY DEF ColourInv
<1>3. ASSUME NEW m \in 1 .. FrameCount
      PROVE  /\ b(m).frame = capture[m] /\ capture[m].phase \in 0 .. 1
             /\ \A k \in Int : GetLinePhase(b(m), k) = Positive(capture[m].phase, k)
  <2>1. b(m).frame = capture[m]
    BY DEF LoadFields
  <2>2. capture[m].phase \in 0 .. 1 /\ capture[m].ids = TrueIds(capture[m].phase)
    BY <1>2, CapturesAssumption DEF Labelled
  <2> HIDE DEF b
  <2> QED BY <2>1, <2>2, LabelsAreTrue
<1>4. p \in 0 .. 1 /\ capture[n - 1].phase = 1 - p /\ capture[n + 1].phase = 1 - p
  <2>1. capture[n - 1].phase \in 0 .. 1 /\ p \in 0 .. 1 /\ capture[n + 1].phase \in 0 .. 1
    BY <1>1, <1>3
  <2>2. capture[n - 1].phase # p /\ capture[n + 1].phase # p
    OBVIOUS
  <2> QED BY <2>1, <2>2
<1> HIDE DEF b
<1>5. /\ GetLinePhase(cur, l) = Positive(p, l) /\ cur.frame.phase = p
      /\ GetLinePhase(cur, l - 1) = Positive(p, l - 1) /\ GetLinePhase(cur, l + 1) = Positive(p, l + 1)
      /\ GetLinePhase(prev, l - 1) = Positive(1 - p, l - 1) /\ prev.frame.phase = 1 - p
      /\ GetLinePhase(next, l + 1) = Positive(1 - p, l + 1) /\ next.frame.phase = 1 - p
  BY <1>1, <1>3, <1>4
<1>6. /\ Positive(1 - p, l - 1) <=> ~Positive(p, l - 1)
      /\ Positive(1 - p, l + 1) <=> ~Positive(p, l + 1)
      /\ Positive(p, l + 1) <=> ~Positive(p, l - 1)
  <2>1. \A k \in Int : (Positive(1 - p, k) <=> ~Positive(p, k)) /\ (Positive(p, k + 2) <=> ~Positive(p, k))
    BY <1>4, PhaseTurns
  <2>2. (l - 1) + 2 = l + 1
    BY <1>1
  <2> HIDE DEF p
  <2>3. Positive(p, (l - 1) + 2) <=> ~Positive(p, l - 1)
    BY <1>1, <2>1
  <2> QED BY <1>1, <2>1, <2>2, <2>3
<1>7. \E f \in {prev, cur, next}, k \in {l - 1, l + 1} :
         /\ place = <<f, k, h>> /\ GetLinePhase(f, k) = Positive(f.frame.phase, k)
         /\ Positive(f.frame.phase, k) <=> ~Positive(p, l)
  <2>1. c = 4 => place = <<IF same THEN prev ELSE cur, l - 1, h>>
    BY DEF Places, Candidates
  <2>2. c = 5 => place = <<IF same THEN cur ELSE next, l + 1, h>>
    BY DEF Places, Candidates
  <2>3. same <=> (Positive(p, l) <=> Positive(p, l - 1))
    <3>1. Positive(p, l) \in BOOLEAN /\ Positive(p, l - 1) \in BOOLEAN
      BY DEF Positive
    <3> HIDE DEF p, cur
    <3> QED BY <1>5, <3>1
  <2> HIDE DEF place, same, prev, cur, next, p
  <2>4. CASE c = 4 /\ same
    BY <1>5, <1>6, <2>1, <2>3, <2>4
  <2>5. CASE c = 4 /\ ~same
    BY <1>5, <1>6, <2>1, <2>3, <2>5
  <2>6. CASE c = 5 /\ same
    BY <1>5, <1>6, <2>2, <2>3, <2>6
  <2>7. CASE c = 5 /\ ~same
    BY <1>5, <1>6, <2>2, <2>3, <2>7
  <2> QED BY <2>4, <2>5, <2>6, <2>7
<1> HIDE DEF place, same, prev, cur, next, p
<1>8. PICK f \in {prev, cur, next}, k \in {l - 1, l + 1} :
         /\ place = <<f, k, h>> /\ GetLinePhase(f, k) = Positive(f.frame.phase, k)
         /\ Positive(f.frame.phase, k) <=> ~Positive(p, l)
  BY <1>7
<1>9. place[1] = f /\ place[2] = k /\ place[3] = h /\ k \in Lines
  BY <1>1, <1>8
<1>10. Viable(cur, l, h, place)
  BY <1>1, <1>5, <1>8, <1>9, ViableIs
<1>11. Positive(place[1].frame.phase, place[2]) # Positive(p, l)
  BY <1>8, <1>9
<1> QED BY <1>10, <1>11 DEF place, prev, cur, next, p, b

\* The comb finds opposite phases wherever it looks for them: a still picture of
\* any colour keeps it through every adaptive comb, however the colour sequence is
\* cut and whatever is around the capture, and where it is not cut the lines of
\* the neighbouring fields are always to be had.
THEOREM CombIsTrue == ChromaSpec => []CombFindsOppositePhases
<1>1. ColourInv => CombFindsOppositePhases
  BY ColourSurvives, FieldsAreUsable DEF CombFindsOppositePhases
<1> QED BY <1>1, ColourInvariant, PTL

-----------------------------------------------------------------------------
(* SECAM: the instances of a pool. *)

\* A porch shows two frequencies, both carriers moved by the field's shift.
LEMMA PorchShowsTheCarriers ==
  ASSUME OnPorch(videoStart), NEW f, NEW r
  PROVE  PorchFrequency(f, r) \in {f.shift + Fob, f.shift + For}
<1>1. PorchFrequency(f, r) =
        f.shift + Carrier(IF r \in f.wrong THEN 1 - TrueComponent(f, r) ELSE TrueComponent(f, r))
  BY DEF PorchFrequency
<1>2. \A c : Carrier(c) \in {Fob, For}
  BY DEF Carrier
<1> QED BY <1>1, <1>2

\* Of finitely many rows with two frequencies, the n-th lowest.
LEMMA NthOfTwo ==
  ASSUME NEW rows, IsFiniteSet(rows), NEW freq, NEW low \in Int, NEW high \in Int, low < high,
         \A r \in rows : freq[r] \in {low, high},
         NEW Lows, Lows = {r \in rows : freq[r] = low},
         NEW n \in Nat, n < Cardinality(rows)
  PROVE  Nth(rows, freq, n) = IF n < Cardinality(Lows) THEN low ELSE high
<1> DEFINE values == {freq[r] : r \in rows}
           Below(v) == {r \in rows : freq[r] < v}
           UpTo(v) == {r \in rows : freq[r] <= v}
           Is(v) == Cardinality(Below(v)) <= n /\ n < Cardinality(UpTo(v))
<1>1. Below(low) = {} /\ UpTo(high) = rows /\ Below(high) = Lows /\ UpTo(low) = Lows
  OBVIOUS
<1>2. Cardinality(Lows) \in Nat /\ Cardinality(rows) \in Nat /\ Cardinality({}) = 0
  BY FS_Subset, FS_CardinalityType, FS_EmptySet
<1>3. /\ Is(low) <=> n < Cardinality(Lows)
      /\ Is(high) <=> ~(n < Cardinality(Lows))
  <2> HIDE DEF Below, UpTo
  <2> QED BY <1>1, <1>2
<1>4. n < Cardinality(Lows) => low \in values
  <2>1. Lows # {} => low \in values
    OBVIOUS
  <2> HIDE DEF values
  <2> QED BY <1>2, <2>1
<1>5. ~(n < Cardinality(Lows)) => high \in values
  <2>1. Lows # rows => high \in values
    OBVIOUS
  <2> HIDE DEF values
  <2> QED BY <1>2, <2>1
<1>6. Nth(rows, freq, n) = CHOOSE v \in values : Is(v)
  BY DEF Nth
<1>7. values \subseteq {low, high}
  OBVIOUS
<1> HIDE DEF values, Is
<1>8. \E v \in values : Is(v)
  BY <1>3, <1>4, <1>5
<1>9. Nth(rows, freq, n) \in {low, high} /\ Is(Nth(rows, freq, n))
  BY <1>6, <1>7, <1>8
<1> QED BY <1>3, <1>9

FieldAssumed(f) == f.shift \in Int /\ f.porch \subseteq 0 .. (Rows - 1)

\* The rows of a measured porch, and the two medians of their frequencies.
PorchRowsAt(f, o, v) == {r \in ValidRows(f, o) : PorchFrequency(f, r) = v}
Median(f, o, k) ==
  IF k < Cardinality(PorchRowsAt(f, o, Fob + f.shift)) THEN Fob + f.shift ELSE For + f.shift
LowMedian(f, o) == Median(f, o, (Cardinality(ValidRows(f, o)) \div 2) \div 2)
HighMedian(f, o) ==
  LET n == Cardinality(ValidRows(f, o)) IN Median(f, o, n \div 2 + (n - n \div 2) \div 2)

LEMMA ValidRowsAreFinite ==
  ASSUME CalibrationAssumption, videoStart \in Starts, NEW f, FieldAssumed(f), NEW o
  PROVE  /\ IsFiniteSet(ValidRows(f, o)) /\ Cardinality(ValidRows(f, o)) \in Nat
         /\ ValidRows(f, o) \subseteq f.porch /\ OnPorch(videoStart)
<1>1. OnPorch(videoStart) /\ Rows \in Nat
  BY DEF CalibrationAssumption
<1>2. ValidRows(f, o) \subseteq f.porch /\ ValidRows(f, o) \subseteq 0 .. (Rows - 1)
  BY <1>1 DEF ValidRows, FieldAssumed
<1>3. IsFiniteSet(0 .. (Rows - 1))
  BY <1>1, FS_Interval
<1> QED BY <1>1, <1>2, <1>3, FS_Subset, FS_CardinalityType

LEMMA MediansMeasured ==
  ASSUME CalibrationAssumption, videoStart \in Starts, NEW f, FieldAssumed(f), NEW o,
         Cardinality(ValidRows(f, o)) >= PorchRows
  PROVE  MeasuredPair(f, o) =
           IF /\ HighMedian(f, o) - LowMedian(f, o) > MinPair
              /\ HighMedian(f, o) - LowMedian(f, o) < MaxPair
           THEN <<LowMedian(f, o), HighMedian(f, o)>> ELSE NoPair
<1> DEFINE rows == ValidRows(f, o)
           freq == [r \in rows |-> PorchFrequency(f, r)]
           n == Cardinality(rows)
           half == n \div 2
           a == Fob + f.shift
           b == For + f.shift
<1>1. PorchRows \in Nat \ {0} /\ a \in Int /\ b \in Int /\ a < b
  BY DEF CalibrationAssumption, FieldAssumed
<1>2. IsFiniteSet(rows) /\ n \in Nat /\ n >= PorchRows /\ OnPorch(videoStart)
  BY ValidRowsAreFinite
<1>3. \A r \in rows : freq[r] \in {a, b}
  <2>1. f.shift + Fob = a /\ f.shift + For = b
    BY DEF CalibrationAssumption, FieldAssumed
  <2> QED BY <1>2, <2>1, PorchShowsTheCarriers
<1>4. /\ half \div 2 \in Nat /\ half \div 2 < n
      /\ half + (n - half) \div 2 \in Nat /\ half + (n - half) \div 2 < n
  <2> HIDE DEF n
  <2> QED BY <1>1, <1>2
<1>5. {r \in rows : freq[r] = a} = PorchRowsAt(f, o, a)
  BY DEF PorchRowsAt
<1>6. ASSUME NEW k \in Nat, k < n PROVE Nth(rows, freq, k) = Median(f, o, k)
  <2> DEFINE lows == PorchRowsAt(f, o, a)
  <2>1. Nth(rows, freq, k) = IF k < Cardinality(lows) THEN a ELSE b
    <3>1. lows = {r \in rows : freq[r] = a}
      BY <1>5
    <3> HIDE DEF a, b, freq, rows, lows
    <3> QED BY <1>1, <1>2, <1>3, <1>6, <3>1, NthOfTwo
  <2> QED BY <2>1 DEF Median
<1>7. Nth(rows, freq, half \div 2) = LowMedian(f, o)
  BY <1>4, <1>6 DEF LowMedian
<1>8. Nth(rows, freq, half + (n - half) \div 2) = HighMedian(f, o)
  BY <1>4, <1>6 DEF HighMedian
<1> QED BY <1>7, <1>8 DEF MeasuredPair

\* Medians a plausible distance apart are the two carriers.
LEMMA MeasuredIsTheFields ==
  ASSUME CalibrationAssumption, videoStart \in Starts, NEW f, FieldAssumed(f), NEW o,
         MeasuredPair(f, o) # NoPair
  PROVE  MeasuredPair(f, o) = <<Fob + f.shift, For + f.shift>>
<1>1. Cardinality(ValidRows(f, o)) >= PorchRows
  BY DEF MeasuredPair
<1>2. /\ MeasuredPair(f, o) = <<LowMedian(f, o), HighMedian(f, o)>>
      /\ HighMedian(f, o) - LowMedian(f, o) > MinPair
  BY <1>1, MediansMeasured
<1>3. /\ LowMedian(f, o) \in {Fob + f.shift, For + f.shift}
      /\ HighMedian(f, o) \in {Fob + f.shift, For + f.shift}
  BY DEF LowMedian, HighMedian, Median
<1>4. Fob \in Int /\ For \in Int /\ Fob < For /\ f.shift \in Int /\ MinPair \in Nat
  BY DEF CalibrationAssumption, FieldAssumed
<1>5. LowMedian(f, o) = Fob + f.shift /\ HighMedian(f, o) = For + f.shift
  BY <1>2, <1>3, <1>4
<1> QED BY <1>2, <1>5

\* A step moves neither the capture, the mode nor the start: what a field shows
\* and is measured and identified as is what it was.
LEMMA MeasuredOnceForAll ==
  ASSUME videoStart' = videoStart
  PROVE  \A f, o : MeasuredPair(f, o)' = MeasuredPair(f, o)
<1>1. \A f, o : ValidRows(f, o)' = ValidRows(f, o)
  BY DEF ValidRows, HasPicture
<1>2. \A f, r : PorchFrequency(f, r)' = PorchFrequency(f, r)
  BY DEF PorchFrequency
<1> QED BY <1>1, <1>2 DEF MeasuredPair

LEMMA IdentifiedOnceForAll ==
  ASSUME UNCHANGED <<mode, videoStart>>
  PROVE  \A f, seqNo, pair : Ident(f, seqNo, pair)' = Ident(f, seqNo, pair)
<1>1. \A f, o, pair : PorchFit(f, o, pair)' = PorchFit(f, o, pair)
  <2>1. \A f, o : ValidRows(f, o)' = ValidRows(f, o)
    BY DEF ValidRows, HasPicture
  <2>2. \A f, r : PorchFrequency(f, r)' = PorchFrequency(f, r)
    BY DEF PorchFrequency
  <2> QED BY <2>1, <2>2 DEF PorchFit
<1>2. \A f, o, pair : AutoIdent(f, o, pair)' = AutoIdent(f, o, pair)
  BY <1>1 DEF AutoIdent
<1> QED BY <1>1, <1>2 DEF Ident

-----------------------------------------------------------------------------
(* What an instance keeps is what its frames decoded to. *)

\* p is a decoding of field seqNo: all of it, if it was calibrated, from there.
IsDecoding(p, seqNo) ==
  LET f == secamCapture[seqNo]
      o == FieldOffset(seqNo)
      pair == MeasuredPair(f, o)
  IN  /\ p.calibrated <=> pair # NoPair
      /\ p.calibrated =>
           /\ p.pair = pair /\ p.ident = Ident(f, seqNo, pair)
           /\ p.components = [r \in ActiveRows(o) |-> (r + p.ident.anchor) % 2]
           /\ p.masks \in Int /\ Magnitude(p.masks - f.shift) <= Recentre

IsFrame(d, n) == \A k \in 1 .. 2 : IsDecoding(d.fields[k], 2 * (n - 1) + k)

SecamInv ==
  /\ secamCapture \in SecamCaptures /\ videoStart \in Starts
  /\ \A w \in SecamWorkers : inst[w].offset \in Int
  /\ DOMAIN inst = SecamWorkers /\ DOMAIN latest = SecamWorkers /\ DOMAIN earliest = FrameNos
  /\ \A w \in SecamWorkers : \A d : latest[w] = d /\ d # NotDecoded =>
        /\ d.frame \in FrameNos /\ earliest[d.frame] # NotDecoded
        /\ IsFrame(d, d.frame)
  /\ \A n \in FrameNos : \A d : earliest[n] = d /\ d # NotDecoded => IsFrame(d, n)

LEMMA DecodingsStay ==
  ASSUME UNCHANGED <<secamCapture, mode, videoStart>>
  PROVE  \A d, n : IsFrame(d, n) => IsFrame(d, n)'
<1>1. \A f, o : MeasuredPair(f, o)' = MeasuredPair(f, o)
  BY MeasuredOnceForAll
<1>2. \A f, seqNo, pair : Ident(f, seqNo, pair)' = Ident(f, seqNo, pair)
  BY IdentifiedOnceForAll
<1>3. \A p, seqNo : IsDecoding(p, seqNo) => IsDecoding(p, seqNo)'
  BY <1>1, <1>2 DEF IsDecoding
<1> QED BY <1>3 DEF IsFrame

LEMMA MasksSitOnTheField ==
  ASSUME CalibrationAssumption, NEW s \in Int, NEW i, i.offset \in Int,
         NEW pair, pair # NoPair => pair = <<Fob + s, For + s>>
  PROVE  /\ Masks(i, pair) \in Int
         /\ pair # NoPair => Magnitude(Masks(i, pair) - s) <= Recentre
<1> DEFINE measured == Middle(pair) - Middle(<<Fob, For>>)
<1>1. Fob \in Int /\ For \in Int /\ Recentre \in Nat
  BY DEF CalibrationAssumption
<1>2. ASSUME pair # NoPair PROVE measured = s
  <2>1. pair[1] = Fob + s /\ pair[2] = For + s
    BY <1>2
  <2>2. Middle(pair) = (Fob + For + 2 * s) \div 2 /\ Middle(<<Fob, For>>) = (Fob + For) \div 2
    BY <1>1, <2>1 DEF Middle
  <2>3. \A k \in Int : (k + 2 * s) \div 2 = k \div 2 + s
    OBVIOUS
  <2>4. (Fob + For + 2 * s) \div 2 = (Fob + For) \div 2 + s /\ (Fob + For) \div 2 \in Int
    BY <1>1, <2>3
  <2> QED BY <2>2, <2>4
<1>3. Masks(i, pair) = IF pair # NoPair /\ Magnitude(measured - i.offset) > Recentre THEN measured ELSE i.offset
  BY DEF Masks
<1> HIDE DEF measured
<1> QED BY <1>1, <1>2, <1>3 DEF Magnitude

LEMMA FieldIsDecoding ==
  ASSUME CalibrationAssumption, secamCapture \in SecamCaptures, videoStart \in Starts,
         NEW seqNo \in DOMAIN secamCapture, NEW i, i.offset \in Int
  PROVE  IsDecoding(DecodeSecamField(i, seqNo), seqNo) /\ DecodeSecamField(i, seqNo).inst.offset \in Int
<1> DEFINE f == secamCapture[seqNo]
           o == FieldOffset(seqNo)
           pair == MeasuredPair(f, o)
           p == DecodeSecamField(i, seqNo)
<1>1. FieldAssumed(f)
  BY DEF CalibrationAssumption, FieldAssumed
<1>2. pair # NoPair => pair = <<Fob + f.shift, For + f.shift>>
  BY <1>1, MeasuredIsTheFields
<1>3. /\ Masks(i, pair) \in Int
      /\ pair # NoPair => Magnitude(Masks(i, pair) - f.shift) <= Recentre
  BY <1>1, <1>2, MasksSitOnTheField DEF FieldAssumed
<1>4. /\ p.inst = Remember(i, pair) /\ p.calibrated = (pair # NoPair)
      /\ p.pair = PairFor(i, pair) /\ p.masks = Masks(i, pair)
      /\ p.ident = Ident(f, seqNo, PairFor(i, pair))
      /\ p.components = [r \in ActiveRows(o) |-> (r + p.ident.anchor) % 2]
  BY DEF DecodeSecamField
<1>5. pair # NoPair => PairFor(i, pair) = pair
  BY DEF PairFor
<1>6. p.inst.offset \in Int
  BY <1>3, <1>4 DEF Remember
<1>7. IsDecoding(p, seqNo)
  <2> HIDE DEF p
  <2> QED BY <1>3, <1>4, <1>5 DEF IsDecoding
<1> QED BY <1>6, <1>7

LEMMA SecamSteps ==
  ASSUME CalibrationAssumption, SecamInv, [SecamNext]_(secamVars)
  PROVE  SecamInv'
<1>1. CASE UNCHANGED secamVars
  <2>1. UNCHANGED <<secamCapture, mode, videoStart, inst, latest, earliest>>
    BY <1>1 DEF secamVars
  <2>2. \A d, n : IsFrame(d, n) => IsFrame(d, n)'
    BY <2>1, DecodingsStay
  <2>3. FrameNos' = FrameNos
    BY <2>1 DEF FrameNos
  <2> QED BY <2>1, <2>2, <2>3 DEF SecamInv
<1>2. CASE SecamNext
  <2>1. PICK w \in SecamWorkers, n \in FrameNos : DecodeSecam(w, n)
    BY <1>2 DEF SecamNext
  <2> DEFINE a == DecodeSecamField(inst[w], 2 * n - 1)
             b == DecodeSecamField(a.inst, 2 * n)
             new == [frame |-> n, fields |-> <<a, b>>,
                     rowComponents |-> ChromaRowComponents(a, b), mechanism |-> Weaker(a, b)]
  <2>2. /\ inst' = [inst EXCEPT ![w] = b.inst] /\ latest' = [latest EXCEPT ![w] = new]
        /\ earliest' = IF earliest[n] = NotDecoded THEN [earliest EXCEPT ![n] = new] ELSE earliest
        /\ UNCHANGED <<secamCapture, mode, videoStart>>
    BY <2>1 DEF DecodeSecam
  <2>3. n \in Nat \ {0} /\ 2 * n - 1 \in DOMAIN secamCapture /\ 2 * n \in DOMAIN secamCapture
    <3>1. n \in DOMAIN secamCapture /\ 2 * n \in DOMAIN secamCapture
      BY DEF FrameNos
    <3>2. n \in Nat \ {0} /\ 1 .. (2 * n) \subseteq DOMAIN secamCapture
      BY <3>1 DEF CalibrationAssumption, SecamInv
    <3> QED BY <3>1, <3>2
  <2>4. IsDecoding(a, 2 * n - 1) /\ a.inst.offset \in Int
    BY <2>3, FieldIsDecoding DEF SecamInv
  <2>5. IsDecoding(b, 2 * n) /\ b.inst.offset \in Int
    BY <2>3, <2>4, FieldIsDecoding DEF SecamInv
  <2> HIDE DEF a, b
  <2>6. IsFrame(new, n)
    <3> SUFFICES ASSUME NEW k \in 1 .. 2 PROVE IsDecoding(<<a, b>>[k], 2 * (n - 1) + k)
      BY DEF IsFrame
    <3>1. CASE k = 1
      <4>1. 2 * (n - 1) + k = 2 * n - 1
        BY <2>3, <3>1
      <4> QED BY <2>4, <3>1, <4>1
    <3>2. CASE k = 2
      <4>1. 2 * (n - 1) + k = 2 * n
        BY <2>3, <3>2
      <4> QED BY <2>5, <3>2, <4>1
    <3> QED BY <3>1, <3>2
  <2>7. new.frame = n /\ new # NotDecoded
    <3>1. "fields" \in DOMAIN new /\ "fields" \notin DOMAIN NotDecoded
      BY DEF NotDecoded
    <3> QED BY <3>1
  <2> HIDE DEF new
  <2>8. \A d, m : IsFrame(d, m) => IsFrame(d, m)'
    BY <2>2, DecodingsStay
  <2>9. FrameNos' = FrameNos
    BY <2>2 DEF FrameNos
  <2>10. /\ earliest'[n] # NotDecoded /\ DOMAIN earliest' = FrameNos
         /\ \A m \in FrameNos : earliest'[m] # earliest[m] =>
              m = n /\ earliest[m] = NotDecoded /\ earliest'[m] = new
    BY <2>2, <2>7 DEF SecamInv
  <2>11. /\ DOMAIN latest' = SecamWorkers /\ DOMAIN inst' = SecamWorkers
         /\ latest'[w] = new /\ inst'[w] = b.inst
         /\ \A v \in SecamWorkers \ {w} : latest'[v] = latest[v] /\ inst'[v] = inst[v]
    BY <2>2 DEF SecamInv
  <2>12. \A m \in FrameNos : \A d : earliest'[m] = d /\ d # NotDecoded => IsFrame(d, m)'
    BY <2>6, <2>8, <2>10 DEF SecamInv
  <2>13. ASSUME NEW v \in SecamWorkers, NEW d, latest'[v] = d, d # NotDecoded
         PROVE  d.frame \in FrameNos /\ earliest'[d.frame] # NotDecoded /\ IsFrame(d, d.frame)'
    <3>1. CASE v = w
      BY <2>6, <2>7, <2>8, <2>10, <2>11, <2>13, <3>1
    <3>2. CASE v # w
      <4>1. latest[v] = d
        BY <2>11, <2>13, <3>2
      <4> QED BY <2>8, <2>10, <2>13, <4>1 DEF SecamInv
    <3> QED BY <3>1, <3>2
  <2>14. \A v \in SecamWorkers : inst'[v].offset \in Int
    BY <2>5, <2>11 DEF SecamInv
  <2> QED BY <2>2, <2>9, <2>10, <2>11, <2>12, <2>13, <2>14 DEF SecamInv
<1> QED BY <1>1, <1>2

LEMMA SecamInitially ==
  ASSUME CalibrationAssumption, SecamInit PROVE SecamInv
<1>1. \A w \in SecamWorkers : inst[w].offset \in Int
  BY DEF SecamInit, Configured
<1> QED BY <1>1 DEF SecamInit, SecamInv

\* The two halves of CalibrationIsTheFields, for field k of w's last frame.
FieldRepeats(w, k) ==
  LET p == latest[w].fields[k]
      before == earliest[latest[w].frame].fields[k]
  IN  /\ p.pair = before.pair /\ p.ident = before.ident /\ p.components = before.components
      /\ Magnitude(p.masks - before.masks) <= 2 * Recentre
CarriersSit(w, k) ==
  LET p == latest[w].fields[k]
      shift == Source(w, k).shift
  IN  /\ Magnitude(p.pair[1] - Fob - shift) <= Recentre
      /\ Magnitude(p.pair[2] - For - shift) <= Recentre
      /\ Magnitude(p.masks - shift) <= Recentre

\* A field that could be calibrated is demodulated against the carriers it has and
\* identified the same way in every instance and after any history, whatever converters
\* did to the other fields; the masks it is filtered with are within the threshold of its
\* carriers, and may differ by up to two thresholds from one instance or history to
\* another: for pools and captures of any size.
THEOREM CalibrationKept ==
  ASSUME CalibrationAssumption PROVE SecamSpec => []CalibrationIsTheFields
<1>1. ASSUME SecamInv, NEW w \in SecamDecoded, NEW k \in 1 .. 2, latest[w].fields[k].calibrated
      PROVE  FieldRepeats(w, k) /\ CarriersSit(w, k)
  <2> DEFINE n == latest[w].frame
             seqNo == 2 * (n - 1) + k
             f == secamCapture[seqNo]
             pair == MeasuredPair(f, FieldOffset(seqNo))
  <2>1. /\ n \in FrameNos /\ earliest[n] # NotDecoded
        /\ IsDecoding(latest[w].fields[k], seqNo) /\ IsDecoding(earliest[n].fields[k], seqNo)
    <3>1. w \in SecamWorkers /\ latest[w] # NotDecoded
      BY DEF SecamDecoded
    <3> QED BY <1>1, <3>1 DEF SecamInv, IsFrame
  <2>2. seqNo \in DOMAIN secamCapture /\ Source(w, k) = f
    <3>1. n \in DOMAIN secamCapture /\ 2 * n \in DOMAIN secamCapture
      BY <2>1 DEF FrameNos
    <3>2. n \in Nat \ {0} /\ 1 .. (2 * n) \subseteq DOMAIN secamCapture
      BY <1>1, <3>1 DEF CalibrationAssumption, SecamInv
    <3>3. seqNo \in 1 .. (2 * n)
      BY <3>2
    <3> QED BY <3>2, <3>3 DEF Source
  <2>3. FieldAssumed(f) /\ videoStart \in Starts
    BY <1>1, <2>2 DEF SecamInv, CalibrationAssumption, FieldAssumed
  <2>4. pair # NoPair /\ latest[w].fields[k].pair = pair
    BY <1>1, <2>1 DEF IsDecoding
  <2>5. pair = <<Fob + f.shift, For + f.shift>>
    BY <2>3, <2>4, MeasuredIsTheFields
  <2>6. Magnitude(pair[1] - Fob - f.shift) <= Recentre /\ Magnitude(pair[2] - For - f.shift) <= Recentre
    <3>1. Recentre \in Nat /\ Fob \in Int /\ For \in Int /\ f.shift \in Int
      BY <2>3 DEF CalibrationAssumption, FieldAssumed
    <3>2. pair[1] - Fob - f.shift = 0 /\ pair[2] - For - f.shift = 0
      <4> HIDE DEF pair, f
      <4> QED BY <2>5, <3>1
    <3> QED BY <3>1, <3>2 DEF Magnitude
  <2> HIDE DEF n, seqNo, f, pair
  <2>7. Magnitude(latest[w].fields[k].masks - f.shift) <= Recentre
    BY <1>1, <2>1 DEF IsDecoding, f
  <2>8. /\ latest[w].fields[k].pair = earliest[n].fields[k].pair
        /\ latest[w].fields[k].ident = earliest[n].fields[k].ident
        /\ latest[w].fields[k].components = earliest[n].fields[k].components
    BY <1>1, <2>1, <2>4 DEF IsDecoding, f, pair
  <2>9. Magnitude(latest[w].fields[k].masks - earliest[n].fields[k].masks) <= 2 * Recentre
    <3>1. /\ latest[w].fields[k].masks \in Int /\ earliest[n].fields[k].masks \in Int
          /\ Magnitude(earliest[n].fields[k].masks - f.shift) <= Recentre
      BY <1>1, <2>1, <2>4 DEF IsDecoding, f, pair
    <3>2. Recentre \in Nat /\ f.shift \in Int
      BY <2>3 DEF CalibrationAssumption, FieldAssumed
    <3>3. \A a, b, s \in Int : Magnitude(a - s) <= Recentre /\ Magnitude(b - s) <= Recentre =>
                                Magnitude(a - b) <= 2 * Recentre
      BY <3>2 DEF Magnitude
    <3> QED BY <2>7, <3>1, <3>2, <3>3
  <2> QED BY <2>2, <2>4, <2>6, <2>7, <2>8, <2>9 DEF n, FieldRepeats, CarriersSit
<1>2. SecamInv => CalibrationIsTheFields
  <2>1. \A w \in SecamDecoded : \A p \in FieldsOf(w) : p[1] \in 1 .. 2 /\ p[2] = latest[w].fields[p[1]]
    BY DEF FieldsOf
  <2>2. ASSUME SecamInv, NEW w \in SecamDecoded, NEW p \in FieldsOf(w), p[2].calibrated
        PROVE  FieldRepeats(w, p[1]) /\ CarriersSit(w, p[1])
    BY <1>1, <2>1, <2>2
  <2>3. ASSUME SecamInv PROVE CalibratedFieldsRepeat
    BY <2>1, <2>2, <2>3 DEF CalibratedFieldsRepeat, FieldRepeats
  <2>4. ASSUME SecamInv PROVE CarriersAreTheFields
    BY <2>1, <2>2, <2>4 DEF CarriersAreTheFields, CarriersSit
  <2> QED BY <2>3, <2>4 DEF CalibrationIsTheFields
<1> QED BY <1>2, SecamInitially, SecamSteps, PTL DEF SecamSpec

-----------------------------------------------------------------------------
(* SECAM line identification. *)

\* The rows a labelling gets wrong, and what is made of the others.
Mislabelled(f, rows, high) == {r \in rows : ~(r \in high <=> TrueComponent(f, r) = 1)}

LEMMA RowsAreFinite ==
  ASSUME Rows \in Nat, NEW T, T \subseteq 0 .. (Rows - 1)
  PROVE  IsFiniteSet(T) /\ Cardinality(T) \in Nat /\ T \subseteq Nat
<1>1. IsFiniteSet(0 .. (Rows - 1))
  BY FS_Interval
<1>2. IsFiniteSet(T)
  BY <1>1, FS_Subset
<1>3. T \subseteq Nat
  OBVIOUS
<1> QED BY <1>2, <1>3, FS_CardinalityType

LEMMA FitIsTrue ==
  ASSUME Rows \in Nat, NEW f, f.alt \in 0 .. 1, NEW rows, rows \subseteq 0 .. (Rows - 1), NEW high,
         2 * Cardinality(Mislabelled(f, rows, high)) < Cardinality(rows)
  PROVE  /\ AlternationFit(rows, high).valid
         /\ AlternationFit(rows, high).anchor = f.alt
         /\ AlternationFit(rows, high).agree = Cardinality(rows) - Cardinality(Mislabelled(f, rows, high))
         /\ AlternationFit(rows, high).rows = Cardinality(rows)
<1> DEFINE wrong == Mislabelled(f, rows, high)
           agrees(a) == {r \in rows : ((IF r \in high THEN 1 ELSE 0) + r) % 2 = a}
           agree(a) == Cardinality(agrees(a))
           anchor == IF agree(1) > agree(0) THEN 1 ELSE 0
<1>1. IsFiniteSet(rows)
  BY RowsAreFinite
<1>2. wrong \subseteq rows /\ IsFiniteSet(wrong) /\ Cardinality(wrong) \in Nat /\ Cardinality(rows) \in Nat
  BY <1>1, FS_Subset, FS_CardinalityType DEF Mislabelled
<1>3. Cardinality(rows \ wrong) = Cardinality(rows) - Cardinality(wrong)
  <2>1. rows \cap wrong = wrong
    BY <1>2
  <2> QED BY <1>1, <1>2, <2>1, FS_Difference
<1>4. agrees(f.alt) = rows \ wrong /\ agrees(1 - f.alt) = wrong
  <2>1. ASSUME NEW r \in rows
        PROVE  LET x == IF r \in high THEN 1 ELSE 0
               IN  /\ (x + r) % 2 = f.alt <=> (r \in high <=> (r + f.alt) % 2 = 1)
                   /\ (x + r) % 2 = 1 - f.alt <=> ~(r \in high <=> (r + f.alt) % 2 = 1)
    <3>1. r \in Nat
      OBVIOUS
    <3>2. CASE f.alt = 0
      BY <3>1, <3>2
    <3>3. CASE f.alt = 1
      BY <3>1, <3>3
    <3> QED BY <3>2, <3>3
  <2> QED BY <2>1 DEF Mislabelled, TrueComponent
<1>5. agree(f.alt) = Cardinality(rows) - Cardinality(wrong) /\ agree(1 - f.alt) = Cardinality(wrong)
  BY <1>3, <1>4
<1>6. rows # {}
  <2>1. rows = {} => Cardinality(rows) = 0
    BY FS_EmptySet
  <2> QED BY <1>2, <2>1
<1>7. AlternationFit(rows, high) =
        [valid |-> TRUE, anchor |-> anchor, agree |-> agree(anchor), rows |-> Cardinality(rows)]
  BY <1>6 DEF AlternationFit
<1>8. anchor = f.alt
  <2> HIDE DEF agree, wrong
  <2>1. CASE f.alt = 0
    BY <1>2, <1>5, <2>1 DEF wrong
  <2>2. CASE f.alt = 1
    BY <1>2, <1>5, <2>2 DEF wrong
  <2> QED BY <2>1, <2>2
<1> HIDE DEF anchor, agree
<1> QED BY <1>5, <1>7, <1>8

\* Finitely many frequencies have a highest one, and an n-th lowest.
LEMMA HighestExists ==
  ASSUME NEW rows, IsFiniteSet(rows), rows # {}, NEW freq, \A r \in rows : freq[r] \in Int
  PROVE  \E r \in rows : \A q \in rows : freq[q] <= freq[r]
<1> DEFINE UpTo(r) == {q \in rows : freq[q] <= freq[r]}
           left == {Cardinality(rows) - Cardinality(UpTo(r)) : r \in rows}
<1>1. \A r \in rows : IsFiniteSet(UpTo(r)) /\ Cardinality(UpTo(r)) \in Nat
                      /\ Cardinality(UpTo(r)) <= Cardinality(rows) /\ Cardinality(rows) \in Nat
  <2>1. \A r \in rows : UpTo(r) \subseteq rows
    OBVIOUS
  <2> HIDE DEF UpTo
  <2> QED BY <2>1, FS_Subset, FS_CardinalityType
<1>2. left \in SUBSET Nat /\ left # {}
  <2> HIDE DEF UpTo
  <2> QED BY <1>1
<1>3. PICK x \in left : \A y \in left : ~(<<y, x>> \in OpToRel(<, Nat))
  <2>1. IsWellFoundedOn(OpToRel(<, Nat), Nat)
    BY NatLessThanWellFounded
  <2> HIDE DEF left
  <2> QED BY <1>2, <2>1, WFMin
<1>4. \A y \in left : x <= y
  <2>1. \A y \in left : ~(y < x)
    <3> HIDE DEF left
    <3> QED BY <1>2, <1>3 DEF OpToRel
  <2> HIDE DEF left
  <2> QED BY <1>2, <2>1
<1>5. PICK r \in rows : x = Cardinality(rows) - Cardinality(UpTo(r))
  OBVIOUS
<1>6. ASSUME NEW q \in rows, ~(freq[q] <= freq[r]) PROVE FALSE
  <2>1. UpTo(r) \subseteq UpTo(q) /\ q \in UpTo(q) /\ q \notin UpTo(r)
    BY <1>6
  <2>2. Cardinality(UpTo(r)) < Cardinality(UpTo(q))
    <3> HIDE DEF UpTo
    <3>1. UpTo(r) # UpTo(q)
      BY <2>1
    <3> QED BY <1>1, <2>1, <3>1, FS_Subset
  <2>3. Cardinality(rows) - Cardinality(UpTo(q)) \in left
    OBVIOUS
  <2>4. x <= Cardinality(rows) - Cardinality(UpTo(q))
    BY <1>4, <2>3
  <2> HIDE DEF UpTo, left
  <2> QED BY <1>1, <1>5, <2>2, <2>4
<1> QED BY <1>6

RowsBelow(rows, freq, v) == {r \in rows : freq[r] < v}
RowsUpTo(rows, freq, v) == {r \in rows : freq[r] <= v}

LEMMA NthExists ==
  ASSUME NEW rows, IsFiniteSet(rows), NEW freq, \A r \in rows : freq[r] \in Int,
         NEW n \in Nat, n < Cardinality(rows),
         NEW v, v = Nth(rows, freq, n)
  PROVE  /\ \E r \in rows : v = freq[r]
         /\ Cardinality(RowsBelow(rows, freq, v)) <= n /\ n < Cardinality(RowsUpTo(rows, freq, v))
<1> DEFINE values == {freq[r] : r \in rows}
           Below(u) == {r \in rows : freq[r] < u}
           UpTo(u) == {r \in rows : freq[r] <= u}
           Is(u) == Cardinality(Below(u)) <= n /\ n < Cardinality(UpTo(u))
           enough == {r \in rows : n < Cardinality(UpTo(freq[r]))}
           down == [r \in rows |-> -freq[r]]
<1>1. \A u : /\ IsFiniteSet(UpTo(u)) /\ Cardinality(UpTo(u)) \in Nat
             /\ IsFiniteSet(Below(u)) /\ Cardinality(Below(u)) \in Nat
  <2>1. \A u : UpTo(u) \subseteq rows /\ Below(u) \subseteq rows
    OBVIOUS
  <2> HIDE DEF UpTo, Below
  <2> QED BY <2>1, FS_Subset, FS_CardinalityType
<1>2. Cardinality(rows) \in Nat /\ rows # {}
  BY FS_CardinalityType, FS_EmptySet
<1>3. enough # {}
  <2>1. PICK r \in rows : \A q \in rows : freq[q] <= freq[r]
    BY <1>2, HighestExists
  <2>2. UpTo(freq[r]) = rows
    BY <2>1
  <2>3. n < Cardinality(UpTo(freq[r]))
    <3> HIDE DEF UpTo
    <3> QED BY <2>2
  <2> QED BY <2>3
<1>4. PICK r \in enough : \A q \in enough : freq[r] <= freq[q]
  <2>1. IsFiniteSet(enough)
    <3>1. enough \subseteq rows
      OBVIOUS
    <3> HIDE DEF enough
    <3> QED BY <3>1, FS_Subset
  <2>2. \A q \in enough : down[q] \in Int
    OBVIOUS
  <2>3. PICK r \in enough : \A q \in enough : down[q] <= down[r]
    <3> HIDE DEF enough, down
    <3> QED BY <1>3, <2>1, <2>2, HighestExists
  <2>4. \A q \in enough : freq[r] <= freq[q]
    <3>1. \A q \in enough : down[q] = -freq[q] /\ freq[q] \in Int
      OBVIOUS
    <3> HIDE DEF enough, down
    <3> QED BY <2>3, <3>1
  <2> QED BY <2>4
<1>5. r \in rows /\ n < Cardinality(UpTo(freq[r]))
  OBVIOUS
<1>6. Cardinality(Below(freq[r])) <= n
  <2> SUFFICES ASSUME n < Cardinality(Below(freq[r])) PROVE FALSE
    <3> HIDE DEF Below
    <3> QED BY <1>1
  <2>1. Below(freq[r]) # {}
    <3> HIDE DEF Below
    <3> QED BY FS_EmptySet
  <2>2. PICK q \in Below(freq[r]) : \A p \in Below(freq[r]) : freq[p] <= freq[q]
    <3>1. \A p \in Below(freq[r]) : freq[p] \in Int
      OBVIOUS
    <3> HIDE DEF Below
    <3> QED BY <1>1, <2>1, <3>1, HighestExists
  <2>3. q \in rows /\ freq[q] < freq[r] /\ UpTo(freq[q]) = Below(freq[r])
    BY <1>5, <2>2
  <2>4. q \in enough
    <3> HIDE DEF UpTo, Below
    <3> QED BY <2>3
  <2>5. freq[r] <= freq[q]
    BY <1>4, <2>4
  <2> QED BY <1>5, <2>3, <2>5
<1>7. \E u \in values : Is(u)
  <2>1. freq[r] \in values
    BY <1>5
  <2> HIDE DEF values, UpTo, Below
  <2> QED BY <1>5, <1>6, <2>1
<1>8. Nth(rows, freq, n) = CHOOSE u \in values : Is(u)
  BY DEF Nth
<1>9. v \in values /\ Is(v)
  <2> HIDE DEF values, Is
  <2> QED BY <1>7, <1>8
<1>10. Below(v) = RowsBelow(rows, freq, v) /\ UpTo(v) = RowsUpTo(rows, freq, v)
  BY DEF RowsBelow, RowsUpTo
<1> QED BY <1>9, <1>10

LEMMA RemovingRows ==
  ASSUME NEW T, IsFiniteSet(T), NEW U, U \subseteq T
  PROVE  IsFiniteSet(T \ U) /\ Cardinality(T \ U) = Cardinality(T) - Cardinality(U)
<1>1. T \cap U = U
  OBVIOUS
<1> QED BY <1>1, FS_Difference

\* Two sets of frequencies, all of one below all of the other, and their median:
\* more than half of them lie on the right side of it.
Misplaced(P, Db, freq, med) == {r \in P : freq[r] > med <=> r \in Db}

InTwoBands(P, Db, freq) ==
  /\ \A r \in P : freq[r] \in Int
  /\ \A r, q \in P : freq[r] = freq[q] => r = q
  /\ \A r \in P \ Db, q \in Db : freq[q] < freq[r]

LEMMA MedianSeparates ==
  ASSUME NEW P, IsFiniteSet(P), NEW Db \in SUBSET P, Cardinality(Db) >= 2,
         NEW freq, InTwoBands(P, Db, freq), NEW m, m = Cardinality(P) \div 2, NEW med, med = Nth(P, freq, m)
  PROVE  2 * Cardinality(Misplaced(P, Db, freq, med)) < Cardinality(P)
<1> DEFINE n == Cardinality(P)
           Below == {r \in P : freq[r] < med}
           UpTo == {r \in P : freq[r] <= med}
           Above == P \ UpTo
           wrong == {r \in P : freq[r] > med <=> r \in Db}
<1>1. /\ n \in Nat /\ Cardinality(Db) \in Nat /\ IsFiniteSet(Db) /\ n >= 2
  BY FS_Subset, FS_CardinalityType
<1>2. IsFiniteSet(Below) /\ IsFiniteSet(UpTo)
  <2>1. Below \subseteq P /\ UpTo \subseteq P
    OBVIOUS
  <2> HIDE DEF Below, UpTo
  <2> QED BY <2>1, FS_Subset
<1>3. Cardinality(Below) \in Nat /\ Cardinality(UpTo) \in Nat
  BY <1>2, FS_CardinalityType
<1>4. m \in Nat /\ m < n /\ 2 * m <= n /\ n <= 2 * m + 1
  BY <1>1
<1>5. /\ \E r \in P : med = freq[r]
      /\ Cardinality(Below) <= m /\ m < Cardinality(UpTo)
  <2>1. Below = RowsBelow(P, freq, med) /\ UpTo = RowsUpTo(P, freq, med)
    BY DEF RowsBelow, RowsUpTo
  <2>2. m \in Nat /\ m < Cardinality(P)
    BY <1>4
  <2>3. \A r \in P : freq[r] \in Int
    BY DEF InTwoBands
  <2> HIDE DEF Below, UpTo, wrong, Above
  <2> QED BY <2>1, <2>2, <2>3, NthExists
<1>6. PICK x \in P : med = freq[x]
  BY <1>5
<1>7. Cardinality(UpTo) = m + 1
  <2>1. UpTo = Below \cup {x} /\ x \notin Below
    BY <1>6 DEF InTwoBands
  <2>2. Cardinality(UpTo) = Cardinality(Below) + 1
    <3> HIDE DEF UpTo, Below
    <3> QED BY <1>2, <2>1, FS_AddElement
  <2> HIDE DEF UpTo, Below
  <2> QED BY <1>3, <1>4, <1>5, <2>2
<1>8. Cardinality(Above) = n - (m + 1) /\ IsFiniteSet(Above)
  <2>1. P \cap UpTo = UpTo
    OBVIOUS
  <2>2. IsFiniteSet(P \ UpTo) /\ Cardinality(P \ UpTo) = Cardinality(P) - Cardinality(P \cap UpTo)
    <3> HIDE DEF UpTo
    <3> QED BY FS_Difference
  <2> HIDE DEF UpTo
  <2> QED BY <1>7, <2>1, <2>2
<1>9. /\ \A w \in Nat : w <= n - (m + 1) => 2 * w < n
      /\ \A w \in Nat : w <= (m + 1) - Cardinality(Db) => 2 * w < n
  <2> DEFINE d == Cardinality(Db)
  <2>1. d \in Nat /\ d >= 2
    BY <1>1
  <2> HIDE DEF n, d
  <2>2. \A w \in Nat : w <= (m + 1) - d => 2 * w < n
    BY <1>1, <1>4, <2>1
  <2>3. \A w \in Nat : w <= n - (m + 1) => 2 * w < n
    BY <1>1, <1>4
  <2> QED BY <2>2, <2>3 DEF d
<1>10. CASE x \in Db
  <2>1. wrong \subseteq Above
    BY <1>6, <1>10 DEF InTwoBands
  <2>2. Cardinality(wrong) <= Cardinality(Above) /\ Cardinality(wrong) \in Nat
    <3> HIDE DEF wrong, Above
    <3> QED BY <1>8, <2>1, FS_Subset, FS_CardinalityType
  <2>3. 2 * Cardinality(wrong) < n
    <3>1. Cardinality(wrong) <= n - (m + 1) /\ Cardinality(wrong) \in Nat
      <4> HIDE DEF wrong, Above, n
      <4> QED BY <1>8, <2>2
    <3> HIDE DEF wrong, Above, n
    <3> QED BY <1>9, <3>1
  <2> QED BY <2>3 DEF Misplaced
<1>11. CASE x \notin Db
  <2>1. wrong \subseteq UpTo \ Db /\ UpTo \cap Db = Db
    BY <1>6, <1>11 DEF InTwoBands
  <2>2. IsFiniteSet(UpTo \ Db) /\ Cardinality(UpTo \ Db) = (m + 1) - Cardinality(Db)
    <3> HIDE DEF UpTo, wrong, Above, Below
    <3>1. IsFiniteSet(UpTo)
      BY <1>2
    <3>2. Db \subseteq UpTo
      BY <2>1
    <3> QED BY <1>7, <3>1, <3>2, RemovingRows
  <2>3. Cardinality(wrong) <= Cardinality(UpTo \ Db) /\ Cardinality(wrong) \in Nat
    <3> HIDE DEF wrong, UpTo
    <3> QED BY <2>1, <2>2, FS_Subset, FS_CardinalityType
  <2>4. 2 * Cardinality(wrong) < n
    <3>1. Cardinality(wrong) <= (m + 1) - Cardinality(Db) /\ Cardinality(wrong) \in Nat
      <4> HIDE DEF wrong, UpTo, n
      <4> QED BY <2>2, <2>3
    <3> HIDE DEF wrong, UpTo, n
    <3> QED BY <1>9, <3>1
  <2> QED BY <2>4 DEF Misplaced
<1> QED BY <1>10, <1>11

\* More than half the rows of a picture are labelled right against their median.
LEMMA MedianSplits ==
  ASSUME CalibrationAssumption, NEW f, f.shift \in Int, f.alt \in 0 .. 1, f.bias \in Int \X Int,
         f.bias[2] - f.bias[1] + For - Fob > Rows,
         NEW P, P \subseteq 0 .. (Rows - 1),
         Cardinality({r \in P : TrueComponent(f, r) = 0}) >= 2
  PROVE  LET med == Nth(P, [r \in P |-> PictureFrequency(f, r)], Cardinality(P) \div 2)
         IN  2 * Cardinality(Mislabelled(f, P, {r \in P : PictureFrequency(f, r) > med})) < Cardinality(P)
<1> DEFINE freq == [r \in P |-> PictureFrequency(f, r)]
           Db == {r \in P : TrueComponent(f, r) = 0}
           m == Cardinality(P) \div 2
           med == Nth(P, freq, m)
<1>1. Rows \in Nat /\ Fob \in Int /\ For \in Int
  BY DEF CalibrationAssumption
<1>2. IsFiniteSet(P) /\ P \subseteq Nat
  <2>1. 0 .. (Rows - 1) \subseteq Nat
    BY <1>1
  <2> QED BY <1>1, <2>1, RowsAreFinite
<1>3. \A r \in P : TrueComponent(f, r) \in 0 .. 1
  BY <1>2 DEF TrueComponent
<1>4. \A r \in P : freq[r] = IF r \in Db THEN Fob + f.shift + f.bias[1] + r ELSE For + f.shift + f.bias[2] + r
  BY <1>3 DEF PictureFrequency, Carrier
<1>5. f.bias[1] \in Int /\ f.bias[2] \in Int /\ (\A r \in P : r \in 0 .. (Rows - 1)) /\ Db \subseteq P
  OBVIOUS
<1>6. \A r \in P : freq[r] \in Int
  <2> HIDE DEF freq, Db
  <2> QED BY <1>1, <1>4, <1>5
<1>7. \A r \in P \ Db, q \in Db : freq[q] < freq[r]
  <2> HIDE DEF freq, Db
  <2> QED BY <1>1, <1>4, <1>5
<1>8. \A r, q \in P : freq[r] = freq[q] => r = q
  <2>1. \A r, q \in P : freq[r] = freq[q] /\ (r \in Db <=> q \in Db) => r = q
    <3> HIDE DEF freq, Db
    <3> QED BY <1>1, <1>4, <1>5
  <2> HIDE DEF freq, Db
  <2> QED BY <1>6, <1>7, <2>1
<1>9. Mislabelled(f, P, {r \in P : PictureFrequency(f, r) > med}) = Misplaced(P, Db, freq, med)
  <2> HIDE DEF med
  <2>1. \A r \in P : /\ r \in {q \in P : PictureFrequency(f, q) > med} <=> freq[r] > med
                    /\ TrueComponent(f, r) = 1 <=> r \notin Db
    BY <1>3
  <2> DEFINE H == {r \in P : PictureFrequency(f, r) > med}
  <2>2. \A r \in P : ~(r \in H <=> TrueComponent(f, r) = 1) <=> (freq[r] > med <=> r \in Db)
    BY <2>1
  <2>3. Mislabelled(f, P, H) = {r \in P : ~(r \in H <=> TrueComponent(f, r) = 1)}
    BY DEF Mislabelled
  <2> HIDE DEF freq, Db, H
  <2>4. {r \in P : ~(r \in H <=> TrueComponent(f, r) = 1)} = {r \in P : freq[r] > med <=> r \in Db}
    BY <2>2
  <2> QED BY <2>3, <2>4 DEF H, Misplaced
<1>10. 2 * Cardinality(Misplaced(P, Db, freq, med)) < Cardinality(P)
  <2>1. Cardinality(Db) >= 2
    OBVIOUS
  <2>2. Db \in SUBSET P
    BY <1>5
  <2>3. m = Cardinality(P) \div 2 /\ med = Nth(P, freq, m)
    OBVIOUS
  <2>4. InTwoBands(P, Db, freq)
    BY <1>6, <1>7, <1>8 DEF InTwoBands
  <2> HIDE DEF freq, Db, m, med
  <2> QED BY <1>2, <2>1, <2>2, <2>3, <2>4, MedianSeparates
<1> QED BY <1>9, <1>10

-----------------------------------------------------------------------------
(* Each mechanism on a field an operator could identify. *)

LatticeField(f) ==
  /\ FieldAssumed(f) /\ f.alt \in 0 .. 1 /\ f.bias \in Int \X Int
  /\ f.picture \subseteq 0 .. (Rows - 1) /\ f.bottles \subseteq 0 .. (Rows - 1)
  /\ Cardinality(f.porch) >= PorchRows =>
       \A k \in 0 .. 1 : 4 * Cardinality(PorchReading(f, k)) > Cardinality(f.porch)
SettingsAssumed ==
  /\ Rows \in Nat /\ Fob \in Int /\ For \in Int /\ Fob < For /\ MinPair \in Nat /\ PorchRows \in Nat \ {0}
  /\ AutoRows \in Nat \ {0} /\ BottleRows \in Nat \ {0} /\ ContentRows \in Nat \ {0} /\ PorchRows <= AutoRows
  /\ Deviation \in Nat /\ MaxPair \in Nat /\ MinPair < For - Fob /\ For - Fob < MaxPair
PairAt(s) == <<Fob + s, For + s>>
\* A pair moved by s tells the trapezoids of f apart.
InReach(f, s) == s \in Int /\ 2 * Magnitude(f.shift - s) < For - Fob + 2 * Deviation

LEMMA Settings ==
  ASSUME CalibrationAssumption, LatticeAssumption PROVE SettingsAssumed
BY DEF CalibrationAssumption, LatticeAssumption, SettingsAssumed

LEMMA MiddleOfPair ==
  ASSUME SettingsAssumed, NEW s \in Int
  PROVE  LET M == Middle(PairAt(s))
         IN  M \in Int /\ 2 * (M - s) <= Fob + For /\ Fob + For <= 2 * (M - s) + 1
<1>1. Middle(PairAt(s)) = ((Fob + s) + (For + s)) \div 2
  BY DEF Middle, PairAt
<1> QED BY <1>1 DEF SettingsAssumed

LEMMA BottlesAreTrue ==
  ASSUME SettingsAssumed, NEW f, LatticeField(f), NEW o, NEW s, InReach(f, s),
         BottleFit(f, o, PairAt(s)).valid
  PROVE  BottleFit(f, o, PairAt(s)).anchor = f.alt
<1> DEFINE pair == PairAt(s)
           M == Middle(pair)
           rows == IF HasPicture(f, o) THEN f.bottles ELSE {}
           high == {r \in rows : BottleFrequency(f, r) > M}
           fit == AlternationFit(rows, high)
<1>1. ~(Cardinality(rows) < BottleRows) /\ BottleFit(f, o, pair) = [fit EXCEPT !.valid = 4 * fit.agree >= 3 * fit.rows]
  BY DEF BottleFit, NoFit
<1>2. rows \subseteq 0 .. (Rows - 1) /\ f.shift \in Int /\ f.alt \in 0 .. 1
  BY DEF LatticeField, FieldAssumed
<1>3. Cardinality(rows) \in Nat /\ rows \subseteq Nat
  BY <1>2, RowsAreFinite DEF SettingsAssumed
<1>4. M \in Int /\ 2 * (M - s) <= Fob + For /\ Fob + For <= 2 * (M - s) + 1
  BY MiddleOfPair DEF InReach
<1>5. ASSUME NEW r \in rows PROVE BottleFrequency(f, r) > M <=> TrueComponent(f, r) = 1
  <2>1. TrueComponent(f, r) \in 0 .. 1
    BY <1>2, <1>3 DEF TrueComponent
  <2>2. BottleFrequency(f, r) = IF TrueComponent(f, r) = 1 THEN For + f.shift + Deviation
                                  ELSE Fob + f.shift - Deviation
    BY <1>2, <2>1 DEF BottleFrequency, Carrier, SettingsAssumed
  <2>3. /\ s \in Int /\ 2 * (f.shift - s) < For - Fob + 2 * Deviation
        /\ 2 * (s - f.shift) < For - Fob + 2 * Deviation
    BY <1>2 DEF InReach, Magnitude, SettingsAssumed
  <2> HIDE DEF M, rows
  <2> QED BY <1>2, <1>4, <2>2, <2>3 DEF SettingsAssumed
<1>6. Mislabelled(f, rows, high) = {}
  <2> HIDE DEF M, rows
  <2> QED BY <1>5 DEF Mislabelled
<1>7. 2 * Cardinality(Mislabelled(f, rows, high)) < Cardinality(rows)
  <2>1. Cardinality({}) = 0
    BY FS_EmptySet
  <2> HIDE DEF rows, high
  <2> QED BY <1>1, <1>3, <1>6, <2>1 DEF SettingsAssumed
<1>8. fit.anchor = f.alt
  <2> HIDE DEF rows, high
  <2> QED BY <1>2, <1>7, FitIsTrue DEF SettingsAssumed
<1> HIDE DEF fit
<1>9. [fit EXCEPT !.valid = 4 * fit.agree >= 3 * fit.rows].anchor = fit.anchor
  OBVIOUS
<1> QED BY <1>1, <1>8, <1>9

LEMMA ContentIsTrue ==
  ASSUME CalibrationAssumption, SettingsAssumed, NEW f, LatticeField(f), NEW o, Identifiable(f, o)
  PROVE  ContentFit(f, o).valid /\ ContentFit(f, o).anchor = f.alt
<1> DEFINE rows == f.picture \cap ActiveRows(o)
           med == Nth(rows, [r \in rows |-> PictureFrequency(f, r)], Cardinality(rows) \div 2)
           high == {r \in rows : PictureFrequency(f, r) > med}
<1>1. /\ HasPicture(f, o) /\ Cardinality(rows) >= ContentRows
      /\ Cardinality({r \in rows : TrueComponent(f, r) = 0}) >= 2
      /\ f.bias[2] - f.bias[1] + For - Fob > Rows
  BY DEF Identifiable
<1>2. /\ rows \subseteq 0 .. (Rows - 1) /\ f.shift \in Int /\ f.alt \in 0 .. 1 /\ f.bias \in Int \X Int
  BY DEF LatticeField, FieldAssumed
<1>3. Cardinality(rows) \in Nat
  BY <1>2, RowsAreFinite DEF SettingsAssumed
<1>4. ContentFit(f, o) = AlternationFit(rows, high)
  <2>1. ContentFit(f, o) =
          IF Cardinality(rows) < ContentRows THEN NoFit
          ELSE AlternationFit(rows, {r \in rows : PictureFrequency(f, r) >
                 Nth(rows, [r1 \in rows |-> PictureFrequency(f, r1)], Cardinality(rows) \div 2)})
    BY <1>1 DEF ContentFit
  <2>2. Cardinality(rows) = Cardinality(rows) /\ ~(Cardinality(rows) < ContentRows)
    BY <1>1, <1>3 DEF SettingsAssumed
  <2> HIDE DEF rows
  <2> QED BY <2>1, <2>2
<1>5. 2 * Cardinality(Mislabelled(f, rows, high)) < Cardinality(rows)
  <2> HIDE DEF rows
  <2> QED BY <1>1, <1>2, MedianSplits
<1>6. AlternationFit(rows, high).valid /\ AlternationFit(rows, high).anchor = f.alt
  <2> HIDE DEF rows, high
  <2> QED BY <1>2, <1>5, FitIsTrue DEF SettingsAssumed
<1> QED BY <1>4, <1>6

LEMMA PorchIsTrue ==
  ASSUME SettingsAssumed, OnPorch(videoStart), NEW f, LatticeField(f), NEW o, Identifiable(f, o),
         Cardinality(ValidRows(f, o) \cap ActiveRows(o)) >= AutoRows
  PROVE  PorchFit(f, o, PairAt(f.shift)).valid /\ PorchFit(f, o, PairAt(f.shift)).anchor = f.alt
<1> DEFINE M == Middle(PairAt(f.shift))
           rows == f.porch \cap ActiveRows(o)
           high == {r \in rows : PorchFrequency(f, r) > M}
<1>1. /\ ValidRows(f, o) \cap ActiveRows(o) = rows /\ Cardinality(rows) >= AutoRows
      /\ 3 * Cardinality(f.wrong \cap rows) < Cardinality(rows) \/ f.wrong = {}
  BY DEF Identifiable, ValidRows
<1>2. rows \subseteq 0 .. (Rows - 1) /\ f.shift \in Int /\ f.alt \in 0 .. 1
  BY DEF LatticeField, FieldAssumed
<1>3. Cardinality(rows) \in Nat /\ rows \subseteq Nat /\ IsFiniteSet(rows)
  BY <1>2, RowsAreFinite DEF SettingsAssumed
<1>4. M \in Int /\ 2 * (M - f.shift) <= Fob + For /\ Fob + For <= 2 * (M - f.shift) + 1
  BY <1>2, MiddleOfPair
<1>5. ASSUME NEW r \in rows
      PROVE  PorchFrequency(f, r) > M <=> (TrueComponent(f, r) = 1 <=> r \notin f.wrong)
  <2>1. TrueComponent(f, r) \in 0 .. 1
    BY <1>2, <1>3 DEF TrueComponent
  <2>2. PorchFrequency(f, r) = IF TrueComponent(f, r) = 1 <=> r \notin f.wrong
                                 THEN f.shift + For ELSE f.shift + Fob
    BY <2>1 DEF PorchFrequency, Carrier
  <2> HIDE DEF M, rows
  <2> QED BY <1>2, <1>4, <2>2 DEF SettingsAssumed
<1>6. Mislabelled(f, rows, high) = f.wrong \cap rows
  <2> HIDE DEF M, rows
  <2> QED BY <1>5 DEF Mislabelled
<1>7. 2 * Cardinality(f.wrong \cap rows) < Cardinality(rows)
  <2>1. f.wrong = {} => Cardinality(f.wrong \cap rows) = 0
    BY FS_EmptySet
  <2>2. Cardinality(f.wrong \cap rows) \in Nat
    <3> HIDE DEF rows
    <3> QED BY <1>3, FS_Subset, FS_CardinalityType
  <2> HIDE DEF rows
  <2> QED BY <1>1, <1>3, <2>1, <2>2 DEF SettingsAssumed
<1>8. PorchFit(f, o, PairAt(f.shift)) = AlternationFit(rows, high)
  BY <1>1 DEF PorchFit
<1>9. AlternationFit(rows, high).valid /\ AlternationFit(rows, high).anchor = f.alt
  <2>1. 2 * Cardinality(Mislabelled(f, rows, high)) < Cardinality(rows)
    BY <1>6, <1>7
  <2> HIDE DEF rows, high
  <2> QED BY <1>2, <2>1, FitIsTrue DEF SettingsAssumed
<1> QED BY <1>8, <1>9

LEMMA LongPorchIsMeasured ==
  ASSUME CalibrationAssumption, SettingsAssumed, videoStart \in Starts, NEW f, LatticeField(f), NEW o,
         Cardinality(ValidRows(f, o)) >= PorchRows
  PROVE  MeasuredPair(f, o) # NoPair
<1> DEFINE n == Cardinality(f.porch)
           lows == PorchReading(f, 0)
           highs == PorchReading(f, 1)
           Tops == n \div 2 + (n - n \div 2) \div 2
<1>1. FieldAssumed(f) /\ f.alt \in 0 .. 1 /\ f.shift \in Int
  BY DEF LatticeField, FieldAssumed
<1>2. /\ IsFiniteSet(ValidRows(f, o)) /\ Cardinality(ValidRows(f, o)) \in Nat /\ OnPorch(videoStart)
      /\ ValidRows(f, o) \subseteq f.porch
  BY <1>1, ValidRowsAreFinite
<1>3. ValidRows(f, o) = f.porch
  <2>1. ValidRows(f, o) # {}
    BY FS_EmptySet DEF SettingsAssumed
  <2> QED BY <1>2, <2>1 DEF ValidRows
<1>4. \A r \in f.porch : TrueComponent(f, r) \in 0 .. 1
  <2>1. f.porch \subseteq Nat
    BY <1>1, RowsAreFinite DEF FieldAssumed, SettingsAssumed
  <2> QED BY <1>1, <2>1 DEF TrueComponent
<1>5. PorchRowsAt(f, o, Fob + f.shift) = lows
  <2>1. ASSUME NEW r \in f.porch
        PROVE  PorchFrequency(f, r) = Fob + f.shift <=> (TrueComponent(f, r) = 0 <=> r \notin f.wrong)
    BY <1>1, <1>2, <1>4 DEF PorchFrequency, Carrier, SettingsAssumed
  <2> QED BY <1>3, <2>1 DEF PorchRowsAt, PorchReading
<1>6. /\ n \in Nat /\ Cardinality(lows) \in Nat /\ Cardinality(highs) \in Nat
      /\ Cardinality(highs) = n - Cardinality(lows)
  <2>1. highs = f.porch \ lows /\ lows \subseteq f.porch
    BY <1>4 DEF PorchReading
  <2>2. IsFiniteSet(highs) /\ IsFiniteSet(lows) /\ Cardinality(highs) = n - Cardinality(lows)
    <3> HIDE DEF highs, lows
    <3> QED BY <1>2, <1>3, <2>1, RemovingRows, FS_Subset
  <2> QED BY <1>2, <1>3, <2>2, FS_CardinalityType
<1>7. 4 * Cardinality(lows) > n /\ 4 * Cardinality(highs) > n
  BY <1>3 DEF LatticeField
<1>8. (n \div 2) \div 2 < Cardinality(lows) /\ ~(Tops < Cardinality(lows))
  <2> HIDE DEF n, lows, highs
  <2> QED BY <1>6, <1>7 DEF Tops
<1>9. LowMedian(f, o) = Fob + f.shift /\ HighMedian(f, o) = For + f.shift
  <2> HIDE DEF lows
  <2> QED BY <1>3, <1>5, <1>8 DEF LowMedian, HighMedian, Median
<1>10. MeasuredPair(f, o) = <<LowMedian(f, o), HighMedian(f, o)>>
  <2>1. HighMedian(f, o) - LowMedian(f, o) = For - Fob
    BY <1>1, <1>9 DEF SettingsAssumed
  <2> QED BY <1>1, <2>1, MediansMeasured DEF SettingsAssumed
<1> QED BY <1>10 DEF NoPair

\* Whatever pair the instance remembers, a field's rows are told apart rightly.
LEMMA IdentIsTrue ==
  ASSUME CalibrationAssumption, SettingsAssumed, videoStart \in Starts, mode \in {"auto", "manual"},
         NEW seqNo, NEW f, LatticeField(f), InReach(f, 0), InReach(f, f.shift),
         Identifiable(f, FieldOffset(seqNo)), mode = "manual" => f.alt = ManualAnchor(seqNo),
         NEW i, i.lastGood # NoPair => \E s : i.lastGood = PairAt(s) /\ InReach(f, s)
  PROVE  Ident(f, seqNo, PairFor(i, MeasuredPair(f, FieldOffset(seqNo)))).anchor = f.alt
<1> DEFINE o == FieldOffset(seqNo)
           measured == MeasuredPair(f, o)
           pair == PairFor(i, measured)
           porch == PorchFit(f, o, pair)
           bottles == BottleFit(f, o, pair)
           content == ContentFit(f, o)
<1>1. CASE mode = "manual"
  BY <1>1 DEF Ident
<1>2. CASE mode = "auto"
  <2>1. FieldAssumed(f) /\ OnPorch(videoStart)
    BY DEF LatticeField, CalibrationAssumption
  <2>2. measured # NoPair => pair = PairAt(f.shift)
    BY <2>1, MeasuredIsTheFields DEF PairFor, PairAt
  <2>3. PICK s : pair = PairAt(s) /\ InReach(f, s)
    <3>1. CASE measured # NoPair
      BY <2>2, <3>1
    <3>2. CASE measured = NoPair /\ i.lastGood # NoPair
      BY <3>2 DEF PairFor, LastPair
    <3>3. CASE measured = NoPair /\ i.lastGood = NoPair
      <4>1. pair = <<Fob, For>>
        BY <3>3 DEF PairFor, LastPair
      <4>2. PairAt(0) = <<Fob, For>>
        BY DEF PairAt, SettingsAssumed
      <4> QED BY <4>1, <4>2
    <3> QED BY <3>1, <3>2, <3>3
  <2>4. bottles.valid => bottles.anchor = f.alt
    BY <2>3, BottlesAreTrue
  <2>5. content.valid /\ content.anchor = f.alt
    BY ContentIsTrue
  <2>6. ASSUME porch.valid, porch.rows >= AutoRows PROVE porch.anchor = f.alt
    <3> DEFINE rows == ValidRows(f, o) \cap ActiveRows(o)
    <3>1. porch.rows = Cardinality(rows)
      <4>1. PICK high : porch = AlternationFit(rows, high)
        BY DEF PorchFit
      <4> HIDE DEF porch, rows
      <4> QED BY <2>6, <4>1 DEF AlternationFit, NoFit
    <3>2. /\ IsFiniteSet(ValidRows(f, o)) /\ Cardinality(ValidRows(f, o)) \in Nat
      BY <2>1, ValidRowsAreFinite
    <3>3. Cardinality(rows) <= Cardinality(ValidRows(f, o)) /\ Cardinality(rows) \in Nat
      BY <3>2, FS_Subset, FS_CardinalityType
    <3>4. Cardinality(ValidRows(f, o)) >= PorchRows /\ Cardinality(rows) >= AutoRows
      <4> HIDE DEF rows, porch
      <4> QED BY <2>6, <3>1, <3>2, <3>3 DEF SettingsAssumed
    <3>5. pair = PairAt(f.shift)
      BY <2>2, <3>4, LongPorchIsMeasured
    <3> QED BY <2>1, <3>4, <3>5, PorchIsTrue
  <2>7. Ident(f, seqNo, pair) = AutoIdent(f, o, pair)
    BY <1>2 DEF Ident
  <2> HIDE DEF porch, bottles, content
  <2>8. AutoIdent(f, o, pair) =
          IF porch.valid /\ porch.rows >= AutoRows /\ 5 * porch.agree >= 3 * porch.rows
          THEN Answer(porch, "porch")
          ELSE IF bottles.valid THEN Answer(bottles, "bottles")
          ELSE Answer(content, "content")
    BY DEF AutoIdent, porch, bottles, content
  <2>9. \A fit, name : fit.valid => Answer(fit, name).anchor = fit.anchor
    BY DEF Answer
  <2> QED BY <2>4, <2>5, <2>6, <2>7, <2>8, <2>9
<1> QED BY <1>1, <1>2

-----------------------------------------------------------------------------
(* What every frame decodes to. *)

\* The places the FM block is moved to: where a remembered pair may come from.
Moves == {0} \cup {secamCapture[m].shift : m \in DOMAIN secamCapture}

LatticeOf(p, seqNo) ==
  LET f == secamCapture[seqNo]
      o == FieldOffset(seqNo)
  IN  /\ DOMAIN p.components = ActiveRows(o)
      /\ mode \in {"auto", "manual"} /\ Identifiable(f, o) =>
           \A r \in ActiveRows(o) : p.components[r] = TrueComponent(f, r)
FrameLattice(d, n) == \A k \in 1 .. 2 : LatticeOf(d.fields[k], 2 * (n - 1) + k)

LatticeInv ==
  /\ SecamInv /\ mode \in Modes
  /\ \A w \in SecamWorkers : \A g : inst[w].lastGood = g /\ g # NoPair => \E s \in Moves : g = PairAt(s)
  /\ \A w \in SecamWorkers : \A d : latest[w] = d /\ d # NotDecoded => FrameLattice(d, d.frame)

LEMMA FieldLattice ==
  ASSUME CalibrationAssumption, LatticeAssumption, secamCapture \in SecamCaptures, videoStart \in Starts,
         mode \in Modes, NEW seqNo \in DOMAIN secamCapture, NEW i,
         i.lastGood # NoPair => \E s \in Moves : i.lastGood = PairAt(s)
  PROVE  LET p == DecodeSecamField(i, seqNo)
         IN  /\ LatticeOf(p, seqNo)
             /\ p.inst.lastGood # NoPair => \E s \in Moves : p.inst.lastGood = PairAt(s)
<1> DEFINE f == secamCapture[seqNo]
           o == FieldOffset(seqNo)
           pair == MeasuredPair(f, o)
           p == DecodeSecamField(i, seqNo)
<1>1. SettingsAssumed
  BY Settings
<1>2. LatticeField(f)
  BY DEF CalibrationAssumption, LatticeAssumption, LatticeField, FieldAssumed
<1>3. /\ p.inst.lastGood = IF pair # NoPair THEN pair ELSE i.lastGood
      /\ p.components = [r \in ActiveRows(o) |-> (r + Ident(f, seqNo, PairFor(i, pair)).anchor) % 2]
  BY DEF DecodeSecamField, Remember
<1>4. pair # NoPair => pair = PairAt(f.shift)
  BY <1>2, MeasuredIsTheFields DEF LatticeField, PairAt
<1>5. p.inst.lastGood # NoPair => \E s \in Moves : p.inst.lastGood = PairAt(s)
  <2> HIDE DEF p, pair
  <2> QED BY <1>3, <1>4 DEF Moves
<1>6. ASSUME NEW s \in Moves PROVE InReach(f, s)
  <2>1. s \in {0} \cup {secamCapture[m].shift : m \in DOMAIN secamCapture}
    BY DEF Moves
  <2>2. s \in Int
    BY <2>1 DEF CalibrationAssumption
  <2>3. 2 * Magnitude(f.shift - s) < For - Fob + 2 * Deviation
    BY <2>1 DEF LatticeAssumption
  <2> QED BY <2>2, <2>3 DEF InReach
<1>7. LatticeOf(p, seqNo)
  <2>1. ASSUME mode \in {"auto", "manual"}, Identifiable(f, o)
        PROVE  Ident(f, seqNo, PairFor(i, pair)).anchor = f.alt
    <3>1. 0 \in Moves /\ f.shift \in Moves
      BY DEF Moves
    <3>2. mode = "manual" => f.alt = ManualAnchor(seqNo)
      BY DEF LatticeAssumption
    <3>3. i.lastGood # NoPair => \E s : i.lastGood = PairAt(s) /\ InReach(f, s)
      BY <1>6
    <3> QED BY <1>1, <1>2, <1>6, <2>1, <3>1, <3>2, <3>3, IdentIsTrue
  <2> HIDE DEF p, pair
  <2> QED BY <1>3, <2>1 DEF LatticeOf, TrueComponent
<1> QED BY <1>5, <1>7

LEMMA LatticesStay ==
  ASSUME UNCHANGED <<secamCapture, mode>>
  PROVE  \A d, n : FrameLattice(d, n) => FrameLattice(d, n)'
<1>1. \A p, seqNo : LatticeOf(p, seqNo) => LatticeOf(p, seqNo)'
  BY DEF LatticeOf
<1> QED BY <1>1 DEF FrameLattice

LEMMA LatticeSteps ==
  ASSUME CalibrationAssumption, LatticeAssumption, LatticeInv, [SecamNext]_(secamVars)
  PROVE  LatticeInv'
<1>1. SecamInv'
  BY SecamSteps DEF LatticeInv
<1>2. CASE UNCHANGED secamVars
  <2>1. UNCHANGED <<secamCapture, mode, videoStart, inst, latest, earliest>>
    BY <1>2 DEF secamVars
  <2>2. \A d, n : FrameLattice(d, n) => FrameLattice(d, n)'
    BY <2>1, LatticesStay
  <2>3. Moves' = Moves
    BY <2>1 DEF Moves
  <2> QED BY <1>1, <2>1, <2>2, <2>3 DEF LatticeInv
<1>3. CASE SecamNext
  <2>1. PICK w \in SecamWorkers, n \in FrameNos : DecodeSecam(w, n)
    BY <1>3 DEF SecamNext
  <2> DEFINE a == DecodeSecamField(inst[w], 2 * n - 1)
             b == DecodeSecamField(a.inst, 2 * n)
             new == [frame |-> n, fields |-> <<a, b>>,
                     rowComponents |-> ChromaRowComponents(a, b), mechanism |-> Weaker(a, b)]
  <2>2. /\ inst' = [inst EXCEPT ![w] = b.inst] /\ latest' = [latest EXCEPT ![w] = new]
        /\ UNCHANGED <<secamCapture, mode, videoStart>>
    BY <2>1 DEF DecodeSecam
  <2>3. n \in Nat \ {0} /\ 2 * n - 1 \in DOMAIN secamCapture /\ 2 * n \in DOMAIN secamCapture
    <3>1. n \in DOMAIN secamCapture /\ 2 * n \in DOMAIN secamCapture
      BY DEF FrameNos
    <3>2. n \in Nat \ {0} /\ 1 .. (2 * n) \subseteq DOMAIN secamCapture
      BY <3>1 DEF CalibrationAssumption, LatticeInv, SecamInv
    <3> QED BY <3>1, <3>2
  <2>4. /\ LatticeOf(a, 2 * n - 1)
        /\ a.inst.lastGood # NoPair => \E s \in Moves : a.inst.lastGood = PairAt(s)
    BY <2>3, FieldLattice DEF LatticeInv, SecamInv
  <2>5. /\ LatticeOf(b, 2 * n)
        /\ b.inst.lastGood # NoPair => \E s \in Moves : b.inst.lastGood = PairAt(s)
    BY <2>3, <2>4, FieldLattice DEF LatticeInv, SecamInv
  <2> HIDE DEF a, b
  <2>6. FrameLattice(new, n)
    <3> SUFFICES ASSUME NEW k \in 1 .. 2 PROVE LatticeOf(<<a, b>>[k], 2 * (n - 1) + k)
      BY DEF FrameLattice
    <3>1. CASE k = 1
      <4>1. 2 * (n - 1) + k = 2 * n - 1
        BY <2>3, <3>1
      <4> QED BY <2>4, <3>1, <4>1
    <3>2. CASE k = 2
      <4>1. 2 * (n - 1) + k = 2 * n
        BY <2>3, <3>2
      <4> QED BY <2>5, <3>2, <4>1
    <3> QED BY <3>1, <3>2
  <2>7. new.frame = n
    OBVIOUS
  <2> HIDE DEF new
  <2>8. \A d, m : FrameLattice(d, m) => FrameLattice(d, m)'
    BY <2>2, LatticesStay
  <2>9. Moves' = Moves
    BY <2>2 DEF Moves
  <2>10. /\ latest'[w] = new /\ inst'[w] = b.inst
         /\ \A v \in SecamWorkers \ {w} : latest'[v] = latest[v] /\ inst'[v] = inst[v]
    BY <2>2 DEF LatticeInv, SecamInv
  <2>11. ASSUME NEW v \in SecamWorkers, NEW d, latest'[v] = d, d # NotDecoded
         PROVE  FrameLattice(d, d.frame)'
    <3>1. CASE v = w
      BY <2>6, <2>7, <2>8, <2>10, <2>11, <3>1
    <3>2. CASE v # w
      <4>1. latest[v] = d
        BY <2>10, <2>11, <3>2
      <4> QED BY <2>8, <2>11, <4>1 DEF LatticeInv
    <3> QED BY <3>1, <3>2
  <2>12. ASSUME NEW v \in SecamWorkers, NEW g, inst'[v].lastGood = g, g # NoPair
         PROVE  \E s \in Moves : g = PairAt(s)
    <3>1. CASE v = w
      BY <2>5, <2>10, <2>12, <3>1
    <3>2. CASE v # w
      BY <2>10, <2>12, <3>2 DEF LatticeInv
    <3> QED BY <3>1, <3>2
  <2> QED BY <1>1, <2>2, <2>9, <2>11, <2>12 DEF LatticeInv
<1> QED BY <1>2, <1>3

\* Rows are given the component they really carry, whatever fields the instance
\* decoded before and wherever converters put the FM block: for every capture whose
\* measurable porches show both carriers, and any instances and order of frames.
THEOREM LatticeKept ==
  ASSUME CalibrationAssumption, LatticeAssumption PROVE SecamSpec => []LatticeIsTrue
<1>1. SecamInit => LatticeInv
  <2>1. SecamInit => \A w \in SecamWorkers : inst[w].lastGood = NoPair
    BY DEF SecamInit, Configured, NoPair
  <2>2. SecamInit => \A w \in SecamWorkers : latest[w] = NotDecoded
    BY DEF SecamInit
  <2>3. SecamInit => mode \in Modes
    BY DEF SecamInit
  <2> QED BY <2>1, <2>2, <2>3, SecamInitially DEF LatticeInv
<1>2. ASSUME LatticeInv, NEW w \in SecamDecoded, NEW k \in 1 .. 2,
             mode \in {"auto", "manual"}, Identifiable(Source(w, k), k - 1),
             NEW r \in DOMAIN latest[w].fields[k].components
      PROVE  latest[w].fields[k].components[r] = TrueComponent(Source(w, k), r)
  <2> DEFINE n == latest[w].frame
             seqNo == 2 * (n - 1) + k
  <2>1. n \in FrameNos /\ LatticeOf(latest[w].fields[k], seqNo)
    <3>1. w \in SecamWorkers /\ latest[w] # NotDecoded
      BY DEF SecamDecoded
    <3> QED BY <1>2, <3>1 DEF LatticeInv, SecamInv, FrameLattice
  <2>2. Source(w, k) = secamCapture[seqNo]
    BY DEF Source
  <2>3. FieldOffset(seqNo) = k - 1
    <3>1. n \in Nat
      <4>1. n \in DOMAIN secamCapture
        BY <2>1 DEF FrameNos
      <4> QED BY <1>2, <4>1 DEF CalibrationAssumption, LatticeInv, SecamInv
    <3>2. FieldOffset(seqNo) = (2 * (n - 1) + k + 1) % 2
      BY DEF FieldOffset
    <3>3. CASE k = 1
      BY <3>1, <3>2, <3>3
    <3>4. CASE k = 2
      BY <3>1, <3>2, <3>4
    <3> QED BY <3>3, <3>4
  <2> HIDE DEF seqNo
  <2> QED BY <1>2, <2>1, <2>2, <2>3 DEF LatticeOf
<1>3. LatticeInv => LatticeIsTrue
  <2>1. \A w \in SecamDecoded : \A p \in FieldsOf(w) : p[1] \in 1 .. 2 /\ p[2] = latest[w].fields[p[1]]
    BY DEF FieldsOf
  <2> SUFFICES ASSUME LatticeInv, NEW w \in SecamDecoded, NEW p \in FieldsOf(w),
                      mode \in {"auto", "manual"}, Identifiable(Source(w, p[1]), p[1] - 1),
                      NEW r \in DOMAIN p[2].components
               PROVE  p[2].components[r] = TrueComponent(Source(w, p[1]), r)
    BY DEF LatticeIsTrue
  <2> QED BY <1>2, <2>1
<1> QED BY <1>1, <1>3, LatticeSteps, PTL DEF SecamSpec

-----------------------------------------------------------------------------
(* The concealment of clicks. *)

LEMMA LeastExists ==
  ASSUME NEW T \in SUBSET Nat, T # {}
  PROVE  \E n \in T : \A m \in T : n <= m
<1>1. PICK x \in T : \A y \in T : ~(<<y, x>> \in OpToRel(<, Nat))
  <2>1. IsWellFoundedOn(OpToRel(<, Nat), Nat)
    BY NatLessThanWellFounded
  <2> QED BY <2>1, WFMin
<1>2. \A y \in T : ~(y < x)
  BY <1>1 DEF OpToRel
<1> QED BY <1>2

LEMMA LowestIs ==
  ASSUME NEW T \in SUBSET Nat, T # {}
  PROVE  Min(T) \in T /\ \A y \in T : Min(T) <= y
<1>1. \E x \in T : \A y \in T : x <= y
  BY LeastExists
<1> QED BY <1>1 DEF Min

LEMMA TwoNumbers ==
  ASSUME NEW a \in Int, NEW b \in Int
  PROVE  /\ Min({a, b}) = IF a <= b THEN a ELSE b
         /\ Max({a, b}) = IF a >= b THEN a ELSE b
<1>1. \E x \in {a, b} : \A y \in {a, b} : x <= y
  OBVIOUS
<1>2. Min({a, b}) \in {a, b} /\ Min({a, b}) <= a /\ Min({a, b}) <= b
  BY <1>1 DEF Min
<1>3. \E x \in {a, b} : \A y \in {a, b} : x >= y
  OBVIOUS
<1>4. Max({a, b}) \in {a, b} /\ Max({a, b}) >= a /\ Max({a, b}) >= b
  BY <1>3 DEF Max
<1> HIDE DEF Min, Max
<1> QED BY <1>2, <1>4

LEMMA RangeInsideTheRow ==
  ASSUME ConcealmentAssumption, videoStart \in Starts
  PROVE  DetectRange \subseteq 0 .. (Width - 1)
<1> DEFINE low == Max({0, videoStart - DetectPad})
           high == Min({Width, VideoEnd + DetectPad})
<1>1. videoStart - DetectPad \in Int /\ VideoEnd + DetectPad \in Int /\ Width \in Nat
  BY DEF ConcealmentAssumption
<1>2. low \in Nat /\ high \in Int /\ high <= Width
  <2> DEFINE a == videoStart - DetectPad
             b == VideoEnd + DetectPad
  <2>1. a \in Int /\ b \in Int
    BY <1>1
  <2> HIDE DEF a, b
  <2>2. /\ Max({0, a}) = IF 0 >= a THEN 0 ELSE a
        /\ Min({Width, b}) = IF Width <= b THEN Width ELSE b
    BY <1>1, <2>1, TwoNumbers
  <2>3. low = Max({0, a}) /\ high = Min({Width, b})
    BY DEF a, b
  <2> HIDE DEF low, high
  <2> QED BY <1>1, <2>1, <2>2, <2>3
<1> HIDE DEF low, high
<1>3. low .. (high - 1) \subseteq 0 .. (Width - 1)
  BY <1>1, <1>2
<1> QED BY <1>3 DEF low, high, DetectRange

\* A run of clicks is inside its span, the span inside the row.
SpanOf(s, x) ==
  /\ s = <<s[1], s[2]>> /\ s[1] \in Nat /\ s[2] \in Nat
  /\ s[1] <= x /\ x < s[2] /\ s[2] <= Width

LEMMA SpanSurroundsRun ==
  ASSUME ConcealmentAssumption, NEW flagged, flagged \subseteq 0 .. (Width - 1), NEW x \in flagged
  PROVE  SpanOf(SpanAt(flagged, x), x)
<1> DEFINE ends == {y \in (x + 1) .. Width : y \notin flagged}
           runEnd == Min(ends)
<1>1. Width \in Nat /\ ClickMargin \in Nat /\ x \in 0 .. (Width - 1)
  BY DEF ConcealmentAssumption
<1>2. Width \in ends /\ ends \in SUBSET Nat
  BY <1>1
<1>3. runEnd \in ends
  <2> HIDE DEF ends
  <2> QED BY <1>2, LowestIs
<1>4. runEnd \in Nat /\ x < runEnd /\ runEnd <= Width
  BY <1>1, <1>3
<1> HIDE DEF runEnd
<1> DEFINE a == x - ClickMargin
           b == runEnd + ClickMargin
           s == SpanAt(flagged, x)
<1>5. s = <<Max({0, a}), Min({Width, b})>>
  BY DEF SpanAt, runEnd
<1>6. a \in Int /\ b \in Int /\ a <= x /\ b > x
  BY <1>1, <1>4
<1> HIDE DEF a, b
<1>7. Max({0, a}) = IF 0 >= a THEN 0 ELSE a
  BY <1>6, TwoNumbers
<1>8. Min({Width, b}) = IF Width <= b THEN Width ELSE b
  BY <1>1, <1>6, TwoNumbers
<1>9. s[1] = Max({0, a}) /\ s[2] = Min({Width, b}) /\ s = <<s[1], s[2]>>
  <2> HIDE DEF s
  <2> QED BY <1>5
<1> HIDE DEF s
<1>10. SpanOf(s, x)
  BY <1>1, <1>4, <1>6, <1>7, <1>8, <1>9 DEF SpanOf
<1> QED BY <1>10 DEF s

\* The scan from column low on, whatever comes before.
Scanned(flagged, s, x) ==
  IF PastRange(x) THEN <<>>
  ELSE IF x \notin flagged THEN s[x + 1]
  ELSE <<SpanAt(flagged, x)>> \o s[SpanAt(flagged, x)[2]]
ScanFrom(flagged, low, s) == s = [x \in low .. Width |-> Scanned(flagged, s, x)]

Clicked(flagged) == ConcealmentAssumption /\ videoStart \in Starts /\ flagged \subseteq DetectRange

LEMMA ScanReachesOn ==
  ASSUME NEW flagged, Clicked(flagged), NEW low \in Nat, NEW s, NEW t,
         \A x \in (low + 1) .. Width : t[x] = s[x], NEW x \in low .. Width
  PROVE  Scanned(flagged, t, x) = Scanned(flagged, s, x)
<1>1. DetectRange \subseteq 0 .. (Width - 1) /\ Width \in Nat
  BY RangeInsideTheRow DEF Clicked, ConcealmentAssumption
<1>2. CASE PastRange(x)
  BY <1>2 DEF Scanned
<1>3. CASE ~PastRange(x) /\ x \notin flagged
  <2>1. x < Width
    BY <1>1, <1>3 DEF PastRange
  <2>2. x + 1 \in (low + 1) .. Width
    BY <1>1, <2>1
  <2>3. Scanned(flagged, t, x) = t[x + 1] /\ Scanned(flagged, s, x) = s[x + 1]
    BY <1>3 DEF Scanned
  <2> QED BY <2>2, <2>3
<1>4. CASE ~PastRange(x) /\ x \in flagged
  <2> DEFINE e == SpanAt(flagged, x)[2]
  <2>1. e \in Nat /\ x < e /\ e <= Width
    <3>1. flagged \subseteq 0 .. (Width - 1)
      BY <1>1 DEF Clicked
    <3> HIDE DEF e
    <3>2. SpanOf(SpanAt(flagged, x), x)
      BY <1>4, <3>1, SpanSurroundsRun DEF Clicked
    <3> QED BY <3>2 DEF SpanOf, e
  <2> HIDE DEF e
  <2>2. e \in (low + 1) .. Width
    BY <1>1, <2>1
  <2>3. /\ Scanned(flagged, t, x) = <<SpanAt(flagged, x)>> \o t[e]
        /\ Scanned(flagged, s, x) = <<SpanAt(flagged, x)>> \o s[e]
    BY <1>4 DEF Scanned, e
  <2> QED BY <2>2, <2>3
<1> QED BY <1>2, <1>3, <1>4

LEMMA ScanExists ==
  ASSUME NEW flagged, Clicked(flagged)
  PROVE  \E s : ScanFrom(flagged, 0, s)
<1>1. Width \in Nat
  BY DEF Clicked, ConcealmentAssumption
<1> DEFINE Good(d) == \E s : ScanFrom(flagged, (Width + 1) - d, s)
           Bad == {d \in 0 .. (Width + 1) : ~Good(d)}
<1>2. Good(0)
  <2> DEFINE s == [x \in (Width + 1) .. Width |-> <<>>]
  <2>1. s = [x \in (Width + 1) .. Width |-> Scanned(flagged, s, x)]
    <3>1. (Width + 1) .. Width = {}
      BY <1>1
    <3> QED BY <3>1
  <2>2. (Width + 1) - 0 = Width + 1
    BY <1>1
  <2> QED BY <2>1, <2>2 DEF ScanFrom
<1>3. ASSUME NEW low \in 0 .. Width, NEW s, ScanFrom(flagged, low + 1, s)
      PROVE  \E t : ScanFrom(flagged, low, t)
  <2> DEFINE t == [x \in low .. Width |-> Scanned(flagged, s, x)]
  <2>1. low \in Nat
    BY <1>1
  <2>2. ASSUME NEW x \in (low + 1) .. Width PROVE t[x] = s[x]
    <3>1. x \in low .. Width
      BY <1>1
    <3>2. s[x] = Scanned(flagged, s, x)
      BY <1>3 DEF ScanFrom
    <3> QED BY <3>1, <3>2
  <2> HIDE DEF t
  <2>3. ASSUME NEW x \in low .. Width PROVE Scanned(flagged, t, x) = Scanned(flagged, s, x)
    BY <2>1, <2>2, ScanReachesOn
  <2>4. t = [x \in low .. Width |-> Scanned(flagged, t, x)]
    BY <2>3 DEF t
  <2> QED BY <2>4 DEF ScanFrom
<1>4. Bad = {}
  <2> SUFFICES ASSUME Bad # {} PROVE FALSE
    OBVIOUS
  <2>1. PICK d \in Bad : \A k \in Bad : d <= k
    <3>1. Bad \in SUBSET Nat
      BY <1>1
    <3> HIDE DEF Bad
    <3> QED BY <3>1, LeastExists
  <2>2. d \in 0 .. (Width + 1) /\ ~Good(d) /\ d # 0
    <3> HIDE DEF Good
    <3> QED BY <1>2, <2>1
  <2> DEFINE low == (Width + 1) - d
  <2>3. d - 1 \in 0 .. (Width + 1) /\ d - 1 < d
    BY <1>1, <2>2
  <2>4. Good(d - 1)
    <3> HIDE DEF Good
    <3> QED BY <2>1, <2>2, <2>3
  <2>5. low \in 0 .. Width /\ (Width + 1) - (d - 1) = low + 1
    BY <1>1, <2>2
  <2>6. Good(d)
    <3> HIDE DEF low
    <3>1. PICK s : ScanFrom(flagged, low + 1, s)
      BY <2>4, <2>5
    <3>2. \E t : ScanFrom(flagged, low, t)
      BY <1>3, <2>5, <3>1
    <3> QED BY <3>2 DEF low
  <2> QED BY <2>2, <2>6
<1>5. Good(Width + 1)
  <2>1. Width + 1 \in 0 .. (Width + 1)
    BY <1>1
  <2> HIDE DEF Good
  <2> QED BY <1>4, <2>1
<1>6. (Width + 1) - (Width + 1) = 0
  BY <1>1
<1> QED BY <1>5, <1>6

\* What a scan from x on finds: spans ever further to the right, over every click.
SpansFrom(flagged, x, s) ==
  /\ s \in Seq(Nat \X Nat)
  /\ \A k \in 1 .. Len(s) : s[k][1] < s[k][2] /\ s[k][2] <= Width /\ x < s[k][2]
  /\ \A j, k \in 1 .. Len(s) : j < k => s[j][2] < s[k][2]
  /\ \A y \in flagged : y >= x => \E k \in 1 .. Len(s) : s[k][1] <= y /\ y < s[k][2]

LEMMA SpanBefore ==
  ASSUME NEW flagged \in SUBSET Nat, NEW x \in flagged, NEW sp, SpanOf(sp, x), NEW s, SpansFrom(flagged, sp[2], s)
  PROVE  SpansFrom(flagged, x, <<sp>> \o s)
<1> DEFINE t == <<sp>> \o s
           n == Len(s)
<1>1. sp \in Nat \X Nat /\ sp[1] \in Nat /\ sp[2] \in Nat /\ sp[1] <= x /\ x < sp[2] /\ sp[2] <= Width /\ x \in Nat
  BY DEF SpanOf
<1>2. s \in Seq(Nat \X Nat) /\ n \in Nat
  BY DEF SpansFrom
<1>3. t \in Seq(Nat \X Nat) /\ Len(t) = n + 1 /\ t[1] = sp
  BY <1>1, <1>2
<1>4. \A k \in 1 .. n : t[k + 1] = s[k]
  BY <1>1, <1>2
<1>5. \A k \in 1 .. (n + 1) : k = 1 \/ (k - 1 \in 1 .. n /\ t[k] = s[k - 1])
  <2> SUFFICES ASSUME NEW k \in 1 .. (n + 1), k # 1 PROVE k - 1 \in 1 .. n /\ t[k] = s[k - 1]
    OBVIOUS
  <2> HIDE DEF t, n
  <2>1. k - 1 \in 1 .. n /\ (k - 1) + 1 = k
    BY <1>2
  <2> QED BY <1>4, <2>1
<1>6. \A k \in 1 .. n : s[k][1] \in Nat /\ s[k][2] \in Nat
  BY <1>2
<1> HIDE DEF t, n
<1>7. \A k \in 1 .. (n + 1) : t[k][1] < t[k][2] /\ t[k][2] <= Width /\ x < t[k][2]
  <2> SUFFICES ASSUME NEW k \in 1 .. (n + 1) PROVE t[k][1] < t[k][2] /\ t[k][2] <= Width /\ x < t[k][2]
    OBVIOUS
  <2>1. CASE k = 1
    BY <1>1, <1>3, <2>1
  <2>2. CASE k # 1
    <3>1. k - 1 \in 1 .. n /\ t[k] = s[k - 1]
      BY <1>5, <2>2
    <3>2. s[k - 1][1] < s[k - 1][2] /\ s[k - 1][2] <= Width /\ sp[2] < s[k - 1][2]
      BY <3>1 DEF SpansFrom, n
    <3> QED BY <1>1, <1>6, <3>1, <3>2
  <2> QED BY <2>1, <2>2
<1>8. \A j, k \in 1 .. (n + 1) : j < k => t[j][2] < t[k][2]
  <2> SUFFICES ASSUME NEW j \in 1 .. (n + 1), NEW k \in 1 .. (n + 1), j < k PROVE t[j][2] < t[k][2]
    OBVIOUS
  <2>1. k # 1 /\ k - 1 \in 1 .. n /\ t[k] = s[k - 1]
    <3>1. k # 1
      BY <1>2
    <3> QED BY <1>5, <3>1
  <2>2. CASE j = 1
    BY <1>1, <1>3, <2>1, <2>2 DEF SpansFrom, n
  <2>3. CASE j # 1
    <3>1. j - 1 \in 1 .. n /\ t[j] = s[j - 1]
      BY <1>5, <2>3
    <3>2. j - 1 < k - 1
      BY <1>2
    <3> QED BY <2>1, <3>1, <3>2 DEF SpansFrom, n
  <2> QED BY <2>2, <2>3
<1>9. \A y \in flagged : y >= x => \E k \in 1 .. (n + 1) : t[k][1] <= y /\ y < t[k][2]
  <2> SUFFICES ASSUME NEW y \in flagged, y >= x PROVE \E k \in 1 .. (n + 1) : t[k][1] <= y /\ y < t[k][2]
    OBVIOUS
  <2>1. CASE y < sp[2]
    <3>1. 1 \in 1 .. (n + 1)
      BY <1>2, <1>3
    <3>2. t[1][1] <= y /\ y < t[1][2]
      BY <1>1, <1>3, <2>1
    <3> QED BY <3>1, <3>2
  <2>2. CASE ~(y < sp[2])
    <3>1. y >= sp[2]
      BY <1>1, <2>2
    <3>2. PICK k \in 1 .. n : s[k][1] <= y /\ y < s[k][2]
      BY <3>1 DEF SpansFrom, n
    <3>3. k + 1 \in 1 .. (n + 1)
      BY <1>2
    <3>4. t[k + 1] = s[k]
      BY <1>4
    <3> QED BY <3>2, <3>3, <3>4
  <2> QED BY <2>1, <2>2
<1>10. SpansFrom(flagged, x, t)
  BY <1>3, <1>7, <1>8, <1>9 DEF SpansFrom, n
<1> QED BY <1>10 DEF t

LEMMA SpansFound ==
  ASSUME NEW flagged, Clicked(flagged), flagged # {}
  PROVE  \E low \in Nat : (\A y \in flagged : y >= low) /\ SpansFrom(flagged, low, ClickSpans(flagged))
<1> DEFINE Scan == CHOOSE s : s = [x \in 0 .. Width |->
                     IF PastRange(x) THEN <<>>
                     ELSE IF x \notin flagged THEN s[x + 1]
                     ELSE <<SpanAt(flagged, x)>> \o s[SpanAt(flagged, x)[2]]]
           low == Min(DetectRange)
<1>1. ClickSpans(flagged) = Scan[low]
  BY DEF ClickSpans
<1>2. ScanFrom(flagged, 0, Scan)
  BY ScanExists DEF ScanFrom, Scanned
<1> HIDE DEF Scan
<1>3. Width \in Nat /\ DetectRange \subseteq 0 .. (Width - 1) /\ flagged \subseteq DetectRange
  BY RangeInsideTheRow DEF Clicked, ConcealmentAssumption
<1>4. low \in 0 .. Width /\ \A y \in flagged : y >= low
  <2>1. DetectRange \in SUBSET Nat /\ DetectRange # {}
    <3>1. 0 .. (Width - 1) \subseteq Nat
      OBVIOUS
    <3>2. DetectRange # {}
      BY <1>3
    <3> QED BY <1>3, <3>1, <3>2
  <2>2. low \in DetectRange /\ \A y \in DetectRange : low <= y
    BY <2>1, LowestIs
  <2> HIDE DEF low
  <2> QED BY <1>3, <2>2
<1> HIDE DEF low
<1>5. \A x \in 0 .. Width : Scan[x] = Scanned(flagged, Scan, x)
  BY <1>2 DEF ScanFrom
<1> DEFINE Found(x) == SpansFrom(flagged, x, Scan[x])
<1>6. ASSUME NEW x \in 0 .. Width, \A y \in (x + 1) .. Width : Found(y)
      PROVE  Found(x)
  <2>1. CASE PastRange(x)
    <3>1. Scan[x] = <<>>
      BY <1>5, <2>1 DEF Scanned
    <3>2. \A y \in flagged : ~(y >= x)
      BY <1>3, <2>1 DEF PastRange
    <3>3. <<>> \in Seq(Nat \X Nat) /\ 1 .. Len(<<>>) = {}
      OBVIOUS
    <3> QED BY <3>1, <3>2, <3>3 DEF SpansFrom
  <2>2. CASE ~PastRange(x) /\ x \notin flagged
    <3>1. Scan[x] = Scan[x + 1]
      BY <1>5, <2>2 DEF Scanned
    <3>2. x + 1 \in (x + 1) .. Width
      BY <1>3, <2>2 DEF PastRange
    <3> DEFINE s == Scan[x + 1]
    <3>3. SpansFrom(flagged, x + 1, s)
      BY <1>6, <3>2
    <3> HIDE DEF s
    <3>4. SpansFrom(flagged, x, s)
      <4>1. \A y \in flagged : y >= x => y >= x + 1
        BY <1>3, <2>2
      <4>2. \A k \in 1 .. Len(s) : s[k][2] \in Nat /\ x + 1 < s[k][2]
        BY <3>3 DEF SpansFrom
      <4>3. \A k \in 1 .. Len(s) : x < s[k][2]
        BY <4>2
      <4> QED BY <3>3, <4>1, <4>3 DEF SpansFrom
    <3> QED BY <3>1, <3>4 DEF s
  <2>3. CASE ~PastRange(x) /\ x \in flagged
    <3> DEFINE sp == SpanAt(flagged, x)
    <3>1. Scan[x] = <<sp>> \o Scan[sp[2]]
      BY <1>5, <2>3 DEF Scanned
    <3>2. flagged \subseteq 0 .. (Width - 1) /\ flagged \in SUBSET Nat
      BY <1>3
    <3>3. SpanOf(sp, x)
      <4> HIDE DEF sp
      <4> QED BY <2>3, <3>2, SpanSurroundsRun DEF sp, Clicked
    <3> HIDE DEF sp
    <3>4. sp[2] \in (x + 1) .. Width
      BY <3>3 DEF SpanOf
    <3>5. SpansFrom(flagged, sp[2], Scan[sp[2]])
      BY <1>6, <3>4
    <3>6. SpansFrom(flagged, x, <<sp>> \o Scan[sp[2]])
      BY <2>3, <3>2, <3>3, <3>5, SpanBefore
    <3> QED BY <3>1, <3>6
  <2> QED BY <2>1, <2>2, <2>3
<1>7. \A x \in 0 .. Width : Found(x)
  <2> DEFINE Bad == {d \in 0 .. Width : ~Found(Width - d)}
  <2>1. Bad = {}
    <3> SUFFICES ASSUME Bad # {} PROVE FALSE
      OBVIOUS
    <3>1. PICK d \in Bad : \A k \in Bad : d <= k
      <4>1. Bad \in SUBSET Nat
        OBVIOUS
      <4> HIDE DEF Bad
      <4> QED BY <4>1, LeastExists
    <3> HIDE DEF Found
    <3>2. ASSUME NEW y \in ((Width - d) + 1) .. Width PROVE Found(y)
      <4>1. Width - y \in 0 .. Width /\ Width - y < d /\ Width - (Width - y) = y
        BY <1>3, <3>1
      <4>2. Width - y \notin Bad
        <5> HIDE DEF Bad
        <5>1. d \in Nat
          BY <3>1 DEF Bad
        <5> QED BY <1>3, <3>1, <4>1, <5>1
      <4> QED BY <4>1, <4>2
    <3>3. Width - d \in 0 .. Width
      BY <1>3, <3>1
    <3>4. Found(Width - d)
      BY <1>6, <3>2, <3>3
    <3> QED BY <3>1, <3>4
  <2> SUFFICES ASSUME NEW x \in 0 .. Width PROVE Found(x)
    OBVIOUS
  <2> HIDE DEF Found
  <2>2. Width - x \in 0 .. Width /\ Width - (Width - x) = x
    BY <1>3
  <2> QED BY <2>1, <2>2
<1>8. SpansFrom(flagged, low, Scan[low])
  BY <1>4, <1>7
<1>9. low \in Nat
  BY <1>3, <1>4
<1> QED BY <1>1, <1>4, <1>8, <1>9

\* A row whose spans so far are told apart from its own samples; every source
\* is of this row or of one above it.
InSpans(spans, n, x) == \E k \in 1 .. n : spans[k][1] <= x /\ x < spans[k][2]
Told(r, line, spans, n) ==
  \A x \in 0 .. (Width - 1) : InSpans(spans, n, x) <=> line[x] # {<<r, x>>}
OfRowsTo(r, line) == \A x \in 0 .. (Width - 1) : \A p \in line[x] : p[1] \in Int /\ p[1] <= r

LEMMA SpanConcealed ==
  ASSUME Width \in Nat, NEW r \in Int, NEW line, NEW above, NEW flagged, NEW low, NEW spans, SpansFrom(flagged, low, spans),
         NEW n \in 1 .. Len(spans), Told(r, line, spans, n - 1), OfRowsTo(r, line), OfRowsTo(r - 2, above)
  PROVE  LET next == ConcealSpan(line, above, spans[n])
         IN  Told(r, next, spans, n) /\ OfRowsTo(r, next)
<1> DEFINE a == spans[n][1]
           b == spans[n][2]
           next == ConcealSpan(line, above, spans[n])
<1>1. /\ a \in Nat /\ b \in Nat /\ a < b /\ b <= Width
      /\ \A k \in 1 .. (n - 1) : spans[k][2] \in Nat /\ spans[k][2] < b
  <2>1. Len(spans) \in Nat /\ \A k \in 1 .. Len(spans) : spans[k] \in Nat \X Nat
    BY DEF SpansFrom
  <2>2. 1 .. (n - 1) \subseteq 1 .. Len(spans) /\ \A k \in 1 .. (n - 1) : k < n
    BY <2>1
  <2> QED BY <2>1, <2>2 DEF SpansFrom
<1>2. \A x \in 0 .. (Width - 1) : next[x] =
        IF x < a \/ x >= b THEN line[x]
        ELSE IF b - a <= MaxInterpolated /\ a > 0 /\ b < Width THEN line[a - 1] \cup line[b]
        ELSE above[x]
  BY DEF ConcealSpan
<1>3. \A x : InSpans(spans, n, x) <=> InSpans(spans, n - 1, x) \/ (a <= x /\ x < b)
  <2>1. \A k : k \in 1 .. n <=> k \in 1 .. (n - 1) \/ k = n
    BY DEF SpansFrom
  <2> QED BY <2>1 DEF InSpans
<1> HIDE DEF a, b, next
<1>4. ASSUME NEW x \in 0 .. (Width - 1) PROVE InSpans(spans, n, x) <=> next[x] # {<<r, x>>}
  <2>1. CASE x < a \/ x >= b
    <3>1. next[x] = line[x] /\ ~(a <= x /\ x < b)
      BY <1>1, <1>2, <2>1
    <3> QED BY <1>3, <3>1 DEF Told
  <2>2. CASE ~(x < a \/ x >= b)
    <3>1. InSpans(spans, n, x)
      BY <1>1, <1>3, <2>2
    <3>2. CASE b - a <= MaxInterpolated /\ a > 0 /\ b < Width
      <4>1. next[x] = line[a - 1] \cup line[b]
        BY <1>2, <2>2, <3>2
      <4>2. b \in 0 .. (Width - 1) /\ ~InSpans(spans, n - 1, b)
        BY <1>1, <3>2 DEF InSpans
      <4>3. line[b] = {<<r, b>>}
        BY <4>2 DEF Told
      <4>4. <<r, b>> \in next[x] /\ b # x
        BY <1>1, <2>2, <4>1, <4>3
      <4>5. <<r, b>> # <<r, x>>
        BY <4>4
      <4> QED BY <3>1, <4>4, <4>5
    <3>3. CASE ~(b - a <= MaxInterpolated /\ a > 0 /\ b < Width)
      <4>1. next[x] = above[x]
        BY <1>2, <2>2, <3>3
      <4>2. <<r, x>> \notin above[x]
        <5>1. ASSUME <<r, x>> \in above[x] PROVE FALSE
          <6>1. <<r, x>>[1] <= r - 2
            BY <5>1 DEF OfRowsTo
          <6> QED BY <6>1
        <5> QED BY <5>1
      <4> QED BY <3>1, <4>1, <4>2
    <3> QED BY <3>2, <3>3
  <2> QED BY <2>1, <2>2
<1>5. ASSUME NEW x \in 0 .. (Width - 1), NEW p \in next[x] PROVE p[1] \in Int /\ p[1] <= r
  <2>1. CASE p \in line[x]
    BY <2>1 DEF OfRowsTo
  <2>2. CASE p \in above[x]
    <3>1. p[1] \in Int /\ p[1] <= r - 2
      BY <2>2 DEF OfRowsTo
    <3> QED BY <3>1
  <2>3. CASE p \in line[a - 1] \cup line[b] /\ a > 0 /\ b < Width
    <3>1. a - 1 \in 0 .. (Width - 1) /\ b \in 0 .. (Width - 1)
      BY <1>1, <2>3
    <3> QED BY <2>3, <3>1 DEF OfRowsTo
  <2> QED BY <1>2, <2>1, <2>2, <2>3
<1>6. Told(r, next, spans, n) /\ OfRowsTo(r, next)
  BY <1>4, <1>5 DEF Told, OfRowsTo
<1> QED BY <1>6 DEF next

LEMMA RowConcealed ==
  ASSUME Width \in Nat, NEW r \in Int, NEW line, NEW above, NEW flagged, NEW low, NEW spans, SpansFrom(flagged, low, spans),
         Told(r, line, spans, 0), OfRowsTo(r, line), OfRowsTo(r - 2, above)
  PROVE  LET row == ConcealRow(line, above, spans)
         IN  Told(r, row, spans, Len(spans)) /\ OfRowsTo(r, row)
<1> DEFINE N == Len(spans)
           Steps(m, s) == s = [n \in 0 .. m |-> IF n = 0 THEN line ELSE ConcealSpan(s[n - 1], above, spans[n])]
           Right(m) == /\ \E s : Steps(m, s)
                       /\ \A s : Steps(N, s) => Told(r, s[m], spans, m) /\ OfRowsTo(r, s[m])
           Bad == {m \in 0 .. N : ~Right(m)}
<1>1. N \in Nat
  BY DEF SpansFrom
<1> HIDE DEF N
<1>2. Right(0)
  <2> DEFINE s == [n \in 0 .. 0 |-> line]
  <2>1. s = [n \in 0 .. 0 |-> IF n = 0 THEN line ELSE ConcealSpan(s[n - 1], above, spans[n])]
    OBVIOUS
  <2>2. ASSUME NEW u, Steps(N, u) PROVE u[0] = line
    BY <1>1, <2>2
  <2>3. \E u : Steps(0, u)
    BY <2>1
  <2> HIDE DEF Steps
  <2> QED BY <2>2, <2>3
<1>3. ASSUME NEW m \in 0 .. N, m # 0, Right(m - 1) PROVE Right(m)
  <2>1. PICK s : Steps(m - 1, s)
    BY <1>3
  <2> DEFINE t == [n \in 0 .. m |-> IF n = 0 THEN line ELSE ConcealSpan(s[n - 1], above, spans[n])]
  <2>2. ASSUME NEW n \in 0 .. (m - 1) PROVE t[n] = s[n]
    <3>1. n \in 0 .. m
      BY <1>1
    <3> QED BY <2>1, <3>1
  <2>3. ASSUME NEW n \in 0 .. m, n # 0 PROVE n - 1 \in 0 .. (m - 1) /\ t[n - 1] = s[n - 1]
    <3>1. n - 1 \in 0 .. (m - 1)
      BY <1>1, <2>3
    <3> HIDE DEF t
    <3> QED BY <2>2, <3>1
  <2>4. ASSUME NEW n \in 0 .. m PROVE t[n] = IF n = 0 THEN line ELSE ConcealSpan(t[n - 1], above, spans[n])
    <3>1. t[n] = IF n = 0 THEN line ELSE ConcealSpan(s[n - 1], above, spans[n])
      OBVIOUS
    <3> HIDE DEF t
    <3> QED BY <2>3, <3>1
  <2>5. t = [n \in 0 .. m |-> t[n]]
    OBVIOUS
  <2>6. \E u : Steps(m, u)
    <3> HIDE DEF t
    <3>1. t = [n \in 0 .. m |-> IF n = 0 THEN line ELSE ConcealSpan(t[n - 1], above, spans[n])]
      BY <2>4, <2>5
    <3> QED BY <3>1
  <2>7. ASSUME NEW u, Steps(N, u) PROVE Told(r, u[m], spans, m) /\ OfRowsTo(r, u[m])
    <3>1. Told(r, u[m - 1], spans, m - 1) /\ OfRowsTo(r, u[m - 1])
      BY <1>3, <2>7
    <3>2. u[m] = ConcealSpan(u[m - 1], above, spans[m])
      BY <1>1, <1>3, <2>7
    <3>3. m \in 1 .. Len(spans)
      BY <1>1, <1>3 DEF N
    <3> HIDE DEF Steps
    <3> QED BY <3>1, <3>2, <3>3, SpanConcealed
  <2> HIDE DEF Steps
  <2> QED BY <2>6, <2>7
<1>4. Bad = {}
  <2> SUFFICES ASSUME Bad # {} PROVE FALSE
    OBVIOUS
  <2>1. PICK m \in Bad : \A k \in Bad : m <= k
    <3>1. Bad \in SUBSET Nat
      OBVIOUS
    <3> HIDE DEF Bad
    <3> QED BY <3>1, LeastExists
  <2> HIDE DEF Right
  <2>2. m \in 0 .. N /\ ~Right(m) /\ m # 0
    BY <1>2, <2>1
  <2>3. m - 1 \in 0 .. N /\ m - 1 < m /\ m \in Nat
    BY <1>1, <2>2
  <2>4. Right(m - 1)
    <3>1. m - 1 \notin Bad
      <4> HIDE DEF Bad
      <4> QED BY <2>1, <2>3
    <3> QED BY <2>3, <3>1
  <2> QED BY <1>3, <2>2, <2>4
<1>5. Right(N)
  <2> HIDE DEF Right
  <2>1. N \in 0 .. N
    BY <1>1
  <2> QED BY <1>4, <2>1
<1> DEFINE After == CHOOSE s : s = [n \in 0 .. Len(spans) |-> IF n = 0 THEN line ELSE ConcealSpan(s[n - 1], above, spans[n])]
<1>6. ConcealRow(line, above, spans) = After[Len(spans)]
  BY DEF ConcealRow
<1>7. Steps(N, After)
  BY <1>5 DEF N
<1> HIDE DEF After
<1>8. Told(r, After[N], spans, N) /\ OfRowsTo(r, After[N])
  <2> HIDE DEF Steps
  <2> QED BY <1>5, <1>7
<1> QED BY <1>6, <1>8 DEF N

LEMMA RawRowsAreTold ==
  ASSUME NEW r \in Int, NEW spans
  PROVE  Told(r, RawRow(r), spans, 0) /\ OfRowsTo(r, RawRow(r))
<1>1. \A x : ~InSpans(spans, 0, x)
  BY DEF InSpans
<1>2. \A x \in 0 .. (Width - 1) : RawRow(r)[x] = {<<r, x>>}
  BY DEF RawRow
<1>3. Told(r, RawRow(r), spans, 0)
  BY <1>1, <1>2 DEF Told
<1>4. OfRowsTo(r, RawRow(r))
  BY <1>2 DEF OfRowsTo
<1> QED BY <1>3, <1>4

\* The rows of a field, each told apart by its own spans.
Line(f, o, s, r) ==
  IF r \notin ActiveRows(o) \/ RowClicks(f, r) = {} THEN RawRow(r)
  ELSE ConcealRow(RawRow(r), IF r >= 2 THEN s[r - 2] ELSE BlankRow, ClickSpans(RowClicks(f, r)))
LineTold(f, o, r, line) ==
  /\ OfRowsTo(r, line)
  /\ r \in ActiveRows(o) /\ RowClicks(f, r) # {} =>
       Told(r, line, ClickSpans(RowClicks(f, r)), Len(ClickSpans(RowClicks(f, r))))
  /\ r \notin ActiveRows(o) \/ RowClicks(f, r) = {} => line = RawRow(r)

LEMMA LineIsTold ==
  ASSUME ConcealmentAssumption, videoStart \in Starts, NEW f, NEW o, NEW s, NEW r \in Nat,
         r >= 2 => OfRowsTo(r - 2, s[r - 2])
  PROVE  LineTold(f, o, r, Line(f, o, s, r))
<1> DEFINE flagged == RowClicks(f, r)
           spans == ClickSpans(flagged)
           above == IF r >= 2 THEN s[r - 2] ELSE BlankRow
<1>1. CASE r \notin ActiveRows(o) \/ flagged = {}
  <2>1. Line(f, o, s, r) = RawRow(r)
    BY <1>1 DEF Line
  <2> QED BY <1>1, <2>1, RawRowsAreTold DEF LineTold
<1>2. CASE ~(r \notin ActiveRows(o) \/ flagged = {})
  <2>1. Line(f, o, s, r) = ConcealRow(RawRow(r), above, spans)
    BY <1>2 DEF Line
  <2>2. Clicked(flagged) /\ flagged # {}
    BY <1>2 DEF Clicked, RowClicks
  <2>3. PICK low \in Nat : SpansFrom(flagged, low, spans)
    <3> HIDE DEF flagged
    <3> QED BY <2>2, SpansFound
  <2>4. OfRowsTo(r - 2, above)
    <3>1. OfRowsTo(r - 2, BlankRow)
      BY DEF OfRowsTo, BlankRow
    <3> QED BY <3>1
  <2>5. Width \in Nat /\ r \in Int
    BY DEF ConcealmentAssumption
  <2>6. Told(r, RawRow(r), spans, 0) /\ OfRowsTo(r, RawRow(r))
    BY <2>5, RawRowsAreTold
  <2>7. /\ Told(r, ConcealRow(RawRow(r), above, spans), spans, Len(spans))
        /\ OfRowsTo(r, ConcealRow(RawRow(r), above, spans))
    <3> HIDE DEF flagged, spans, above
    <3> QED BY <2>3, <2>4, <2>5, <2>6, RowConcealed
  <2> QED BY <1>2, <2>1, <2>7 DEF LineTold
<1> QED BY <1>1, <1>2

LEMMA LinesAreTold ==
  ASSUME ConcealmentAssumption, videoStart \in Starts, NEW f, NEW o
  PROVE  \A r \in 0 .. (Rows - 1) : LineTold(f, o, r, Conceal(f, o)[r])
<1> DEFINE Worked(m, s) == s = [r \in 0 .. (m - 1) |-> Line(f, o, s, r)]
           Right(m) == /\ \E s : Worked(m, s)
                       /\ \A s : Worked(Rows, s) => \A r \in 0 .. (m - 1) : LineTold(f, o, r, s[r])
           Bad == {m \in 0 .. Rows : ~Right(m)}
<1>1. Rows \in Nat
  BY DEF ConcealmentAssumption
<1>2. Right(0)
  <2> DEFINE s == [r \in 0 .. (0 - 1) |-> 0]
  <2>1. 0 .. (0 - 1) = {}
    OBVIOUS
  <2>2. s = [r \in 0 .. (0 - 1) |-> Line(f, o, s, r)]
    BY <2>1
  <2>3. \E u : Worked(0, u)
    BY <2>2
  <2> HIDE DEF Worked
  <2> QED BY <2>1, <2>3
<1>3. ASSUME NEW m \in 0 .. Rows, m # 0, Right(m - 1) PROVE Right(m)
  <2>1. PICK s : Worked(m - 1, s)
    BY <1>3
  <2> DEFINE t == [r \in 0 .. (m - 1) |-> Line(f, o, s, r)]
  <2>2. ASSUME NEW r \in 0 .. ((m - 1) - 1) PROVE t[r] = s[r]
    <3>1. r \in 0 .. (m - 1)
      BY <1>1
    <3> QED BY <2>1, <3>1
  <2>3. ASSUME NEW r \in 0 .. (m - 1), r >= 2 PROVE t[r - 2] = s[r - 2]
    <3>1. r - 2 \in 0 .. ((m - 1) - 1)
      BY <1>1, <2>3
    <3> HIDE DEF t
    <3> QED BY <2>2, <3>1
  <2>4. ASSUME NEW r \in 0 .. (m - 1) PROVE t[r] = Line(f, o, t, r)
    <3>1. t[r] = Line(f, o, s, r)
      OBVIOUS
    <3> HIDE DEF t
    <3>2. Line(f, o, s, r) = Line(f, o, t, r)
      BY <2>3 DEF Line
    <3> QED BY <3>1, <3>2
  <2>5. t = [r \in 0 .. (m - 1) |-> t[r]]
    OBVIOUS
  <2>6. \E u : Worked(m, u)
    <3> HIDE DEF t
    <3>1. t = [r \in 0 .. (m - 1) |-> Line(f, o, t, r)]
      BY <2>4, <2>5
    <3> QED BY <3>1
  <2>7. ASSUME NEW u, Worked(Rows, u), NEW r \in 0 .. (m - 1) PROVE LineTold(f, o, r, u[r])
    <3>1. \A q \in 0 .. ((m - 1) - 1) : LineTold(f, o, q, u[q])
      <4> HIDE DEF Worked
      <4> QED BY <1>3, <2>7
    <3>2. u[r] = Line(f, o, u, r) /\ r \in Nat
      <4>1. r \in 0 .. (Rows - 1) /\ r \in Nat
        BY <1>1
      <4>2. u[r] = [q \in 0 .. (Rows - 1) |-> Line(f, o, u, q)][r]
        BY <2>7
      <4> QED BY <4>1, <4>2
    <3>3. r >= 2 => OfRowsTo(r - 2, u[r - 2])
      <4>1. r >= 2 => r - 2 \in 0 .. ((m - 1) - 1)
        BY <1>1
      <4> HIDE DEF Worked
      <4> QED BY <3>1, <4>1 DEF LineTold
    <3> HIDE DEF Worked
    <3> QED BY <3>2, <3>3, LineIsTold
  <2> HIDE DEF Worked
  <2> QED BY <2>6, <2>7
<1>4. Bad = {}
  <2> SUFFICES ASSUME Bad # {} PROVE FALSE
    OBVIOUS
  <2>1. PICK m \in Bad : \A k \in Bad : m <= k
    <3>1. Bad \in SUBSET Nat
      OBVIOUS
    <3> HIDE DEF Bad
    <3> QED BY <3>1, LeastExists
  <2> HIDE DEF Right
  <2>2. m \in 0 .. Rows /\ ~Right(m) /\ m # 0
    BY <1>2, <2>1
  <2>3. m - 1 \in 0 .. Rows /\ m - 1 < m /\ m \in Nat
    BY <1>1, <2>2
  <2>4. Right(m - 1)
    <3>1. m - 1 \notin Bad
      <4> HIDE DEF Bad
      <4> QED BY <2>1, <2>3
    <3> QED BY <2>3, <3>1
  <2> QED BY <1>3, <2>2, <2>4
<1>5. Right(Rows)
  <2> HIDE DEF Right
  <2>1. Rows \in 0 .. Rows
    BY <1>1
  <2> QED BY <1>4, <2>1
<1> DEFINE L == CHOOSE s : s = [r \in 0 .. (Rows - 1) |->
                  IF r \notin ActiveRows(o) \/ RowClicks(f, r) = {} THEN RawRow(r)
                  ELSE ConcealRow(RawRow(r), IF r >= 2 THEN s[r - 2] ELSE BlankRow, ClickSpans(RowClicks(f, r)))]
<1>6. Conceal(f, o) = L
  BY DEF Conceal
<1>7. Worked(Rows, L)
  BY <1>5 DEF Line
<1> HIDE DEF L
<1>8. \A r \in 0 .. (Rows - 1) : LineTold(f, o, r, L[r])
  <2> HIDE DEF Worked
  <2> QED BY <1>5, <1>7
<1> QED BY <1>6, <1>8

LEMMA ActiveRowsAreRows ==
  ASSUME ConcealmentAssumption, NEW o \in 0 .. 1
  PROVE  ActiveRows(o) \subseteq 0 .. (Rows - 1)
<1> DEFINE bottom == ((SecamLast - o) \div 2) + 1
<1>1. Rows \in Nat /\ SecamFirst \in Nat /\ SecamLast \in Int
  BY DEF ConcealmentAssumption
<1>2. bottom \in Int
  BY <1>1
<1> HIDE DEF bottom
<1>3. Min({bottom, Rows}) = IF bottom <= Rows THEN bottom ELSE Rows
  BY <1>1, <1>2, TwoNumbers
<1>4. LastActive(o) \in Int /\ LastActive(o) <= Rows
  <2>1. LastActive(o) = Min({bottom, Rows})
    BY DEF LastActive, bottom
  <2> QED BY <1>1, <1>2, <1>3, <2>1
<1>5. FirstActive(o) \in Nat
  BY <1>1 DEF FirstActive
<1> QED BY <1>1, <1>4, <1>5 DEF ActiveRows

LEMMA ActiveRowIsTold ==
  ASSUME ConcealmentAssumption, videoStart \in Starts, NEW f, NEW o \in 0 .. 1, NEW r \in ActiveRows(o)
  PROVE  RowIsTold(f, o, r)
<1> DEFINE flagged == RowClicks(f, r)
           list == ClickSpans(flagged)
           spans == {s[2] : s \in {c \in ConcealedSpans(f, o) : c[1] = r}}
           row == Conceal(f, o)[r]
           Inside(x) == \E s \in spans : s[1] <= x /\ x < s[2]
<1>1. LineTold(f, o, r, row) /\ r \in Int
  <2>1. r \in 0 .. (Rows - 1)
    BY ActiveRowsAreRows
  <2> QED BY <2>1, LinesAreTold
<1>2. ASSUME flagged = {} PROVE spans = {} /\ row = RawRow(r)
  <2>1. row = RawRow(r)
    BY <1>1, <1>2 DEF LineTold
  <2>2. \A c \in ConcealedSpans(f, o) : c[1] # r
    BY <1>2 DEF ConcealedSpans
  <2> QED BY <2>1, <2>2
<1>3. ASSUME flagged # {} PROVE spans = Range(list)
  <2>1. \A c : c \in ConcealedSpans(f, o) /\ c[1] = r <=> \E s \in Range(list) : c = <<r, s>>
    BY <1>3 DEF ConcealedSpans
  <2>2. {c \in ConcealedSpans(f, o) : c[1] = r} = {<<r, s>> : s \in Range(list)}
    BY <2>1
  <2>3. {c[2] : c \in {<<r, s>> : s \in Range(list)}} = Range(list)
    <3> DEFINE found == Range(list)
    <3> HIDE DEF found
    <3>1. \A s \in found : <<r, s>>[2] = s
      OBVIOUS
    <3>2. {c[2] : c \in {<<r, s>> : s \in found}} = found
      BY <3>1
    <3> QED BY <3>2 DEF found
  <2> QED BY <2>2, <2>3
<1>4. flagged \subseteq 0 .. (Width - 1) /\ Width \in Nat
  BY RangeInsideTheRow DEF RowClicks, ConcealmentAssumption
<1>5. CASE flagged = {}
  <2>1. \A x \in 0 .. (Width - 1) : row[x] = {<<r, x>>}
    <3> HIDE DEF row
    <3> QED BY <1>2, <1>5 DEF RawRow
  <2>2. \A x : ~Inside(x)
    BY <1>2, <1>5
  <2> HIDE DEF Inside, row
  <2>3. \A x \in 0 .. (Width - 1) : (Inside(x) <=> row[x] # {<<r, x>>}) /\ (x \in RowClicks(f, r) => Inside(x))
    BY <1>5, <2>1, <2>2
  <2> QED BY <2>3 DEF RowIsTold, Inside, row
<1>6. CASE flagged # {}
  <2>1. PICK low \in Nat : (\A y \in flagged : y >= low) /\ SpansFrom(flagged, low, list)
    <3>1. Clicked(flagged)
      BY DEF Clicked, RowClicks
    <3> HIDE DEF flagged
    <3> QED BY <1>6, <3>1, SpansFound
  <2>2. Told(r, row, list, Len(list))
    <3> HIDE DEF row
    <3> QED BY <1>1, <1>6 DEF LineTold
  <2>3. \A x : Inside(x) <=> InSpans(list, Len(list), x)
    <3>1. list \in Seq(Nat \X Nat)
      BY <2>1 DEF SpansFrom
    <3>2. DOMAIN list = 1 .. Len(list)
      <4> HIDE DEF list
      <4> QED BY <3>1
    <3>3. spans = {list[k] : k \in 1 .. Len(list)}
      <4> HIDE DEF list, spans
      <4> QED BY <1>3, <1>6, <3>2 DEF Range
    <3> HIDE DEF list, spans
    <3> QED BY <3>3 DEF InSpans
  <2>4. \A x \in flagged : InSpans(list, Len(list), x)
    <3> HIDE DEF list, flagged
    <3> QED BY <2>1 DEF SpansFrom, InSpans
  <2> HIDE DEF Inside, row, list
  <2>5. \A x \in 0 .. (Width - 1) : (Inside(x) <=> row[x] # {<<r, x>>}) /\ (x \in RowClicks(f, r) => Inside(x))
    BY <2>2, <2>3, <2>4 DEF Told
  <2> QED BY <2>5 DEF RowIsTold, Inside, row
<1> QED BY <1>5, <1>6

\* Every chroma sample inside the reported spans is concealed, no other is, and no
\* click of the detection range is left outside them: for any raster, margins,
\* clicks, instances and order of frames.
THEOREM ConcealmentKept ==
  ASSUME ConcealmentAssumption PROVE SecamSpec => []ConcealedSpansTellTheTruth
<1>1. SecamInit => videoStart \in Starts
  BY DEF SecamInit
<1>2. videoStart \in Starts /\ [SecamNext]_secamVars => (videoStart \in Starts)'
  BY DEF SecamNext, DecodeSecam, secamVars
<1>3. videoStart \in Starts => ConcealedSpansTellTheTruth
  <2> SUFFICES ASSUME videoStart \in Starts, NEW w \in SecamDecoded, NEW p \in FieldsOf(w), NEW r \in ActiveRows(p[1] - 1)
               PROVE  RowIsTold(Source(w, p[1]), p[1] - 1, r)
    BY DEF ConcealedSpansTellTheTruth
  <2>1. p[1] - 1 \in 0 .. 1
    BY DEF FieldsOf
  <2> QED BY <2>1, ActiveRowIsTold
<1> QED BY <1>1, <1>2, <1>3, PTL DEF SecamSpec
=============================================================================
