----------------------------- MODULE PalColour ------------------------------
(***************************************************************************)
(* The PAL decoders: the line-locked 2D filter with its burst and V-switch *)
(* detection, and the tiles and the symmetry filter of Transform PAL.      *)
(*                                                                         *)
(* The picture is one flat colour <<U, V>>.  A line's chroma is the phasor *)
(* <<p, q>> on the reference carriers; every line is 283.75 subcarrier     *)
(* cycles, so the phasor turns by a quarter from line to line and all is   *)
(* exact in integers.  start = [turns, v] is the quarter turns and the     *)
(* V-switch of a field's line 0, eight of them in the PAL sequence.        *)
(***************************************************************************)
EXTENDS Integers, Sequences, FiniteSets, FiniteSetsExt, SequencesExt

CONSTANTS FieldLines                 \* lines of a field
ASSUME FieldLinesAssumption == FieldLines \in Nat

\* A phasor turned by n quarter cycles.
Turn(x, n) ==
    CASE n % 4 = 0 -> x [] n % 4 = 1 -> <<-x[2], x[1]>>
      [] n % 4 = 2 -> <<-x[1], -x[2]>> [] OTHER -> <<x[2], -x[1]>>
VSwitch(start, line) == IF (start.v + line) % 2 = 0 THEN 1 ELSE -1
OnLine(start, line, u, v) == Turn(<<u, VSwitch(start, line) * v>>, start.turns - line)
Plus(x, y) == <<x[1] + y[1], x[2] + y[2]>>
Minus(x, y) == <<x[1] - y[1], x[2] - y[2]>>
Times(n, x) == <<n * x[1], n * x[2]>>
Norm2(x) == (x[1] * x[1]) + (x[2] * x[2])

-----------------------------------------------------------------------------
(* The burst, at -U +/- V on every line; black outside the field.           *)
Burst(start, line) ==
    IF line \in 0 .. (FieldLines - 1) THEN OnLine(start, line, -4, 4) ELSE <<0, 0>>

\* Four times the burst phasor and the one of the lines around it.
BurstPhasors(start, line) ==
    LET in(k) == Burst(start, line + k)
    IN  [here |-> Minus(Times(2, in(0)), Plus(in(-2), in(2))), around |-> Times(2, Minus(in(1), in(-1)))]
\* The V-switch is up when the two agree.
DetectVsw(start, line) ==
    LET b == BurstPhasors(start, line)
    IN  IF Norm2(Minus(b.here, b.around)) < 2 * Norm2(b.here) THEN 1 ELSE -1
\* The -U axis, from both phasors: eight times it.
DetectAxis(start, line) ==
    LET b == BurstPhasors(start, line) IN <<b.here[1] - b.around[2], b.here[2] + b.around[1]>>

-----------------------------------------------------------------------------
(* The 2D filter on lines n, n +/- 1, 2, 3; lines outside the active range   *)
(* are black.  Vertical weights of the chroma filter: 4, 2 x 3, 2 x 2, 2 x 1 *)
Weight(k) == 4 - k
ActiveFieldLines(first, last) == first .. (last - 1)

FilterUV(start, first, last, line, colour) ==
    LET in(k) == IF line + k \in ActiveFieldLines(first, last)
                   THEN OnLine(start, line + k, colour[1], colour[2]) ELSE <<0, 0>>
        m0 == in(0)
        m1 == Times(-1, Plus(in(-2), in(2)))
        m2 == Minus(in(-1), in(1))
        m3 == Minus(in(3), in(-3))
        even == Plus(Times(Weight(0), m0), Times(Weight(2), m1))
        odd == Plus(Times(Weight(1), m2), Times(Weight(3), m3))
    IN  [u |-> <<even[1] + odd[2], even[2] - odd[1]>>, v |-> <<even[1] - odd[2], even[2] + odd[1]>>]

\* U and V are the projections on the burst axis, V flipped by the switch.
DecodeLine(start, first, last, line, colour) ==
    LET f == FilterUV(start, first, last, line, colour)
        a == DetectAxis(start, line)
    IN  [u |-> -((f.u[1] * a[1]) + (f.u[2] * a[2])),
         v |-> DetectVsw(start, line) * ((f.v[1] * a[2]) - (f.v[2] * a[1]))]

\* A field decodes its active lines, each into frame line 2 * line + offset.
FirstActiveLine(first, offset) == (first + 1 - offset) \div 2
\* The mutant takes the last line itself for the end of the range.
LastActiveLineInclusive(last, offset) == (last - offset) \div 2
LastActiveLine(last, offset) == ((last - offset) \div 2) + 1
DecodeField(start, first, last, offset, colour) ==
    LET f == FirstActiveLine(first, offset)
        e == LastActiveLine(last, offset)
    IN  [frameLine \in {2 * n + offset : n \in ActiveFieldLines(f, e)} |->
            DecodeLine(start, f, e, (frameLine - offset) \div 2, colour)]

-----------------------------------------------------------------------------
(* Transform PAL: half-overlapping tiles.  TilesOver(lo, hi, half) are the   *)
(* tile starts that cover lo .. hi - 1.                                      *)
TilesOver(lo, hi, half) == {t \in (lo - half) .. (hi - 1) : (t - lo) % half = 0}
Covering(tiles, half, x) == {t \in tiles : x \in t .. (t + 2 * half - 1)}

\* filterField(): a field's own lines and columns.
Filter2D(first, last, videoStart, videoEnd) ==
    [y |-> TilesOver(first, last, 8), x |-> TilesOver(videoStart, videoEnd, 16)]
\* filterFields() of the 3D filter also spans the fields; first and last are frame lines.
HalfZTile == 4
Filter3D(first, last, videoStart, videoEnd, startIndex, endIndex) ==
    [z |-> TilesOver(startIndex, endIndex, HalfZTile),
     y |-> TilesOver(first, last + 1, 16), x |-> TilesOver(videoStart, videoEnd, 8)]

\* Frames a 3D decode needs around the ones it decodes.
TransformLookBehind == (HalfZTile + 1) \div 2
TransformLookAhead == (2 * HalfZTile) \div 2

\* Fields that go into a requested field's chroma: all those of the tiles over it;
\* the mutant takes the fields around the requested ones for black.
ReadForRequested(field, startIndex, endIndex) ==
    (startIndex .. (endIndex - 1))
      \cap UNION {t .. (t + 2 * HalfZTile - 1) :
                    t \in Covering(TilesOver(startIndex, endIndex, HalfZTile), HalfZTile, field)}
ReadFor(field, startIndex, endIndex) ==
    UNION {t .. (t + 2 * HalfZTile - 1) :
             t \in Covering(TilesOver(startIndex, endIndex, HalfZTile), HalfZTile, field)}
FilterReads(startIndex, endIndex) ==
    UNION {ReadFor(f, startIndex, endIndex) : f \in startIndex .. (endIndex - 1)}

-----------------------------------------------------------------------------
(* The symmetry filter on a tile of zs x ys bins, in columns xs/8 .. xs/4,   *)
(* and the reflection of each bin around the carrier: zr and yr turn the     *)
(* vertical axes, xs/2 the horizontal one.                                   *)
Bins(t) == (0 .. (t.zs - 1)) \X (0 .. (t.ys - 1)) \X ((t.xs \div 8) .. (t.xs \div 4))
Reflect(t, b) == <<(t.zr + t.zs - b[1]) % t.zs, (t.yr + t.ys - b[2]) % t.ys, (t.xs \div 2) - b[3]>>
Tile2D == [zs |-> 1, zr |-> 0, ys |-> 16, yr |-> 8, xs |-> 32]
Tile3D == [zs |-> 8, zr |-> 2, ys |-> 32, yr |-> 8, xs |-> 16]
\* The bins the filter keeps when Alike(b) says that b and its reflection are
\* similar enough; a bin that is its own reflection is a carrier.
ApplyFilter(t, similar) ==
    {b \in Bins(t) : Reflect(t, b) = b}
      \cup UNION {{b, Reflect(t, b)} : b \in similar}
\* One threshold a bin.
ThresholdsSize(t) == t.zs * t.ys * ((((t.xs \div 2) + 1) \div 4) + 1)
=============================================================================
