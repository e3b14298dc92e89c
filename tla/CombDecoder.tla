---------------------------- MODULE CombDecoder -----------------------------
(***************************************************************************)
(* The NTSC comb filter: how one call of Comb::decodeFrames walks the      *)
(* fields it is given, where each chroma sample comes from, and what is    *)
(* demodulated.  Pictures are flat along a row, so every sample repeats    *)
(* after four columns and the horizontal filters are exact; amplitudes are *)
(* multiples of 4, one such unit standing for 100 IRE, so that two rows    *)
(* either agree or differ by more than the filter's 45 IRE range.          *)
(*                                                                         *)
(* A frame is [row, phase, ids]: row[l] = [b, d, i, q] gives the luma, the *)
(* luma detail at the subcarrier frequency and the chroma of frame line l; *)
(* phase is the parity of the colour frame the signal really is in; ids    *)
(* are the phase IDs its metadata gives to its two fields.                 *)
(***************************************************************************)
EXTENDS Integers, Sequences, FiniteSets, FiniteSetsExt

CONSTANTS FirstLine, LastLine        \* active frame lines, inclusive
\* Every active line has another two lines away, in its own field.
ASSUME LinesAssumption == FirstLine \in Nat /\ LastLine \in Nat /\ LastLine >= FirstLine + 3

Lines == FirstLine .. LastLine
Columns == 0 .. 3
Abs(x) == IF x < 0 THEN -x ELSE x

-----------------------------------------------------------------------------
(* The signal.  227.5 subcarrier cycles a line: the carrier flips from each *)
(* line to the next in time, and a first field has 263 lines.               *)
LinesBefore(l) == IF l % 2 = 0 THEN l \div 2 ELSE 263 + (l \div 2)
Positive(phase, l) == (525 * phase + LinesBefore(l)) % 2 = 0
OnCarrier(i, q, h) == <<-q, i, q, -i>>[(h % 4) + 1]
Detail(h) == <<1, 0, -1, 0>>[(h % 4) + 1]
Raw(frame, l, h) ==
    LET r == frame.row[l]
        c == OnCarrier(r.i, r.q, h)
    IN  r.b + (r.d * Detail(h)) + (IF Positive(frame.phase, l) THEN c ELSE -c)

\* The phase IDs of the fields of a frame that is labelled truly.
TrueIds(phase) == IF phase = 0 THEN <<1, 2>> ELSE <<3, 4>>

-----------------------------------------------------------------------------
(* A loaded frame buffer: the frame and its 1D and 2D chroma.               *)
GetFieldID(buf, l) == buf.frame.ids[(l % 2) + 1]
\* The mutant reads the phase of both fields from the first one's ID.
GetLinePhaseFirstField(buf, l) == ((l \div 2) % 2 = 0) = (buf.frame.ids[1] \in {1, 4})
GetLinePhase(buf, l) == ((l \div 2) % 2 = 0) = (GetFieldID(buf, l) \in {1, 4})

Split1D(frame) ==
    [l \in Lines |-> [h \in Columns |-> (Raw(frame, l, h) - Raw(frame, l, h + 2)) \div 2]]

\* One row is usable for another's chroma when their magnitudes agree, here and
\* one column to the left; a row outside the picture is black.
Left(h) == (h + 3) % 4
Alike(x, y, h) == Abs(x[h]) = Abs(y[h]) /\ Abs(x[Left(h)]) = Abs(y[Left(h)])
Blend(x, p, n, h) ==
    IF Alike(x, p, h) = Alike(x, n, h)
      THEN IF Alike(x, p, h) \/ Abs(p[h]) = Abs(n[h]) THEN (2 * x[h] - p[h] - n[h]) \div 4 ELSE 0
      ELSE IF Alike(x, p, h) THEN (x[h] - p[h]) \div 2 ELSE (x[h] - n[h]) \div 2
BlackLine == [h \in Columns |-> 0]
Split2D(one) ==
    LET row(l) == IF l \in Lines THEN one[l] ELSE BlackLine
    IN  [l \in Lines |-> [h \in Columns |-> Blend(row(l), row(l - 2), row(l + 2), h)]]

LoadFields(frame) == LET one == Split1D(frame) IN [frame |-> frame, one |-> one, two |-> Split2D(one)]

\* A buffer nothing was loaded into.
EmptyRow == [b |-> 0, d |-> 0, i |-> 0, q |-> 0]
FreshBuffer == LoadFields([row |-> [l \in Lines |-> EmptyRow], phase |-> 0, ids |-> <<0, 0>>])

-----------------------------------------------------------------------------
(* 3D: the eight candidates for a sample, each said to be half a cycle away *)
Candidates == 0 .. 7        \* left, right, up, down, previous and next field, previous and next frame
PrevField == 4
PrevFrame == 6

\* The adjacent lines of the neighbouring fields may be of another frame.
Places(prev, cur, next, l, h) ==
    LET same == GetLinePhase(cur, l) = GetLinePhase(cur, l - 1)
    IN  [c \in Candidates |-> CASE c = 0 -> <<cur, l, h - 2>> [] c = 1 -> <<cur, l, h + 2>>
           [] c = 2 -> <<cur, l - 2, h>> [] c = 3 -> <<cur, l + 2, h>>
           [] c = 4 -> <<IF same THEN prev ELSE cur, l - 1, h>>
           [] c = 5 -> <<IF same THEN cur ELSE next, l + 1, h>>
           [] c = 6 -> <<prev, l, h>> [] OTHER -> <<next, l, h>>]

\* In 1/300 IRE, adaptThreshold and chromaWeight at their default of 1.
Bonus(c) == IF c < 2 THEN 0 ELSE IF c < 4 THEN -600 ELSE IF c < 6 THEN -1200 ELSE -1800
NotViable == 300000
QuarterTurns(buf, l, h) == (IF GetLinePhase(buf, l) THEN 2 ELSE 0) + h
Viable(cur, l, h, place) ==
    /\ place[2] \in Lines
    /\ (2 + QuarterTurns(cur, l, h)) % 4 = QuarterTurns(place[1], place[2], place[3]) % 4

Penalty(cur, l, h, place, c) ==
    LET col(x) == (x + 4) % 4
        y(buf, line, x) == Raw(buf.frame, line, x + 4) - buf.two[line][col(x)]
        luma(o) == Abs(y(cur, l, h + o) - y(place[1], place[2], place[3] + o))
        chroma(o) == Abs(cur.two[l][col(h + o)] + place[1].two[place[2]][col(place[3] + o)])
    IN  IF ~Viable(cur, l, h, place) THEN NotViable
        ELSE 2500 * (luma(-1) + luma(0) + luma(1))
             + 525 * (chroma(-1) + 2 * chroma(0) + chroma(1)) + Bonus(c)

GetBestCandidate(cfg, prev, cur, next, l, h) ==
    IF ~cfg.adaptive THEN PrevFrame
    ELSE LET place == Places(prev, cur, next, l, h)
             \* The first of the lowest penalties.
             ranked == {8 * Penalty(cur, l, h, place[c], c) + c : c \in Candidates}
         IN  Min(ranked) % 8

Split3D(cfg, prev, cur, next) ==
    [l \in Lines |-> [h \in Columns |->
        LET best == GetBestCandidate(cfg, prev, cur, next, l, h)
            place == Places(prev, cur, next, l, h)[best]
        IN  IF best < PrevField THEN cur.two[l][h]
            ELSE (cur.one[l][h] - place[1].one[place[2]][(place[3] + 4) % 4]) \div 2]]

-----------------------------------------------------------------------------
(* Demodulation.  With phase compensation the axes follow the line's own    *)
(* burst, which carries the true phase; without, they follow the phase IDs. *)
SplitIQ(cfg, buf, chroma, l) ==
    LET positive == IF cfg.phaseCompensation THEN Positive(buf.frame.phase, l) ELSE GetLinePhase(buf, l)
        cavg(h) == IF positive THEN -chroma[l][h] ELSE chroma[l][h]
    IN  [i |-> -cavg(1), q |-> cavg(0)]
\* The chroma that comes out is taken back out of the luma.
AdjustY(buf, chroma, l) == [h \in Columns |-> Raw(buf.frame, l, h) - chroma[l][h]]

DecodeBuffers(cfg, prev, cur, next) ==
    LET chroma == CASE cfg.dimensions = 1 -> cur.one
                    [] cfg.dimensions = 2 -> cur.two
                    [] OTHER -> Split3D(cfg, prev, cur, next)
    IN  [l \in Lines |-> [iq |-> SplitIQ(cfg, cur, chroma, l), y |-> AdjustY(cur, chroma, l)]]

-----------------------------------------------------------------------------
(* One call: frames is what loadFields() gathered, start of them ahead of   *)
(* the count frames asked for.                                              *)
LookBehind(cfg) == IF cfg.dimensions = 3 THEN 1 ELSE 0
LookAhead(cfg) == IF cfg.dimensions = 3 THEN 1 ELSE 0

\* Three buffers rotate in iteration k; the next one keeps what the recycled
\* buffer held when the input has ended.
Rotate(bufs, frames, k) ==
    [prev |-> bufs.cur, cur |-> bufs.next,
     next |-> IF k + 1 < Len(frames) THEN LoadFields(frames[k + 2]) ELSE bufs.prev]
FreshBuffers == [prev |-> FreshBuffer, cur |-> FreshBuffer, next |-> FreshBuffer]
PreStart(dimensions, start) == IF dimensions = 3 THEN start - 2 ELSE start - 1

\* The monochrome decoder shows the whole signal as luma and looks at no other frame.
DecodeMono(frame) ==
    [l \in Lines |-> [iq |-> [i |-> 0, q |-> 0], y |-> [h \in Columns |-> Raw(frame, l, h)]]]

=============================================================================
