---------------------------- MODULE SecamDecoder ----------------------------
(***************************************************************************)
(* The SECAM decoder: what its instances measure on a field, remember from *)
(* one field to the next, and write.                                       *)
(*                                                                         *)
(* Samples are abstracted to what the decisions read: where a row's FM     *)
(* carrier sits (integer frequency units), whether it is strong enough to  *)
(* measure, and which discriminated samples look like FM clicks.  The      *)
(* filters, the discriminator and the de-emphasis are exact.               *)
(*                                                                         *)
(* A capture gives each field (seqNo 1, 2, ...)                            *)
(*   alt      the component its row 0 really carries (0 = Db, 1 = Dr)      *)
(*   shift    how far a converter moved the whole FM block                 *)
(*   porch    the rows with a usable reference carrier on the back porch   *)
(*   wrong    those of them that noise makes read as the other carrier     *)
(*   bottles  the vertical-interval rows with an ident trapezoid           *)
(*   picture  the rows whose picture carrier is strong enough              *)
(*   bias     how far the picture deviates the Db and the Dr carrier       *)
(*   clicks   the <<row, x>> the discriminator leaves in excess            *)
(***************************************************************************)
EXTENDS Integers, Sequences, FiniteSets, SequencesExt, FiniteSetsExt

CONSTANTS
    SecamWorkers,          \* decoder instances of the pool
    SecamCaptures,         \* the captures to try: functions from seqNo to fields
    Modes,            \* chroma_ident_mode values
    Starts,           \* committed activeVideoStart values
    Rows, Width,      \* field raster
    SecamFirst, SecamLast,            \* active frame lines, inclusive
    VideoEnd,                       \* activeVideoEnd
    FirstComponent,                 \* chroma_ident_manual
    Fob, For,                       \* nominal undeviated carriers
    Recentre, MinPair, MaxPair,     \* 10, 90 and 230 kHz
    PorchRows, AutoRows, BottleRows, ContentRows,    \* 8, 8, 4, 16
    Deviation,                      \* of an ident trapezoid
    PorchGap, PorchLength, PorchFloor, PorchFrac,    \* 5, 60, 70, window
    DetectPad, ClickMargin, MaxInterpolated          \* 8, 3, 48

VARIABLES secamCapture, mode, videoStart, inst, latest, earliest
secamVars == <<secamCapture, mode, videoStart, inst, latest, earliest>>

NoPair == <<>>
FieldOffset(seqNo) == (seqNo + 1) % 2
FirstActive(o) == (SecamFirst + 1 - o) \div 2
LastActive(o) == Min({((SecamLast - o) \div 2) + 1, Rows})
ActiveRows(o) == FirstActive(o) .. (LastActive(o) - 1)

-----------------------------------------------------------------------------
(* What a row shows: its carrier, moved with the block and by the picture,  *)
(* no two rows measuring exactly alike (hence the + r).                     *)
TrueComponent(f, r) == (r + f.alt) % 2
Carrier(c) == IF c = 0 THEN Fob ELSE For
PictureFrequency(f, r) ==
    LET c == TrueComponent(f, r) IN Carrier(c) + f.shift + f.bias[c + 1] + r
BottleFrequency(f, r) ==
    LET c == TrueComponent(f, r)
    IN  Carrier(c) + f.shift + (IF c = 1 THEN Deviation ELSE -Deviation)

\* The porch window sits PorchLength samples before the active start, or at a
\* fixed fraction of the row when the start leaves no room for it.
PorchWindow(s) ==
    IF s > PorchFloor /\ s < Width
    THEN <<s - PorchGap - PorchLength, s - PorchGap>> ELSE PorchFrac
\* Where the reference carrier really is: PictureStart is not a setting.
PictureStart == PorchFrac[2] + PorchGap - 1
OnPorch(s) == PorchWindow(s)[2] <= PictureStart

HasPicture(f, o) == 2 * Cardinality(f.picture \cap ActiveRows(o)) > Cardinality(ActiveRows(o))
ValidRows(f, o) ==
    IF ~HasPicture(f, o) THEN {}
    ELSE IF OnPorch(videoStart) THEN f.porch ELSE f.picture
PorchFrequency(f, r) ==
    IF ~OnPorch(videoStart) THEN PictureFrequency(f, r)
    ELSE LET c == TrueComponent(f, r)
         IN  f.shift + Carrier(IF r \in f.wrong THEN 1 - c ELSE c)

-----------------------------------------------------------------------------
(* Carrier calibration.                                                     *)
Middle(p) == (p[1] + p[2]) \div 2
Magnitude(n) == IF n < 0 THEN -n ELSE n

\* The n-th lowest, from 0, of the rows' frequencies.
Nth(rows, frequency, n) ==
    CHOOSE v \in {frequency[r] : r \in rows} :
        /\ Cardinality({r \in rows : frequency[r] < v}) <= n
        /\ n < Cardinality({r \in rows : frequency[r] <= v})

\* The medians of the lower and the upper half of the porch frequencies, when
\* there are enough of them and they lie a plausible distance apart.
MeasuredPair(f, o) ==
    LET rows == ValidRows(f, o)
        freq == [r \in rows |-> PorchFrequency(f, r)]
        n == Cardinality(rows)
        half == n \div 2
        low == Nth(rows, freq, half \div 2)
        high == Nth(rows, freq, half + (n - half) \div 2)
    IN  IF n >= PorchRows /\ high - low > MinPair /\ high - low < MaxPair
        THEN <<low, high>> ELSE NoPair

\* The masks follow the measured block once it has moved past the threshold,
\* and the field is then filtered and measured again with the new masks.
Masks(i, pair) ==
    LET measured == Middle(pair) - Middle(<<Fob, For>>)
    IN  IF pair # NoPair /\ Magnitude(measured - i.offset) > Recentre
        THEN measured ELSE i.offset

\* The mutant prefers the remembered pair to the field's own.
RememberedPairFirst(i, pair) ==
    IF i.lastGood # NoPair THEN i.lastGood ELSE IF pair # NoPair THEN pair ELSE <<Fob, For>>
LastPair(i) == IF i.lastGood # NoPair THEN i.lastGood ELSE <<Fob, For>>
PairFor(i, pair) == IF pair # NoPair THEN pair ELSE LastPair(i)
Remember(i, pair) == [offset |-> Masks(i, pair), lastGood |-> IF pair # NoPair THEN pair ELSE i.lastGood]

-----------------------------------------------------------------------------
(* Line identification.                                                     *)
NoFit == [valid |-> FALSE, anchor |-> 0, agree |-> 0, rows |-> 0]

AlternationFit(rows, high) ==
    LET agree(a) == Cardinality({r \in rows : ((IF r \in high THEN 1 ELSE 0) + r) % 2 = a})
        anchor == IF agree(1) > agree(0) THEN 1 ELSE 0
    IN  IF rows = {} THEN NoFit
        ELSE [valid |-> TRUE, anchor |-> anchor, agree |-> agree(anchor), rows |-> Cardinality(rows)]

PorchFit(f, o, pair) ==
    LET rows == ValidRows(f, o) \cap ActiveRows(o)
    IN  AlternationFit(rows, {r \in rows : PorchFrequency(f, r) > Middle(pair)})

BottleFit(f, o, pair) ==
    LET rows == IF HasPicture(f, o) THEN f.bottles ELSE {}
        fit == AlternationFit(rows, {r \in rows : BottleFrequency(f, r) > Middle(pair)})
    IN  IF Cardinality(rows) < BottleRows THEN NoFit
        ELSE [fit EXCEPT !.valid = 4 * fit.agree >= 3 * fit.rows]

ContentFit(f, o) ==
    LET rows == IF HasPicture(f, o) THEN f.picture \cap ActiveRows(o) ELSE {}
        median == Nth(rows, [r \in rows |-> PictureFrequency(f, r)], Cardinality(rows) \div 2)
    IN  IF Cardinality(rows) < ContentRows THEN NoFit
        ELSE AlternationFit(rows, {r \in rows : PictureFrequency(f, r) > median})

\* BR.469: the alternation runs on from the first active line of field 1.
ManualAnchor(seqNo) ==
    LET anchor0 == (((SecamFirst + 1) \div 2) + FirstComponent) % 2
        i == Max({seqNo - 1, 0})
    IN  (anchor0 + (i + 1) \div 2) % 2

Answer(fit, mechanism) ==
    [anchor |-> IF fit.valid THEN fit.anchor ELSE 0, mechanism |-> mechanism,
     agree |-> IF fit.valid THEN fit.agree ELSE 0, rows |-> Max({fit.rows, 1})]

\* The mutant trusts any porch labels at all.
AutoIdentEager(f, o, pair) ==
    LET porch == PorchFit(f, o, pair)
        bottles == BottleFit(f, o, pair)
    IN  IF porch.valid THEN Answer(porch, "porch")
        ELSE IF bottles.valid THEN Answer(bottles, "bottles")
        ELSE Answer(ContentFit(f, o), "content")
AutoIdent(f, o, pair) ==
    LET porch == PorchFit(f, o, pair)
        bottles == BottleFit(f, o, pair)
    IN  IF porch.valid /\ porch.rows >= AutoRows /\ 5 * porch.agree >= 3 * porch.rows
        THEN Answer(porch, "porch")
        ELSE IF bottles.valid THEN Answer(bottles, "bottles")
        ELSE Answer(ContentFit(f, o), "content")

Ident(f, seqNo, pair) ==
    LET o == FieldOffset(seqNo)
    IN  CASE mode = "manual" -> [anchor |-> ManualAnchor(seqNo), mechanism |-> "manual", agree |-> 1, rows |-> 1]
          [] mode = "porch" -> Answer(PorchFit(f, o, pair), "porch")
          [] mode = "bottles" -> Answer(BottleFit(f, o, pair), "bottles")
          [] mode = "auto" -> AutoIdent(f, o, pair)

-----------------------------------------------------------------------------
(* Click concealment.  A sample is the set of source samples it is made of. *)
DetectRange == Max({0, videoStart - DetectPad}) .. (Min({Width, VideoEnd + DetectPad}) - 1)

\* The span of the run of clicks that starts at x, with a margin on both sides.
SpanAt(flagged, x) ==
    LET runEnd == Min({y \in (x + 1) .. Width : y \notin flagged})
    IN  <<Max({0, x - ClickMargin}), Min({Width, runEnd + ClickMargin})>>
PastRange(x) == \A y \in DetectRange : y < x

\* Left to right: each run of clicks has its span, and the scan goes on after
\* its margin.  The mutant skips the sample after the margin.
ClickSpansSkipping(flagged) ==
    LET Scan[x \in 0 .. Width] ==
            IF PastRange(x) THEN <<>>
            ELSE IF x \notin flagged THEN Scan[x + 1]
            ELSE LET span == SpanAt(flagged, x)
                 IN  <<span>> \o (IF span[2] < Width THEN Scan[span[2] + 1] ELSE <<>>)
    IN  Scan[Min(DetectRange)]
ClickSpans(flagged) ==
    LET Scan[x \in 0 .. Width] ==
            IF PastRange(x) THEN <<>>
            ELSE IF x \notin flagged THEN Scan[x + 1]
            ELSE <<SpanAt(flagged, x)>> \o Scan[SpanAt(flagged, x)[2]]
    IN  Scan[Min(DetectRange)]

\* A short span inside the row is interpolated from its two neighbours, any
\* other is taken from the line of the same component above, or blanked.
ConcealSpan(line, above, span) ==
    [x \in 0 .. (Width - 1) |->
        IF x < span[1] \/ x >= span[2] THEN line[x]
        ELSE IF span[2] - span[1] <= MaxInterpolated /\ span[1] > 0 /\ span[2] < Width
             THEN line[span[1] - 1] \cup line[span[2]]
        ELSE above[x]]
ConcealRow(line, above, spans) ==
    LET After[n \in 0 .. Len(spans)] ==
            IF n = 0 THEN line ELSE ConcealSpan(After[n - 1], above, spans[n])
    IN  After[Len(spans)]

\* Rows go top to bottom: the line above has been through the stage itself.
RowClicks(f, row) == {x \in DetectRange : <<row, x>> \in f.clicks}
RawRow(r) == [x \in 0 .. (Width - 1) |-> {<<r, x>>}]
BlankRow == [x \in 0 .. (Width - 1) |-> {}]
Conceal(f, o) ==
    LET Line[r \in 0 .. (Rows - 1)] ==
            IF r \notin ActiveRows(o) \/ RowClicks(f, r) = {} THEN RawRow(r)
            ELSE ConcealRow(RawRow(r), IF r >= 2 THEN Line[r - 2] ELSE BlankRow, ClickSpans(RowClicks(f, r)))
    IN  Line
ConcealedSpans(f, o) ==
    UNION {{<<r, s>> : s \in Range(ClickSpans(RowClicks(f, r)))} :
           r \in {q \in ActiveRows(o) : RowClicks(f, q) # {}}}

-----------------------------------------------------------------------------
(* Decoding a field and a frame.                                            *)
DecodeSecamField(i, seqNo) ==
    LET f == secamCapture[seqNo]
        o == FieldOffset(seqNo)
        pair == MeasuredPair(f, o)
        used == PairFor(i, pair)
        ident == Ident(f, seqNo, used)
    IN  [inst |-> Remember(i, pair), calibrated |-> pair # NoPair,
         pair |-> used, masks |-> Masks(i, pair), ident |-> ident,
         components |-> [r \in ActiveRows(o) |-> (r + ident.anchor) % 2]]

\* chromaRowComponents of the frame: each field writes its own frame rows.
ChromaRowComponents(a, b) ==
    [y \in 0 .. (2 * Rows - 2) |->
        LET rows == IF y % 2 = 0 THEN a.components ELSE b.components
        IN  IF (y \div 2) \in DOMAIN rows THEN rows[y \div 2] ELSE -1]

\* The reported mechanism is the weaker field's.
Weaker(a, b) ==
    IF b.ident.agree * a.ident.rows < a.ident.agree * b.ident.rows
    THEN b.ident.mechanism ELSE a.ident.mechanism

NotDecoded == [frame |-> 0]
FrameNos == {n \in DOMAIN secamCapture : 2 * n \in DOMAIN secamCapture}

DecodeSecam(w, n) ==
    \E a \in {DecodeSecamField(inst[w], 2 * n - 1)} : \E b \in {DecodeSecamField(a.inst, 2 * n)} :
        LET out == [frame |-> n, fields |-> <<a, b>>,
                    rowComponents |-> ChromaRowComponents(a, b),
                    mechanism |-> Weaker(a, b)]
        IN  /\ inst' = [inst EXCEPT ![w] = b.inst]
            /\ latest' = [latest EXCEPT ![w] = out]
            /\ earliest' = IF earliest[n] = NotDecoded THEN [earliest EXCEPT ![n] = out] ELSE earliest
            /\ UNCHANGED <<secamCapture, mode, videoStart>>

\* configure() forgets everything an earlier capture left behind.
Configured == [offset |-> 0, lastGood |-> NoPair]

SecamInit ==
    /\ secamCapture \in SecamCaptures
    /\ mode \in Modes
    /\ videoStart \in Starts
    /\ inst = [w \in SecamWorkers |-> Configured]
    /\ latest = [w \in SecamWorkers |-> NotDecoded]
    /\ earliest = [n \in FrameNos |-> NotDecoded]

SecamNext == \E w \in SecamWorkers, n \in FrameNos : DecodeSecam(w, n)
SecamSpec == SecamInit /\ [][SecamNext]_secamVars
-----------------------------------------------------------------------------
SecamDecoded == {w \in SecamWorkers : latest[w] # NotDecoded}
FieldsOf(w) == {<<k, latest[w].fields[k]>> : k \in 1 .. 2}
Source(w, k) == secamCapture[2 * (latest[w].frame - 1) + k]

\* A field an operator could identify: most of its porch labels right, or too
\* few of them to count, and a picture with both components in it, apart (among
\* Dr rows alone the median of the picture tells nothing).
Identifiable(f, o) ==
    LET porch == f.porch \cap ActiveRows(o)
        picture == f.picture \cap ActiveRows(o)
    IN  /\ HasPicture(f, o) /\ Cardinality(picture) >= ContentRows
        /\ Cardinality({r \in picture : TrueComponent(f, r) = 0}) >= 2
        /\ 3 * Cardinality(f.wrong \cap porch) < Cardinality(porch) \/ f.wrong = {}
        /\ f.bias[2] - f.bias[1] + For - Fob > Rows

\* Rows are given the component they really carry, whatever fields the instance
\* decoded before and wherever a converter put the FM block: an unmeasurable
\* porch hands over to the bottles, missing bottles to the picture, and a stale
\* or nominal carrier pair must not talk a mechanism into a scrambled lattice.
LatticeIsTrue ==
    \A w \in SecamDecoded : \A p \in FieldsOf(w) :
        LET f == Source(w, p[1])
        IN  mode \in {"auto", "manual"} /\ Identifiable(f, p[1] - 1) =>
                \A r \in DOMAIN p[2].components : p[2].components[r] = TrueComponent(f, r)

\* What LatticeIsTrue rests on besides: a porch long enough to be measured shows
\* both carriers on more than a quarter of its rows, no two fields are moved so
\* far apart that a remembered pair misses a trapezoid, and whoever sets the
\* phase by hand sets it right.
PorchReading(f, c) == {r \in f.porch : TrueComponent(f, r) = c <=> r \notin f.wrong}
LatticeAssumption ==
    /\ {AutoRows, BottleRows, ContentRows} \subseteq Nat \ {0} /\ PorchRows <= AutoRows
    /\ Deviation \in Nat /\ MaxPair \in Nat /\ MinPair < For - Fob /\ For - Fob < MaxPair
    /\ \A c \in SecamCaptures : \A n \in DOMAIN c :
           /\ c[n].alt \in 0 .. 1 /\ c[n].bias \in Int \X Int
           /\ c[n].picture \subseteq 0 .. (Rows - 1) /\ c[n].bottles \subseteq 0 .. (Rows - 1)
           /\ Cardinality(c[n].porch) >= PorchRows =>
                 \A k \in 0 .. 1 : 4 * Cardinality(PorchReading(c[n], k)) > Cardinality(c[n].porch)
           /\ \A s \in {0} \cup {c[m].shift : m \in DOMAIN c} :
                 2 * Magnitude(c[n].shift - s) < For - Fob + 2 * Deviation
           /\ "manual" \in Modes => c[n].alt = ManualAnchor(n)

\* A field that could be calibrated is demodulated against the same carriers and
\* identified the same way by every instance and after every history: memory
\* serves the fields that fail.  The masks are the exception: a block that has
\* not moved past the threshold keeps the masks of an earlier field, so two
\* instances may filter one field with masks as far apart as two thresholds.
CalibratedFieldsRepeat ==
    \A w \in SecamDecoded : \A p \in FieldsOf(w) :
        p[2].calibrated =>
            LET before == earliest[latest[w].frame].fields[p[1]]
            IN  /\ p[2].pair = before.pair /\ p[2].ident = before.ident
                /\ p[2].components = before.components
                /\ Magnitude(p[2].masks - before.masks) <= 2 * Recentre

\* "Same capture and same level give bit-identical output"
\* (docs/api-reference.md): a field that could be calibrated, so that nothing
\* stale is used, is also filtered with the same masks whichever instance
\* decodes it and whatever that instance decoded before.
CalibratedOutputRepeats ==
    \A w \in SecamDecoded : \A p \in FieldsOf(w) :
        p[2].calibrated => p[2].masks = earliest[latest[w].frame].fields[p[1]].masks

\* What CalibrationIsTheFields rests on: captures are numbered from 1 without a
\* gap, and the committed starts leave the porch window on the porch (a start
\* inside the picture measures the picture).
CalibrationAssumption ==
    /\ {Fob, For} \subseteq Int /\ Fob < For
    /\ {Rows, Recentre, MinPair} \subseteq Nat /\ PorchRows \in Nat \ {0}
    /\ \A s \in Starts : OnPorch(s)
    /\ \A c \in SecamCaptures : \A n \in DOMAIN c :
           /\ n \in Nat \ {0} /\ 1 .. n \subseteq DOMAIN c
           /\ c[n].shift \in Int /\ c[n].porch \subseteq 0 .. (Rows - 1)

\* The carrier pair a calibrated field is demodulated against is that field's
\* own, and the masks the picture was filtered with are within the threshold of it.
CarriersAreTheFields ==
    \A w \in SecamDecoded : \A p \in FieldsOf(w) :
        p[2].calibrated =>
            LET shift == Source(w, p[1]).shift
            IN  /\ Magnitude(p[2].pair[1] - Fob - shift) <= Recentre
                /\ Magnitude(p[2].pair[2] - For - shift) <= Recentre
                /\ Magnitude(p[2].masks - shift) <= Recentre

\* Together: the carriers, the identification and the components of a calibrated
\* field depend on that field alone, and its masks do within the threshold.
CalibrationIsTheFields == CalibratedFieldsRepeat /\ CarriersAreTheFields

\* The reported spans say exactly which chroma samples are not the field's own,
\* and no click of the detection range is left outside them.  They depend on the
\* field alone: checked at the first frame decoded.
RowIsTold(f, o, r) ==
    LET row == Conceal(f, o)[r]
        spans == {s[2] : s \in {c \in ConcealedSpans(f, o) : c[1] = r}}
        InSpan(x) == \E s \in spans : s[1] <= x /\ x < s[2]
    IN  \A x \in 0 .. (Width - 1) :
            /\ InSpan(x) <=> row[x] # {<<r, x>>}
            /\ x \in RowClicks(f, r) => InSpan(x)
FirstDecoded(w) == {n \in FrameNos : earliest[n] # NotDecoded} = {latest[w].frame}
ConcealedSpansTellTheTruth ==
    \A w \in SecamDecoded : FirstDecoded(w) => \A p \in FieldsOf(w) :
        \A r \in ActiveRows(p[1] - 1) : RowIsTold(Source(w, p[1]), p[1] - 1, r)

\* What ConcealedSpansTellTheTruth rests on: a raster and settings in samples.
ConcealmentAssumption ==
    /\ {Rows, Width, SecamFirst, DetectPad, ClickMargin} \subseteq Nat
    /\ {SecamLast, VideoEnd} \subseteq Int /\ Starts \subseteq Int
=============================================================================
