--------------------------- MODULE PictureGeometry ---------------------------
(***************************************************************************)
(* From a decoded component frame to the planes a caller reads: the crop,  *)
(* the padding, the buffers OutputWriter fills, the pointers and strides   *)
(* chd_frame_get_plane hands out, the 4:4:0 chroma planes, and the dropout *)
(* spans and masks that promise the same framing.                          *)
(*                                                                         *)
(* A sample is named by where it comes from, <<component, frame row, x>>;  *)
(* colour conversion keeps that name.  A border is "black" or "neutral".   *)
(***************************************************************************)
EXTENDS Integers, Sequences, FiniteSets, SequencesExt, FiniteSetsExt

CONSTANTS
    FieldWidth, FieldHeight,
    Crops,          \* the crops a caller may commit
    Paddings,       \* output_padding values
    Formats,        \* committed pixel formats
    Damages,        \* dropout records of the two fields of a frame
    Concealments,   \* spans a decode conceals: [frameRow, x0, x1]
    OverDots        \* 24

\* Crops: end is exclusive, last is not.  A dropout record has a field line, counted from 1,
\* and the field's offset in the frame.
DropoutRecord == [line : Int, offset : {0, 1}, x0 : Int, x1 : Int]
ConcealedSpan == [frameRow : Int, x0 : Int, x1 : Int]
ASSUME PictureAssumption ==
    /\ FieldWidth \in Nat /\ FieldHeight \in Nat /\ OverDots \in Nat
    /\ Crops \subseteq [start : Int, end : Int, first : Int, last : Int]
    /\ Paddings \subseteq Nat
    /\ Damages \subseteq SUBSET DropoutRecord
    /\ Concealments \subseteq SUBSET ConcealedSpan

VARIABLES crop, padding, format, damage, picture, concealed, mask,
          writer          \* what updateConfiguration works out when a decoder is committed
pictureVars == <<crop, padding, format, damage, picture, concealed, mask, writer>>

Clamp(v, lo, hi) == Max({lo, Min({v, hi})})
FrameHeight == 2 * FieldHeight - 1

-----------------------------------------------------------------------------
(* Committed geometry.                                                      *)
ActiveWidth == crop.end - crop.start
ActiveHeight == crop.last - crop.first + 1

\* An axis grows to a multiple of the padding one step at a time, after the
\* picture when the size so far is even and before it when it is odd: as many
\* steps before it as odd sizes are passed.
Pad(active) ==
    LET steps == IF padding > 1 THEN (-active) % padding ELSE 0
        before == (active + steps) \div 2 - active \div 2
    IN  <<before, steps - before>>
Configured ==
    LET across == Pad(ActiveWidth)
        down == Pad(ActiveHeight)
    IN  [left |-> across[1], width |-> across[1] + ActiveWidth + across[2],
         top |-> down[1], height |-> down[1] + ActiveHeight + down[2]]
LeftPad == writer.left
TopPad == writer.top
OutputWidth == writer.width
OutputHeight == writer.height

ValidCrop(c) ==
    /\ 0 <= c.start /\ c.start < c.end /\ c.end <= FieldWidth
    /\ 0 <= c.first /\ c.first <= c.last /\ c.last < FrameHeight

-----------------------------------------------------------------------------
(* Formats.                                                                 *)
Is440(f) == f \in {"YUV440P16", "YUV440PS"}
IsFloat(f) == f \in {"YUV444PS", "RGBS", "GRAYS", "YUV440PS"}
Planes(f) ==
    CASE f \in {"GRAY16", "GRAYS"} -> <<"Y">>
      [] f \in {"RGB48", "RGBS"} -> <<"R", "G", "B">>
      [] OTHER -> <<"Y", "CB", "CR">>
Border(f, plane) ==
    IF plane \in {"CB", "CR"} THEN "neutral" ELSE "black"
MaskFormat(f) == IF IsFloat(f) THEN "GRAYS" ELSE "GRAY16"

-----------------------------------------------------------------------------
(* The rows of the two 4:4:0 chroma planes: the component's active rows,    *)
(* woven so that a plane row keeps the parity of its output row.            *)
ComponentRows(map, c, parity) ==
    LET rows == {y \in 0 .. (ActiveHeight - 1) :
                    map[crop.first + y] = c /\ (TopPad + y) % 2 = parity}
        Before(y) == Cardinality({z \in rows : z < y})
    IN  [k \in 1 .. Cardinality(rows) |-> CHOOSE y \in rows : Before(y) = k - 1]
WeaveRows(map, c) ==
    LET even == ComponentRows(map, c, 0)
        odd == ComponentRows(map, c, 1)
    IN  [k \in 1 .. 2 * Len(even) |->
            IF k % 2 = 1 THEN even[(k + 1) \div 2] ELSE odd[k \div 2]]
WeavesEvenly(map) ==
    \A c \in {0, 1} : Len(ComponentRows(map, c, 0)) = Len(ComponentRows(map, c, 1))
HasRowMap(map) == crop.first + ActiveHeight - 1 \in DOMAIN map

\* The picture rows of each plane, in the order they are written.
PlaneRows(f, map, plane) ==
    IF Is440(f) /\ plane = "CB" THEN WeaveRows(map, 0)
    ELSE IF Is440(f) /\ plane = "CR" THEN WeaveRows(map, 1)
    ELSE [i \in 1 .. ActiveHeight |-> i - 1]
PlaneHeight(f, map, plane) ==
    IF Is440(f) /\ plane # "Y" THEN Len(PlaneRows(f, map, plane)) ELSE OutputHeight
FirstFrameRow(f, map, plane) ==
    LET rows == PlaneRows(f, map, plane)
    IN  IF ~Is440(f) \/ plane = "Y" \/ rows = <<>> THEN 0 ELSE rows[1] + TopPad

-----------------------------------------------------------------------------
(* The buffer: where convert puts the sample of a plane's k-th picture row  *)
(* and active column x, and where get_plane sends the caller for the sample *)
(* of plane row y and column x.                                             *)
PlaneBase(f, map, plane) ==
    LET size == OutputWidth * OutputHeight
    IN  IF IsFloat(f) \/ plane = "Y" THEN 0
        ELSE IF f = "RGB48" THEN (CHOOSE i \in 1 .. 3 : Planes(f)[i] = plane) - 1
        ELSE IF plane = "CB" THEN size
        ELSE IF Is440(f) THEN size + OutputWidth * PlaneHeight(f, map, "CB")
        ELSE 2 * size
Pixel(f) == IF f = "RGB48" THEN 3 ELSE 1

\* A chroma plane of a 4:4:0 frame has no border rows of its own.  The mutant
\* forgets the top border.
WriteRowUnpadded(f, plane, k) == k - 1
WriteRow(f, plane, k) == IF Is440(f) /\ plane # "Y" THEN k - 1 ELSE TopPad + k - 1
WriteAt(f, map, plane, k, x) ==
    PlaneBase(f, map, plane) + Pixel(f) * (OutputWidth * WriteRow(f, plane, k) + LeftPad + x)
ReadAt(f, map, plane, y, x) ==
    PlaneBase(f, map, plane) + Pixel(f) * (OutputWidth * y + x)

Written(f, map, plane) ==
    LET rows == PlaneRows(f, map, plane)
    IN  [w \in (DOMAIN rows) \X (0 .. (ActiveWidth - 1)) |->
            [at |-> WriteAt(f, map, plane, w[1], w[2]),
             value |-> <<plane, crop.first + rows[w[1]], crop.start + w[2]>>]]

\* Integer formats share one buffer, so every plane's writes count; a float
\* plane is a buffer of its own.  What nothing wrote is border.
Buffer(f, map, plane) ==
    LET planes == IF IsFloat(f) THEN {plane} ELSE Range(Planes(f))
        writes == UNION {Range(Written(f, map, p)) : p \in planes}
        ats == {w.at : w \in writes}
    IN  [i \in ats |-> (CHOOSE w \in writes : w.at = i).value]

ReadPlane(fr, plane) ==
    LET buffer == Buffer(fr.format, fr.map, plane)
    IN  [y \in 0 .. (PlaneHeight(fr.format, fr.map, plane) - 1) |->
            [x \in 0 .. (OutputWidth - 1) |->
                LET at == ReadAt(fr.format, fr.map, plane, y, x)
                IN  IF at \in DOMAIN buffer THEN buffer[at] ELSE Border(fr.format, plane)]]

\* chd_frame_chroma_row_component: one entry per output row, -1 on the border.
RowComponent(fr, y) ==
    IF TopPad <= y /\ y < TopPad + ActiveHeight
    THEN fr.map[crop.first + y - TopPad] ELSE -1

-----------------------------------------------------------------------------
(* Dropout spans: [y, x0, x1, origin] in output framing.                    *)
Widened(d, mode) ==
    IF mode = "detected" THEN <<d.x0, d.x1>>
    ELSE <<IF d.x0 > OverDots THEN d.x0 - OverDots ELSE 0,
           IF d.x1 < FieldWidth - OverDots THEN d.x1 + OverDots ELSE FieldWidth>>

\* The mutant forgets which field the record belongs to.
FieldSpansInField(mode) ==
    LET Row(d) == TopPad + 2 * (d.line - 1) - crop.first
        X0(d) == Max({Widened(d, mode)[1], crop.start})
        X1(d) == Min({Widened(d, mode)[2], crop.end})
    IN  {[y |-> Row(d), x0 |-> X0(d) - crop.start + LeftPad,
          x1 |-> X1(d) - crop.start + LeftPad, origin |-> "metadata"] :
            d \in {e \in damage : 0 <= Row(e) /\ Row(e) < OutputHeight /\ X0(e) < X1(e)}}
FieldSpans(mode) ==
    LET Row(d) == TopPad + 2 * (d.line - 1) + d.offset - crop.first
        X0(d) == Max({Widened(d, mode)[1], crop.start})
        X1(d) == Min({Widened(d, mode)[2], crop.end})
    IN  {[y |-> Row(d), x0 |-> X0(d) - crop.start + LeftPad,
          x1 |-> X1(d) - crop.start + LeftPad, origin |-> "metadata"] :
            d \in {e \in damage : 0 <= Row(e) /\ Row(e) < OutputHeight /\ X0(e) < X1(e)}}

\* Spans the decoder concealed, clipped to the crop before they are published.
PublishedSpans(spans) ==
    LET X(x) == Clamp(x - crop.start, 0, ActiveWidth) + LeftPad
    IN  {[y |-> s.frameRow - crop.first + TopPad, x0 |-> X(s.x0), x1 |-> X(s.x1),
          origin |-> "concealment"] :
            s \in {t \in spans : crop.first <= t.frameRow /\ t.frameRow <= crop.last
                                 /\ X(t.x0) < X(t.x1)}}

Spans(mode) == FieldSpans(mode) \cup concealed
MaskOf(spans) == UNION {{<<s.y, x>> : x \in s.x0 .. (s.x1 - 1)} : s \in spans}

-----------------------------------------------------------------------------
(* Decoding a frame, whose component map is map (empty when the decoder     *)
(* wrote none), and asking for its mask.                                    *)
NoFrame == [status |-> "none", spans |-> {}]

DecodeFrame(map, spans) ==
    /\ picture' = IF Is440(format) /\ ~(HasRowMap(map) /\ WeavesEvenly(map))
                THEN [status |-> "internal", spans |-> spans]
                ELSE [status |-> "ok", format |-> format, map |-> map, spans |-> spans]
    \* Concealed spans are cached before the conversion that may fail.
    /\ concealed' = PublishedSpans(spans)
    /\ UNCHANGED <<crop, padding, format, damage, mask, writer>>

DecodeMask(mode) ==
    /\ mask' = [mode |-> mode, format |-> MaskFormat(format),
                spans |-> picture.spans, marked |-> MaskOf(Spans(mode))]
    /\ UNCHANGED <<crop, padding, format, damage, picture, concealed, writer>>

\* Two fields whose rows alternate between the components, each from its own
\* anchor: the map a SECAM decode leaves.
LatticeMap(anchors) ==
    [y \in 0 .. (FrameHeight - 1) |->
        IF y < crop.first \/ y > crop.last THEN -1
        ELSE ((y \div 2) + anchors[(y % 2) + 1]) % 2]

\* Only a multiple of four active lines is committed for a 4:4:0 format.
PictureInit ==
    /\ crop \in {c \in Crops : ValidCrop(c)}
    /\ padding \in Paddings
    /\ writer = Configured
    /\ format \in {f \in Formats : Is440(f) => ActiveHeight % 4 = 0}
    /\ damage \in Damages
    /\ picture = NoFrame
    /\ concealed = {}
    /\ mask = [mode |-> "none", format |-> "none", spans |-> {}, marked |-> {}]

PictureNext ==
    \/ \E anchors \in {0, 1} \X {0, 1}, spans \in Concealments :
           DecodeFrame(LatticeMap(anchors), spans)
    \/ \E mode \in {"detected", "overcorrect"} : DecodeMask(mode)
PictureSpec == PictureInit /\ [][PictureNext]_pictureVars

-----------------------------------------------------------------------------
PictureRow(y) == TopPad <= y /\ y < TopPad + ActiveHeight
PictureColumn(x) == LeftPad <= x /\ x < LeftPad + ActiveWidth
SourceRow(y) == crop.first + y - TopPad
SourceColumn(x) == crop.start + x - LeftPad

\* Whatever the format, crop and padding, the pointer and stride a caller is
\* given read back the picture's own samples, in place, and border elsewhere.
PlanesReadBack ==
    picture.status = "ok" /\ ~Is440(format) =>
        \A i \in DOMAIN Planes(format) :
            LET plane == Planes(format)[i]
                read == ReadPlane(picture, plane)
            IN  \A y \in 0 .. (OutputHeight - 1), x \in 0 .. (OutputWidth - 1) :
                    read[y][x] = IF PictureRow(y) /\ PictureColumn(x)
                                 THEN <<plane, SourceRow(y), SourceColumn(x)>>
                                 ELSE Border(format, plane)

\* A line-sequential frame converts, its chroma planes hold each active row of
\* their component once, on the plane row of the same field parity and never
\* out of order, and first_frame_row and the row map name the same rows.
ChromaPlanesKeepFields ==
    /\ picture.status # "internal"
    /\ picture.status = "ok" /\ Is440(format) =>
        /\ \A c \in {0, 1} :
            LET plane == Planes(format)[c + 2]
                read == ReadPlane(picture, plane)
                row(k) == read[k][LeftPad][2] - crop.first + TopPad
                rows == DOMAIN read
            IN  /\ \A k \in rows, x \in 0 .. (OutputWidth - 1) :
                       read[k][x] = IF PictureColumn(x)
                                    THEN <<plane, SourceRow(row(k)), SourceColumn(x)>>
                                    ELSE "neutral"
                /\ {row(k) : k \in rows}
                        = {y \in 0 .. (OutputHeight - 1) : RowComponent(picture, y) = c}
                /\ \A k \in rows : row(k) % 2 = k % 2
                /\ \A k, l \in rows : k < l /\ k % 2 = l % 2 => row(k) < row(l)
                /\ row(0) = FirstFrameRow(format, picture.map, plane)
        /\ \A y \in 0 .. (OutputHeight - 1), x \in 0 .. (OutputWidth - 1) :
               ReadPlane(picture, "Y")[y][x] =
                   IF PictureRow(y) /\ PictureColumn(x)
                   THEN <<"Y", SourceRow(y), SourceColumn(x)>> ELSE "black"

\* Together: the planes handed out are the picture.
PlanesKeepThePicture == PlanesReadBack /\ ChromaPlanesKeepFields

\* The mask marks a picture sample exactly when the source sample it stands for
\* lies in a dropout record of its field, or in a span the last decode concealed.
MaskMatchesPicture ==
    mask.mode # "none" =>
        LET dots == IF mask.mode = "detected" THEN 0 ELSE OverDots
            Damaged(r, x) == \E d \in damage : /\ 2 * (d.line - 1) + d.offset = r
                                              /\ d.x0 - dots <= x /\ x < d.x1 + dots
            Concealed(r, x) == \E s \in mask.spans : s.frameRow = r /\ s.x0 <= x /\ x < s.x1
        IN  \A y \in 0 .. (OutputHeight - 1), x \in 0 .. (OutputWidth - 1) :
                PictureRow(y) /\ PictureColumn(x) =>
                    LET r == SourceRow(y)
                        c == SourceColumn(x)
                    IN  <<y, x>> \in mask.marked <=> Damaged(r, c) \/ Concealed(r, c)

=============================================================================
