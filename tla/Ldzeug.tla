------------------------------- MODULE Ldzeug -------------------------------
(***************************************************************************)
(* The rows of a frame the ldzeug2 decoders put together: which field line *)
(* each comes from, and on which line, with which carrier sign, the burst  *)
(* its chroma is rotated by was measured.  The networks give each line its *)
(* own result, so a line stands for its pixels.                            *)
(*                                                                         *)
(* A frame is the pair of fields of one call, in the order they were read: *)
(* [offset, id] each, the interlace offset and the phase ID.               *)
(***************************************************************************)
EXTENDS Integers, Sequences

CONSTANTS
    FieldHeight,          \* lines of a field
    ActiveRows            \* firstActiveFrameLine .. lastActiveFrameLine

LdzeugKinds == {"colourField", "colourFrame", "lumaField", "lumaFrame"}
PerField(kind) == kind \in {"colourField", "lumaField"}
Colour(kind) == kind \in {"colourField", "colourFrame"}

FieldRows == 0 .. FieldHeight - 1
FrameRows == 0 .. (2 * FieldHeight) - 1
\* ComponentFrame drops the second field's trailing row.
StoredRows == 0 .. (2 * FieldHeight) - 2
FrameLine(frame, sub, y) == (2 * y) + frame[sub].offset

Unmeasured == <<>>
Unwritten == <<>>
NoRows == [r \in StoredRows |-> Unwritten]

-----------------------------------------------------------------------------
(* The colour network: bursts are measured while the input is packed, into  *)
(* a table kept for the whole call.                                         *)
FieldPhaseSign(id) == IF id \in {2, 3} THEN -1 ELSE 1
RowSign(frame, sub, y) == FieldPhaseSign(frame[sub].id) * (IF y % 2 = 1 THEN -1 ELSE 1)

\* The mutant keeps one entry for each field row, even for a woven frame.
TableRowOfField(kind, frame, sub, y) == y
TableRow(kind, frame, sub, y) == IF PerField(kind) THEN y ELSE FrameLine(frame, sub, y)

Measured(kind, k, frame, subs, table) ==
    [n \in FrameRows |->
        LET hits == {e \in subs \X FieldRows : TableRow(kind, frame, e[1], e[2]) = n}
        IN  IF hits = {} THEN table[n]
            ELSE LET e == CHOOSE e \in hits : \A o \in hits : o[1] <= e[1]
                 IN  [k |-> k, sub |-> e[1], y |-> e[2], sign |-> RowSign(frame, e[1], e[2])]]

-----------------------------------------------------------------------------
(* The luma network: chroma is demodulated from what it leaves, with the    *)
(* comb's line phase, which counts the fields in interlace order.           *)
FramePhaseIDs(frame) ==
    IF frame[1].offset = 0 THEN <<frame[1].id, frame[2].id>> ELSE <<frame[2].id, frame[1].id>>
LinePhase(frame, line) ==
    ((line \div 2) % 2 = 0) = (FramePhaseIDs(frame)[(line % 2) + 1] \in {1, 4})
NominalSign(frame, line) == IF LinePhase(frame, line) THEN 1 ELSE -1

-----------------------------------------------------------------------------
(* The rows after an inference over the fields subs of the frame.           *)
Woven(kind, k, frame, subs, table, rows) ==
    [r \in StoredRows |->
        IF \E s \in subs, y \in FieldRows : FrameLine(frame, s, y) = r
          THEN LET e == CHOOSE e \in subs \X FieldRows : FrameLine(frame, e[1], e[2]) = r
               IN  [sub |-> e[1], y |-> e[2],
                    burst |-> IF Colour(kind) THEN table[TableRow(kind, frame, e[1], e[2])]
                              ELSE IF r \in ActiveRows
                                THEN [k |-> k, sub |-> e[1], y |-> e[2], sign |-> NominalSign(frame, r)]
                                ELSE Unmeasured]
          ELSE rows[r]]

\* The line a stored row must show, whatever order its fields were read in, and the
\* burst that belongs to it.
TrueRow(kind, k, frame, r) ==
    LET s == IF frame[1].offset = r % 2 THEN 1 ELSE 2
        y == r \div 2
        positive == (y % 2 = 0) = (frame[s].id \in {1, 4})
    IN  [sub |-> s, y |-> y,
         burst |-> IF Colour(kind) \/ r \in ActiveRows
                     THEN [k |-> k, sub |-> s, y |-> y, sign |-> IF positive THEN 1 ELSE -1]
                     ELSE Unmeasured]
=============================================================================
