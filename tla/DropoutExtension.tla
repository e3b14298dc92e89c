-------------------------- MODULE DropoutExtension --------------------------
(***************************************************************************)
(* The dropout table of a CVBS capture: runs of samples of a frame, sliced *)
(* into the dropouts by field and line the corrector works with.           *)
(***************************************************************************)
EXTENDS Integers, Sequences

ExpectedVersion == 5

firstLineOf(run, samplesPerLine) == run.start \div samplesPerLine
lastLineOf(run, samplesPerLine) == (run.start + run.count - 1) \div samplesPerLine

(* Where the part of a run on a line begins: every line after the first is
   damaged from its first sample. *)
sliceStart(run, line, samplesPerLine) ==
    IF line = firstLineOf(run, samplesPerLine) THEN run.start % samplesPerLine ELSE 0

(* The part of a run on each line it touches, even lines to the first field
   and odd to the second; lines past a field's last are dropped. *)
sliceRunIntoFieldDropouts(run, samplesPerLine, linesPerField) ==
    LET end == run.start + run.count
        first == firstLineOf(run, samplesPerLine)
        last == lastLineOf(run, samplesPerLine)
        slice(line) ==
            [field |-> line % 2, line |-> line \div 2 + 1, startx |-> sliceStart(run, line, samplesPerLine),
             endx |-> IF end < (line + 1) * samplesPerLine THEN end - line * samplesPerLine ELSE samplesPerLine]
        kept == IF last \div 2 + 1 <= linesPerField THEN last ELSE 2 * linesPerField - 1
    IN  [i \in 1..(kept - first + 1) |-> slice(first + i - 1)]

(* Runs with no samples, or from before the frame, are passed over; a table
   of another version is refused. *)
readCvbsDropoutsExtension(table, samplesPerLine, linesPerField) ==
    LET kept == {i \in DOMAIN table.runs : table.runs[i].count > 0 /\ table.runs[i].start >= 0}
        slices(frame) ==
            LET upTo[i \in 0..Len(table.runs)] ==
                    IF i = 0 THEN <<>>
                    ELSE IF i \notin kept \/ table.runs[i].frame # frame THEN upTo[i - 1]
                    ELSE upTo[i - 1]
                            \o sliceRunIntoFieldDropouts(table.runs[i], samplesPerLine, linesPerField)
            IN  upTo[Len(table.runs)]
        ok == table.version = ExpectedVersion
    IN  [ok |-> ok, frames |-> IF ok THEN [frame \in {table.runs[i].frame : i \in kept} |-> slices(frame)]
                               ELSE <<>>]
=============================================================================
