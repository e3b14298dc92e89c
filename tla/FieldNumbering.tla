--------------------------- MODULE FieldNumbering ---------------------------
(***************************************************************************)
(* How frames are made of fields (src/src/metadata/core.cpp) and which      *)
(* fields a decode loads for one frame (src/src/decoders/source_field.cpp). *)
(*                                                                          *)
(* A capture is a sequence of fields; its metadata says of each whether it  *)
(* is the first field of an interlaced pair.  Here the metadata is the      *)
(* sequence of those isFirstField flags, and firstFieldFirst is the         *)
(* metadata-wide isFirstFieldFirst.  Frames and fields count from 1.        *)
(***************************************************************************)
EXTENDS Integers, Sequences

\* getField() hands out an empty field for a number out of range, and an empty
\* field is not a first field.
IsFirstField(isFirst, n) == n \in 1 .. Len(isFirst) /\ isFirst[n]

\* The mutant counts every stored pair of fields as a frame.
NumberOfPairs(isFirst, firstFieldFirst) == Len(isFirst) \div 2

NumberOfFrames(isFirst, firstFieldFirst) ==
  Len(isFirst) \div 2 - IF IsFirstField(isFirst, 1) = firstFieldFirst THEN 0 ELSE 1

NoFields == [first |-> -1, second |-> -1]

\* Where the search for a frame's first field starts, and how far its second
\* field is from it.
SearchStart(firstFieldFirst, frame) == IF firstFieldFirst THEN 2 * frame - 1 ELSE 2 * frame
ToSecond(firstFieldFirst) == IF firstFieldFirst THEN 1 ELSE -1

InFile(isFirst, firstFieldFirst, n) ==
  n <= Len(isFirst) /\ n + ToSecond(firstFieldFirst) <= Len(isFirst)

\* The search goes forward field by field from the start to the next first field;
\* after its first step it also stops where the frame runs off the file.
SearchStops(isFirst, firstFieldFirst, start) ==
  {n \in start .. start + Len(isFirst) + 1 :
     \/ IsFirstField(isFirst, n)
     \/ n > start /\ ~InFile(isFirst, firstFieldFirst, n)}

Least(S) == CHOOSE n \in S : \A m \in S : n <= m

\* The mutant takes the pair where the search would start.
FieldNumbersUnsearched(isFirst, firstFieldFirst, frame) ==
  LET n == SearchStart(firstFieldFirst, frame)
  IN  IF frame >= 1 /\ InFile(isFirst, firstFieldFirst, n)
        THEN [first |-> n, second |-> n + ToSecond(firstFieldFirst)]
        ELSE NoFields

\* getFieldNumber(), both fields at once.
FieldNumbers(isFirst, firstFieldFirst, frame) ==
  LET n == Least(SearchStops(isFirst, firstFieldFirst, SearchStart(firstFieldFirst, frame)))
  IN  IF frame >= 1 /\ InFile(isFirst, firstFieldFirst, n)
        THEN [first |-> n, second |-> n + ToSecond(firstFieldFirst)]
        ELSE NoFields

\* What loadFields() puts in place of a frame it cannot take from the capture.
Blank == [first |-> 0, second |-> 0]

\* loadFields() for one frame, given what it read of the frame count and of the
\* two field numbers; sourceFields is the number of fields in the sample file, -1
\* when a stream cannot tell.
LoadedFields(isFirst, sourceFields, count, frame, numbers) ==
  IF /\ frame \in 1 .. count
     /\ numbers.first \in 1 .. Len(isFirst)
     /\ numbers.second \in 1 .. Len(isFirst)
     /\ sourceFields # -1 =>
          numbers.first <= sourceFields /\ numbers.second <= sourceFields
    THEN numbers
    ELSE Blank

\* Captures whose fields alternate strictly, as every synthesized metadata does.
Alternating(isFirst) == \A n \in 1 .. Len(isFirst) - 1 : isFirst[n + 1] # isFirst[n]
=============================================================================
