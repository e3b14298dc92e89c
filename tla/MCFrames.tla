------------------------------ MODULE MCFrames ------------------------------
(***************************************************************************)
(* A behaviour corrects the dropouts of one frame (DropoutCorrector), or    *)
(* aligns the extra captures and gathers their fields for frame after frame *)
(* (MultiSource), or publishes decoded frames and their masks               *)
(* (PictureGeometry), or decodes frames through one handle, by several      *)
(* threads (AsyncDecode).                                                   *)
(*                                                                         *)
(* Pictures are of 6 by 9 samples; the crops are odd and even in width and  *)
(* height and start on either field; every kind of output format.          *)
(***************************************************************************)
EXTENDS MultiSource, PictureGeometry, DropoutCorrector, AsyncDecode, TLC

\* In the burst only, from the burst into the picture, in the picture, and from the
\* picture into the sync area.
MCIntervals == {<<0, 1>>, <<1, 4>>, <<3, 6>>, <<6, 7>>}

\* Above the picture, its first, middle and last searched lines, and its last line.
MCLines == {1, 2, 4, 6, 7}

DropoutsOn(lines, intervals) ==
  {[line |-> l, startx |-> v[1], endx |-> v[2]] : l \in lines, v \in intervals}

UpToOne(ds) == {<<>>} \cup {<<d>> : d \in ds}

\* Up to two dropouts in the primary's first field, one in its second, and one in
\* a field of the extra capture.
MCFindings ==
  {[f \in {"first", "second"} |-> [s \in AvailableSources |->
      CASE f = "first" /\ s = 0 -> a \o b
        [] f = "second" /\ s = 0 -> c
        [] f = "first" -> e
        [] OTHER -> <<>>]] :
     a \in UpToOne(DropoutsOn(MCLines, MCIntervals)),
     b \in UpToOne(DropoutsOn({2, 5}, {<<1, 4>>, <<3, 6>>})),
     c \in UpToOne(DropoutsOn({3, 6}, {<<1, 4>>})),
     e \in UpToOne(DropoutsOn({2, 4}, {<<3, 6>>}))}

MCQuality == [s \in AvailableSources |-> s]

-----------------------------------------------------------------------------
\* A frame is two fields, the first one first; its number is on both, on the second
\* only, or on neither.
MCMarks ==
  {<<"both", "both", "both">>, <<"second", "second", "second">>,
   <<"neither", "neither", "neither">>, <<"neither", "both", "both">>,
   <<"both", "neither", "second">>, <<"second", "both", "neither">>}

CodeOn(kind, disc, number) == IF kind = disc THEN number ELSE -1

MCField(isFirst, kind, number, mark) ==
  LET marked == mark = "both" \/ (mark = "second" /\ ~isFirst)
  IN  [isFirst |-> isFirst, picture |-> number,
       cav |-> IF marked THEN CodeOn(kind, "cav", number) ELSE -1,
       clv |-> IF marked THEN CodeOn(kind, "clv", number) ELSE -1]

\* A capture that starts at a picture and loses skip pictures after its first frame.
MCCapture(kind, start, skip, marks, available) ==
  [fields |-> [n \in 1 .. 2 * Len(marks) |->
      LET f == (n + 1) \div 2
      IN  MCField(n % 2 = 1, kind, start + f - 1 + IF f > 1 THEN skip ELSE 0, marks[f])],
   available |-> available]

\* Three frames each.  The extra may be a field short in its file.
MCOf(kinds, skips, shortfalls) ==
  {[s \in {0, 1} |-> IF s = 0 THEN p ELSE e] :
     p \in {MCCapture(k, b, 0, m, 6) : k \in kinds, b \in {1, 2}, m \in MCMarks},
     e \in {MCCapture(k, b, g, m, 6 - h) : k \in kinds, b \in {1, 3}, g \in skips,
              m \in MCMarks, h \in shortfalls}}

MCSets == MCOf({"cav"}, {0, 1}, {0, 1}) \cup MCOf({"clv"}, {0}, {0})

MCCrops == {[start |-> s, end |-> e, first |-> f, last |-> l] :
               s \in {1, 2}, e \in {5}, f \in {0, 1, 3}, l \in {4, 6}}
Record(line, offset, x0, x1) == [line |-> line, offset |-> offset, x0 |-> x0, x1 |-> x1]
MCDamages ==
  {{Record(2, 0, 0, 3), Record(3, 1, 3, 6)},
   {Record(1, 1, 2, 3), Record(3, 0, 4, 6), Record(4, 0, 0, 6)}}
Span(row, x0, x1) == [frameRow |-> row, x0 |-> x0, x1 |-> x1]
MCConcealments == {{}, {Span(3, 0, 3), Span(5, 2, 5), Span(2, 5, 6)}}
MCFormats == {"YUV444P16", "RGB48", "YUV440P16", "RGBS", "GRAYS", "YUV440PS"}

-----------------------------------------------------------------------------
CONSTANTS j1, j2, s1

\* One job of three positions, whose last index is out of range, and one of one.
MCIndices == (j1 :> <<0, 9, 9>>) @@ (j2 :> <<2>>)

-----------------------------------------------------------------------------
NoDropouts ==
  /\ system = "none" /\ overCorrect = FALSE /\ intraField = FALSE
  /\ found = <<>> /\ listed = <<>> /\ written = <<>>
  /\ phase = "none"
  /\ index = 0 /\ corrected = 0 /\ failed = 0 /\ totalDistance = 0

NoCaptures ==
  /\ captures = <<>> /\ firstFieldFirst = <<>> /\ alignment = <<>> /\ used = <<>>
  /\ frame = 0
  /\ outcome = "none"

NoPicture ==
  /\ crop = [start |-> 0] /\ padding = 0 /\ format = "none" /\ damage = {}
  /\ picture = [status |-> "none"] /\ concealed = {} /\ mask = [mode |-> "none"]
  /\ writer = [left |-> 0]

VARIABLE part

Correcting == part = "dropouts"
Aligning == part = "captures"
Publishing == part = "picture"
Calling == part = "calls"

MCInit ==
  \/ Correcting /\ CorrectorInit /\ NoCaptures /\ NoPicture /\ AsyncInit
  \/ Aligning /\ Init /\ NoDropouts /\ NoPicture /\ AsyncInit
  \/ Publishing /\ PictureInit /\ NoDropouts /\ NoCaptures /\ AsyncInit
  \/ Calling /\ AsyncInit /\ NoDropouts /\ NoCaptures /\ NoPicture
MCNext ==
  \/ Correcting /\ CorrectorNext /\ UNCHANGED <<part, vars, pictureVars, asyncVars>>
  \/ Aligning /\ Next /\ UNCHANGED <<part, correctorVars, pictureVars, asyncVars>>
  \/ Publishing /\ PictureNext /\ UNCHANGED <<part, correctorVars, vars, asyncVars>>
  \/ Calling /\ AsyncNext /\ UNCHANGED <<part, correctorVars, vars, pictureVars>>
MCSpec == MCInit /\ [][MCNext]_<<part, correctorVars, vars, pictureVars, asyncVars>>

\* The threads of a call are run; in the other parts nobody calls.
MCFairSpec == MCSpec /\ Fairness
=============================================================================
