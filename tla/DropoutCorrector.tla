-------------------------- MODULE DropoutCorrector --------------------------
(***************************************************************************)
(* Dropout correction of one frame (src/src/dropout/dropout_corrector.cpp): *)
(* damaged samples of the primary capture are overwritten, dropout by       *)
(* dropout, with samples of a nearby clean line of the same field, of the   *)
(* other field, or of another capture of the same picture.  Correction is   *)
(* in place: what one dropout has written is there when the next looks for  *)
(* its replacement.                                                        *)
(*                                                                          *)
(* A sample is where its luma and its chroma came from; its level, and the  *)
(* filter that parts the two, are left out.  All captures have the          *)
(* primary's geometry.  Lines count from 1, columns from 0.                 *)
(***************************************************************************)
EXTENDS Integers, Sequences, FiniteSets

CONSTANTS
  Systems,               \* the video systems considered
  LineLength,            \* videoParameters.fieldWidth
  LineCount,           \* videoParameters.fieldHeight
  ColourBurstEnd,        \* videoParameters.colourBurstEnd
  ActiveVideoEnd,        \* videoParameters.activeVideoEnd
  FirstActiveFieldLine,  \* videoParameters.firstActiveFieldLine(), from 0
  LastActiveFieldLine,   \* videoParameters.lastActiveFieldLine(), from 0
  ExtraSources,                \* how many extra captures show the frame
  Quality,               \* [0 .. ExtraSources -> Int], sourceQuality
  Findings,              \* the dropouts the metadata may list: see found
  OverCorrectionDots     \* 24 in the code

AvailableSources == 0 .. ExtraSources         \* 0 is the primary capture
Fields == {"first", "second"}
OtherField(f) == IF f = "first" THEN "second" ELSE "first"

\* As the metadata has it: neither its line nor its columns need be in the field.
Dropout == [line : Int, startx : Int, endx : Int]

ASSUME CorrectorAssumption ==
  /\ Systems \subseteq {"PAL", "PAL_M", "NTSC", "SECAM"}
  /\ {LineLength, LineCount, OverCorrectionDots, ExtraSources} \subseteq Nat
  /\ {ColourBurstEnd, ActiveVideoEnd} \subseteq Nat
  /\ ColourBurstEnd < ActiveVideoEnd
  /\ ActiveVideoEnd <= LineLength
  /\ FirstActiveFieldLine \in Nat
  /\ LastActiveFieldLine \in 0 .. LineCount - 1
  /\ Quality \in [AvailableSources -> Int]
  /\ Findings \subseteq [Fields -> [AvailableSources -> Seq(Dropout)]]

VARIABLES
  system,
  overCorrect,  \* the caller's options
  intraField,
  found,        \* [Fields -> [AvailableSources -> Seq(dropout)]]: field.dropOuts, as read
  listed,       \* the same after populateDropoutsVector and setDropOutLocations
  phase,        \* "listing", the field being corrected, or "done"
  index,        \* the dropout of that field to correct next
  written,      \* the primary's samples overwritten so far
  corrected,    \* DropoutCorrectionStats
  failed,
  totalDistance

inputVars == <<system, overCorrect, intraField, found>>
stats == <<corrected, failed, totalDistance>>
correctorVars == <<inputVars, listed, phase, index, written, stats>>

CorrectorInit ==
  /\ system \in Systems
  /\ overCorrect \in BOOLEAN
  /\ intraField \in BOOLEAN
  /\ found \in Findings
  /\ listed = [f \in Fields |-> [s \in AvailableSources |-> <<>>]]
  /\ phase = "listing"
  /\ index = 1
  /\ written = <<>>
  /\ corrected = 0
  /\ failed = 0
  /\ totalDistance = 0

----------------------------------------------------------------------------
\* Listing the dropouts of every capture.

Lesser(a, b) == IF a <= b THEN a ELSE b

OverCorrected(d) ==
  [line   |-> d.line,
   startx |-> IF d.startx > OverCorrectionDots THEN d.startx - OverCorrectionDots ELSE 0,
   endx   |-> IF d.endx < LineLength - OverCorrectionDots THEN d.endx + OverCorrectionDots
              ELSE LineLength]

\* The members of a sequence at some of its indices, in order: SelectSeq without its
\* recursion, so that it can be proved about.
At(ds, indices) ==
  LET Rank(i) == Cardinality({j \in indices : j <= i})
  IN  [k \in 1 .. Cardinality(indices) |-> ds[CHOOSE i \in indices : Rank(i) = k]]

Populate(ds) ==
  LET inField == At(ds, {i \in DOMAIN ds : ds[i].line \in 1 .. LineCount})
  IN  IF overCorrect THEN [i \in DOMAIN inField |-> OverCorrected(inField[i])] ELSE inField

Location(d) ==
  IF d.startx <= ColourBurstEnd THEN "colourBurst"
  ELSE IF d.startx <= ActiveVideoEnd THEN "visibleLine"
  ELSE "unknown"

\* A dropout that runs out of the area it starts in is cut at the end of the area.
Shortened(d) ==
  CASE Location(d) = "colourBurst" -> [d EXCEPT !.endx = Lesser(@, ColourBurstEnd)]
    [] Location(d) = "visibleLine" -> [d EXCEPT !.endx = Lesser(@, ActiveVideoEnd)]
    [] OTHER -> d

\* What follows the colour burst becomes a dropout of its own, at the end of the
\* list; what follows the active video is nobody's concern.
Crosses(d) == d.startx <= ColourBurstEnd /\ d.endx > ColourBurstEnd
AfterBurst(d) == [d EXCEPT !.startx = ColourBurstEnd + 1]

SetDropOutLocations(ds) ==
  LET crossing == At(ds, {i \in DOMAIN ds : Crosses(ds[i])})
  IN  [i \in DOMAIN ds |-> Shortened(ds[i])]
        \o [i \in DOMAIN crossing |-> Shortened(AfterBurst(crossing[i]))]

----------------------------------------------------------------------------
\* Looking for a replacement.

\* How far apart lines of one chroma phase are, and how far up the nearest line of
\* the other field is.  The mutant takes the other field's offset for both.
StepAmount(matchPhase) ==
  IF ~matchPhase THEN 1 ELSE IF system \in {"PAL", "PAL_M"} THEN 4 ELSE 2

OtherFieldOffsetOfSecond(f, matchPhase) == -1

OtherFieldOffset(f, matchPhase) ==
  IF matchPhase /\ system \in {"PAL", "PAL_M"} /\ f = "first" THEN -3 ELSE -1

\* The mutant takes the end of a dropout for its start.
OverlapsAtStart(d, e) == d.startx - e.startx >= 0 /\ e.startx - d.startx >= 0

Overlaps(d, e) == d.endx - e.startx >= 0 /\ e.endx - d.startx >= 0

Clean(d, s, f, line) ==
  \A i \in DOMAIN listed[f][s] : listed[f][s][i].line = line => ~Overlaps(d, listed[f][s][i])

\* "The last full line before the half-line between fields" is the last searched.
SearchedLines == FirstActiveFieldLine + 1 .. LastActiveFieldLine

Abs(n) == IF n < 0 THEN -n ELSE n

\* findPotentialReplacementLine(): the first clean line from start on, if any.
PotentialReplacementLine(d, s, f, start, step) ==
  LET visited == {l \in SearchedLines : (l - start) * step >= 0 /\ (l - start) % Abs(step) = 0}
      clean   == {l \in visited : Clean(d, s, f, l)}
  IN  IF start \in SearchedLines
        THEN {l \in clean : \A m \in clean : Abs(l - start) <= Abs(m - start)}
        ELSE {}

\* Up and down the dropout's own field, then up and down the other one: the field,
\* the offset the search starts at, and its step.
Searches(f, matchPhase, isColourBurst) ==
  LET step   == StepAmount(matchPhase)
      offset == OtherFieldOffset(f, matchPhase)
  IN  {<<f, 0, -step>>, <<f, step, step>>}
        \cup IF isColourBurst \/ intraField THEN {}
             ELSE {<<OtherField(f), offset, -step>>, <<OtherField(f), offset + step, step>>}

Candidates(f, d, matchPhase, isColourBurst) ==
  UNION {{[source |-> s, field |-> q[1], line |-> l] :
            l \in PotentialReplacementLine(d, s, q[1], d.line + q[2], q[3])} :
         s \in AvailableSources, q \in Searches(f, matchPhase, isColourBurst)}

\* The first field holds the top frame line.
FrameLine(f, line) == 2 * line + IF f = "first" THEN 0 ELSE 1

Distance(f, d, c) == Abs(FrameLine(f, d.line) - FrameLine(c.field, c.line))

NoReplacement == [source |-> 0, field |-> "first", line |-> -1]

\* The mutant goes by quality first.
HighestQuality(f, d, cs) ==
  {c \in cs : \A e \in cs : Quality[c.source] >= Quality[e.source]}
    \cup IF cs = {} THEN {NoReplacement} ELSE {}

\* The nearest candidates, the best of them by quality.  The code takes the first of
\* those it looks at; any of them is allowed here.
BestOf(f, d, cs) ==
  LET nearest == {c \in cs : \A e \in cs : Distance(f, d, c) <= Distance(f, d, e)}
  IN  {c \in nearest : \A e \in nearest : Quality[c.source] >= Quality[e.source]}
        \cup IF cs = {} THEN {NoReplacement} ELSE {}

Replacements(f, d) ==
  CASE Location(d) = "colourBurst" -> BestOf(f, d, Candidates(f, d, TRUE, TRUE))
    [] Location(d) = "visibleLine" -> BestOf(f, d, Candidates(f, d, FALSE, FALSE))
    [] OTHER -> {NoReplacement}

ChromaReplacements(f, d) ==
  IF Location(d) = "visibleLine" THEN BestOf(f, d, Candidates(f, d, TRUE, FALSE))
  ELSE {NoReplacement}

----------------------------------------------------------------------------
\* Correcting.

Sample(c, x) ==
  IF c.source = 0 /\ <<c.field, c.line, x>> \in DOMAIN written
    THEN written[<<c.field, c.line, x>>]
    ELSE [luma |-> c, chroma |-> c]

\* What correctDropOut() writes over column x: the whole signal of the luma
\* replacement, or its low frequencies under the high ones of the chroma's.
NewSample(d, r, c, x) ==
  IF c = NoReplacement \/ (d.line = r.line /\ d.line = c.line)
    THEN Sample(r, x)
    ELSE [luma |-> Sample(r, x).luma, chroma |-> Sample(c, x).chroma]

Overwrite(f, d, r, c) ==
  LET targets == {<<f, d.line, x>> : x \in d.startx .. d.endx - 1}
  IN  IF r = NoReplacement THEN written
      ELSE [t \in targets \cup DOMAIN written |->
              IF t \in targets THEN NewSample(d, r, c, t[3]) ELSE written[t]]

ListDropouts ==
  /\ phase = "listing"
  /\ IF \A f \in Fields : found[f][0] = <<>>
       THEN phase' = "done" /\ UNCHANGED listed
       ELSE /\ phase' = "first"
            /\ listed' = [f \in Fields |-> [s \in AvailableSources |->
                            SetDropOutLocations(Populate(found[f][s]))]]
  /\ UNCHANGED <<inputVars, index, written, stats>>

CorrectDropOut(f) ==
  /\ phase = f
  /\ index <= Len(listed[f][0])
  /\ LET d == listed[f][0][index] IN
       \E r \in Replacements(f, d), c \in ChromaReplacements(f, d) :
         /\ written' = Overwrite(f, d, r, c)
         /\ IF r = NoReplacement
              THEN failed' = failed + 1 /\ UNCHANGED <<corrected, totalDistance>>
              ELSE /\ corrected' = corrected + 1
                   /\ totalDistance' = totalDistance + Distance(f, d, r)
                   /\ UNCHANGED failed
  /\ index' = index + 1
  /\ UNCHANGED <<inputVars, listed, phase>>

FinishField(f) ==
  /\ phase = f
  /\ index > Len(listed[f][0])
  /\ phase' = IF f = "first" THEN "second" ELSE "done"
  /\ index' = 1
  /\ UNCHANGED <<inputVars, listed, written, stats>>

CorrectorNext == ListDropouts \/ \E f \in Fields : CorrectDropOut(f) \/ FinishField(f)

CorrectorSpec == CorrectorInit /\ [][CorrectorNext]_correctorVars

----------------------------------------------------------------------------
\* Properties.

Places == [source : AvailableSources, field : Fields, line : 1 .. LineCount]

CorrectorTypeOK ==
  /\ phase \in {"listing", "done"} \cup Fields
  /\ index \in Nat \ {0}
  /\ DOMAIN written \subseteq Fields \X (1 .. LineCount) \X Int
  /\ \A t \in DOMAIN written : written[t] \in [luma : Places, chroma : Places]
  /\ {corrected, failed, totalDistance} \subseteq Nat

Covers(d, line, x) == d.line = line /\ x \in d.startx .. d.endx - 1

Damaged(c, x) ==
  \E i \in DOMAIN found[c.field][c.source] : Covers(found[c.field][c.source][i], c.line, x)

\* No bad data is copied over bad data: wherever a sample came from, by however many
\* copies, the metadata of that capture lists no dropout there, and a sample that
\* no dropout covers is left alone.
NoDamageCopied ==
  \A t \in DOMAIN written :
    /\ ~Damaged(written[t].luma, t[3])
    /\ ~Damaged(written[t].chroma, t[3])
    /\ \E i \in DOMAIN listed[t[1]][0] : Covers(listed[t[1]][0][i], t[2], t[3])

\* Lines of the transmitted signal from one line to another.
FieldLines == IF system \in {"PAL", "SECAM"} THEN 313 ELSE 263
SignalLine(f, line) == line + IF f = "first" THEN 0 ELSE FieldLines

\* The phase the subcarrier turns through in n lines, in 1/10000 of a cycle: 283.7516
\* cycles a line in PAL, 227.25 in PAL-M and 227.5 in NTSC.  SECAM and the PAL
\* V-switch alternate from line to line.
TurnOfALine == [PAL |-> 7516, PAL_M |-> 2500, NTSC |-> 5000, SECAM |-> 0]
Turn(n) == (TurnOfALine[system] * n) % 10000

\* PAL's subcarrier gains a cycle a frame, 16/10000 a line, which no choice of lines
\* makes up for.
SamePhase(f, line, c) ==
  LET n == SignalLine(f, line) - SignalLine(c.field, c.line)
      drift == IF system = "PAL" THEN 16 * (Abs(line - c.line) + 1) ELSE 0
  IN  /\ Turn(n) <= drift \/ Turn(n) >= 10000 - drift
      /\ system # "NTSC" => n % 2 = 0

\* A corrected sample's chroma comes from a line of the same subcarrier phase (and
\* V-switch state, or SECAM component), unless no such line is clean.
ChromaInPhase ==
  \A t \in DOMAIN written :
    \/ SamePhase(t[1], t[2], written[t].chroma)
    \/ \E i \in DOMAIN listed[t[1]][0] :
         LET d == listed[t[1]][0][i]
         IN  /\ Covers(d, t[2], t[3])
             /\ Location(d) = "visibleLine"
             /\ Candidates(t[1], d, TRUE, FALSE) = {}

\* The clean lines a dropout in the picture may be repaired from.
Usable(f, d) ==
  {c \in Places : /\ c.line \in SearchedLines
                  /\ c.field = f \/ ~intraField
                  /\ Clean(d, c.source, c.field, c.line)}

\* A dropout on a searched line of the picture is repaired whenever some line it
\* could be repaired from is clean, and from the nearest of them.
NearestCleanLineUsed ==
  phase = "done" =>
    \A f \in Fields : \A i \in DOMAIN listed[f][0] :
      LET d == listed[f][0][i] IN
      /\ Location(d) = "visibleLine"
      /\ d.line \in SearchedLines
      /\ Usable(f, d) # {}
      => \A x \in d.startx .. d.endx - 1 :
           /\ <<f, d.line, x>> \in DOMAIN written
           /\ \/ \A c \in Usable(f, d) :
                   Distance(f, d, written[<<f, d.line, x>>].luma) <= Distance(f, d, c)
              \/ \E j \in DOMAIN listed[f][0] \ {i} : Covers(listed[f][0][j], d.line, x)

\* "Every previously-poisoned pixel must have been replaced" (test_dropout_corrector):
\* when no dropout failed, no damaged sample up to the end of the active video is
\* still what it was.
EveryDamagedSampleReplaced ==
  phase = "done" /\ failed = 0 =>
    \A f \in Fields : \A i \in DOMAIN found[f][0] :
      LET d == found[f][0][i] IN
      d.line \in 1 .. LineCount =>
        \A x \in d.startx .. Lesser(d.endx, ActiveVideoEnd) - 1 :
          <<f, d.line, x>> \in DOMAIN written
=============================================================================
