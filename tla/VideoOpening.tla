---------------------------- MODULE VideoOpening ----------------------------
(***************************************************************************)
(* Opening a capture: which sidecar describes it, what the caller's        *)
(* parameters add to that, what is then measured in the signal, and the    *)
(* extra captures added later.  An ld-decode sidecar is the SQLite file or *)
(* JSON text of module Sidecar; a CVBS one names presets of CvbsFormat.    *)
(* The words and the dropout table a sidecar carries can be decoded.       *)
(***************************************************************************)
EXTENDS Sidecar, CvbsFormat

CONSTANTS
    Captures,      \* the files that may be opened, alone
    Pairs,         \* and as luma and chroma
    Extras, ExtraPairs,   \* those among them that may be added as extras
    Overrides,     \* the parameters a caller may give
    WordTriples,   \* the words of lines 16, 17 and 18 of a field
    DropoutTables, SamplesPerLine, LinesPerField

VARIABLES
    video,   \* the open video, or NoVideo
    query    \* the last thing decoded, or NoQuery

allVars == <<vars, video, query>>

V == INSTANCE VbiDecoder
D == INSTANCE DropoutExtension

Null == [exists |-> TRUE, isCvbs |-> FALSE, flavour |-> "null"]
Missing == [exists |-> FALSE, isCvbs |-> FALSE, flavour |-> "missing"]
NoOverride == [given |-> FALSE]
Failed == [opened |-> FALSE]
NoVideo == <<>>
NoQuery == [kind |-> "none"]

(* What the captures and the caller may be.  An ld-decode sidecar describes
   fields of two lines or more; a CVBS one states the black level as its
   encoding writes it, where the capture's is not the standard's; and in no
   field do three rows in four of those with a burst have it wrong. *)
AllCaptures == Captures \cup Extras \cup {p[i] : p \in Pairs \cup ExtraPairs, i \in 1..2}

(* A 10-bit value, as each encoding writes it. *)
Raw(encoding, value, blanking) ==
    CASE encoding = "CVBS_U16_4FSC" -> value * 64
      [] encoding = "CVBS_TPG21_4FSC" -> (value - 508) * 64
      [] encoding = "CVBS_S16_FSC" -> (value - blanking) * 32
      [] OTHER -> value

ASSUME PresetsAssumption ==
    /\ "SECAM" \in DOMAIN SystemLines
    /\ \A s \in DOMAIN PRESETS :
          s \in DOMAIN SystemLines /\ PRESETS[s].lines = <<SystemLines[s][2], SystemLines[s][3]>>

ASSUME OverridesAssumption ==
    \A o \in Overrides :
        o.given \in BOOLEAN /\ (o.given => o.standard \in {"UNKNOWN", "SECAM"} \cup DOMAIN PRESETS)

ASSUME SidecarsAssumption ==
    \A c \in AllCaptures : c.meta.isCvbs /\ \A kind \in {"db", "json", "meta"} :
        LET s == c[kind]
        IN  /\ s # Null
            /\ s.exists /\ ~s.isCvbs =>
                  s.json \in JsonFiles /\ s.height \in Nat /\ s.height >= 2
            /\ s.exists /\ s.isCvbs =>
                  IF s.black = Unknown THEN c.black = PRESETS[c.preset].black
                  ELSE s.black = Raw(s.encoding, c.black, PRESETS[c.preset].blanking)

ASSUME SignalsAssumption ==
    \A c \in AllCaptures :
        /\ c.preset \in DOMAIN PRESETS
        /\ c.encoding \in {"CVBS_U10_4FSC", "CVBS_U16_4FSC", "CVBS_TPG21_4FSC", "CVBS_S16_FSC",
                           "RAW_S16_28M", "RAW_S16_40M"}
        /\ c.black \in 0..1023 /\ (~c.meta.exists => c.black = PRESETS[c.preset].black)
        /\ c.neutral = Raw(c.encoding, 512, PRESETS[c.preset].blanking)
        /\ c.firstPhase \in 1..4 /\ SequenceOf(c.bursts)
        /\ \A field \in DOMAIN c.bursts :
              LET rows == c.bursts[field]
                  position == ((c.firstPhase + field - 2) % 4) + 1
                  valid == {i \in DOMAIN rows : rows[i] # "none"}
                  positive(i) == (rows[i] = "plus") <=> ((FirstRow + i - 1) % 2 = 0)
                  wrong == {i \in valid : ~(positive(i) <=> position \in {1, 4})}
              IN  /\ SequenceOf(rows)
                  /\ Cardinality(valid) < 4 \/ Cardinality(wrong) * 4 < Cardinality(valid) * 3

(* A word is six digits. *)
ASSUME WordTriplesAssumption ==
    \A t \in WordTriples : \A l \in 1..3 : t[l] \in [1..6 -> 0..15]

ASSUME TablesAssumption ==
    /\ SamplesPerLine \in Nat \ {0} /\ LinesPerField \in Nat \ {0}
    /\ \A table \in DropoutTables :
          SequenceOf(table.runs)
          /\ \A i \in DOMAIN table.runs : table.runs[i].start \in Int /\ table.runs[i].count \in Int

is625Line(system) == system \in {"PAL", "SECAM"}

-----------------------------------------------------------------------------
(* Sidecars *)

(* The sidecar named, by its extension; else the first there is. *)
resolveSidecarFlavour(capture, sidecar) ==
    LET there == {s \in {"db", "json", "meta"} : capture[s].exists}
        first == IF "db" \in there THEN "db" ELSE IF "json" \in there THEN "json" ELSE "meta"
    IN  IF sidecar # Null THEN sidecar ELSE capture[first]

readLd(sidecar) ==
    IF sidecar.flavour = "db"
    THEN [ok |-> readable(file), meta |-> IF readable(file) THEN readCaptureMetadata(file) ELSE Cleared]
    ELSE readJson(sidecar.json)

(* What is checked of a CVBS sidecar; its signal type is compared with
   nothing. *)
readCvbsMetadata(sidecar) ==
    /\ sidecar.version \in {7, 8}
    /\ sidecar.preset \in DOMAIN PRESETS
    /\ sidecar.signalType \in {"composite", "yc"}

(* Layout, lock and field order come from the caller even beside a sidecar,
   which has no column for them; of the caller's standard only SECAM counts
   then. *)
resolveCvbsParams(capture, sidecar, override) ==
    LET s == IF sidecar.exists THEN sidecar ELSE capture.meta
        secam == override.given /\ override.standard = "SECAM"
        From(preset, encoding, state, frames, black) ==
            [opened |-> TRUE, preset |-> preset, encoding |-> encoding, state |-> state,
             frames |-> frames, black |-> black,
             layout |-> IF override.given THEN override.layout ELSE "UNKNOWN",
             locked |-> override.given /\ override.locked,
             secondFieldFirst |-> override.given /\ override.secondFieldFirst,
             declareSecam |-> secam]
    IN  IF s.exists
        THEN IF ~readCvbsMetadata(s) \/ (secam /\ s.preset # "PAL") THEN Failed
             ELSE From(s.preset, s.encoding, s.state, s.frames, s.black)
        ELSE IF ~override.given \/ override.standard = "UNKNOWN" THEN Failed
             ELSE From(IF secam THEN "PAL" ELSE override.standard, override.encoding,
                       override.state, Unknown, Unknown)

-----------------------------------------------------------------------------
(* Sources *)

(* A locked raster is cut at the first blanking sample unless the rows of a
   frame-native file measure otherwise. *)
derivedAlignment(locked) == IF locked THEN "BLANKING_START" ELSE "SYNC_START"

makeCvbsVideoParameters(r, layout, alignment) ==
    LET p == PRESETS[r.preset]
    IN  [system |-> r.preset,
         isSubcarrierLocked |-> r.locked \/ (layout = "FRAME_NATIVE" /\ r.preset = "PAL"),
         fieldWidth |-> p.width, fieldHeight |-> linesPerField(p),
         activeVideoStart |-> activeVideoStart(p, alignment), colourBurst |-> colourBurst(p, alignment),
         lines |-> p.lines,
         black |-> IF r.black = Unknown THEN 64 * p.black
                   ELSE convertCompositeSampleToCanonical(r.encoding, r.black, p.blanking)]

(* What the rows of a frame-native file measure. *)
measuredAlignment(capture, r, numFields) ==
    resolveFrameNativeAlignment(PRESETS[r.preset],
        IF numFields >= 2 /\ hasStandardAmplitudeMapping(r.encoding)
        THEN measureRowZeroH(capture.rows) ELSE Unknown)

(* The alignment the windows are made for, and the one the source keeps. *)
windowAlignment(capture, r, layout, numFields) ==
    IF layout = "FRAME_NATIVE" THEN measuredAlignment(capture, r, numFields)
    ELSE derivedAlignment(r.locked)

rowAlignmentOfCaller(capture, r, layout, numFields) == derivedAlignment(r.locked)
rowAlignment(capture, r, layout, numFields) == windowAlignment(capture, r, layout, numFields)

openCvbs(capture, r) ==
    LET p == PRESETS[r.preset]
        layout == resolveFrameLayout(r.layout, p, r.state, capture.samples, r.frames)
        numFields == IF layout = "FRAME_NATIVE" THEN 2 * (capture.samples \div p.samplesPerFrame)
                     ELSE capture.samples \div (p.width * linesPerField(p))
    IN  IF ~r.opened \/ capture.samples <= 0 THEN Failed
        ELSE [opened |-> TRUE, tbc |-> FALSE, layout |-> layout, numFields |-> numFields,
              alignment |-> rowAlignment(capture, r, layout, numFields), encoding |-> r.encoding,
              neutral |-> convertChromaSampleToCenteredCanonical(r.encoding, capture.neutral, p.blanking),
              parameters |-> makeCvbsVideoParameters(r, layout,
                                windowAlignment(capture, r, layout, numFields))]

(* Synthesized metadata copies the source's parameters; one field in two is
   a first field, and the colour phases are measured. *)
synthesizeMetadata(capture, source, secondFieldFirst) ==
    [parameters |-> source.parameters, isFirstFieldFirst |-> ~secondFieldFirst,
     fields |-> source.numFields,
     isFirstField |-> [i \in 1..Len(capture.bursts) |-> (i % 2 = 1) = ~secondFieldFirst],
     phases |-> measureNtscFieldPhaseIds(source.parameters.system, source.encoding, capture.bursts)]

overrideSystem(parameters, system) ==
    [parameters EXCEPT !.system = system, !.lines = applyTo(system, @)]

redeclareVideoSystem(parameters, system) ==
    [parameters EXCEPT !.system = system,
                       !.isSubcarrierLocked = IF system = "SECAM" THEN FALSE ELSE @]

openSynthesized(capture, r) ==
    LET source == openCvbs(capture, r)
        made == synthesizeMetadata(capture, source, r.secondFieldFirst)
    IN  IF ~r.opened \/ ~source.opened THEN Failed
        ELSE [opened |-> TRUE, capture |-> capture, synthesized |-> TRUE,
              source |-> IF r.declareSecam
                         THEN [source EXCEPT !.parameters = redeclareVideoSystem(@, "SECAM")] ELSE source,
              meta |-> IF r.declareSecam
                       THEN [made EXCEPT !.parameters = overrideSystem(@, "SECAM")] ELSE made]

(* The parameters of an ld-decode capture are its metadata's: the source
   has a pointer to them. *)
openLd(capture, sidecar, override) ==
    LET r == readLd(sidecar)
        redeclared == override.given /\ override.standard # "UNKNOWN"
        system == IF redeclared THEN override.standard ELSE r.meta.system
        parameters == [system |-> r.meta.system, isSubcarrierLocked |-> sidecar.locked,
                       fieldWidth |-> sidecar.width, fieldHeight |-> sidecar.height,
                       lines |-> r.meta.lines]
        bound == IF system = r.meta.system THEN parameters ELSE overrideSystem(parameters, system)
    IN  IF ~r.ok \/ is625Line(system) # is625Line(r.meta.system) \/ capture.samples <= 0 THEN Failed
        ELSE [opened |-> TRUE, capture |-> capture, synthesized |-> FALSE,
              source |-> [opened |-> TRUE, tbc |-> TRUE, layout |-> "FIELD_RASTER",
                          alignment |-> derivedAlignment(sidecar.locked),
                          encoding |-> "CVBS_U16_4FSC", parameters |-> bound],
              meta |-> [parameters |-> bound, isFirstFieldFirst |-> TRUE, fields |-> r.meta.declared]]

openCompositeSource(capture, sidecar, override) ==
    LET s == resolveSidecarFlavour(capture, sidecar)
    IN  IF sidecar # Null /\ ~s.exists THEN Failed
        ELSE IF s.exists /\ ~s.isCvbs THEN openLd(capture, s, override)
        ELSE openSynthesized(capture, resolveCvbsParams(capture, s, override))

-----------------------------------------------------------------------------
(* Operations *)

(* A sidecar named but absent sends a pair to the CVBS branch, which looks
   for one by itself. *)
decodeMerge(luma, sidecar) ==
    LET s == resolveSidecarFlavour(luma, sidecar) IN s.exists /\ ~s.isCvbs

openCvbsPair(luma, chroma, sidecar, override) ==
    IF luma.samples # chroma.samples THEN Failed
    ELSE openSynthesized(luma, resolveCvbsParams(luma, resolveSidecarFlavour(luma, sidecar), override))

(* A chroma file with no sidecar of its own shares the luma file's. *)
openChroma(luma, chroma, sidecar, override) ==
    LET own == resolveSidecarFlavour(chroma, Null)
    IN  openCompositeSource(chroma, IF own.exists THEN Null ELSE resolveSidecarFlavour(luma, sidecar), override)

(* Frames of fields; the synthesized kind pairs from the first first field. *)
FrameCount(o) == o.meta.fields \div 2

sameGeometry(a, b) ==
    /\ a.source.parameters.fieldWidth = b.source.parameters.fieldWidth
    /\ a.source.parameters.fieldHeight = b.source.parameters.fieldHeight
    /\ FrameCount(a) = FrameCount(b)

Opened(primary, chroma) ==
    video' = IF \A o \in {primary} \cup {c \in {chroma} : c # NoVideo} : o.opened
             THEN [primary |-> primary, chroma |-> chroma, extras |-> <<>>, chromaExtras |-> <<>>]
             ELSE NoVideo

OpenComposite(capture, sidecar, override) ==
    Opened(openCompositeSource(capture, sidecar, override), NoVideo)

OpenYc(luma, chroma, sidecar, override) ==
    IF ~decodeMerge(luma, sidecar) THEN Opened(openCvbsPair(luma, chroma, sidecar, override), NoVideo)
    ELSE LET y == openCompositeSource(luma, sidecar, override)
             c == openChroma(luma, chroma, sidecar, override)
         IN  IF y.opened /\ c.opened /\ ~sameGeometry(y, c) THEN UNCHANGED video ELSE Opened(y, c)

AddExtraComposite(capture, sidecar) ==
    LET o == openCompositeSource(capture, sidecar, NoOverride)
    IN  video' = IF o.opened THEN [video EXCEPT !.extras = Append(@, o)] ELSE video

(* The luma extra stays when the chroma file of a pair cannot be opened. *)
AddExtraYc(luma, chroma, sidecar) ==
    LET merge == decodeMerge(luma, sidecar)
        y == IF merge THEN openCompositeSource(luma, sidecar, NoOverride)
             ELSE openCvbsPair(luma, chroma, sidecar, NoOverride)
        c == openChroma(luma, chroma, sidecar, NoOverride)
    IN  video' = IF ~y.opened THEN video
                 ELSE [video EXCEPT !.extras = Append(@, y),
                                    !.chromaExtras = IF merge /\ c.opened THEN Append(@, c) ELSE @]

SidecarArguments(capture) == {Null, Missing} \cup {capture[s] : s \in {"db", "json", "meta"}}

(* chd_video_standard_sample_to_row_sample(): the row sample of sample 0 of
   the standard's numbering, by what the open source says of itself. *)
rowOfStandardZero(source) ==
    LET system == source.parameters.system
        p == PRESETS[IF system \in {"NTSC", "PAL_M"} THEN system ELSE "PAL"]
    IN  activeVideoStart(p, source.alignment)

frame_line_to_signal_line(H, line) == IF line % 2 = 0 THEN line \div 2 + 1 ELSE H + (line + 1) \div 2
signal_line_to_frame_line(H, line) == IF line <= H THEN 2 * (line - 1) ELSE 2 * (line - H - 1) + 1

DecodeVbi(first, second) ==
    query' = [kind |-> "vbi", words |-> <<first, second>>, result |-> V!decodeFrame(first, second)]

ReadDropouts(table) ==
    query' = [kind |-> "dropouts", table |-> table,
              result |-> D!readCvbsDropoutsExtension(table, SamplesPerLine, LinesPerField)]

(* The open video reads sidecars that are not being written: the operations
   here and those of Sidecar take turns. *)
Fresh == work = [edits |-> 0, saves |-> 0, faults |-> 0] /\ meta = Cleared

NextOpening ==
    /\ Fresh /\ query = NoQuery /\ video = NoVideo
    /\ UNCHANGED <<vars, query>>
    /\ \E override \in Overrides :
          \/ \E capture \in Captures : \E sidecar \in SidecarArguments(capture) :
                OpenComposite(capture, sidecar, override)
          \/ \E pair \in Pairs : \E sidecar \in SidecarArguments(pair[1]) :
                OpenYc(pair[1], pair[2], sidecar, override)

NextExtra ==
    /\ video # NoVideo /\ video.extras = <<>>
    /\ UNCHANGED <<vars, query>>
    /\ \/ \E capture \in Extras : \E sidecar \in SidecarArguments(capture) :
             AddExtraComposite(capture, sidecar)
       \/ \E pair \in ExtraPairs : \E sidecar \in SidecarArguments(pair[1]) :
             AddExtraYc(pair[1], pair[2], sidecar)

NextQuery ==
    /\ Fresh /\ file = NoFile /\ video = NoVideo /\ query = NoQuery
    /\ UNCHANGED <<vars, video>>
    /\ \/ \E first, second \in WordTriples : DecodeVbi(first, second)
       \/ \E table \in DropoutTables : ReadDropouts(table)

NextSidecar == video = NoVideo /\ query = NoQuery /\ Next /\ UNCHANGED <<video, query>>

OpeningInit == Init /\ video = NoVideo /\ query = NoQuery
OpeningNext == NextSidecar \/ NextOpening \/ NextExtra \/ NextQuery
OpeningSpec == OpeningInit /\ [][OpeningNext]_allVars

-----------------------------------------------------------------------------
(* Properties *)

Sources ==
    IF video = NoVideo THEN {}
    ELSE {video.primary} \cup {c \in {video.chroma} : c # NoVideo}
         \cup {video.extras[i] : i \in DOMAIN video.extras}
         \cup {video.chromaExtras[i] : i \in DOMAIN video.chromaExtras}

(* However a capture was opened and re-declared, its source and its metadata
   tell the decoders the same system; its active lines are the system's;
   and a CVBS row numbered from the standard's sample 0 starts where the
   source's own active window does, after the burst; and a frame line of either
   field, at either end, is found again from its signal line. *)
SourcesAgree ==
    \A o \in Sources :
        LET p == o.source.parameters
        IN  /\ p.system = o.meta.parameters.system
            /\ SystemLines[p.system][1] <= o.meta.parameters.lines[1]
            /\ o.meta.parameters.lines[2] <= SystemLines[p.system][3]
            /\ \A line \in {0, 1, 2 * p.fieldHeight - 3, 2 * p.fieldHeight - 2} :
                  signal_line_to_frame_line(p.fieldHeight, frame_line_to_signal_line(p.fieldHeight, line)) = line
            /\ p.system = "SECAM" /\ o.synthesized => ~p.isSubcarrierLocked
            /\ ~o.source.tbc => /\ rowOfStandardZero(o.source) = p.activeVideoStart
                                /\ p.colourBurst[2] <= p.activeVideoStart

(* A capture opened for what it is. *)
RightlyDeclared(o) ==
    /\ o.synthesized /\ o.source.encoding = o.capture.encoding
    /\ o.source.parameters.system \in {o.capture.preset} \cup (IF o.capture.preset = "PAL" THEN {"SECAM"} ELSE {})

(* An NTSC capture with no sidecar to say so has its fields' places in the
   colour sequence right or unknown, whichever field it starts at: a wrong
   one would invert the colour of every line. *)
MeasuredPhaseIsTrue ==
    \A o \in Sources : RightlyDeclared(o) =>
        \A i \in DOMAIN o.meta.phases :
            o.meta.phases[i] \in {Unknown, ((o.capture.firstPhase + i - 2) % 4) + 1}

(* A black level and the neutral of chroma are the same canonical samples
   from every encoding. *)
EncodingsAgree ==
    \A o \in Sources : RightlyDeclared(o) /\ hasStandardAmplitudeMapping(o.source.encoding) =>
        /\ o.source.parameters.black = 64 * o.capture.black
        /\ o.source.neutral = 0

(* Together: an opened source is what its capture and the caller said. *)
SourcesAreAsDescribed == SourcesAgree /\ EncodingsAgree /\ ActiveLinesUsable

(* Hour and minute of a frame's time code come from one word, second and
   picture from one word: a word half readable is not half used.  The time
   code, made a frame number and back, is itself, but where its minute or its
   picture is past the last there is (decode() takes any two digits). *)
TimecodesStayTogether ==
    query.kind = "vbi" =>
        LET r == query.result
            words == {query.words[f][l] : f \in 1..2, l \in 1..3}
            t == [hours |-> r.clvHr, minutes |-> r.clvMin, seconds |-> r.clvSec,
                  pictureNumber |-> r.clvPicNo]
            number == V!convertClvTimecodeToFrameNumber("PAL", t)
        IN  /\ \/ {r.clvHr, r.clvMin} = {Unknown}
               \/ \E w \in words : <<r.clvHr, r.clvMin>> = <<w[2], 10 * w[5] + w[6]>>
            /\ \/ {r.clvSec, r.clvPicNo} = {Unknown}
               \/ \E w \in words : <<r.clvSec, r.clvPicNo>> = <<10 * (w[2] - 10) + w[4], 10 * w[5] + w[6]>>
            /\ number # Unknown /\ r.clvMin < 60 /\ r.clvPicNo < 25
                  => V!convertFrameNumberToClvTimecode("PAL", number) = t

(* The dropouts of a frame are the samples of its runs that lie in it, each
   on its own line of its own field. *)
RunsCovered ==
    query.kind = "dropouts" /\ query.result.ok =>
        \A frame \in DOMAIN query.result.frames :
            LET list == query.result.frames[frame]
                Damaged(s) == {SamplesPerLine * (2 * (s.line - 1) + s.field) + x : x \in s.startx..(s.endx - 1)}
                runs == {query.table.runs[i] : i \in DOMAIN query.table.runs}
                mine == {r \in runs : r.frame = frame /\ r.start >= 0}
            IN  UNION {Damaged(list[i]) : i \in DOMAIN list}
                    = (UNION {r.start..(r.start + r.count - 1) : r \in mine})
                          \cap 0..(2 * LinesPerField * SamplesPerLine - 1)

(* Together: what is decoded out of a sidecar is what it says. *)
DecodedAsStored == TimecodesStayTogether /\ RunsCovered /\ AudioSpansTile
=============================================================================
