------------------------------ MODULE MCInput ------------------------------
(***************************************************************************)
(* A behaviour opens captures, edits and saves their metadata or decodes    *)
(* what a sidecar carries (VideoOpening, Sidecar), or reads the fields of   *)
(* one small file (FieldReader).                                            *)
(***************************************************************************)
EXTENDS VideoOpening, FieldReader

MCWords == {1}
MCDrops == {<<>>, <<2, 1>>}
MCContents == {<<<<>>, <<>>>>, <<<<1, 1, 1>>, <<2, 1>>>>}
MCSystemLines == [PAL |-> <<2, 44, 619>>, SECAM |-> <<2, 44, 619>>,
                  NTSC |-> <<1, 39, 524>>, PAL_M |-> <<1, 39, 524>>]
MCSchemaSystems == {"PAL", "NTSC", "PAL_M"}

(* A capture tbc-tools wrote: its columns state active lines. *)
Foreign(first, exclusiveLast) ==
    [NoFile EXCEPT
        !.exists = TRUE,
        !.captures = <<[system |-> "PAL", declared |-> 1, first |-> first,
                        exclusiveLast |-> exclusiveLast]>>,
        !.records = (<<1, 0>> :> 5), !.vbi = (<<1, 0>> :> <<1, 1, 1>>),
        !.dropOuts = (<<1, 0>> :> <<2>>)]
MCInitialFiles == {NoFile, Foreign(700, 400), Foreign(400, 301)}
\* PAL-M has NTSC's lines.
MCSystems == {"PAL", "SECAM", "NTSC"}

JsonField(n, vbiData, endx) ==
    [seqNo |-> n, audioSamples |-> 4, vbiData |-> vbiData, startx |-> <<2>>, endx |-> endx,
     fieldLine |-> <<1>>]
Json(system, declared, fields) ==
    [system |-> system, isSourcePal |-> TRUE, fieldHeight |-> 313, declared |-> declared,
     fields |-> fields, pcm |-> TRUE]
GoodJson == Json("", 1, <<JsonField(1, <<<<1>>>>, <<3>>)>>)
MCJsonFiles ==
    {GoodJson, Json("NTSC", 2, <<JsonField(1, <<>>, <<3>>)>>),
     Json("PAL", 2, <<JsonField(1, <<>>, <<3>>), JsonField(2, <<>>, <<>>)>>)}

(* Captures.  A CVBS file of n frames in either layout, with rows cut at 0H
   or at blanking (or without a readable sync), and a burst that is clean,
   missing on most rows, or noisy. *)
Absent == [exists |-> FALSE, isCvbs |-> TRUE, flavour |-> "none"]
Ld(flavour, json, locked, width) ==
    [exists |-> TRUE, isCvbs |-> FALSE, flavour |-> flavour, json |-> json, locked |-> locked,
     width |-> width, height |-> 313]
Meta(version, preset, encoding, state, frames, black, type) ==
    [exists |-> TRUE, isCvbs |-> TRUE, flavour |-> "meta", version |-> version, preset |-> preset,
     encoding |-> encoding, state |-> state, frames |-> frames, signalType |-> type,
     black |-> IF black = Unknown THEN Unknown ELSE Raw(encoding, black, PRESETS[preset].blanking)]

Burst(position, quality) ==
    [i \in 1..12 |->
        LET plus == (position \in {1, 4}) <=> ((FirstRow + i - 1) % 2 = 0)
        IN  IF quality = "faint" /\ i > 3 THEN "none"
            ELSE IF (plus /\ ~(quality = "noisy" /\ i % 2 = 0)) \/ (~plus /\ quality = "noisy" /\ i % 2 = 0)
                 THEN "plus" ELSE "minus"]

Cuts(preset) == {<<1, 0, 2>>, <<-1, -1, 3>>,
                 <<PRESETS[preset].zeroH, -1, PRESETS[preset].zeroH + 4>>, <<9575, 9575, 9575>>}

Cvbs(preset, native, rows, firstPhase, quality, encoding, black) ==
    LET frame == IF native THEN PRESETS[preset].samplesPerFrame
                 ELSE fieldPackedSamplesPerFrame(PRESETS[preset])
    IN  [preset |-> preset, encoding |-> encoding, db |-> Absent, json |-> Absent, meta |-> Absent, samples |-> 2 * frame, rows |-> rows,
         firstPhase |-> firstPhase, black |-> IF black = Unknown THEN PRESETS[preset].black ELSE black,
         neutral |-> Raw(encoding, 512, PRESETS[preset].blanking),
         bursts |-> [i \in 1..4 |-> Burst(((firstPhase + i - 2) % 4) + 1, IF i <= 2 THEN quality ELSE "clean")]]

Described(preset, native, rows, firstPhase, quality, encoding, state, frames, black) ==
    [Cvbs(preset, native, rows, firstPhase, quality, encoding, black) EXCEPT
        !.meta = Meta(8, preset, encoding, state, frames, black, "composite")]

Encodings == {"CVBS_U10_4FSC", "CVBS_U16_4FSC", "CVBS_TPG21_4FSC", "CVBS_S16_FSC", "RAW_S16_28M"}

Phased == {Described("NTSC", native, <<1, 0, 2>>, firstPhase, quality, "CVBS_U10_4FSC",
                     "STANDARD_TBC_LOCKED", 2, Unknown) :
              native \in BOOLEAN, firstPhase \in 1..4, quality \in {"clean", "faint", "noisy"}}
Cut == UNION {{Described(preset, TRUE, rows, 1, "clean", "CVBS_U16_4FSC", "STANDARD_TBC_UNLOCKED",
                         frames, Unknown) : rows \in Cuts(preset), frames \in {2, Unknown}} :
              preset \in DOMAIN PRESETS}
Encoded == {Described(preset, FALSE, <<1, 0, 2>>, 1, "clean", encoding, "STANDARD_TBC_LOCKED", 2, black) :
               preset \in {"PAL", "NTSC"}, encoding \in Encodings, black \in {Unknown, 264}}
Bare == {Cvbs("PAL", TRUE, rows, 1, "clean", "CVBS_S16_FSC", Unknown) : rows \in Cuts("PAL")}
Undated == [Cvbs("PAL", FALSE, <<1, 0, 2>>, 1, "clean", "CVBS_U10_4FSC", Unknown) EXCEPT
               !.meta = Meta(6, "PAL", "CVBS_U10_4FSC", "STANDARD_RAW", 2, Unknown, "composite")]
Raster == Cvbs("PAL", FALSE, <<1, 0, 2>>, 1, "clean", "CVBS_U16_4FSC", Unknown)
Tbc(db, json) == [Raster EXCEPT !.db = db, !.json = json]
Tbcs == {Tbc(Ld("db", GoodJson, FALSE, 1135), Absent),
         Tbc(Absent, Ld("json", GoodJson, TRUE, 1135)),
         [Tbc(Absent, Ld("json", GoodJson, FALSE, 1135)) EXCEPT !.meta =
             Meta(7, "PAL", "CVBS_U16_4FSC", "STANDARD_TBC_LOCKED", 2, Unknown, "yc")]}

MCCaptures == Phased \cup Cut \cup Encoded \cup Bare \cup Tbcs \cup {Undated}
MCPairs == {<<y, y>> : y \in Bare \cup Encoded} \cup {<<y, Raster>> : y \in Tbcs} \cup {<<y, Undated>> : y \in Tbcs}
           \cup {<<y, Tbc(Absent, Ld("json", GoodJson, FALSE, width))>> : y \in Tbcs, width \in {1135, 1130}}

MCExtras == Tbcs \cup {Undated}
MCExtraPairs == {<<y, Raster>> : y \in Tbcs} \cup {<<y, Undated>> : y \in Tbcs}

Override(standard, encoding, frames, locked, second) ==
    [given |-> TRUE, standard |-> standard, encoding |-> encoding, state |-> "STANDARD_TBC_LOCKED",
     layout |-> frames, locked |-> locked, secondFieldFirst |-> second]
MCOverrides == {NoOverride} \cup
    {Override(standard, "CVBS_S16_FSC", frames, locked, locked) :
        standard \in {"UNKNOWN", "PAL", "SECAM", "NTSC"}, frames \in {"UNKNOWN", "FIELD_RASTER"},
        locked \in BOOLEAN}

(* Time codes, pictures, stops and statuses, some with a digit unreadable. *)
MCWordTriples ==
    {<<a, b, c>> :
        a \in {V!Unread, <<8, 11, 14, 4, 1, 2>>, <<8, 12, 14, 10, 1, 3>>, <<8, 15, 14, 9, 2, 11>>,
               <<8, 13, 12, 6, 13, 9>>},
        b \in {V!Unread, <<15, 1, 13, 13, 5, 9>>, <<15, 2, 13, 13, 0, 10>>, <<15, 10, 13, 13, 4, 4>>,
               <<15, 3, 0, 2, 1, 7>>, <<8, 7, 15, 15, 15, 15>>},
        c \in {V!Unread, <<15, 3, 13, 13, 0, 4>>, <<8, 1, 2, 13, 13, 13>>, V!PictureStop}}

Run(start, count, frame) == [start |-> start, count |-> count, frame |-> frame]
MCDropoutTables ==
    {[version |-> version, runs |-> <<Run(start, count, 1), Run(2, 3, frame)>>] :
        version \in {4, 5}, start \in -1..17, count \in 0..9, frame \in 1..2}

-----------------------------------------------------------------------------
\* Two lines of two samples: a native frame has three lines, or, as PAL's, a little
\* more.  At 24 samples (four native frames, three of a raster) the totals collide.
MCOrthogonal == [width |-> 2, height |-> 2, frameSamples |-> 6]
MCLeftover == [width |-> 2, height |-> 2, frameSamples |-> 7]
MCFileStandards == {MCOrthogonal, MCLeftover}

MCFile(truth, standard, size, chroma) ==
  [truth |-> truth, standard |-> standard, size |-> size, chromaSize |-> chroma]

MCFiles ==
  {MCFile("native", MCLeftover, 14, 14),
   MCFile("raster", MCOrthogonal, 16, 16), MCFile("raster", MCLeftover, 8, 8),
   MCFile("native", MCOrthogonal, 24, 24), MCFile("raster", MCOrthogonal, 24, 24),
   MCFile("raster", MCOrthogonal, 10, 8), MCFile("raster", MCOrthogonal, 0, 0)}

MCKinds == {"tbc", "composite", "yc"}
MCUnread == MCFile("raster", MCOrthogonal, 16, 16)

\* One side moves while the other is where it starts.
NotReading == ReaderInit /\ kind = "tbc" /\ inputFile = MCUnread
NotOpening == OpeningInit /\ file = NoFile

\* TbcSource takes every file for raster fields; two files differ from one only in being
\* two.
MCInit ==
  /\ OpeningInit
  /\ ReaderInit
  /\ kind # "composite" => inputFile.truth = "raster"
  /\ NotReading \/ NotOpening
MCNext ==
  \/ NotReading /\ OpeningNext /\ UNCHANGED readerVars
  \/ NotOpening /\ ReaderNext /\ UNCHANGED allVars
MCSpec == MCInit /\ [][MCNext]_<<allVars, readerVars>>
=============================================================================
