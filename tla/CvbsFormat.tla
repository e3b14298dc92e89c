----------------------------- MODULE CvbsFormat -----------------------------
(***************************************************************************)
(* The formats a CVBS capture may be in: the sampling lattice of each      *)
(* standard, how the layout of its file, the cut of its rows and the place *)
(* of its fields in the colour sequence are found out, and the encodings   *)
(* of a sample.  Positions in a row that are not whole are in tenths.      *)
(***************************************************************************)
EXTENDS Integers, Sequences, FiniteSets

Unknown == -1

PRESETS ==
    [PAL |-> [width |-> 1135, linesPerFrame |-> 625, samplesPerFrame |-> 709379,
              active |-> 948, zeroH |-> 95, burstFromZeroH |-> 993, burstLength |-> 40,
              syncStartBurst |-> <<98, 138>>, lines |-> <<44, 619>>,
              blanking |-> 256, black |-> 256],
     NTSC |-> [width |-> 910, linesPerFrame |-> 525, samplesPerFrame |-> 477750,
               active |-> 768, zeroH |-> 164, burstFromZeroH |-> 760, burstLength |-> 36,
               syncStartBurst |-> <<75, 95>>, lines |-> <<39, 524>>,
               blanking |-> 240, black |-> 282],
     PAL_M |-> [width |-> 909, linesPerFrame |-> 525, samplesPerFrame |-> 477225,
                active |-> 768, zeroH |-> 164, burstFromZeroH |-> 760, burstLength |-> 36,
                syncStartBurst |-> <<75, 95>>, lines |-> <<39, 524>>,
                blanking |-> 240, black |-> 282]]

linesPerField(p) == p.linesPerFrame \div 2 + 1
fieldPackedSamplesPerFrame(p) == p.width * linesPerField(p) * 2

(* The states with a standard rate and time-base correction. *)
StandardTbc == {"STANDARD_TBC_LOCKED", "STANDARD_TBC_UNLOCKED"}

(* The layout the caller states; else the one whose frames, as many as the
   sidecar declares, fill the file; else the one the file is a multiple of. *)
resolveFrameLayout(override, p, state, samples, declared) ==
    LET native == p.samplesPerFrame
        packed == fieldPackedSamplesPerFrame(p)
        Multiple(frame) == samples > 0 /\ samples % frame = 0
    IN  CASE override # "UNKNOWN" -> override
          [] override = "UNKNOWN" /\ state \notin StandardTbc -> "FIELD_RASTER"
          [] OTHER ->
                IF declared > 0 /\ samples = declared * native THEN "FRAME_NATIVE"
                ELSE IF declared > 0 /\ samples = declared * packed THEN "FIELD_RASTER"
                ELSE IF Multiple(native) /\ ~Multiple(packed) THEN "FRAME_NATIVE"
                ELSE "FIELD_RASTER"

(* The upper median of the rows' clean sync edges, if half the rows have one. *)
measureRowZeroH(rows) ==
    LET found == SelectSeq(rows, LAMBDA position : position # Unknown)
        Below(i) == Cardinality({j \in DOMAIN found :
                        found[j] < found[i] \/ (found[j] = found[i] /\ j < i)})
    IN  IF Len(found) * 2 < Len(rows) \/ found = <<>> THEN Unknown
        ELSE found[CHOOSE i \in DOMAIN found : Below(i) = Len(found) \div 2]

Tolerance == 80

resolveFrameNativeAlignment(p, measured) ==
    IF measured # Unknown /\ measured - p.zeroH \in -Tolerance..Tolerance
    THEN "BLANKING_START" ELSE "SYNC_START"

ceilTenths(x) == (x + 9) \div 10
roundTenths(x) == (x + 5) \div 10

(* The first sample of the digital active line in a row. *)
activeVideoStart(p, alignment) ==
    p.width - (IF alignment = "SYNC_START" THEN ceilTenths(10 * p.active + p.zeroH) ELSE p.active)

colourBurst(p, alignment) ==
    LET burst == p.zeroH + p.burstFromZeroH
    IN  IF alignment = "SYNC_START" THEN p.syncStartBurst
        ELSE <<roundTenths(burst), roundTenths(burst + 10 * p.burstLength)>>

-----------------------------------------------------------------------------
(* Samples *)

Clamped(x, low, high) == IF x < low THEN low ELSE IF x > high THEN high ELSE x

(* The 16-bit value of a sample, 64 times its 10-bit one. *)
convertCompositeSampleToCanonical(encoding, raw, blanking) ==
    CASE encoding = "CVBS_U10_4FSC" -> Clamped(raw * 64, 0, 65535)
      [] encoding = "CVBS_TPG21_4FSC" -> Clamped(raw + 508 * 64, 0, 65535)
      [] encoding = "CVBS_S16_FSC" -> Clamped(raw * 2 + blanking * 64, 0, 65535)
      [] OTHER -> raw % 65536

(* Centred where the encoding has its own zero. *)

(* Chroma is centred on the 10-bit value 512 and signed. *)
convertChromaSampleToCenteredCanonical(encoding, raw, blanking) ==
    Clamped(CASE encoding = "CVBS_U10_4FSC" -> (raw - 512) * 64
              [] encoding = "CVBS_U16_4FSC" -> (raw % 65536) - 32768
              [] encoding = "CVBS_TPG21_4FSC" -> raw - (512 - 508) * 64
              [] encoding = "CVBS_S16_FSC" -> raw * 2 + (blanking - 512) * 64
              [] OTHER -> raw,
            -32768, 32767)

hasStandardAmplitudeMapping(encoding) == encoding \notin {"RAW_S16_28M", "RAW_S16_40M"}

-----------------------------------------------------------------------------
(* The four-field colour sequence of NTSC *)

FirstRow == 30

(* A field's burst is positive on even lines when three rows in four say so;
   a row without a burst says nothing, and four rows at least must speak. *)
measureNtscFieldBurstPolarity(rows) ==
    LET valid == {i \in DOMAIN rows : rows[i] # "none"}
        EvenLine(i) == (FirstRow + i - 1) % 2 = 0
        positive == {i \in valid : (rows[i] = "plus") <=> EvenLine(i)}
        Agree(votes) == Cardinality(votes) * 4 >= Cardinality(valid) * 3
    IN  IF Cardinality(valid) < 4 THEN "mixed"
        ELSE IF Agree(positive) THEN "positive"
        ELSE IF Agree(valid \ positive) THEN "negative" ELSE "mixed"

(* Frames taken to start at field 1 or field 3. *)
phasesOfFirst(first, second) ==
    CASE first = "positive" -> <<1, 2>>
      [] first = "negative" -> <<3, 4>>
      [] OTHER -> <<Unknown, Unknown>>

(* Fields 1 and 4 are positive: the polarities of a frame's two fields tell
   where in the sequence it is. *)
phasesOfPair(first, second) ==
    CASE first = "positive" /\ second = "negative" -> <<1, 2>>
      [] first = "negative" /\ second = "negative" -> <<2, 3>>
      [] first = "negative" /\ second = "positive" -> <<3, 4>>
      [] first = "positive" /\ second = "positive" -> <<4, 1>>
      [] OTHER -> <<Unknown, Unknown>>

measureNtscFieldPhaseIds(system, encoding, fields) ==
    LET n == Len(fields)
        polarity == [i \in 1..n |-> measureNtscFieldBurstPolarity(fields[i])]
        first(i) == 2 * ((i - 1) \div 2) + 1
    IN  IF system # "NTSC" \/ ~hasStandardAmplitudeMapping(encoding) THEN [i \in 1..n |-> Unknown]
        ELSE [i \in 1..n |-> IF first(i) = n THEN Unknown
                             ELSE phasesOfPair(polarity[first(i)], polarity[first(i) + 1])[i - first(i) + 1]]
=============================================================================
