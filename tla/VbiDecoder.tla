----------------------------- MODULE VbiDecoder -----------------------------
(***************************************************************************)
(* Decoding the VBI words of a frame: three lines of each of its fields    *)
(* carry a 24-bit word of six digits, most significant first, and a line   *)
(* that was not read carries -1, here six digits F (no code is that word). *)
(***************************************************************************)
EXTENDS Integers, Sequences, FiniteSets

Unread == <<15, 15, 15, 15, 15, 15>>
Unknown == -1
bit(digit, weight) == (digit \div weight) % 2 = 1

(* Decimal digits give a number; any other leaves what was there. *)
Decimal(digits) == \A i \in DOMAIN digits : digits[i] <= 9
ValueOf(digits) ==
    LET value[i \in 0..Len(digits)] == IF i = 0 THEN 0 ELSE 10 * value[i - 1] + digits[i]
    IN  value[Len(digits)]
decodeBCD(digits, output) == IF Decimal(digits) THEN ValueOf(digits) ELSE output

NoVbi ==
    [type |-> "unknown", userCode |-> <<>>, picNo |-> Unknown, chNo |-> Unknown,
     clvHr |-> Unknown, clvMin |-> Unknown, clvSec |-> Unknown, clvPicNo |-> Unknown,
     soundMode |-> "futureUse", soundModeAm2 |-> "futureUse", flags |-> {}]

Flag(vbi, cond, name) == IF cond THEN [vbi EXCEPT !.flags = @ \cup {name}] ELSE vbi

(* The first digit of picture and chapter numbers has its top bit masked. *)
maskTop(digit) == digit % 8

(* A picture number begins with F; lines 17 and 18 may carry one. *)
decodePictureNumber(vbi, word) ==
    LET digits == <<maskTop(word[2])>> \o SubSeq(word, 3, 6)
    IN  IF word[1] = 15 /\ Decimal(digits)
        THEN [vbi EXCEPT !.picNo = decodeBCD(digits, @), !.type = "cav"] ELSE vbi

decodeChapter(vbi, word) ==
    IF word[1] = 8 /\ SubSeq(word, 4, 6) = <<13, 13, 13>>
    THEN [vbi EXCEPT !.chNo = decodeBCD(<<maskTop(word[2]), word[3]>>, @)] ELSE vbi

(* Each of hour and minute taken where it is valid. *)
decodeProgrammeTimeInTurn(vbi, word) ==
    IF word[1] = 15 /\ word[3] = 13 /\ word[4] = 13
    THEN [vbi EXCEPT !.clvHr = decodeBCD(<<word[2]>>, @),
                     !.clvMin = decodeBCD(<<word[5], word[6]>>, @)]
    ELSE vbi

(* Hour and minute must both be valid; the minute is decoded into place. *)
decodeProgrammeTime(vbi, word) ==
    IF word[1] = 15 /\ word[3] = 13 /\ word[4] = 13 /\ Decimal(<<word[2]>>)
    THEN LET minute == <<word[5], word[6]>>
         IN  [vbi EXCEPT !.clvMin = decodeBCD(minute, @),
                         !.clvHr = IF Decimal(minute) THEN decodeBCD(<<word[2]>>, @) ELSE @]
    ELSE vbi

(* The last digit of a status code checks the one before it. *)
parity(x4, x5) ==
    LET odd(weights) == Cardinality({w \in weights : bit(x4, w)}) % 2 = 1
    IN  /\ bit(x5, 8) <=> odd({8, 4, 1})
        /\ bit(x5, 4) <=> odd({8, 2, 1})
        /\ bit(x5, 2) <=> odd({4, 2, 1})

(* The sound of each audio status, 0 to 15; from 4 to 7 and from 12 on it is
   multiplexed, from 8 on the programme is a dump. *)
SoundModes ==
    <<"stereo", "mono", "futureUse", "bilingual",
      "stereo_stereo", "stereo_bilingual", "crossChannelStereo", "bilingual_bilingual",
      "mono_dump", "mono_dump", "futureUse", "mono_dump",
      "stereo_dump", "stereo_dump", "bilingual_dump", "bilingual_dump">>

statusCode(word) == SubSeq(word, 1, 3) \in {<<8, 13, 12>>, <<8, 11, 10>>}
digitBit(digit, weight, place) == IF bit(digit, weight) THEN place ELSE 0

decodeProgrammeStatus(vbi, word) ==
    LET x3 == word[4]
        x4 == word[5]
        audioStatus == digitBit(x4, 8, 8) + digitBit(x3, 1, 4) + digitBit(x4, 2, 2) + digitBit(x4, 1, 1)
        flags == {f \in {"cx", "parity", "size", "side", "teletext", "digital", "dump", "fm"} :
                    \/ f = "cx" /\ word[2] = 13
                    \/ f = "parity" /\ parity(x4, word[6])
                    \/ f = "size" /\ ~bit(x3, 8)
                    \/ f = "side" /\ ~bit(x3, 4)
                    \/ f = "teletext" /\ bit(x3, 2)
                    \/ f = "digital" /\ bit(x4, 4)
                    \/ f = "dump" /\ audioStatus >= 8
                    \/ f = "fm" /\ audioStatus \in 4..7 \cup 12..15}
    IN  IF statusCode(word)
        THEN [vbi EXCEPT !.flags = @ \cup flags, !.soundMode = SoundModes[audioStatus + 1]]
        ELSE vbi

(* Amendment 2 gives the same bits other meanings. *)
SoundModesAm2 == [status \in {0, 1, 3, 8} |-> SoundModes[status + 1]]

decodeProgrammeStatusAm2(vbi, word) ==
    LET audioStatus == word[5]
        standard == audioStatus \in DOMAIN SoundModesAm2
        flags == (IF bit(word[4], 1) THEN {"copyAm2"} ELSE {})
                 \cup (IF standard THEN {"standardAm2"} ELSE {})
    IN  IF statusCode(word)
        THEN [vbi EXCEPT !.flags = @ \cup flags,
                         !.soundModeAm2 = IF standard THEN SoundModesAm2[audioStatus] ELSE "futureUse"]
        ELSE vbi

decodeUserCode(vbi, word) ==
    IF word[1] = 8 /\ word[3] = 13 /\ word[2] <= 7
    THEN [vbi EXCEPT !.userCode = <<word[2]>> \o SubSeq(word, 4, 6)] ELSE vbi

(* Second and picture must both be valid; a CAV picture number of the same
   field is then wrong.  Tens of seconds are written A to F. *)
decodeClvPicture(vbi, word) ==
    IF /\ word[1] = 8 /\ word[3] = 14 /\ word[2] >= 10
       /\ Decimal(<<word[4]>>) /\ Decimal(<<word[5], word[6]>>)
    THEN [vbi EXCEPT !.clvPicNo = decodeBCD(<<word[5], word[6]>>, @),
                     !.clvSec = 10 * (word[2] - 10) + word[4],
                     !.type = "clv", !.picNo = Unknown]
    ELSE vbi

LeadIn == <<8, 8, 15, 15, 15, 15>>
LeadOut == <<8, 0, 14, 14, 14, 14>>
PictureStop == <<8, 2, 12, 15, 15, 15>>
ConstantLinearVelocity == <<8, 7, 15, 15, 15, 15>>

(* One field; where two lines carry the same code the later one stands. *)
decode(vbi16, vbi17, vbi18) ==
    LET both == {vbi17, vbi18}
        start == Flag(Flag(NoVbi, LeadIn \in both, "leadIn"), LeadOut \in both, "leadOut")
        picture == decodePictureNumber(decodePictureNumber(start, vbi17), vbi18)
        stopped == IF PictureStop \in {vbi16, vbi17}
                   THEN [Flag(picture, TRUE, "picStop") EXCEPT !.type = "cav"] ELSE picture
        chapter == decodeChapter(decodeChapter(stopped, vbi17), vbi18)
        time == decodeProgrammeTime(decodeProgrammeTime(chapter, vbi17), vbi18)
        clv == IF time.clvHr # Unknown \/ vbi17 = ConstantLinearVelocity
               THEN [time EXCEPT !.type = "clv"] ELSE time
        status == decodeProgrammeStatusAm2(decodeProgrammeStatus(clv, vbi16), vbi16)
    IN  IF vbi16 = Unread /\ vbi17 = Unread /\ vbi18 = Unread THEN NoVbi
        ELSE decodeClvPicture(decodeUserCode(status, vbi16), vbi16)

(* A frame takes each item from its first field, or from its second where
   the first has none. *)
decodeFrame(first, second) ==
    LET a == decode(first[1], first[2], first[3])
        b == decode(second[1], second[2], second[3])
    IN  [item \in DOMAIN NoVbi |->
            IF item = "flags" THEN a.flags \cup b.flags
            ELSE IF a[item] # NoVbi[item] THEN a[item] ELSE b[item]]

-----------------------------------------------------------------------------
(* CLV time and frame numbers *)

FramesPerSecond(system) == IF system = "PAL" THEN 25 ELSE 30

convertClvTimecodeToFrameNumber(system, t) ==
    IF Unknown \in {t.hours, t.minutes, t.seconds, t.pictureNumber} THEN Unknown
    ELSE FramesPerSecond(system) * (3600 * t.hours + 60 * t.minutes + t.seconds) + t.pictureNumber

convertFrameNumberToClvTimecode(system, frame) ==
    LET fps == FramesPerSecond(system)
        second == frame \div fps
    IN  [hours |-> second \div 3600, minutes |-> (second \div 60) % 60,
         seconds |-> second % 60, pictureNumber |-> frame % fps]
=============================================================================
