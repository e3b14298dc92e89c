------------------------------ MODULE Sidecar ------------------------------
(***************************************************************************)
(* The metadata sidecar of a capture: the LdDecodeMetaData object in       *)
(* memory, the SQLite file it is saved to and read from, and the older     *)
(* JSON form it can be read from.  A save is a sequence of statements of   *)
(* one transaction; a process may die between any two of them.             *)
(*                                                                         *)
(* A field is reduced to what the save protocol tells apart: its number,   *)
(* its audio length, the VBI words a field may or may not carry (they      *)
(* stand for every optional row: metrics, time code, captions), and its    *)
(* dropouts (start positions, of which the table holds one row each).      *)
(***************************************************************************)
EXTENDS Integers, Sequences, FiniteSets, TLC

CONSTANTS
    Words,            \* values of one VBI word
    Drops,            \* positions a dropout may start at
    Contents,         \* the <<VBI words, dropouts>> a field may be appended with
    SystemLines,      \* system |-> <<lowest, first, last>> active frame lines
    SchemaSystems,    \* the systems the schema's CHECK accepts
    Systems,          \* the systems a caller may set
    InitialFiles,     \* the SQLite files the program may find
    JsonFiles,        \* the JSON sidecars it may be given
    MaxFields, MaxEdits, MaxSaves, MaxFaults   \* bounds

SequenceOf(s) == s \in Seq({s[i] : i \in DOMAIN s})

ASSUME SystemLinesAssumption ==
    \A s \in DOMAIN SystemLines :
        /\ SystemLines[s] \in Int \X Int \X Int
        /\ SystemLines[s][1] <= SystemLines[s][2] /\ SystemLines[s][2] <= SystemLines[s][3]

ASSUME SystemsAssumption ==
    Systems \subseteq DOMAIN SystemLines /\ {"PAL", "NTSC", "PAL_M"} \subseteq DOMAIN SystemLines

(* The fields of a capture are numbered without a gap, from 0 in the table
   and from 1 in JSON: a decoder wrote them one after the other.  A row of a
   child table belongs to a field.  A file whose system has no known name is
   refused. *)
ASSUME InitialFilesAssumption ==
    \A f \in InitialFiles :
        /\ DOMAIN f = {"exists", "captures", "pcm", "records", "vbi", "dropOuts"}
        /\ SequenceOf(f.captures)
        /\ \A i \in DOMAIN f.captures :
              /\ DOMAIN f.captures[i] = {"system", "declared", "first", "exclusiveLast"}
              /\ f.captures[i].system \in DOMAIN SystemLines
              /\ {f.captures[i].declared, f.captures[i].first, f.captures[i].exclusiveLast} \subseteq Int
        /\ DOMAIN f.records \subseteq Nat \X Nat /\ IsFiniteSet(DOMAIN f.records)
        /\ \E n \in 0..Cardinality(DOMAIN f.records) :
              {k[2] : k \in {x \in DOMAIN f.records : x[1] = 1}} = 0..(n - 1)
        /\ DOMAIN f.vbi \subseteq DOMAIN f.records /\ DOMAIN f.dropOuts \subseteq DOMAIN f.records

ASSUME JsonFilesAssumption ==
    \A j \in JsonFiles :
        /\ SequenceOf(j.fields) /\ \A i \in DOMAIN j.fields : j.fields[i].seqNo = i
        /\ j.system \in {""} \cup DOMAIN SystemLines /\ j.declared \in Int

VARIABLES
    meta,     \* the LdDecodeMetaData object
    audio,    \* its PCM audio map: starts and lengths, by field
    file,     \* the committed contents of the SQLite file
    save,     \* the save in progress: its step and its transaction
    saved,    \* the metadata the last committed save was given, or NoSave
    work      \* counts of edits, saves and faults, for the bounds

vars == <<meta, audio, file, save, saved, work>>

NoVbi == <<>>
Vbi == [1..3 -> Words]
None == -1

-----------------------------------------------------------------------------
(* The object *)

EmptyField == [seqNo |-> 0, audioSamples |-> None, vbi |-> NoVbi, dropOuts |-> <<>>]

Cleared == [isValid |-> FALSE, system |-> "PAL", declared |-> None, fields |-> <<>>,
            lines |-> <<None, None>>, pcm |-> FALSE]

NoAudio == [start |-> <<>>, length |-> <<>>]

getField(m, n) == IF n \in DOMAIN m.fields THEN m.fields[n] ELSE EmptyField

(* Active lines out of the system's range return to its default, and so do
   both when they end up in the wrong order. *)
applyTo(system, lines) ==
    LET lowest == SystemLines[system][1]
        default == <<SystemLines[system][2], SystemLines[system][3]>>
        InRange(line) == line \in lowest..default[2]
        kept == [i \in 1..2 |-> IF InRange(lines[i]) THEN lines[i] ELSE default[i]]
    IN  IF kept[1] > kept[2] THEN default ELSE <<kept[1], kept[2]>>

initialiseVideoSystemParameters(m) == [m EXCEPT !.lines = applyTo(m.system, <<None, None>>)]

(* Field n starts where the audio of the fields before it ends; the map has
   one entry more than there are fields, left at zero. *)
generatePcmAudioMap(m) ==
    LET length == [n \in 1..m.declared |-> getField(m, n).audioSamples]
        start[n \in 1..m.declared] == IF n = 1 THEN 0 ELSE start[n - 1] + length[n - 1]
    IN  [start |-> Append([n \in 1..m.declared |-> start[n]], 0), length |-> Append(length, 0)]

getFieldPcmAudioStart(map, n) == IF Len(map.start) < n THEN None ELSE map.start[n]
getFieldPcmAudioLength(map, n) == IF Len(map.length) < n THEN None ELSE map.length[n]

-----------------------------------------------------------------------------
(* The tables: field_record and vbi have one row to a capture and field,
   drop_outs as many as the field has dropouts. *)

NoFile == [exists |-> FALSE, captures |-> <<>>, pcm |-> {}, records |-> <<>>,
           vbi |-> <<>>, dropOuts |-> <<>>]

With(table, k, row) == [x \in DOMAIN table \cup {k} |-> IF x = k THEN row ELSE table[x]]
Without(table, k) == [x \in DOMAIN table \ {k} |-> table[x]]
RowsOf(table, k) == IF k \in DOMAIN table THEN table[k] ELSE <<>>

FieldIds(db, capture) == {k[2] : k \in {x \in DOMAIN db.records : x[1] = capture}}

(* REPLACE deletes the row it replaces, and with foreign keys enforced the
   rows of every table that refers to it. *)
deleteCascade(db, k) ==
    [db EXCEPT !.records = Without(@, k), !.vbi = Without(@, k), !.dropOuts = Without(@, k)]

deleteRowOnly(db, k) == [db EXCEPT !.records = Without(@, k)]

writeFieldRecordKeepingChildren(db, k, samples) ==
    LET free == IF k \in DOMAIN db.records THEN deleteRowOnly(db, k) ELSE db
    IN  [free EXCEPT !.records = With(@, k, samples)]

writeFieldRecord(db, k, samples) ==
    LET free == IF k \in DOMAIN db.records THEN deleteCascade(db, k) ELSE db
    IN  [free EXCEPT !.records = With(@, k, samples)]

writeFieldVbi(db, k, vbi) == IF vbi = NoVbi THEN db ELSE [db EXCEPT !.vbi = With(@, k, vbi)]

writeFieldDropouts(db, k, drops) ==
    IF drops = <<>> THEN db
    ELSE [db EXCEPT !.dropOuts = With(@, k, IF k \in DOMAIN @ THEN @[k] \o drops ELSE drops)]

writeField(db, capture, field) ==
    LET k == <<capture, field.seqNo - 1>>
    IN  writeFieldDropouts(writeFieldVbi(writeFieldRecord(db, k, field.audioSamples), k, field.vbi),
                           k, field.dropOuts)

(* An update names every column but the two that hold active lines. *)
writeCaptureMetadata(db, m) ==
    [db EXCEPT !.captures = Append(@, [system |-> m.system, declared |-> m.declared,
                                       first |-> None, exclusiveLast |-> None])]
updateCaptureMetadata(db, capture, m) ==
    [db EXCEPT !.captures[capture].system = m.system, !.captures[capture].declared = m.declared]

writePcmAudioParameters(db, capture, m) == IF m.pcm THEN [db EXCEPT !.pcm = @ \cup {capture}] ELSE db

(* Only the first capture of a file is ever read. *)
readable(db) == db.captures # <<>>

OrderBy(drops) == SortSeq(drops, <)
readDropouts(db, k) == OrderBy(RowsOf(db.dropOuts, k))

readField(db, k) ==
    [seqNo |-> k[2] + 1, audioSamples |-> db.records[k],
     vbi |-> RowsOf(db.vbi, k), dropOuts |-> readDropouts(db, k)]

readFields(db, capture) ==
    LET ids == FieldIds(db, capture)
        nth(i) == CHOOSE id \in ids : Cardinality({j \in ids : j < id}) = i - 1
    IN  [i \in 1..Cardinality(ids) |-> readField(db, <<capture, nth(i)>>)]

(* The active lines a file states override the system's; the last one is
   written exclusive and carried inclusive. *)
readLines(row) == <<row.first, IF row.exclusiveLast > 0 THEN row.exclusiveLast - 1 ELSE None>>

readCaptureMetadata(db) ==
    LET row == db.captures[1]
        m == [Cleared EXCEPT !.isValid = TRUE, !.system = row.system, !.declared = row.declared,
                             !.fields = readFields(db, 1), !.pcm = 1 \in db.pcm]
        stated == readLines(row)
        default == initialiseVideoSystemParameters(m)
    IN  IF stated = <<None, None>> THEN default
        ELSE [default EXCEPT !.lines = applyTo(m.system, stated)]

-----------------------------------------------------------------------------
(* JSON *)

(* Three words, however many the array holds. *)
readJsonVbi(words) == [i \in 1..3 |-> IF i \in DOMAIN words THEN words[i] ELSE 0]

readJsonField(f) ==
    [seqNo |-> f.seqNo, audioSamples |-> f.audioSamples,
     vbi |-> IF f.vbiData = <<>> THEN NoVbi ELSE readJsonVbi(f.vbiData[1]),
     dropOuts |-> f.startx]

(* The three arrays of a field's dropouts are as long as one another, or the
   whole file is refused. *)
dropOutArraysMatch(f) == Len(f.startx) = Len(f.endx) /\ Len(f.startx) = Len(f.fieldLine)

(* Older files name no system. *)
jsonSystem(j) ==
    CASE j.system # "" -> j.system
      [] j.system = "" /\ ~j.isSourcePal -> "NTSC"
      [] j.system = "" /\ j.isSourcePal /\ j.fieldHeight < 300 -> "PAL_M"
      [] OTHER -> "PAL"

readJsonParameters(j) ==
    [Cleared EXCEPT !.isValid = TRUE, !.system = jsonSystem(j), !.declared = j.declared,
                    !.pcm = j.pcm]

(* The fields up to the first that is refused stay in the object. *)
readJson(j) ==
    LET bad == {i \in DOMAIN j.fields : ~dropOutArraysMatch(j.fields[i])}
        read == IF bad = {} THEN j.fields
                ELSE SubSeq(j.fields, 1, (CHOOSE i \in bad : \A k \in bad : i <= k) - 1)
        m == [readJsonParameters(j) EXCEPT !.fields = [i \in DOMAIN read |-> readJsonField(read[i])]]
        ok == bad = {} /\ j.declared = Len(j.fields)
    IN  [ok |-> ok, meta |-> IF ok THEN initialiseVideoSystemParameters(m) ELSE m]

-----------------------------------------------------------------------------
(* Operations *)

NoSave == [meta |-> Cleared, known |-> FALSE, lost |-> FALSE]
Idle == [step |-> "idle", isUpdate |-> FALSE, capture |-> 0, next |-> 0, db |-> NoFile,
         skipped |-> FALSE]

Init ==
    /\ meta = Cleared
    /\ audio = NoAudio
    /\ file \in InitialFiles
    /\ save = Idle
    /\ saved = NoSave
    /\ work = [edits |-> 0, saves |-> 0, faults |-> 0]

Spend(what, most) == work[what] < most /\ work' = [work EXCEPT ![what] = @ + 1]

Edit(m) == save = Idle /\ Spend("edits", MaxEdits) /\ meta' = m /\ UNCHANGED <<audio, file, save, saved>>

(* The active lines of a caller's parameters: its preset's, which are the
   system's defaults, or none yet (synthesizeMetadata(), Encoder::encode()). *)
CallerLines(system) ==
    {<<None, None>>, <<SystemLines[system][2], SystemLines[system][3]>>}

(* setVideoParameters(): the caller's parameters are taken as they are. *)
SetVideoParameters(system, lines) ==
    /\ ~meta.isValid
    /\ Edit([meta EXCEPT !.isValid = TRUE, !.system = system, !.declared = 0, !.lines = lines])

AppendField(vbi, drops) ==
    /\ meta.isValid /\ Len(meta.fields) < MaxFields
    /\ LET n == Len(meta.fields) + 1
       IN  Edit([meta EXCEPT !.fields = Append(@, [seqNo |-> n, audioSamples |-> n, vbi |-> vbi,
                                                   dropOuts |-> drops]),
                             !.declared = n])

UpdateFieldVbi(n, vbi) == n \in DOMAIN meta.fields /\ Edit([meta EXCEPT !.fields[n].vbi = vbi])
UpdateFieldDropOuts(n, drops) ==
    n \in DOMAIN meta.fields /\ Edit([meta EXCEPT !.fields[n].dropOuts = drops])

(* overrideVideoSystem(): the lines in force are checked against the new
   system's bounds. *)
OverrideVideoSystem(system) ==
    /\ meta.isValid /\ system # meta.system
    /\ Edit([meta EXCEPT !.system = system, !.lines = applyTo(system, meta.lines)])

(* A read clears the object before it knows whether there is anything to
   read, and leaves it cleared when there is not. *)
ReadSqlite ==
    /\ save = Idle /\ file.exists
    /\ meta' = IF readable(file) THEN readCaptureMetadata(file) ELSE Cleared
    /\ audio' = IF readable(file) THEN generatePcmAudioMap(meta') ELSE audio
    /\ UNCHANGED <<file, save, saved, work>>

ReadJson(j) ==
    /\ save = Idle
    /\ Spend("edits", MaxEdits)
    /\ meta' = readJson(j).meta
    /\ audio' = IF readJson(j).ok THEN generatePcmAudioMap(meta') ELSE audio
    /\ UNCHANGED <<file, save, saved>>

(* write(): a file whose capture cannot be read, be it only because another
   program has it locked, is taken for a new one. *)
BeginSave ==
    /\ save = Idle /\ meta.isValid
    /\ \E busy \in BOOLEAN :
          /\ busy => file.exists /\ work.faults < MaxFaults
          /\ work.saves < MaxSaves
          /\ work' = [work EXCEPT !.saves = @ + 1, !.faults = IF busy THEN @ + 1 ELSE @]
          /\ LET isUpdate == file.exists /\ readable(file) /\ ~busy
             IN  save' = [Idle EXCEPT !.step = IF isUpdate THEN "capture" ELSE "schema",
                                      !.isUpdate = isUpdate, !.capture = 1, !.db = file]
    /\ UNCHANGED <<meta, audio, file, saved>>

(* The schema is created before the transaction, and stays. *)
CreateSchema ==
    /\ save.step = "schema"
    /\ file' = [file EXCEPT !.exists = TRUE]
    /\ save' = [save EXCEPT !.step = "capture", !.db = file']
    /\ UNCHANGED <<meta, audio, saved, work>>

(* A system the schema does not list fails its CHECK: the save is undone. *)
WriteCapture ==
    /\ save.step = "capture"
    /\ IF meta.system \notin SchemaSystems THEN save' = Idle
       ELSE LET capture == IF save.isUpdate THEN save.capture ELSE Len(file.captures) + 1
                row == IF save.isUpdate THEN updateCaptureMetadata(save.db, capture, meta)
                       ELSE writeCaptureMetadata(save.db, meta)
            IN  save' = [save EXCEPT !.step = "fields", !.capture = capture, !.next = 1,
                                     !.db = writePcmAudioParameters(row, capture, meta)]
    /\ UNCHANGED <<meta, audio, file, saved, work>>

(* What a field's statements return is not looked at: one that fails is
   left out, and the save goes on. *)
WriteNextField ==
    /\ save.step = "fields" /\ save.next <= Len(meta.fields)
    /\ \/ /\ save' = [save EXCEPT !.next = @ + 1,
                                  !.db = writeField(@, save.capture, meta.fields[save.next])]
          /\ UNCHANGED work
       \/ /\ Spend("faults", MaxFaults)
          /\ save' = [save EXCEPT !.next = @ + 1, !.skipped = TRUE]
    /\ UNCHANGED <<meta, audio, file, saved>>

CommitSave ==
    /\ save.step = "fields" /\ save.next > Len(meta.fields)
    /\ file' = save.db
    /\ LET lost == saved.lost \/ save.skipped
       IN  saved' = [meta |-> meta, known |-> ~lost, lost |-> lost]
    /\ save' = Idle
    /\ UNCHANGED <<meta, audio, work>>

(* A statement that ends the whole transaction ends the save. *)
FailSave ==
    /\ save # Idle
    /\ Spend("faults", MaxFaults)
    /\ save' = Idle
    /\ UNCHANGED <<meta, audio, file, saved>>

(* The process dies; the next one starts from the file. *)
Crash ==
    /\ Spend("faults", MaxFaults)
    /\ meta' = Cleared /\ audio' = NoAudio /\ save' = Idle
    /\ UNCHANGED <<file, saved>>

Next ==
    \/ \E system \in Systems :
          \/ \E lines \in CallerLines(system) : SetVideoParameters(system, lines)
          \/ OverrideVideoSystem(system)
    \/ \E content \in Contents : AppendField(content[1], content[2])
    \/ \E n \in DOMAIN meta.fields :
          \/ \E vbi \in {NoVbi} \cup Vbi : UpdateFieldVbi(n, vbi)
          \/ \E drops \in Drops : UpdateFieldDropOuts(n, drops)
    \/ ReadSqlite
    \/ \E j \in JsonFiles : ReadJson(j)
    \/ BeginSave \/ CreateSchema \/ WriteCapture \/ WriteNextField \/ CommitSave
    \/ FailSave \/ Crash

Spec == Init /\ [][Next]_vars

-----------------------------------------------------------------------------
(* Properties *)

(* A field as a read gives it back: its dropouts in order. *)
AsRead(field) == [field EXCEPT !.dropOuts = OrderBy(@)]

(* Whatever was interrupted, a file that can be read holds all of the last
   save that reported success and nothing of any other: the VBI words it
   removed do not come back and its dropouts are not doubled.  (Rows past
   its last field are left from an older, longer save, a second capture is
   never read, and a field whose statement failed is missing from the file
   and from the count that numbers the next one: all three are the code's,
   in write(), readCaptureMetadata() and writeFields().) *)
FileIsLastSave ==
    saved.known /\ Len(file.captures) = 1 =>
        LET m == readCaptureMetadata(file)
            n == Len(saved.meta.fields)
        IN  /\ m.declared = saved.meta.declared /\ m.system = saved.meta.system
            /\ Len(m.fields) >= n
            /\ SubSeq(m.fields, 1, n) = [i \in 1..n |-> AsRead(saved.meta.fields[i])]

(* The audio of consecutive fields leaves no gap and does not overlap, for
   every field the metadata was read with (generatePcmAudioMap()). *)
AudioSpansTile ==
    \A n \in 1..(Len(audio.start) - 2) :
        getFieldPcmAudioLength(audio, n) # None =>
            getFieldPcmAudioStart(audio, n + 1)
                = getFieldPcmAudioStart(audio, n) + getFieldPcmAudioLength(audio, n)

(* The active lines are within the system's and in order, whichever of the
   file, the caller and a re-declared system set them. *)
ActiveLinesUsable ==
    meta.lines # <<None, None>> =>
        /\ SystemLines[meta.system][1] <= meta.lines[1]
        /\ meta.lines[1] <= meta.lines[2]
        /\ meta.lines[2] <= SystemLines[meta.system][3]

TypeOK ==
    /\ meta.system \in DOMAIN SystemLines
    /\ \A i \in DOMAIN meta.fields :
          meta.fields[i].seqNo \in 1..MaxFields /\ Len(meta.fields[i].vbi) \in {0, 3}
    /\ save.step \in {"idle", "schema", "capture", "fields"}
    /\ {k[1] : k \in DOMAIN file.records} \subseteq 1..Len(file.captures)
    /\ DOMAIN file.vbi \subseteq DOMAIN file.records
    /\ DOMAIN file.dropOuts \subseteq DOMAIN file.records
=============================================================================
