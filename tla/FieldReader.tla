---------------------------- MODULE FieldReader ----------------------------
(***************************************************************************)
(* The three readers that hand out a capture's fields: TbcSource,           *)
(* CvbsCompositeSource and CvbsYcSource (src/src/reader), with the layout   *)
(* rules of src/src/format/video_standards.cpp.                             *)
(*                                                                          *)
(* A file is a run of samples, each named by its position, so what a reader *)
(* returns says where it read.  A field is height lines of width samples.   *)
(* A raster file stores fields one after the other; a frame-native one      *)
(* stores frames of frameSamples samples, fewer than two fields hold, and   *)
(* the reader pads the second field.  Sizes count samples, not bytes.       *)
(* A call is atomic: getVideoField() holds ioMutex throughout.              *)
(***************************************************************************)
EXTENDS Integers, Sequences, FiniteSets

CONSTANTS
  Standards,   \* the video standards: [width, height, frameSamples]
  Files,       \* the files considered: [truth, standard, size, chromaSize]
  Kinds,       \* the readers: a subset of {"tbc", "composite", "yc"}
  MaxField,    \* bounds the fields asked for: the first ones, and one past the last
  MaxReadFaults    \* bounds how often the file or the stream misbehaves

\* A frame ends within the last line of its second field.
StandardsAssumption ==
  \A s \in Standards :
    /\ {s.width, s.height, s.frameSamples} \subseteq Nat \ {0}
    /\ s.width * s.height < s.frameSamples
    /\ 2 * (s.width * s.height) - s.width <= s.frameSamples
    /\ s.frameSamples < 2 * (s.width * s.height)

FilesAssumption ==
  \A f \in Files :
    /\ f.truth \in {"raster", "native"}
    /\ f.standard \in Standards
    /\ {f.size, f.chromaSize} \subseteq Nat

BoundsAssumption == {MaxField, MaxReadFaults} \subseteq Nat

ReaderAssumption == StandardsAssumption /\ FilesAssumption /\ BoundsAssumption

ASSUME ReaderAssumed == ReaderAssumption

VARIABLES
  kind,       \* the reader
  inputFile,       \* the file as it was when it was opened
  request,    \* what open() was told: [override, tbcStandardRate, declared]
  isOpen,
  layout,     \* "raster" or "native"
  numFields,  \* availableFields, numFields
  disk,       \* how many samples the file holds now
  inputFilePos,  \* TbcSource's idea of where its stream is
  streamPos,  \* where each plane's stream is
  failed,     \* TbcSource's stream has its fail bit set
  cut,        \* a discard loop of TbcSource was cut short
  fieldCache, \* whole fields read so far
  answer,     \* the last getVideoField(): [field, first, last, data] and an outcome
  faults

readerVars == <<kind, inputFile, request, isOpen, layout, numFields, disk, inputFilePos, streamPos,
          failed, cut, fieldCache, answer, faults>>

\* A sample of the padding.
Pad == -1

NoAnswer == [field |-> 0, first |-> 0, last |-> 0, outcome |-> "none", data |-> <<>>]

Width == inputFile.standard.width
Height == inputFile.standard.height
FrameSamples == inputFile.standard.frameSamples
FieldSamples == Width * Height
Planes == IF kind = "yc" THEN {"y", "c"} ELSE {"y"}

ReaderInit ==
  /\ kind \in Kinds
  /\ inputFile \in Files
  /\ request = [override |-> "unknown", standardRate |-> FALSE, declared |-> 0]
  /\ isOpen = FALSE
  /\ layout = "raster"
  /\ numFields = -1
  /\ disk = inputFile.size
  /\ inputFilePos = -1
  /\ streamPos = [p \in {"y", "c"} |-> 0]
  /\ failed = FALSE
  /\ cut = FALSE
  /\ fieldCache = <<>>
  /\ answer = NoAnswer
  /\ faults = 0

----------------------------------------------------------------------------
\* Layout.

PackedSamples == 2 * FieldSamples

Divides(n, size) == size > 0 /\ size % n = 0

\* resolveFrameLayout(): an override, then the frame count a sidecar declares, then
\* which of the two frame totals divides the size.
ByTotals ==
  IF Divides(FrameSamples, inputFile.size) /\ ~Divides(PackedSamples, inputFile.size)
    THEN "native" ELSE "raster"

ResolveFrameLayout(r) ==
  IF r.override # "unknown" THEN r.override
  ELSE IF ~r.standardRate THEN "raster"
  ELSE IF r.declared > 0 /\ inputFile.size = r.declared * FrameSamples THEN "native"
  ELSE IF r.declared > 0 /\ inputFile.size = r.declared * PackedSamples THEN "raster"
  ELSE ByTotals

FieldsIn(l) ==
  IF l = "native" THEN 2 * (inputFile.size \div FrameSamples)
                  ELSE inputFile.size \div FieldSamples

----------------------------------------------------------------------------
\* Where the samples of a field's lines are.  Lines count from 1.

\* planFrameNativeFieldRead(): the part of the lines that lies in the frame, and
\* how many samples are padding.  The mutant clips neither end.
NativePlanUnclipped(field, first, last) ==
  LET base == IF field % 2 = 1 THEN 0 ELSE FieldSamples
      frame == ((field - 1) \div 2) * FrameSamples
  IN  [start |-> frame + base + (first - 1) * Width,
       count |-> (last - first + 1) * Width, pad |-> 0]

Lesser(a, b) == IF a < b THEN a ELSE b

NativePlan(field, first, last) ==
  LET base  == IF field % 2 = 1 THEN 0 ELSE FieldSamples
      frame == ((field - 1) \div 2) * FrameSamples
      from  == Lesser(base + (first - 1) * Width, FrameSamples)
      to    == Lesser(base + last * Width, FrameSamples)
  IN  [start |-> frame + from, count |-> to - from, pad |-> base + last * Width - to]

RasterPlan(field, first, last) ==
  [start |-> (field - 1) * FieldSamples + (first - 1) * Width,
   count |-> (last - first + 1) * Width, pad |-> 0]

Plan(field, first, last) ==
  IF layout = "native" THEN NativePlan(field, first, last) ELSE RasterPlan(field, first, last)

\* What a stream that stands at pos gives: as much as the file has.
Got(pos, count) == IF pos >= disk THEN 0 ELSE Lesser(count, disk - pos)

\* The samples of every plane at once, from wherever each stream stands.
Samples(at, plan) ==
  [i \in 1 .. plan.count + plan.pad |->
     IF i <= plan.count THEN [p \in Planes |-> at[p] + i - 1] ELSE [p \in Planes |-> Pad]]

----------------------------------------------------------------------------
\* Opening.

\* TbcSource::open(): the file is its fields, whatever its size says.
OpenTbc ==
  /\ kind = "tbc"
  /\ ~isOpen
  /\ isOpen' = TRUE
  /\ layout' = "raster"
  /\ numFields' = FieldsIn("raster")
  /\ inputFilePos' = 0
  /\ streamPos' = [p \in {"y", "c"} |-> 0]
  /\ UNCHANGED <<kind, inputFile, request, disk, failed, cut, fieldCache, answer, faults>>

\* open() of the other two.  Luma and chroma must be of one size; measuring 0H in the
\* first field leaves the streams behind the lines it read, which no later read minds.
OpenCvbs(override, standardRate, declared) ==
  LET r == [override |-> override, standardRate |-> standardRate, declared |-> declared] IN
  /\ kind \in {"composite", "yc"}
  /\ ~isOpen
  /\ inputFile.size > 0
  /\ kind = "yc" => inputFile.size = inputFile.chromaSize
  /\ isOpen' = TRUE
  /\ request' = r
  /\ layout' = ResolveFrameLayout(r)
  /\ numFields' = FieldsIn(ResolveFrameLayout(r))
  /\ streamPos' = [p \in {"y", "c"} |-> Width]
  /\ UNCHANGED <<kind, inputFile, disk, inputFilePos, failed, cut, fieldCache, answer, faults>>

----------------------------------------------------------------------------
\* Reading a field (first = 1 and last = Height) or some of its lines.

WholeField(first, last) == first = 1 /\ last = Height

Reply(field, first, last, outcome, data) ==
  answer' = [field |-> field, first |-> first, last |-> last, outcome |-> outcome,
             data |-> data]

ServeFromCache(field) ==
  /\ isOpen
  /\ field \in DOMAIN fieldCache
  /\ Reply(field, 1, Height, "returned", fieldCache[field])
  /\ UNCHANGED <<kind, inputFile, request, isOpen, layout, numFields, disk, inputFilePos,
                 streamPos, failed, cut, fieldCache, faults>>

\* The mutant takes the number of fields for the last index.
OutOfRangeByIndex(field, first, last) == field \notin 1 .. numFields - 1

OutOfRange(field, first, last) ==
  IF kind = "tbc"
    THEN LET p == RasterPlan(field, first, last)
         IN  p.start < 0 \/ p.start + p.count > FieldSamples * numFields
    ELSE field \notin 1 .. numFields

Refuse(field, first, last) ==
  /\ ~(WholeField(first, last) /\ field \in DOMAIN fieldCache)
  /\ ~isOpen \/ OutOfRange(field, first, last)
  /\ Reply(field, first, last, "refused", <<>>)
  /\ UNCHANGED <<kind, inputFile, request, isOpen, layout, numFields, disk, inputFilePos,
                 streamPos, failed, cut, fieldCache, faults>>

MustRead(field, first, last) ==
  /\ isOpen
  /\ ~(WholeField(first, last) /\ field \in DOMAIN fieldCache)
  /\ ~OutOfRange(field, first, last)

Keep(field, first, last, data) ==
  fieldCache' = IF WholeField(first, last)
                  THEN [f \in DOMAIN fieldCache \cup {field} |->
                          IF f = field THEN data ELSE fieldCache[f]]
                  ELSE fieldCache

Sought(plan) == inputFilePos # plan.start

\* TbcSource reads on from where its stream stands; it clears the stream's fail bit
\* only when it seeks.
Deliver(field, first, last, pos, stuck) ==
  LET plan == RasterPlan(field, first, last)
      n    == IF stuck THEN 0 ELSE Got(pos, plan.count)
      data == Samples([p \in Planes |-> pos], plan)
  IN  /\ streamPos' = [streamPos EXCEPT !["y"] = pos + n]
      /\ inputFilePos' = plan.start + n
      /\ failed' = (n < plan.count)
      /\ IF n = plan.count
           THEN /\ Reply(field, first, last, "returned", data)
                /\ Keep(field, first, last, data)
           ELSE /\ Reply(field, first, last, "threw", <<>>)
                /\ fieldCache' = fieldCache

ReadTbc(field, first, last) ==
  LET plan == RasterPlan(field, first, last) IN
  /\ kind = "tbc"
  /\ MustRead(field, first, last)
  /\ IF Sought(plan)
       THEN Deliver(field, first, last, plan.start, FALSE)
       ELSE Deliver(field, first, last, streamPos["y"], failed)
  /\ UNCHANGED <<kind, inputFile, request, isOpen, layout, numFields, disk, cut, faults>>

\* The stream will not seek.  Backwards that is the end of it; forwards the samples in
\* between are read and thrown away, and a loop cut short leaves inputFilePos as it was.
ReadTbcUnseekable(field, first, last) ==
  LET plan == RasterPlan(field, first, last)
      skip == plan.start - inputFilePos
      n    == Got(streamPos["y"], skip)
  IN  /\ kind = "tbc"
      /\ faults < MaxReadFaults
      /\ MustRead(field, first, last)
      /\ Sought(plan)
      /\ faults' = faults + 1
      /\ \/ /\ skip > 0 /\ n = skip
            /\ Deliver(field, first, last, streamPos["y"] + n, FALSE)
            /\ cut' = cut
         \/ /\ skip > 0 /\ n < skip
            /\ streamPos' = [streamPos EXCEPT !["y"] = @ + n]
            /\ failed' = TRUE
            /\ cut' = TRUE
            /\ Reply(field, first, last, "threw", <<>>)
            /\ UNCHANGED <<inputFilePos, fieldCache>>
         \/ /\ skip < 0
            /\ failed' = TRUE
            /\ Reply(field, first, last, "threw", <<>>)
            /\ UNCHANGED <<inputFilePos, streamPos, fieldCache, cut>>
      /\ UNCHANGED <<kind, inputFile, request, isOpen, layout, numFields, disk>>

SeekAll(start) == [p \in {"y", "c"} |-> start]

\* readAndConvert(), readAndSynthesise(): every plane is cleared and sought, and a
\* field that is padding alone is not read.
ReadCvbs(field, first, last) ==
  LET plan == Plan(field, first, last)
      at   == IF plan.count > 0 THEN SeekAll(plan.start) ELSE streamPos
      data == Samples(at, plan)
  IN  /\ kind \in {"composite", "yc"}
      /\ MustRead(field, first, last)
      /\ streamPos' = [p \in {"y", "c"} |-> at[p] + Got(at[p], plan.count)]
      /\ IF plan.count = 0 \/ Got(plan.start, plan.count) = plan.count
           THEN /\ Reply(field, first, last, "returned", data)
                /\ Keep(field, first, last, data)
           ELSE /\ Reply(field, first, last, "threw", <<>>)
                /\ fieldCache' = fieldCache
      /\ UNCHANGED <<kind, inputFile, request, isOpen, layout, numFields, disk, inputFilePos,
                     failed, cut, faults>>

\* The file is cut off, or put back, by someone else.
FileChanges(size) ==
  /\ isOpen
  /\ faults < MaxReadFaults
  /\ size # disk
  /\ disk' = size
  /\ faults' = faults + 1
  /\ UNCHANGED <<kind, inputFile, request, isOpen, layout, numFields, inputFilePos, streamPos,
                 failed, cut, fieldCache, answer>>

Declared == {0, inputFile.size \div FrameSamples, inputFile.size \div PackedSamples}

\* Fields as callers ask for them: by the metadata's count, which may be one too many.
Asked == 1 .. Lesser(numFields, MaxField) \cup {numFields + 1}

ReaderNext ==
  \/ OpenTbc
  \/ \E o \in {"unknown", "native"}, s \in BOOLEAN, d \in Declared : OpenCvbs(o, s, d)
  \/ \E f \in Asked : ServeFromCache(f)
  \/ \E f \in Asked, lines \in {<<1, Height>>, <<1, 1>>, <<Height, Height>>} :
       \/ Refuse(f, lines[1], lines[2])
       \/ ReadTbc(f, lines[1], lines[2])
       \/ ReadTbcUnseekable(f, lines[1], lines[2])
       \/ ReadCvbs(f, lines[1], lines[2])
  \/ \E size \in {inputFile.size, FieldSamples + 1} : FileChanges(size)

ReaderSpec == ReaderInit /\ [][ReaderNext]_readerVars

----------------------------------------------------------------------------
\* Properties.

ReaderTypeOK ==
  /\ kind \in Kinds /\ inputFile \in Files
  /\ isOpen \in BOOLEAN /\ failed \in BOOLEAN /\ cut \in BOOLEAN
  /\ layout \in {"raster", "native"}
  /\ numFields \in -1 .. 2 * inputFile.size
  /\ DOMAIN fieldCache \subseteq 1 .. numFields
  /\ answer.outcome \in {"none", "returned", "refused", "threw"}

Everywhere(sample) == [p \in Planes |-> sample]

InOrder(data, from, to) ==
  /\ Len(data) = to - from + 1
  /\ \A i \in DOMAIN data : data[i] = Everywhere(from + i - 1)

TilesFrame(data, from) ==
  \A i \in DOMAIN data :
    data[i] = Everywhere(IF i <= FrameSamples THEN from + i - 1 ELSE Pad)

\* The samples of a frame-native frame are those of its fields, each read once and in
\* order, with nothing but padding behind them; those of a raster are those of its
\* fields.  It holds of every cached field whatever was read, lost or retried before,
\* unless a discard was cut short.
CachedFieldsTileTheFile ==
  ~cut =>
    \A f \in DOMAIN fieldCache :
      /\ Len(fieldCache[f]) = FieldSamples
      /\ layout = "raster" =>
           InOrder(fieldCache[f], (f - 1) * FieldSamples, f * FieldSamples - 1)
      /\ layout = "native" /\ f % 2 = 1 /\ f + 1 \in DOMAIN fieldCache =>
           TilesFrame(fieldCache[f] \o fieldCache[f + 1],
                      (f \div 2) * FrameSamples)

\* Some lines of a field are those lines of the whole field: what a measurement reads
\* (c_api_video.cpp) is what decoders see.
LinesAreSlices ==
  ~cut /\ answer.outcome = "returned" /\ answer.field \in DOMAIN fieldCache =>
    answer.data = SubSeq(fieldCache[answer.field], (answer.first - 1) * Width + 1,
                         answer.last * Width)

TrueTotal == IF inputFile.truth = "native" THEN FrameSamples ELSE PackedSamples

\* A capture tells the layout it was written in when its frame count is declared, and
\* without one, if it is whole frames, unless both frame totals divide its size.
LayoutRecognised ==
  isOpen /\ kind # "tbc" /\ request.override = "unknown" /\ request.standardRate =>
    /\ (inputFile.truth = "native" /\ request.declared * FrameSamples = inputFile.size)
         => layout = "native"
    /\ (inputFile.truth = "raster" /\ request.declared * PackedSamples = inputFile.size)
         => layout = "raster"
    /\ (request.declared = 0 /\ layout # inputFile.truth /\ Divides(TrueTotal, inputFile.size)) =>
         /\ Divides(FrameSamples, inputFile.size)
         /\ Divides(PackedSamples, inputFile.size)

\* Together: whatever a reader returned is what the file holds there.
ReadsAreTrue == ReaderTypeOK /\ CachedFieldsTileTheFile /\ LinesAreSlices /\ LayoutRecognised

\* Every field that getNumberOfAvailableFields() counts can be read while the file is
\* whole, except, in a TbcSource, by asking again at once for what just failed, or when a
\* discard was cut short.
CountedFieldsReadable ==
  [][/\ isOpen /\ disk = inputFile.size /\ faults' = faults
     /\ answer' # answer /\ answer'.field \in 1 .. numFields
     => answer'.outcome = "returned" \/ failed \/ cut]_readerVars
=============================================================================
