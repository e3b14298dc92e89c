# A TLA+ model of chroma-decode

chroma-decode (libchromadec) decodes the colour of digitised composite video.
It opens a capture with the sidecar that describes it, reads its fields, pairs
them into frames, optionally repairs dropouts from extra captures, decodes the
chroma with one of about a dozen decoders, and hands out planes or writes a
file. The modules model what decides *which* samples are decoded, by whom,
with which calibration, and what reaches the caller; sample values are kept
only where a small exact signal tells a right picture from a wrong one.

## Components

| Component | State | Operations | Interacts with | What is hard | What makes it correct |
|---|---|---|---|---|---|
| File-to-file pool (`pipeline/decoder_pool`) | next input and output frame, pending map, output stream, abort flag and reason | `process`, `getInputFrames`, `putOutputFrames` | decoder, field loading, output writer | workers finish in any order; two mutexes; failures | the file holds the frames in order, once each; the call returns |
| Decoding through a handle (`abi/c_api_decoder`) | decoder instances and mutexes, concealed-span cache, statistics | `chd_decode_frame`, `chd_decode_frames_async`, `chd_cancel_request` | caller's callback, video, decoders | concurrent jobs, re-entrance, cancellation | one thread per instance, one callback per index, prompt cancel, return |
| Commit (`abi/c_api_decoder`), registry (`decoders/registry`) | options, model, instances, committed flag; `isFirstFieldFirst` of the *video* | option setters, `chd_decoder_commit`, `build` | video metadata, models | long sequence of checks; writes state other decoders read; fails half-way | a decoder is the one asked for, and shows what it was committed to show |
| Opening (`abi/c_api_video`) | planes, metadata, extras | open, add extra source | readers, sidecars, formats | four kinds of sidecar, caller overrides, measurements | a source is what its capture and the caller say; planes agree |
| Field numbering (`metadata/core`), loading (`decoders/source_field`) | field metadata | `getNumberOfFrames`, `getFieldNumber`, `loadFields` | readers | irregular and truncated captures | a frame is one interlaced pair, or blank |
| Sidecars (`metadata/*_sqlite`, `*_json`) | `LdDecodeMetaData`, the SQLite file | read, edit, write | files | a save is many statements; crash, failure | a readable file is the last save that succeeded |
| VBI decoder, dropout extension (`metadata/vbi_decoder`, `dropout_extension_sqlite`) | none | `decodeFrame`, `sliceRunIntoFieldDropouts` | alignment, corrector | partly readable codes, runs across lines | what is decoded is what is stored |
| Formats (`format/*`), readers (`reader/*`) | layout, alignment; stream position, caches | `open`, `getVideoField` | files, pipes | layout inferred from size; failures move the position | a field's samples are that field's |
| Dropout corrector (`dropout/dropout_corrector`) | two fields, corrected in place | `correctFrame` | extra captures | order of repairs, chroma phase, edges | clean, nearest, in-phase samples are used |
| Multi-source alignment (`dropout/multi_source_alignment`) | number range of each capture | constructor, `sourceFrameForPrimaryFrame` | VBI decoder, decode | captures start anywhere; unreadable numbers | only the same picture is used |
| NTSC comb, mono (`decoders/comb`, `decoders/mono`) | three frame buffers per call | `decodeFrames` | pool, ABI | look-behind, phase at cuts and edges | a frame does not depend on the call; neighbours subtracted are of opposite phase |
| PAL (`decoders/palcolour`) | filter tables | `decodeFrames`, Transform PAL tiles | pool, ABI | edges of the crop, V switch, tiles over the range | every active sample decoded from its own picture |
| SECAM (`decoders/secam`) | last good carriers, last identification | `decodeFrames` | pool, ABI | memory between fields | lattice and carriers are the field's own |
| Neural decoders (`decoders/nntransform3d`, `decoders/ldzeug`), engines (`nn/*`) | sessions, compute units, per-thread GPU buffers, accumulators | load, predict, decode | ONNX Runtime, CoreML, CUDA/HIP, Metal | providers fail; fallbacks after half a batch | a frame is accumulated from its own tiles, sums match weights |
| Output (`output/*`, `abi/c_api_frame`), dropout detection (`abi/c_api_dropout_detect`) | geometry, frame buffers | `updateConfiguration`, `convert`, planes, spans, masks | commit, span cache | odd crops, padding, 4:4:0 | planes are the picture, masks fall on the damage |
| Logging and errors, calibration, Rust bindings | sink, thread-local detail | - | everything | - | - |

`PROJECT.json` lists the same parts with what is left out of each, and the
hazards of the code at their lines.

## Modules

**OrderedOutput** is the promise of `DecoderPool::process()` with no threads in
it: frames are appended one after another, and success means all of them.
**DecoderPool** is the threaded pipeline. Its variables are the members of the
class (`inputFrameNumber`, `outputFrameNumber`, `pending` for
`pendingOutputFrames`, `abort`, `abortReason`), the file, the stream's `good()`
bit and, per worker, a place in `workerLoop()` and the batch it holds. Claiming
a batch is one action because `inputMutex` covers all it touches. The output side
is split finer (enter, insert, write, drained) because a write may fail between
two of them. A worker can fail in three ways: the decoder throws, the write
fails, or loading throws and ends the program. Each worker uses a decoder with
no scratch (see Known divergences). **DecoderPoolProofs** holds the theorems.

**AsyncDecode** is one committed handle used by several callers. A thread is a
worker of a job or a synchronous caller; `mutex` is `decoderMutexes`. The
callback is the caller's code: it may re-enter `chd_decode_frame` once. `late`,
`decoded`, `delivered` and `ascending` are history. Its definitions carry `Async` where
another module has one of the name. Every decode of a frame in
range publishes spans, as a SECAM decode with click concealment does. The
comment at `c_api_decoder.cpp:993` says asynchronous decodes run on workers
1..N-1; the code uses 0..W-1, and so does the model. **AsyncDecodeProofs** holds
its theorems.

**FieldNumbering** has pure operators: how many frames a capture has, which
fields a frame is, what `loadFields()` makes of them; **FieldNumberingProofs** holds
lemmas about them that two other modules of proofs use. **SharedVideo** EXTENDS it:
several decoders on one video, whose metadata each commit writes and each decode
reads three times. **DecoderLifecycle** is one caller from a file name to a
committed decoder: sidecar resolution, opening alone or as a pair, extras,
options, each check of the commit in its order, the kind AUTO becomes, and the
instance the registry builds. Its calls must not overlap
(`include/chromadec/decoder.h`), so each is one action; its actions and its
specification carry `Lifecycle` or `Decoder` where SharedVideo has one of the name, so
that one run can extend both. **HandlesProofs** holds the theorems of both.

**DropoutCorrector** corrects one frame, one dropout per action; a sample is where
its luma and its chroma came from. The luma filter mixes neighbouring columns of
the *replacement* line, so the model speaks of the column itself. Where several
candidates are equally good the code takes the first, the model any. **MultiSource** EXTENDS
FieldNumbering: the VBI scan of each capture, the mapping from the primary's frame
to an extra's, and the fetch of the extra's fields. **PictureGeometry** follows a
decoded frame into planes: crop, padding, buffers, strides, 4:4:0 rows, and the
spans and masks computed beside them. A sample there is named by its component,
row and column; `writer` is what `updateConfiguration` works out once, at the
commit, with its padding loop in closed form. **FramesProofs** holds the theorems
of these three.

**CombDecoder** and **PalColour** are what a decoder computes, on pictures so
flat that the filters are exact in integers: the comb's candidates and their
penalties, demodulation; PAL's burst, V switch and tiles. **ChromaDecoders**
EXTENDS both with the calls: runs of frames in any order, each loading its
look-behind and look-ahead. Its `ChromaInit`, `ChromaNext` and `ChromaSpec` leave the plain
names to DecoderPool. **SecamDecoder** has the instances of a pool with
their memory; samples are abstracted to where a carrier sits and whether it can
be measured. Its names carry `Secam` where ChromaDecoders has one of its own, so that one run
can extend both. **ColourProofs** holds the theorems of the four.

**Sidecar** is the metadata object, its SQLite file as rows, and saves whose
statements fail and are interrupted; SQLite (a transaction is all or nothing)
is external. A table with several rows to a field is kept by field, which is how it is
written, deleted and read. **CvbsFormat** has the presets, layouts, alignment, phases and
encodings of CVBS captures, **VbiDecoder** and **DropoutExtension** the decoders
of stored words and runs. **VideoOpening** EXTENDS Sidecar and CvbsFormat: an
open merges a sidecar, a preset, the caller's parameters and what is measured in
the samples. DecoderLifecycle asks whether and with what an open succeeds,
VideoOpening what the source then is. **FieldReader** is the three readers over
files that are cut and streams that refuse to seek; a sample is its position in
the file. Its names carry `Reader` where VideoOpening has one of its own, so that
one run can extend both. **InputProofs** holds the theorems of the three.

**NnModel** loads a model along the chain of providers. **Ldzeug** weaves rows
and burst tables of the two ldzeug decoders. **NnTransform3D** EXTENDS both: two
instances decode frames tile by tile on the CPU, a GPU or CoreML while allocations,
copies and inferences fail. A tile's contribution is `<<pair, tile, data>>`;
the network is external. The CUDA pipeline has the steps of the HIP one, whose
lines the map names. Their names carry `Nn`, or name the model, where DecoderLifecycle has
one of its own. **NnTransform3DProofs** holds the theorems of the three.

**MC...** modules give the constants of the runs. Where one composes several
modules, *a behaviour is one of the parts*, chosen in the initial state, and the
variables of the other parts do not move: parts share no state in the program
either, except through the operators they EXTEND. **MCPipeline** has the threaded pool and
the decoders its workers run, **MCFrames** a frame on its way through a handle (calls,
dropout correction, extra captures, planes), **MCHandles** a handle being made (opening,
commit, the shared video) and the neural decoder with its model, **MCInput** what is
stored and read. Fairness binds one part only: in the others no thread has a step to take.

## Runs

| Run | Bounds | Shows |
|---|---|---|
| `pipeline` | 3 workers, 7 frames, batches of 2, every mix of given and omitted start and length; captures of 3 frames, calls of up to 3 frames, 2 calls; SECAM: 2 instances, 7 kinds of frame, every two of them in one capture, 4 modes | no loss, no duplicate, end state, return, refinement of OrderedOutput; independence of calls, phases, whole pictures, lattice, calibration, concealed spans |
| `handles` | 2 decoders, one of them with the field order reversed, on all captures of up to 4 fields and those of 5 with at most one break, up to 1 field missing in the file; 10 directories, 8 kinds, 3 options, 1 extra; 7 hosts, 3 models, 2 neural instances, 2 areas, 4-sample tiles, 2 calls, 3 frames, 2 faults | pairing under commits of another order between the reads, tiling; the decoder is the one asked for; provider, own tiles, sums, buffers, bursts |
| `frames` | 7 by 7 fields, 4 systems, up to 4 dropouts, 1 extra; 2 captures of 3 frames; pictures of 6 by 9 in 6 formats and 12 crops; jobs of 3 positions and of 1, 2 instances, one synchronous caller, cache limit 1 | clean, nearest, in-phase replacement; the same picture; planes and masks; exclusion, delivery, cancellation, cache, return |
| `input` | all presets, layouts, cuts, encodings, 2 saves of 2 fields with 1 fault; files of up to 4 frames, of which 3 fields and one past the last are read, 2 faults | saves, opened sources, phases, stored data, reads |
| `pool_failure_reason` | 1 worker | the code differs from `decoder_pool.h` |
| `yc_reverse` | 2 decoders on a luma and chroma pair | a consequence of `c_api_decoder.cpp:826` writing the primary's field order only |
| `shared_order` | 2 decoders of different orders, captures with alternating fields | the later commit decides the order of both, although handles are documented as independent |
| `secam_history` | as the SECAM part of `pipeline` | masks of a calibrated field depend on what its instance decoded before |
| `gpu_copy_failure` | as the neural part of `handles` | after a failed copy the next frame is coloured with sums its weights do not count |
| `dropout_split` | as `frames` | the sample at `colourBurstEnd` stays damaged |
| `escaping_exception` | as `frames`, an extra a field short in its file | an exception leaves the C ABI |
| `coreml_fallback` | as the neural part of `handles` | a frame fails without the promised CPU attempt |

Why the bounds are enough. Three workers are the fewest for one to be overtaken by
two others while the third holds the mutex; seven frames make several batches per
worker and a short last one. Two instances and two jobs make every pair of users
of an instance; a cache of limit 1 evicts at the third frame. Four fields contain
every local irregularity the search can meet, including running off the end, and five
put whole frames on both sides of one. Seven
lines hold a search of one chroma step in each direction and the edges. Three
frames give a first, an inner and a last one, each readable or not, and are the
whole window of the 3D comb. Forty SECAM rows with twenty active ones meet and miss
each minimum of the identification (8, 4 and 16 rows). A file of four native frames
has the size of a raster one of three, the collision the layout rules must survive.
Two areas of different numbers of tiles, and two calls, resize every GPU cache once. `frames`
has every crop parity that moves a row to the other field.

Deadlock is not checked where the system may stop: a returned call, a terminated
program, a corrected frame, or a caller who asks for nothing more.

Every finding of a violation run is in `PROJECT.json`, with the line of the
document, comment or test it contradicts.

## Fairness

`DecoderPool`: weak fairness of the calling thread and of each worker. The
operating system runs threads, decoding a batch is assumed to end, and a worker
takes `outputMutex` finitely often, so weak fairness is enough for it.

`AsyncDecode`: weak fairness of "some thread of the library takes a step". It
forces neither a start of a job, nor a cancellation, nor a re-entrance, and it does
not promise a mutex to one particular thread. `JobReturns` needs no more because each
position is decoded a bounded number of times. The callback is assumed to return.

The other modules are calls that end; they claim no liveness.

## Proofs

`DecoderPoolProofs` proves, for every number of workers, frame count, batch size
and pair of arguments (`PoolAssumption`), that `TypeOK`, `OutputInOrder`,
`FrameHeldOnce`, `NoFrameLost`, `NothingHeldBack` and `EndStateAlwaysCorrect`
are invariants of `Spec`, and that `Spec` implements `OrderedOutput`.

None of them is inductive alone. `IInv` adds where the file's position is
(`Positions`: start <= output position <= input position <= end + 1), the shape of a
batch in a worker's hands (`BatchShape`), which threads exist in which phase
(`Phases`) and why a worker has left (`ExitReason`: the input is exhausted or the
abort flag is up). The argument: what is below the input position was claimed by
exactly one worker; until it is in the map or the file it is in that worker's hands; a
worker that leaves the mutex has drained the map; so when all have left and none
failed, the output position has met the input position, and the map is empty. That
is also why the "incorrect state" message of `process()` is dead code. The refinement
maps `first` and `total` to the normalised arguments and `verdict` to the result:
`WriteFrame` is `Emit`, a successful return is `Succeed`, every failure is `GiveUp`,
everything else stutters.

`AsyncDecodeProofs` proves, for any set of jobs, any arrays of indices (outside the
video too), any callers, number of instances, length of video and size of cache
(`AsyncAssumption`: each array has an index, and jobs and callers have different
names), that the four safety invariants checked of it hold.
`InstancesAreExclusive` follows from `Held`: a thread inside `decodeFrameLocked()`
owns the mutex of its instance; two threads cannot own one mutex, and two workers of
one job have different instances. `DeliveredOnce` needs a ledger: a position counts
as delivered exactly when it is below the shared counter and in no worker's hands
(`Ledger`), no position is in two workers' hands (`HeldOnce`), what is in a worker's
hands lies below the counter (`HeldBelow`), and a worker only leaves when the counter
is past the end (`Exhausted`). `CancellationIsPrompt` is not inductive by itself:
`Prompt` adds to the decodes begun after the flag went up the workers that had looked
at it before (`Committed`), and shows that the sum never exceeds the number of
workers. `SpanCacheKeepsRecent`: while frames complete in order, an eviction takes
the lowest of more than cap entries, all of which are above every frame given up
earlier, so the new entry restores the count above each frame given up.

`HandlesProofs` is, for SharedVideo, about captures of any length with any missing and doubled
fields, and any number of decoders. `Following` needs no hypothesis: the frames
`getFieldNumber()` makes never go back, and where the fields alternate they tile the
capture. It rests on where the search for a first field stops (`SearchEnds`: at the next
first field, or the first place past its start where the frame no longer fits the file),
on its never overtaking the next frame's search (`SearchAdvances`), and on the parity of
the first fields of an alternating capture (`Parity`, `AlternatingPairs`: the frames are
two fields apart, all shifted by the one `getNumberOfFrames()` allows for). `InterlacedPair` needs
none either: other decoders may commit any orders between the reads of a decode. A decode
whose reads found one order shows the frame of it (`ReadsAreOfOrders`: what has been read
so far is what some order in `orders` gives). One whose reads found two can show the first
field of one order with the second field of the other. It is still a first field, in
the file, as `loadFields()` checks or blanks it; and where the fields alternate the first field of
a frame in one order and the second in the other are neighbours, since both searches
start at the frame's own pair (`TornPairs`). What is *not* kept is the order the decoder was committed to,
and no theorem says so: the runs `shared_order` and `yc_reverse` show it lost.

`NnTransform3DProofs` is about any number of workers, areas of any size, tiles of any
even size, chunks of any length, fields of any height, any combination of providers on the
host, and any number of failures. `NnAssumption` asks for a finite set of workers, an even
tile, non-empty areas and chunks, and field pairs of which one is the first and one the
second: tile sizes are constants of the code, an area is the active one of a standard, and
a pair is what `loadFields()` gives. `FirstBackend` follows the chain of providers: what
was tried is a prefix of it, each of whose members could not attach, so the one that
attached is the first that can. For the rest, `IInv` joins `Placed` (which steps a
worker of each pipeline can be at), `Whole` (weights grow tile by tile, or chunk by
chunk, and are whole when a frame is finished), `Summing` (chroma and weight have been
summed from the same tiles, except between the two copies of a download), `OwnEverywhere`
(a contribution was computed from samples of the same worker and pair, and on CoreML by the
chunk the tile lies in), `Caches` (plans and buffers of a thread have the size it runs
with) and `Weaving` (the rows of the fields done so far are right). That every active
sample has four tiles is arithmetic on quotients (`FourTiles`): half-overlapping tiles of an
even size. `OwnEverywhere` is
stated for a worker that is alone on the resident Metal path; with two it is false (see
Known divergences). `SumsMatch` leaves out one kind of frame, a GPU frame whose predecessor failed:
its accumulators may have come back in part, which the run `gpu_copy_failure` shows.

`InputProofs` is, for FieldReader, about files of any length, rasters of any size and any order of reads,
cuts and refused seeks. `ReaderAssumption` asks that the last frame sample lies in
the last line of the second field: 709379 of 2 x 1135 x 313, 477750 of 2 x 910 x 263 and
477225 of 2 x 909 x 263 in `video_standards.cpp`. `IInv`: `Resolved` (the number
of fields and the layout are those of the file), `StreamKnown` (the position `TbcSource`
keeps is its stream's), `CacheHolds` and `AnswerHolds` (what was read is, sample for sample,
what the number of the field names: `FieldStart`, `FieldReal`, then padding). The plans of
the two layouts read exactly those samples (`Plans`, `ReadsHeld`), so two reads of a field agree, a
line is a slice of it, and two fields tile a frame (`TrueReads`). `CountedAreReadable`: the end of
each counted field lies within the file, so with a whole file a read is only refused after
a failure. Two properties were wrong as first stated, and only the proof showed it: a
`TbcSource` whose stream cannot seek and whose discard was cut short is at an unknown
place for good, not for one read (`cut` exempts it); and a layout is only recognised
without a declared frame count when the file is whole frames.

`HandlesProofs` is, for DecoderLifecycle, about any set of directories, each with any combination of
readable and corrupt sidecars (`DirectoriesAssumption`: a `.meta` names PAL, NTSC or
PAL_M), any kinds asked for (`KindsAssumption`), and any number of options and extra
captures. `LifecycleInv`: `VideoInv` (each plane of the video has one system in source and
metadata and the raster of a system of its line standard; a pair is of one line standard),
`DecoderInv` (a decoder's video is open, its options are
ones its kind takes) and the two promises of a committed decoder. The video only changes while no
decoder exists, so everything is decided in `chd_decoder_commit`. The argument there goes
through both modules of checks: `optionApplies` restricts the kinds that can carry an option
when it is set, the commit's own checks restrict the systems, and `configure()` the
kinds for a system. Only the three together say that a chroma filter reaches a comb that
knows it or a PAL decoder (`FilterDecides`), that an active profile reaches a comb on NTSC
(`ProfileDecides`) and an ident mode SECAM's decoder (`IdentDecides`); none of the degrading
branches of `combModeFor` is then taken for a filter that was asked for, except
that `compat` means `equiband_wide`. `Built` and `ConfiguredInstance` say what the
registry makes of a kind and its options.

`FramesProofs` is, for MultiSource, about any number of captures of any length, starting at any picture
and with any of their numbers unreadable (`SourcesAssumption`: a number is below 1000000,
where the scan's minima start). `IInv` says that the alignment is the scan of the captures
as they are now (`Built`: a commit that reverses the order comes before the first decode,
and nothing else changes what was scanned), and that what was used of the extras is what
that alignment points to (`Given`). `SamePicture` and `CoveringUsed` then compare
two captures that satisfy `Comparable`. Its parts are what the code takes for granted:
the first frame carries the lowest number, no picture is missing, and codes that can be read
are right and of one kind. Under them each scan finds the number of its first frame
(`Registered`, by the majority of `CavFrames` and `ClvFrames`, the least and the
greatest of a bounded set), so going from frame to number and back lands on the same
picture. Stating this for every capture changed three things the small instance
could not tell apart: a counted frame may have no fields at all (`Shows` now asks for
two), an empty capture has -1 frames, and a capture whose codes are of both kinds can be
registered by the wrong one.

`FramesProofs` is, for PictureGeometry, about fields of any size and any set of crops, paddings, dropout
records and concealed spans (`PictureAssumption`: they are integers, and no more; which
crops and formats can be committed is in the initial states, as the commit checks it).
`PictureInv` says that the geometry is the committed one and the picture fits in it
(`Committed`), that a frame of a 4:4:0 format always converts, with the map a decode leaves
(`FrameConverts`), that the concealed spans kept are those of the last decode, and that a
mask is made of the records and of those spans (`MaskIsBoth`).

- `MaskMatches`: a widened record is cut at the edges of the field and then at the crop, and a
  span at the crop only. Both give the same columns as widening without any cut, because
  the crop lies inside the field (`RecordColumns`, `Clipping`), and going back through the padding
  names the same sample (`RecordsMark`, `ConcealedMark`).
- `PlanesKept`: no two samples written to one buffer share a place (`RowMajor`,
  `PlacesDiffer`), and the pointer and stride a caller has name, for each of its rows, the
  place of one written row or of border (`WritesMeetReads`), so a read meets its own
  write (`ReadsBack`). For 4:4:0 the rows of a component are, on each field, every other row of
  that field (`OneInFour`, `Progression`, `ComponentRowsAre`), the same number on both when the
  active height is a multiple of four: that is why the weave can alternate between two
  lists without running out of either (`Woven`, `WovenRows`).

`FramesProofs` is, for DropoutCorrector, about fields of any size, any lists of dropouts in any number of
captures (their lines and columns may lie outside the field, as a file may have them), the four
systems and both options. `CorrectorAssumption` asks that the burst ends before the active video,
which ends within the line, and that the active lines are lines of the field. `CorrectorInv`:
the lists are still empty or are what listing makes of the metadata (`ListsAre`); every
sample written so far comes from places no list has damage at, and some listed dropout that
covers it is repaired as it should be (`WrittenAre`); every dropout already passed that
some line could repair is written (`PassedAre`).

- `NoDamageIsCopied`: correction is in place, so a replacement could be a sample
  an earlier dropout wrote. It is not: only samples under a listed dropout are written, and a
  candidate line is one on which no listed dropout overlaps the columns to repair
  (`CleanIsOriginal`). That the lists themselves leave out no damage a repair could read is
  `Listing`: whatever is split, widened or cut, each damaged sample of the burst and the picture
  stays under a listed dropout, but for the one between the two, which no repair reads.
- `ChromaKeepsPhase`: a line a whole number of steps away is a whole number of chroma
  cycles away, and so is a line of the other field counted from the offset (`PhaseOfSteps`,
  for the four systems and both fields), up to the 16/10000 of a cycle a line that PAL's 25 Hz offset
  adds. When luma and chroma replacements are both on the dropout's own line the code takes both
  from the luma's; that is still in phase, because the chroma's is then in the
  dropout's field, hence at no distance, hence so is the luma's, the nearest.
- `NearestLineUsed`: the four searches pass every line of both fields, so one of the
  candidates is as near as any line the dropout could be repaired from (`NearestIsFound`), and
  the choice among them goes by distance first.

`InputProofs` is, for Sidecar, about metadata of any number of fields, any words and dropouts, any first
files, and any number of edits, reads, saves, failed statements and crashes.
`InitialFilesAssumption` says what a first file is: rows of the schema's columns, child rows
that belong to a field, and the fields of the first capture numbered from 0 without a gap, as
any decoder writes them (`AppendField` numbers a field by the count); `JsonFilesAssumption`
the same for JSON. `FileIsLastSave` is not inductive: it says nothing of a file while no save
has succeeded, nor of the transaction under way. `SidecarInv` has a part for each:
`FileWhole` (no gap in the numbers, no orphaned child row: what REPLACE deletes with its
row is all there was), `MetaWhole` (field n of the object is numbered n), `SaveWhole` (the
transaction `Holds` the first `next - 1` fields: for each its row, its words if it has any and no
words if it has none, and its dropouts once), `SavedWhole` (the committed file holds all
fields of the last save). The argument: a field is stored under its own number, which no other
field of the object has, so a later statement cannot disturb an earlier field (`WritesField`,
`NextIsStored`); what an interrupted save did stays in its transaction; an edit, read
or crash between saves touches the object alone; and since the file's numbers have no gap, the
first n fields a read lists are those numbered 0 to n - 1 (`FieldsAreRead`, by counting the
numbers below each), with the rows stored for them (`ReadsBack`). Sorting the dropouts is the
same function on both sides, so nothing is assumed of it. All of it is conditional on no statement
for a field having failed (`lost`): `writeFields()` ignores it, and the fields that follow are
then stored and read one place apart.

`InputProofs` is, for VideoOpening, about any set of captures with any sidecars beside them, any parameters
of the caller, any words and any dropout tables. What is assumed: the standards are the
program's and their active lines the defaults of the system (`PresetsAssumption`); an
ld-decode sidecar describes fields of two lines or more, and a CVBS one states the
black level as its encoding writes it (`SidecarsAssumption`); of four rows of a field or
more that carry a burst fewer than three in four have it wrong (`SignalsAssumption`: the code asks
for three quarters of the rows, so a field with as many wrong ones reads as its opposite);
a word has six digits, runs are numbers (`WordTriplesAssumption`, `TablesAssumption`).
`OpeningInv` has a part for each thing a step may touch.

- `LinesInv`: the systems in the file, in the transaction and in the object are known, and
  the lines in force are not set or are the system's (`LinesApply`, whatever lines
  are asked for). The audio map is a sum over the fields before each (`SumsExist`,
  `AudioTiles`), and everything but a read leaves it alone.
- `VideoRight`: each source is right as it is opened (`CompositeRight`, `PairRight`) and stays so.
  For a CVBS capture the way its rows are cut is decided once and used both for the windows and for
  numbering rows (`CvbsOpensSource`), so both name the same sample; a re-declared system
  is written to source and metadata (`SynthesizedRight`, `LdRight`); one 10-bit
  value is the same canonical sample from each of four encodings (`RawIsCanonical`, `NeutralIsZero`).
  A measured place in the sequence is right or unknown because the polarity of a field is right or
  mixed (`PolarityIsTrue`) and two polarities in a row name one place of four (`PairTells`).
- `TimecodesStayTogether`: each step of `decode()` takes both numbers out of its word or leaves
  both (`ProgrammeTimeTaken`, `ClvPictureTaken`), so a field's are one word's (`FieldIsWhole`), and
  since an unread number is -1 and a read one is not, so are a frame's (`FrameIsWhole`).
  The proof narrowed the last part of the property: a minute of two decimal digits past 59 is
  accepted by the decoder and comes back from a frame number as an hour.
- `RunsCovered`: the slice of a run on a line is the run's samples on it (`SliceIsTheLines`),
  the slices from its first line to the last line of the fields are its samples in the frame
  (`RunIsSliced`), and the list of a frame grows by one run at a time (`FrameCovered`). What a
  recursive function holds is proved there for its least counterexample
  (`LeastExists`), which needs no induction theorem.

`ColourProofs` is about captures of any length and content, calls of any length in any order
and number, any comb (`CombsAssumption`: 1, 2 or 3 dimensions), any crop and any colour.
`ColourInv` says where a call is (`Called`), which frames its buffers hold (`Buffered`) and
that what was handed out for a frame is `OwnPicture`, a function of the frame, its two
neighbours and the parity of the call alone (`Decoded`).

- `SameWhateverTheCall`: the buffers of the comb hold the frame before, the frame and the frame after
  whichever iteration decodes it, since a look-behind of one and the two iterations before the first
  decode fill them in time; 1D and 2D combs look at the middle one only (`FlatCombs`). Frames
  past either end are the same black in every call (`GatheredAre`). The tiles of Transform PAL 3D
  over a frame start at the last multiple of four fields from the start of the
  call, which is two frames: so they depend on the parity of the call (`TilesAreOwn`).
- `CombFindsOppositePhases` asks of a capture that amplitudes are multiples of 4, as the model's unit
  has it (`CapturesAssumption`), and of the picture that each active line has another of its
  own field beside it (`LinesAssumption`). On a still picture a row above or below costs the candidates'
  bonus for it and no more (`SplitsAreWhole`). So the best costs no more either; a candidate that
  does, in whatever frame, is usable, hence in the opposite phase, hence, if its frame is of
  the colour, has the sample turned over, and, if it is black, could only be as cheap beside a
  black sample (`CheapAreOpposite`): a bonus of 18 units never outweighs an amplitude.
  True labels name the phase of each line (`LabelsAreTrue`), so the axes are right however
  they are found. `FieldsAreUsable` is the arithmetic of 525 lines of half a cycle each.
- `PalPicturesAreWhole`: on any flat colour the burst of a line and of the lines around it are
  along -U and V up to the turn of the line, so the switch is detected and the axis is -U
  (`BurstIsDetected`); each of the seven lines of the filter adds its weight to the
  line's own chroma, never against it (`LinesAddUp`), so hue is kept at the edges too, and six lines
  inside all sixteen parts are there (`GainIs`). `CropsAssumption` asks that the field goes on for two
  lines past the crop, where the burst of the edge lines is looked for: PAL's own crop is 44 to
  619 of 625, and a commit also accepts one up to the field's edge, which the theorem does not
  cover. The tiles are arithmetic on remainders (`TwoTiles`), the symmetry filter a count
  of its bins (`TriplesCount`) and a reflection that undoes itself.
- `CalibrationIsTheFields`: what an instance keeps of the field it decoded last, and what the
  first instance to decode that field kept, are the field's own decoding of *some* memory
  (`SecamInv`), so it is left to show that the memory does not matter once a porch is measured. The rows
  of a porch show the two shifted carriers and nothing else, so a median of a set of them is one of
  the two (`NthOfTwo`), and two medians further apart than `MinPair` are both
  (`MeasuredIsTheFields`). So pair, identification and components of a field with a measured porch are
  the same in every decode. The masks are not: they are rebuilt only when the measured
  offset is more than `Recentre` (10 kHz) away from theirs, so they may be an earlier field's. What
  holds of them, and is proved, is that they are within `Recentre` of the field's own offset
  (`CarriersAreTheFields`), hence within twice that of any other decode's; that they repeat is what
  the documents promise and the run `secam_history` refutes. Assumed (`CalibrationAssumption`): every committed start leaves
  the porch window on the porch (a start inside the picture measures the picture, see the divergences
  below), and captures are numbered from 1 without a gap.
- `LatticeIsTrue`: the pair an instance remembers is the carriers moved by the shift of some field of
  the capture (`LatticeInv`), however stale, and each source of the answer is right with it:
  the trapezoids (`BottlesAreTrue`), the picture, whose median leaves fewer than half
  its rows on the wrong side when all of one component lie below all of the other
  (`MedianSeparates`, `ContentIsTrue`), and the porch, where a long one is always measured
  afresh (`PorchIsTrue`, `LongPorchIsMeasured`). Assumed (`LatticeAssumption`): a porch long enough to be
  measured shows each carrier on more than a quarter of its rows (a porch all of one parity with a
  stale pair inverts the lattice); no two fields are shifted so far apart that a remembered pair misses
  a trapezoid; a phase set by hand is set right. The proof narrowed `Identifiable`:
  a field without a picture falls to an anchor of 0, and one whose picture is all Dr rows has a
  median that tells nothing.
- `ConcealedSpansTellTheTruth`: the spans of a row end ever further to the right, each inside the row, and
  lie over every click (`SpansFound`). So the sample after a span is still the row's own when the span
  is concealed, and an interpolated sample is told apart by it; a sample taken from above has
  sources in the rows above alone (`SpanConcealed`). Where spans overlap, what the first left is
  concealed again. The scan, the spans of a row and the rows of a field are
  recursive functions: that each exists is proved by the least place where it does not, as for the
  runs above (`ScanExists`, `RowConcealed`, `LinesAreTold`), and what it holds in the same way. Nothing is
  assumed but a raster and settings in samples (`ConcealmentAssumption`).

Every invariant of a passing run is stated by a theorem. Only model-checked is liveness under
fairness (`ProcessReturns`, `JobReturns`), which is out of the prover's reach.

## Known divergences without a run

Met while modelling; each was seen in a counterexample or follows from the modelled
step, and the properties above are stated so as not to depend on it.

- The pool shares one decoder among its workers although `decoder_base.h:45-47`
  says instances are not reentrant; likewise `residentMps()` is one set of Metal
  buffers for the process, guarded by a mutex of each decoder (`comb.h:174`).
- SECAM: a field whose porch cannot be measured is decoded with the carriers of whatever field
  the instance decoded before, or the nominal ones (`api-reference.md:1010-1014` names the memory,
  and not that the thread count decides whose it is); that the masks of a measured
  field depend on it too is the run `secam_history`. The porch window follows the *committed* crop (`secam_decoder.cpp:157-164`).
- NN and Transform PAL 3D tiles are anchored at the first frame of a call, so a frame
  decoded alone and in a batch differ at tile edges; handle decodes always have a
  batch of one. `SameWhateverTheCall` is stated for calls of one parity.
- The PAL filter takes lines outside the active area as black, so the first and last
  three lines of each field lose colour; the monochrome decoder's noise filter leaves
  the last columns of a line unfiltered.
- The dropout mask marks rows in padding when a damaged line lies above the crop.
- A pinned provider that cannot be attached is reported by `ort_session.cpp:104` as a
  load error, not as `provider_select.cpp:181-182` says; a provider that is listed
  but cannot attach is still "available"; `device_id` is not used.
- An unknown phase ID is one sign in the colour CNN and the other in the luma
  separator. After a failed copy the window tables of the GPU pipeline are taken
  for ready; a failed transform leaks its buffers.
- Saving: rows past the last field of a longer, older save stay; a statement that
  fails for one field is only logged; a failed probe inserts a second capture that
  is never read; SECAM is rejected by the schema's CHECK; a stale PCM row is kept.
  The JSON reader rejects a wrong field count and the SQLite reader does not.
- Opening: an explicitly named sidecar that is missing is ignored by the pair calls for
  CVBS; a CVBS sidecar's `signal_type` is compared with nothing; the standards of luma
  and chroma are compared by their rasters only (PAL and SECAM share one), and those of
  extras not at all; adding a pair of extras can
  leave the luma one behind.
- The span of the frame just decoded is evicted after a rewind; a capture that skips
  pictures is matched as if it did not; reversing the field order does not reach the
  extra captures; `is_second_field_first` (`api-reference.md:467-470`), set at open by
  `c_api_video.cpp:91`, is overwritten by every commit (`c_api_decoder.cpp:826`); the last active line is not searched for a replacement.

## Not modelled

What filters, transforms and networks compute on real samples: noise reduction,
resampling, the luma filters, colour matrices, the beta calibration and the
calibration ABI. Logging is one shared mutex around one pointer (a sink that replaces
itself from inside a message would deadlock on it); the error detail is a
thread-local string. The Rust bindings wrap the C ABI. `FrameCanvas` draws for the
calibration tools. Exceptions for lack of memory are left out except on the GPU. The
legacy command-line tools, tests and build files are not part of the library.
`chd_decoder_set_dropout` and the statistics getters are unguarded reads and writes
of a few fields no control depends on.

## Plan

1. The decoder with scratch shared by the pool, as an abstract interface both the pool
   and AsyncDecode use.
2. `chd_decoder_set_dropout` and the statistics as actions of AsyncDecode.
