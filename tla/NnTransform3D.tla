--------------------------- MODULE NnTransform3D ----------------------------
(***************************************************************************)
(* The neural decoders at work.  Each thread has a decoder instance of its *)
(* own; all the instances share the engine of the loaded model, and, when  *)
(* CoreML's GPU-resident path is on, one set of Metal buffers.             *)
(*                                                                         *)
(* nnTransform3D cuts a frame and its successor into overlapping tiles.    *)
(* What a tile adds to a frame is a contribution <<pair, tile>> to the     *)
(* weights and <<pair, tile, data>> to the chroma, data being the samples  *)
(* it was computed from.  The transforms and the network are exact.        *)
(***************************************************************************)
EXTENDS NnModel, Ldzeug

CONSTANTS
    Workers,
    Areas,            \* active areas [first, last, start, end]; end is exclusive
    Block,            \* edge of a tile (16)
    ChunkTiles,       \* tiles of a CoreML inference (256)
    Linked,           \* GPU pipelines of this build, a subset of {"cuda", "hip"}
    ResidentWanted,   \* values of CHD_NNTRANSFORM3D_COREML_FFT = mps to try
    FrameFields,      \* the fields of an ldzeug frame
    MaxBatch,         \* frames of a call
    MaxCalls,         \* calls of a worker
    MaxFaults         \* failures of the outside world in a behaviour

ASSUME NnAssumption ==
    /\ IsFiniteSet(Workers)
    /\ Block \in Nat \ {0} /\ Block % 2 = 0
    /\ ChunkTiles \in Nat \ {0}
    /\ \A a \in Areas :
         /\ a \in [first : Int, last : Int, start : Int, end : Int]
         /\ a.first <= a.last /\ a.start < a.end
    /\ ResidentWanted \subseteq BOOLEAN
    /\ FieldHeight \in Nat \ {0}
    /\ \A p \in FrameFields : \E o \in {0, 1}, x, y \in 1 .. 4 :
         p = <<[offset |-> o, id |-> x], [offset |-> 1 - o, id |-> y]>>

VARIABLES
    kind,       \* decoder kind of the committed decoder
    threads,    \* the workers decoding
    resident,   \* whether the resident path is on
    engine,     \* CoreML's compute units, "asked" or "cpuOnly"
    mps,        \* the shared Metal buffers: what each holds
    work,       \* worker -> its call
    buffers,    \* worker -> frame -> accumulators
    device,     \* worker -> its thread-local GPU cache
    rows,       \* worker -> [table, frame] of an ldzeug call
    last,       \* worker -> the frame it just finished
    faults
decodeVars == <<kind, threads, resident, engine, mps, work, buffers, device, rows, last, faults>>
nnVars == <<modelVars, decodeVars>>

NoHost == [platform |-> "none", built |-> {}, listed |-> {}, broken |-> {}, rejects |-> {}, options |-> <<>>]
NoArea == [first |-> 0, last |-> 0, start |-> 0, end |-> 0]
NoFrame == [kind |-> "none", k |-> 0, area |-> NoArea, chroma |-> {}, weight |-> {}, previous |-> FALSE]
NoCall == [pc |-> "idle", k |-> 0, frames |-> 0, area |-> NoArea, pair |-> <<>>, chunk |-> 0, copies |-> 0,
           onGpu |-> FALSE, snap |-> "none", ok |-> FALSE, previous |-> FALSE, triedCpu |-> FALSE, calls |-> 0]
NnIdle(r) == [NoCall EXCEPT !.calls = r.calls]
NoCache == [blocks |-> 0, plans |-> FALSE, size |-> 0, windows |-> "none"]
Empty == [chroma |-> {}, weight |-> {}]
NoData == <<"none", 0, 0>>

-----------------------------------------------------------------------------
(* Tiles of half-block steps, from half a block before the active area.     *)
Half == Block \div 2
\* The mutant starts at the active area.
TileLineAtTheEdge(a) == a.first
TileLine(a) == a.first - Half
TileColumn(a) == a.start - Half
LinesOfTiles(a) == ((a.last - TileLine(a)) \div Half) + 1
ColumnsOfTiles(a) == ((a.end - 1 - TileColumn(a)) \div Half) + 1
NumBlocks(a) == LinesOfTiles(a) * ColumnsOfTiles(a)
Tile(a, n) == <<TileLine(a) + (Half * ((n - 1) \div ColumnsOfTiles(a))),
                TileColumn(a) + (Half * ((n - 1) % ColumnsOfTiles(a)))>>
Covers(a, n, line, column) ==
    /\ Tile(a, n)[1] <= line /\ line < Tile(a, n)[1] + Block
    /\ Tile(a, n)[2] <= column /\ column < Tile(a, n)[2] + Block

ChunksOf(a) == ((NumBlocks(a) - 1) \div ChunkTiles) + 1
TilesOfChunk(a, c) == {n \in 1 .. NumBlocks(a) : (n - 1) \div ChunkTiles = c - 1}

-----------------------------------------------------------------------------
DecodeInit ==
    /\ kind = "none"
    /\ threads = {}
    /\ resident = FALSE
    /\ engine = "asked"
    /\ mps = [tiles |-> NoData, spectrum |-> NoData, mask |-> NoData, result |-> NoData]
    /\ work = [w \in Workers |-> NoCall]
    /\ buffers = [w \in Workers |-> <<>>]
    /\ device = [w \in Workers |-> NoCache]
    /\ rows = [w \in Workers |-> [table |-> <<>>, frame |-> <<>>]]
    /\ last = [w \in Workers |-> NoFrame]
    /\ faults = 0
NnInit == ModelInit /\ DecodeInit

Fault == faults < MaxFaults /\ faults' = faults + 1
NoFault == UNCHANGED faults

\* A decoder committed with the model, for one thread or more: the instances share the
\* model's engine, and what ensure() leaves of the resident path.
CommitNn(k) ==
    /\ modelStatus = "OK"
    /\ kind' = k
    /\ modelStatus' = "bound"
    /\ host' = NoHost
    /\ request' = NoRequest
    /\ threads' \in (SUBSET Workers) \ {{}}
    /\ resident' \in IF active = "COREML" /\ k = "nnTransform3D" THEN ResidentWanted ELSE {FALSE}
    /\ UNCHANGED <<chain, active, engine, mps, work, buffers, device, rows, last, faults>>

Step(w, r) == work' = [work EXCEPT ![w] = r]
At(w, pc) == modelStatus = "bound" /\ work[w].pc = pc

StartCall(w) ==
    /\ w \in threads
    /\ At(w, "idle")
    /\ work[w].calls < MaxCalls
    /\ \E n \in 1 .. MaxBatch,
          a \in IF kind = "nnTransform3D" THEN Areas ELSE {NoArea},
          p \in IF kind = "nnTransform3D" THEN {<<>>} ELSE FrameFields :
         Step(w, [NoCall EXCEPT !.pc = "frame", !.frames = n, !.area = a, !.pair = p, !.chunk = 1,
                                !.calls = work[w].calls + 1])
    /\ buffers' = [buffers EXCEPT ![w] = <<>>]
    /\ rows' = [rows EXCEPT ![w] = [table |-> [n \in FrameRows |-> Unmeasured], frame |-> NoRows]]
    /\ last' = [last EXCEPT ![w] = NoFrame]
    /\ UNCHANGED <<modelVars, kind, threads, resident, engine, mps, device, faults>>

-----------------------------------------------------------------------------
(* nnTransform3D: getFrameBuffer() for a frame and the next, then the       *)
(* pipeline of the active backend.                                          *)
Pipeline ==
    CASE active = "COREML" -> "chunk"
      [] active \in {"ORT_CUDA", "ORT_TENSORRT"} /\ "cuda" \in Linked -> "cache"
      [] active = "ORT_MIGRAPHX" /\ "hip" \in Linked -> "cache"
      [] OTHER -> "cpu"

Buffer(w, f) == IF f \in DOMAIN buffers[w] THEN buffers[w][f] ELSE Empty

BeginFrame(w) ==
    /\ At(w, "frame")
    /\ kind = "nnTransform3D"
    /\ LET k == work[w].k
       IN  /\ buffers' = [buffers EXCEPT ![w] = [f \in {k, k + 1} |-> Buffer(w, f)]]
           /\ Step(w, [work[w] EXCEPT !.pc = Pipeline, !.chunk = 1, !.copies = 0, !.onGpu = resident, !.ok = FALSE])
    /\ last' = [last EXCEPT ![w] = NoFrame]
    /\ UNCHANGED <<modelVars, kind, threads, resident, engine, mps, device, rows, faults>>

\* What the tiles add to both frames.
Weighted(acc, k, tiles) == [acc EXCEPT !.weight = @ \cup {<<k, n>> : n \in tiles}]
Coloured(acc, k, tiles, data) == [acc EXCEPT !.chroma = @ \cup {<<k, n, data>> : n \in tiles}]
Added(bufs, k, tiles, data) ==
    [f \in DOMAIN bufs |-> Coloured(Weighted(bufs[f], k, tiles), k, tiles, data)]
Own(w) == <<w, work[w].k, work[w].chunk>>

(* The CPU body: tile by tile, until an inference fails.  The run mutex is  *)
(* the instance's own, and nothing of it is shared with other instances.    *)
CpuBody(w) ==
    LET all == NumBlocks(work[w].area)
    IN  /\ At(w, "cpu") /\ kind = "nnTransform3D"
        /\ \E n \in 0 .. all :
             /\ IF n = all THEN NoFault ELSE Fault
             /\ buffers' = [buffers EXCEPT ![w] = Added(@, work[w].k, 1 .. n, Own(w))]
             /\ Step(w, [work[w] EXCEPT !.pc = "finish", !.ok = (n = all)])
        /\ UNCHANGED <<modelVars, kind, threads, resident, engine, mps, device, rows, last>>

-----------------------------------------------------------------------------
(* The CUDA and HIP pipelines: the whole frame in one batch, on buffers and *)
(* FFT plans the thread keeps from one frame to the next.                   *)
\* The mutant reuses whatever plans there are.
CacheHitByPlans(w) == device[w].plans
CacheHit(w) == device[w].blocks = NumBlocks(work[w].area) /\ device[w].plans

Failed(w) == Step(w, [work[w] EXCEPT !.pc = "finish", !.ok = FALSE])

\* Everything is released before anything is allocated; the count is written last.
EnsureBatchCapacity(w) ==
    /\ At(w, "cache")
    /\ \/ CacheHit(w) /\ NoFault /\ UNCHANGED device
          /\ Step(w, [work[w] EXCEPT !.pc = "windows"])
       \/ /\ ~CacheHit(w) /\ NoFault
          /\ LET n == NumBlocks(work[w].area)
             IN  device' = [device EXCEPT ![w] = [@ EXCEPT !.blocks = n, !.plans = TRUE, !.size = n]]
          /\ Step(w, [work[w] EXCEPT !.pc = "windows"])
       \/ /\ ~CacheHit(w) /\ Fault
          /\ device' = [device EXCEPT ![w] = [@ EXCEPT !.plans = FALSE, !.size = 0]]
          /\ Failed(w)
    /\ UNCHANGED <<modelVars, kind, threads, resident, engine, mps, buffers, rows, last>>

\* Allocated windows count as present, even when filling them failed.
EnsureWindows(w) ==
    /\ At(w, "windows")
    /\ \/ device[w].windows # "none" /\ NoFault /\ UNCHANGED device
          /\ Step(w, [work[w] EXCEPT !.pc = "batch"])
       \/ device[w].windows = "none" /\ NoFault
          /\ device' = [device EXCEPT ![w].windows = "filled"]
          /\ Step(w, [work[w] EXCEPT !.pc = "batch"])
       \/ device[w].windows = "none" /\ Fault
          /\ device' = [device EXCEPT ![w].windows = "allocated"]
          /\ Failed(w)
    /\ UNCHANGED <<modelVars, kind, threads, resident, engine, mps, buffers, rows, last>>

Batch(w) ==
    /\ At(w, "batch")
    /\ \/ NoFault /\ Step(w, [work[w] EXCEPT !.pc = "download"])
       \/ Fault /\ Failed(w)
    /\ UNCHANGED <<modelVars, kind, threads, resident, engine, mps, buffers, device, rows, last>>

\* Four copies bring the sums back: chroma and weight of the frame, then of the next.
Downloaded(w) ==
    LET k == work[w].k
        all == 1 .. NumBlocks(work[w].area)
        f == IF work[w].copies < 2 THEN k ELSE k + 1
    IN  [buffers EXCEPT ![w][f] = IF work[w].copies % 2 = 0 THEN Coloured(@, k, all, Own(w)) ELSE Weighted(@, k, all)]
\* The mutant leaves out the last one.
CopiesToMakeShort == 3
CopiesToMake == 4
Download(w) ==
    /\ At(w, "download")
    /\ \/ /\ NoFault
          /\ buffers' = Downloaded(w)
          /\ Step(w, [work[w] EXCEPT !.copies = @ + 1,
                                     !.pc = IF work[w].copies = CopiesToMake - 1 THEN "finish" ELSE "download",
                                     !.ok = (work[w].copies = CopiesToMake - 1)])
       \/ Fault /\ Failed(w) /\ UNCHANGED buffers
    /\ UNCHANGED <<modelVars, kind, threads, resident, engine, mps, device, rows, last>>

-----------------------------------------------------------------------------
(* CoreML, chunk by chunk.  The resident path goes through the buffers all  *)
(* instances share, under a lock that is each instance's own.               *)
Contribute(w, data) ==
    buffers' = [buffers EXCEPT ![w] = Added(@, work[w].k, TilesOfChunk(work[w].area, work[w].chunk), data)]
NextChunk(w) ==
    Step(w, IF work[w].chunk = ChunksOf(work[w].area)
              THEN [work[w] EXCEPT !.pc = "finish", !.ok = TRUE]
              ELSE [work[w] EXCEPT !.pc = "chunk", !.chunk = @ + 1])

AfterResidentFailure(w) ==
    Step(w, [work[w] EXCEPT !.pc = "chunk", !.onGpu = FALSE]) /\ UNCHANGED buffers

Upload(w) ==
    /\ At(w, "chunk") /\ work[w].onGpu /\ kind = "nnTransform3D"
    /\ mps' = [mps EXCEPT !.tiles = Own(w)]
    /\ Step(w, [work[w] EXCEPT !.pc = "forward"])
    /\ UNCHANGED <<modelVars, kind, threads, resident, engine, buffers, device, rows, last, faults>>

ResidentStep(w, pc, next, after) ==
    /\ At(w, pc)
    /\ \/ NoFault /\ mps' = after /\ Step(w, [work[w] EXCEPT !.pc = next]) /\ UNCHANGED buffers
       \/ Fault /\ AfterResidentFailure(w) /\ UNCHANGED mps
    /\ UNCHANGED <<modelVars, kind, threads, resident, engine, device, rows, last>>
ForwardFFT(w) == ResidentStep(w, "forward", "mask", [mps EXCEPT !.spectrum = mps.tiles])
PredictResident(w) == ResidentStep(w, "mask", "inverse", [mps EXCEPT !.mask = mps.spectrum])
InverseFFT(w) ==
    ResidentStep(w, "inverse", "fetch",
                 [mps EXCEPT !.result = IF mps.mask = mps.spectrum THEN mps.spectrum ELSE NoData])
DownloadIfft(w) ==
    /\ At(w, "fetch")
    /\ Contribute(w, mps.result)
    /\ NextChunk(w)
    /\ UNCHANGED <<modelVars, kind, threads, resident, engine, mps, device, rows, last, faults>>

-----------------------------------------------------------------------------
(* The engine shared by the instances.  A run that fails under the compute  *)
(* units asked for rebuilds the model for the CPU and tries again, once.    *)
InferencePoint(w) ==
    \/ At(w, "chunk") /\ ~(work[w].onGpu /\ kind = "nnTransform3D")
    \/ At(w, "frame") /\ kind # "nnTransform3D"

SnapshotModel(w) ==
    /\ InferencePoint(w)
    /\ active = "COREML"
    /\ Step(w, [work[w] EXCEPT !.pc = "predict", !.snap = engine, !.triedCpu = FALSE])
    /\ UNCHANGED <<modelVars, kind, threads, resident, engine, mps, buffers, device, rows, last, faults>>

\* The ldzeug decoders infer a field or a whole frame, and weave what they get.
DeliverRows(w) ==
    LET c == work[w]
        subs == IF PerField(kind) THEN {c.chunk} ELSE {1, 2}
        table == IF Colour(kind) THEN Measured(kind, c.k, c.pair, subs, rows[w].table) ELSE rows[w].table
        before == IF c.chunk = 1 THEN NoRows ELSE rows[w].frame
    IN  /\ rows' = [rows EXCEPT ![w] = [table |-> table,
                                       frame |-> Woven(kind, c.k, c.pair, subs, table, before)]]
        /\ Step(w, IF 2 \in subs THEN [c EXCEPT !.pc = "finish", !.ok = TRUE]
                                 ELSE [c EXCEPT !.pc = "frame", !.chunk = 2])
Deliver(w) ==
    IF kind = "nnTransform3D"
      THEN Contribute(w, Own(w)) /\ NextChunk(w) /\ UNCHANGED rows
      ELSE DeliverRows(w) /\ UNCHANGED buffers
GivesUp(w, tried) ==
    Step(w, [work[w] EXCEPT !.pc = "gaveUp", !.triedCpu = tried]) /\ UNCHANGED <<buffers, rows>>

Predict(w) ==
    /\ At(w, "predict")
    /\ \/ NoFault /\ Deliver(w)
       \/ /\ Fault
          /\ Step(w, [work[w] EXCEPT !.pc = "fallback"])
          /\ UNCHANGED <<buffers, rows>>
    /\ UNCHANGED <<modelVars, kind, threads, resident, engine, mps, device, last>>

\* Under the model mutex, and only while the units are still those asked for.
FallBackToCpu(w) ==
    /\ At(w, "fallback")
    /\ \/ engine = "asked" /\ NoFault /\ engine' = "cpuOnly" /\ Deliver(w)
       \/ engine = "asked" /\ Fault /\ engine' \in {"asked", "cpuOnly"} /\ GivesUp(w, TRUE)
       \/ engine = "cpuOnly" /\ NoFault /\ UNCHANGED engine /\ GivesUp(w, work[w].snap = "cpuOnly")
    /\ UNCHANGED <<modelVars, kind, threads, resident, mps, device, last>>

\* nnTransform3D catches what the engine throws; the ldzeug decoders let it end the call.
InferenceThrows(w) ==
    /\ At(w, "gaveUp")
    /\ IF kind = "nnTransform3D" THEN Failed(w) ELSE Step(w, NnIdle(work[w]))
    /\ UNCHANGED <<modelVars, kind, threads, resident, engine, mps, buffers, device, rows, last, faults>>

\* An ONNX Runtime session is shared as it is, and may fail.
RunSession(w) ==
    /\ At(w, "frame") /\ kind # "nnTransform3D"
    /\ active # "COREML"
    /\ \/ NoFault /\ DeliverRows(w) /\ UNCHANGED buffers
       \/ Fault /\ GivesUp(w, TRUE)
    /\ UNCHANGED <<modelVars, kind, threads, resident, engine, mps, device, last>>

-----------------------------------------------------------------------------
(* The frame is demodulated from what was accumulated or from its 2D chroma, *)
(* and its buffer erased; the next frame's goes on.                          *)
Finish(w) ==
    /\ At(w, "finish")
    /\ LET c == work[w]
       IN  /\ last' = [last EXCEPT ![w] =
                 IF kind # "nnTransform3D" THEN [NoFrame EXCEPT !.kind = "rows", !.k = c.k]
                 ELSE [kind |-> IF c.ok THEN "nn" ELSE "2d", k |-> c.k, area |-> c.area,
                       chroma |-> buffers[w][c.k].chroma, weight |-> buffers[w][c.k].weight,
                       previous |-> c.previous]]
           /\ buffers' = [buffers EXCEPT ![w] = [f \in DOMAIN buffers[w] \ {c.k} |-> buffers[w][f]]]
           /\ Step(w, IF c.k + 1 = c.frames THEN NnIdle(c)
                      ELSE [c EXCEPT !.pc = "frame", !.k = @ + 1, !.chunk = 1, !.previous = c.ok])
    /\ UNCHANGED <<modelVars, kind, threads, resident, engine, mps, device, rows, faults>>

WorkerNext(w) ==
    \/ StartCall(w) \/ BeginFrame(w) \/ CpuBody(w) \/ Finish(w)
    \/ EnsureBatchCapacity(w) \/ EnsureWindows(w) \/ Batch(w) \/ Download(w)
    \/ Upload(w) \/ ForwardFFT(w) \/ PredictResident(w) \/ InverseFFT(w) \/ DownloadIfft(w)
    \/ SnapshotModel(w) \/ Predict(w) \/ FallBackToCpu(w) \/ InferenceThrows(w) \/ RunSession(w)
NnNext ==
    \/ ModelNext /\ UNCHANGED decodeVars
    \/ \E k \in LdzeugKinds \cup {"nnTransform3D"} : CommitNn(k)
    \/ \E w \in Workers : WorkerNext(w)
NnSpec == NnInit /\ [][NnNext]_nnVars

-----------------------------------------------------------------------------
(* Every active sample of a frame the network coloured carries the weight of *)
(* exactly four tiles of its own pair, and of four more of the pair before   *)
(* it when that one succeeded: the overlap-add neither leaves a seam at an   *)
(* edge nor loses what the previous pair gave.                               *)
TilesOver(f, pair, line, column) ==
    {n \in 1 .. NumBlocks(f.area) : <<pair, n>> \in f.weight /\ Covers(f.area, n, line, column)}
NnFramesAreWhole ==
    \A w \in Workers :
        last[w].kind = "nn" =>
            \A line \in last[w].area.first .. last[w].area.last,
               column \in last[w].area.start .. last[w].area.end - 1 :
                /\ Cardinality(TilesOver(last[w], last[w].k, line, column)) = 4
                /\ last[w].previous => Cardinality(TilesOver(last[w], last[w].k - 1, line, column)) = 4

(* The chroma of such a frame is the sum its weight divides: no tile is      *)
(* counted in one and not in the other.  Only a GPU pipeline that failed     *)
(* between two of its four copies leaves its half of the next frame unpaired. *)
SumsMatchTheirWeights ==
    \A w \in Workers :
        last[w].kind = "nn" /\ (active \in {"COREML", "ORT_CPU"} \/ last[w].previous \/ last[w].k = 0) =>
            {<<c[1], c[2]>> : c \in last[w].chroma} = last[w].weight

(* "On return, all four are updated with this call's contributions and brought *)
(* back to host memory" (nntransform3d_pipeline_cuda.h): whichever copy failed   *)
(* for an earlier frame, a frame that is coloured sums the tiles it counts.     *)
AccumulatorsReturnTogether ==
    \A w \in Workers :
        last[w].kind = "nn" => {<<c[1], c[2]>> : c \in last[w].chroma} = last[w].weight

(* Each tile's chroma is computed from that tile's own samples.  Instances    *)
(* share no buffer but those of the GPU-resident path, for one thread a time. *)
OwnTilesOnly ==
    ~(resident /\ Cardinality(threads) > 1) =>
    \A w \in Workers :
        \A c \in last[w].chroma :
            /\ c[3][1] = w /\ c[3][2] = c[1]
            /\ active = "COREML" => c[2] \in TilesOfChunk(last[w].area, c[3][3])

(* Together: a frame is accumulated from all of its own tiles. *)
NnFramesAreTheirOwn == NnFramesAreWhole /\ OwnTilesOnly

(* A GPU batch only runs on buffers and plans made for its number of tiles,   *)
(* whatever allocation failed before and whatever video the thread decoded.   *)
GpuBuffersFit ==
    \A w \in Workers :
        work[w].pc \in {"batch", "download"} =>
            device[w].plans /\ device[w].size = NumBlocks(work[w].area)

(* Every row of a frame an ldzeug decoder finishes is its own field line, its *)
(* chroma locked to the burst of that same line, whichever field came first.  *)
BurstOfItsOwnRow ==
    \A w \in Workers :
        work[w].pc = "finish" /\ kind \in LdzeugKinds =>
            \A r \in StoredRows : rows[w].frame[r] = TrueRow(kind, work[w].k, work[w].pair, r)

(* CoreML gives a frame up only after the CPU-only model was tried, since    *)
(* "the CPU path always works" (coreml_engine.mm:264-266).                   *)
CpuIsTriedBeforeGivingUp == \A w \in Workers : work[w].pc = "gaveUp" => work[w].triedCpu
=============================================================================
