---------------------------- MODULE AsyncDecode ----------------------------
(***************************************************************************)
(* Decoding through one committed decoder handle                            *)
(* (src/src/abi/c_api_decoder.cpp): chd_decode_frame and                    *)
(* chd_decode_frames_async, the latter called by several threads at once.   *)
(*                                                                          *)
(* An asynchronous call (a job) fans its indices over worker threads that   *)
(* draw positions from a shared atomic counter.  Worker w decodes with the  *)
(* decoder instance w and holds decoderMutexes[w] while it does; a          *)
(* synchronous decode uses instance 0.  A frame callback runs on the worker *)
(* with no lock held and may itself call chd_decode_frame or request the    *)
(* job's cancellation.  Decoding publishes a frame's click-concealment      *)
(* spans in a bounded cache before the output conversion, which may fail.   *)
(***************************************************************************)
EXTENDS Integers, Sequences, FiniteSets

CONSTANTS
  Jobs,          \* calls of chd_decode_frames_async
  Indices,       \* [Jobs -> Seq(Int)], the indices array of each call
  SyncThreads,   \* threads that call chd_decode_frame, once each
  CancelJobs,    \* jobs given a cancellation handle
  ReentrantJobs, \* jobs whose callback may call chd_decode_frame
  CallerFrames,  \* the indices such callbacks and those threads ask for
  NumFrames,     \* the video's frames are 0 .. NumFrames-1
  ThreadCount,   \* d->decoders.size()
  SpanCacheCap   \* 4096 in the code: larger caches evict before they insert

ASSUME AsyncAssumption ==
  /\ NumFrames \in Nat \ {0}
  /\ ThreadCount \in Nat \ {0}
  /\ SpanCacheCap \in Nat
  /\ CallerFrames \subseteq Int
  /\ Indices \in [Jobs -> Seq(Int)]
  /\ \A j \in Jobs : Indices[j] # <<>>
  /\ Jobs \cap SyncThreads = {}

NumIndices(j) == Len(Indices[j])

WorkerCount(j) ==
  IF NumIndices(j) < ThreadCount THEN NumIndices(j) ELSE ThreadCount

\* A thread is named by the job or the synchronous caller it belongs to and by
\* the decoder instance it uses.
WorkersOf(j) == {<<j, w>> : w \in 0 .. WorkerCount(j) - 1}
JobWorkers == UNION {WorkersOf(j) : j \in Jobs}
Threads == JobWorkers \cup {<<s, 0>> : s \in SyncThreads}
Instances == 0 .. ThreadCount - 1
NoThread == <<>>

VARIABLES
  job,        \* each job: "idle", "running", "returned"
  next,       \* each job's atomic counter of positions drawn
  cancel,     \* each job's cancellation flag
  pc,         \* each thread's place
  pos,        \* the position (0-based) a worker has drawn
  frameIndex, \* the frame index a thread is decoding
  reentered,  \* the thread is inside a chd_decode_frame its callback made
  mutex,      \* decoderMutexes: holder of each, or NoThread
  spans,      \* keys of concealedSpansByFrame
  delivered,  \* history: callbacks made, per job and position
  decoded,    \* history: frames whose spans have been published
  ascending,  \* history: each was published after every lower one
  late,       \* history: decodes a job began after its cancellation
  terminated  \* std::terminate() has ended the whole program

jobVars == <<job, next, cancel>>
decodeVars == <<frameIndex, reentered>>
history == <<decoded, ascending>>
rest == <<history, late, terminated>>
asyncVars == <<jobVars, pc, pos, decodeVars, mutex, spans, delivered, rest>>

AsyncInit ==
  /\ job = [j \in Jobs |-> "idle"]
  /\ next = [j \in Jobs |-> 0]
  /\ cancel = [j \in Jobs |-> FALSE]
  /\ pc = [t \in Threads |-> "unborn"]
  /\ pos = [t \in Threads |-> 0]
  /\ frameIndex = [t \in Threads |-> 0]
  /\ reentered = [t \in Threads |-> FALSE]
  /\ mutex = [i \in Instances |-> NoThread]
  /\ spans = {}
  /\ delivered = [j \in Jobs |-> [i \in 1 .. NumIndices(j) |-> 0]]
  /\ decoded = {}
  /\ ascending = TRUE
  /\ late = [j \in Jobs |-> 0]
  /\ terminated = FALSE

Goto(t, from, to) ==
  /\ pc[t] = from
  /\ pc' = [pc EXCEPT ![t] = to]

----------------------------------------------------------------------------
\* The call, and the flag its owner may raise at any time.

StartJob(j) ==
  /\ job[j] = "idle"
  /\ job' = [job EXCEPT ![j] = "running"]
  /\ pc' = [t \in Threads |-> IF t \in WorkersOf(j) THEN "fetch" ELSE pc[t]]
  /\ UNCHANGED <<next, cancel, pos, decodeVars, mutex, spans, delivered, rest>>

RequestCancel(j) ==
  /\ j \in CancelJobs
  /\ job[j] = "running"
  /\ ~cancel[j]
  /\ cancel' = [cancel EXCEPT ![j] = TRUE]
  /\ UNCHANGED <<job, next, pc, pos, decodeVars, mutex, spans, delivered, rest>>

\* join() of every worker, then return.
ReturnJob(j) ==
  /\ job[j] = "running"
  /\ \A t \in WorkersOf(j) : pc[t] = "done"
  /\ job' = [job EXCEPT ![j] = "returned"]
  /\ UNCHANGED <<next, cancel, pc, pos, decodeVars, mutex, spans, delivered, rest>>

StartSync(s) ==
  /\ Goto(<<s, 0>>, "unborn", "lock")
  /\ \E f \in CallerFrames : frameIndex' = [frameIndex EXCEPT ![<<s, 0>>] = f]
  /\ UNCHANGED <<jobVars, pos, reentered, mutex, spans, delivered, rest>>

----------------------------------------------------------------------------
\* One worker's loop.

Owner(t) == t[1]

\* fetch_add draws a position; past the end the worker is done.

Fetch(t) ==
  /\ t \in JobWorkers
  /\ LET j == Owner(t) IN
       /\ Goto(t, "fetch", IF next[j] >= NumIndices(j) THEN "done" ELSE "check")
       /\ pos' = [pos EXCEPT ![t] = IF next[j] >= NumIndices(j) THEN @ ELSE next[j]]
       /\ next' = [next EXCEPT ![j] = @ + 1]
  /\ UNCHANGED <<job, cancel, decodeVars, mutex, spans, delivered, rest>>

\* A cancelled job's remaining positions are delivered, not dropped.  The
\* first mutant leaves the loop instead; the second does not look at the flag.
QuitWhenCancelled(t) ==
  /\ t \in JobWorkers
  /\ cancel[Owner(t)]
  /\ Goto(t, "check", "done")
  /\ UNCHANGED <<jobVars, pos, decodeVars, mutex, spans, delivered, rest>>

Cancelled(t) ==
  /\ t \in JobWorkers
  /\ cancel[Owner(t)]
  /\ Goto(t, "check", "callback")
  /\ UNCHANGED <<jobVars, pos, frameIndex, reentered, mutex, spans, delivered, rest>>

IgnoreCancel(t) ==
  /\ t \in JobWorkers
  /\ LET j == Owner(t) IN
       /\ Goto(t, "check", "lock")
       /\ frameIndex' = [frameIndex EXCEPT ![t] = Indices[j][pos[t] + 1]]
  /\ UNCHANGED <<jobVars, pos, reentered, mutex, spans, delivered, rest>>

NotCancelled(t) ==
  /\ t \in JobWorkers
  /\ ~cancel[Owner(t)]
  /\ LET j == Owner(t) IN
       /\ Goto(t, "check", "lock")
       /\ frameIndex' = [frameIndex EXCEPT ![t] = Indices[j][pos[t] + 1]]
  /\ UNCHANGED <<jobVars, pos, reentered, mutex, spans, delivered, rest>>

----------------------------------------------------------------------------
\* decodeFrameLocked(), under the mutex of the instance the thread uses.

Instance(t) == IF reentered[t] THEN 0 ELSE t[2]

BeginsLate(t) == t \in JobWorkers /\ ~reentered[t] /\ cancel[Owner(t)]

CountLate(t) ==
  late' = IF BeginsLate(t) THEN [late EXCEPT ![Owner(t)] = @ + 1] ELSE late

LockNothing(t) ==
  /\ Goto(t, "lock", "decode")
  /\ CountLate(t)
  /\ UNCHANGED <<jobVars, pos, decodeVars, mutex, spans, delivered, history, terminated>>

Lock(t) ==
  /\ mutex[Instance(t)] = NoThread
  /\ Goto(t, "lock", "decode")
  /\ mutex' = [mutex EXCEPT ![Instance(t)] = t]
  /\ CountLate(t)
  /\ UNCHANGED <<jobVars, pos, decodeVars, spans, delivered, history, terminated>>

\* Where a thread goes when decodeFrameLocked() returns, whatever its status, and
\* the lock is released: a worker to its callback, a re-entrant call back into
\* the callback it came from, a synchronous caller home.
FinishHoldingLock(t, from) ==
  /\ Goto(t, from, IF t \in JobWorkers THEN "callback" ELSE "done")
  /\ reentered' = [reentered EXCEPT ![t] = FALSE]
  /\ UNCHANGED mutex

Finish(t, from) ==
  /\ Goto(t, from, IF t \in JobWorkers THEN IF reentered[t] THEN "leave" ELSE "callback"
                   ELSE "done")
  /\ reentered' = [reentered EXCEPT ![t] = FALSE]
  /\ mutex' = [mutex EXCEPT ![Instance(t)] = NoThread]

\* The index is out of range, or a decoder or a source throws: nothing is published.
DecodeFails(t) ==
  /\ Finish(t, "decode")
  /\ UNCHANGED <<jobVars, pos, frameIndex, spans, delivered, rest>>

\* An exception out of loadFields() is outside decodeSourceFrame()'s try block.  On a
\* worker thread nothing catches it; in a chd_decode_frame it unwinds to the caller
\* and releases the lock, as DecodeFails does.
LoadThrows(t) ==
  /\ t \in JobWorkers
  /\ ~reentered[t]
  /\ pc[t] = "decode"
  /\ frameIndex[t] \in 0 .. NumFrames - 1
  /\ terminated' = TRUE
  /\ UNCHANGED <<jobVars, pc, pos, decodeVars, mutex, spans, delivered, history, late>>

Lowest(S) == CHOOSE f \in S : \A g \in S : f <= g

Highest(S) == CHOOSE h \in S : \A g \in S : h >= g

EvictHighest(S, f) ==
  (IF Cardinality(S) > SpanCacheCap THEN S \ {Highest(S)} ELSE S) \cup {f}

CacheWith(S, f) ==
  (IF Cardinality(S) > SpanCacheCap THEN S \ {Lowest(S)} ELSE S) \cup {f}

PublishSpans(t) ==
  /\ frameIndex[t] \in 0 .. NumFrames - 1
  /\ Goto(t, "decode", "convert")
  /\ spans' = CacheWith(spans, frameIndex[t])
  /\ decoded' = decoded \cup {frameIndex[t]}
  /\ ascending' = (ascending /\ \A f \in decoded : f < frameIndex[t])
  /\ UNCHANGED <<jobVars, pos, decodeVars, mutex, delivered, late, terminated>>

\* The output conversion, which may fail too: the spans stay published.
ConvertFrame(t) ==
  /\ Finish(t, "convert")
  /\ UNCHANGED <<jobVars, pos, frameIndex, spans, delivered, rest>>

----------------------------------------------------------------------------
\* The frame callback: the caller's code, entered once per position.  It may
\* call chd_decode_frame on the same decoder, any number of frames; once per
\* callback is the model's bound.

Reenter(t) ==
  /\ Owner(t) \in ReentrantJobs
  /\ Goto(t, "callback", "lock")
  /\ \E f \in CallerFrames : frameIndex' = [frameIndex EXCEPT ![t] = f]
  /\ reentered' = [reentered EXCEPT ![t] = TRUE]
  /\ UNCHANGED <<jobVars, pos, mutex, spans, delivered, rest>>

\* The callback returns; the loop's local variables go out of scope.
LeaveCallback(t) ==
  /\ \/ Goto(t, "callback", "fetch")
     \/ Goto(t, "leave", "fetch")
  /\ delivered' = [delivered EXCEPT ![Owner(t)][pos[t] + 1] = @ + 1]
  /\ pos' = [pos EXCEPT ![t] = 0]
  /\ frameIndex' = [frameIndex EXCEPT ![t] = 0]
  /\ UNCHANGED <<jobVars, reentered, mutex, spans, rest>>

Step(t) ==
  \/ Fetch(t)
  \/ Cancelled(t)
  \/ NotCancelled(t)
  \/ Lock(t)
  \/ DecodeFails(t)
  \/ LoadThrows(t)
  \/ PublishSpans(t)
  \/ ConvertFrame(t)
  \/ Reenter(t)
  \/ LeaveCallback(t)

AsyncNext ==
  /\ ~terminated
  /\ \/ \E j \in Jobs : StartJob(j) \/ RequestCancel(j) \/ ReturnJob(j)
     \/ \E s \in SyncThreads : StartSync(s)
     \/ \E t \in Threads : Step(t)

\* What the library itself does next: a thread's step, or a call's return.
LibraryStep ==
  ~terminated /\ ((\E t \in Threads : Step(t)) \/ (\E j \in Jobs : ReturnJob(j)))

\* While some thread of the library can run, some thread does: decoding ends, a
\* free mutex is granted, the callback returns.  That is all the scheduling the
\* properties need, because every position is decoded a bounded number of times.
\* Nothing forces a caller to start a job, to cancel it or to re-enter.
Fairness == WF_asyncVars(LibraryStep)

AsyncSpec == AsyncInit /\ [][AsyncNext]_asyncVars

AsyncFairSpec == AsyncSpec /\ Fairness

----------------------------------------------------------------------------
\* Properties.

AsyncTypeOK ==
  /\ job \in [Jobs -> {"idle", "running", "returned"}]
  /\ next \in [Jobs -> Nat]
  /\ cancel \in [Jobs -> BOOLEAN]
  /\ pc \in [Threads -> {"unborn", "fetch", "check", "lock", "decode", "convert", "callback",
                         "leave", "done"}]
  /\ pos \in [Threads -> Nat]
  /\ \A t \in JobWorkers : pos[t] < NumIndices(Owner(t))
  /\ frameIndex \in [Threads -> Int]
  /\ reentered \in [Threads -> BOOLEAN]
  /\ mutex \in [Instances -> Threads \cup {NoThread}]
  /\ spans \subseteq 0 .. NumFrames - 1
  /\ decoded \subseteq 0 .. NumFrames - 1
  /\ ascending \in BOOLEAN
  /\ late \in [Jobs -> Nat]
  /\ terminated \in BOOLEAN

Decoding(t) == pc[t] \in {"decode", "convert"}

\* A decoder instance is never entered by two threads, whichever of jobs,
\* synchronous calls and re-entrant callbacks use it: the per-instance mutex
\* covers decodeFrameLocked().
OneThreadPerInstance ==
  \A t, u \in Threads : Decoding(t) /\ Decoding(u) /\ Instance(t) = Instance(u) => t = u

\* A thread that waits for a decoder mutex, or runs the caller's callback,
\* holds none: a callback may re-enter chd_decode_frame without deadlock.
NoLockAcrossCallback ==
  \A i \in Instances : mutex[i] # NoThread => Decoding(mutex[i]) /\ Instance(mutex[i]) = i

\* Together: decoding is exclusive per instance, and nothing else holds its mutex.
InstancesAreExclusive == AsyncTypeOK /\ OneThreadPerInstance /\ NoLockAcrossCallback

\* Every index of a returned job was handed to the callback once: none lost to a
\* cancellation or a failed decode, none delivered by two workers.
DeliveredOnce ==
  \A j \in Jobs : \A i \in 1 .. NumIndices(j) :
    /\ delivered[j][i] <= 1
    /\ job[j] = "returned" => delivered[j][i] = 1

\* After chd_cancel_request a job begins at most one more decode per worker, those
\* that had looked at the flag before; the rest are delivered CHD_E_CANCELLED.
CancellationIsPrompt == \A j \in Jobs : late[j] <= WorkerCount(j)

\* The span cache does not grow with the video: one entry above the cap.
SpanCacheBounded == Cardinality(spans) <= SpanCacheCap + 1

\* "evicting the lowest frame index keeps streaming (ascending) decodes holding
\* their recent frames": while frames complete in ascending order, every frame
\* the cache has lost is older than cap others it still holds.
StreamingKeepsRecent ==
  ascending =>
    \A f \in decoded \ spans : Cardinality({g \in spans : g > f}) > SpanCacheCap

\* Together: the span cache is bounded and what it gives up is old.
SpanCacheKeepsRecent == SpanCacheBounded /\ StreamingKeepsRecent

\* chd_decode_frames_async returns, unless the program is gone: no worker waits for
\* ever on a mutex.
JobReturns == \A j \in Jobs : job[j] = "running" ~> job[j] = "returned" \/ terminated
=============================================================================
