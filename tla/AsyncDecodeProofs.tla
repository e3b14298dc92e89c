------------------------- MODULE AsyncDecodeProofs -------------------------
(***************************************************************************)
(* Theorems about one decoder handle used by any number of asynchronous    *)
(* jobs and synchronous callers, for any arrays of indices and any number  *)
(* of decoder instances.                                                   *)
(***************************************************************************)
EXTENDS AsyncDecode, FiniteSetTheorems, WellFoundedInduction, TLAPS

USE AsyncAssumption

-----------------------------------------------------------------------------
\* Who the threads are.

LEMMA WorkerCounts ==
  ASSUME NEW j \in Jobs
  PROVE  /\ NumIndices(j) \in Nat \ {0}
         /\ WorkerCount(j) \in Nat \ {0}
         /\ WorkerCount(j) <= ThreadCount
<1>1. Indices[j] \in Seq(Int) /\ Indices[j] # <<>>
  OBVIOUS
<1>2. NumIndices(j) \in Nat \ {0}
  BY <1>1 DEF NumIndices
<1> QED
  BY <1>2 DEF WorkerCount

LEMMA IndexTypes ==
  ASSUME NEW j \in Jobs, NEW p \in Nat, p < NumIndices(j)
  PROVE  Indices[j][p + 1] \in Int
  BY DEF NumIndices

LEMMA JobThreads ==
  ASSUME NEW j \in Jobs
  PROVE  /\ WorkersOf(j) \subseteq JobWorkers
         /\ WorkersOf(j) # {}
         /\ \A t \in WorkersOf(j) : Owner(t) = j
<1>1. <<j, 0>> \in WorkersOf(j)
  BY WorkerCounts DEF WorkersOf
<1>2. \A t \in WorkersOf(j) : t[1] = j
  BY DEF WorkersOf
<1> QED
  BY <1>1, <1>2 DEF JobWorkers, Owner

LEMMA WorkerThreads ==
  ASSUME NEW t \in JobWorkers
  PROVE  /\ t \in Threads
         /\ Owner(t) \in Jobs
         /\ t \in WorkersOf(Owner(t))
         /\ t[2] \in Instances
<1>1. PICK j \in Jobs : t \in WorkersOf(j)
  BY DEF JobWorkers
<1>2. PICK w \in 0 .. WorkerCount(j) - 1 : t = <<j, w>>
  BY <1>1 DEF WorkersOf
<1>3. w \in 0 .. ThreadCount - 1
  BY <1>2, WorkerCounts
<1> QED
  BY <1>1, <1>2, <1>3 DEF Threads, Owner, Instances

LEMMA SyncCallers ==
  ASSUME NEW s \in SyncThreads
  PROVE  /\ <<s, 0>> \in Threads
         /\ <<s, 0>> \notin JobWorkers
         /\ \A j \in Jobs : <<s, 0>> \notin WorkersOf(j)
  BY DEF Threads, JobWorkers, WorkersOf

LEMMA ThreadInstances ==
  ASSUME NEW t \in Threads
  PROVE  Instance(t) \in Instances /\ t # NoThread
<1>1. 0 \in Instances
  BY DEF Instances
<1>2. t[2] \in Instances /\ t # NoThread
  <2>1. CASE t \in JobWorkers
    BY <2>1, WorkerThreads DEF JobWorkers, WorkersOf, NoThread
  <2>2. CASE t \in {<<s, 0>> : s \in SyncThreads}
    BY <2>2, <1>1 DEF NoThread
  <2> QED
    BY <2>1, <2>2 DEF Threads
<1> QED
  BY <1>1, <1>2 DEF Instance

-----------------------------------------------------------------------------
\* Type correctness.

LEMMA InitTypeOK == AsyncInit => AsyncTypeOK
<1> SUFFICES ASSUME AsyncInit PROVE AsyncTypeOK
  OBVIOUS
<1>1. \A t \in JobWorkers : pos[t] < NumIndices(Owner(t))
  BY WorkerThreads, WorkerCounts DEF AsyncInit
<1>2. pos \in [Threads -> Nat] /\ frameIndex \in [Threads -> Int] /\ reentered \in [Threads -> BOOLEAN]
  BY DEF AsyncInit
<1> QED
  BY <1>1, <1>2 DEF AsyncInit, AsyncTypeOK

\* Returning from a decode keeps the places, the flags and the mutexes well typed.
LEMMA FinishTypes ==
  ASSUME AsyncTypeOK, NEW t \in Threads, NEW from, Finish(t, from)
  PROVE  /\ pc' \in [Threads -> {"unborn", "fetch", "check", "lock", "decode", "convert", "callback",
                                 "leave", "done"}]
         /\ reentered' \in [Threads -> BOOLEAN]
         /\ mutex' \in [Instances -> Threads \cup {NoThread}]
  BY DEF Finish, Goto, AsyncTypeOK

LEMMA StepTypeOK ==
  ASSUME AsyncTypeOK, NEW t \in Threads, Step(t)
  PROVE  AsyncTypeOK'
<1> USE DEF AsyncTypeOK, Goto, jobVars, decodeVars, history, rest
<1>1. CASE Fetch(t)
  <2>1. t \in JobWorkers /\ Owner(t) \in Jobs
    BY <1>1, WorkerThreads DEF Fetch
  <2>2. next[Owner(t)] \in Nat /\ NumIndices(Owner(t)) \in Nat
    BY <2>1, WorkerCounts
  <2>3. pos' \in [Threads -> Nat] /\ \A u \in JobWorkers : pos'[u] < NumIndices(Owner(u))
    BY <1>1, <2>1, <2>2, WorkerThreads DEF Fetch
  <2> QED
    BY <1>1, <2>1, <2>2, <2>3 DEF Fetch
<1>2. CASE Cancelled(t)
  BY <1>2 DEF Cancelled
<1>3. CASE NotCancelled(t)
  <2>1. Indices[Owner(t)][pos[t] + 1] \in Int
    BY <1>3, WorkerThreads, IndexTypes DEF NotCancelled
  <2> QED
    BY <1>3, <2>1 DEF NotCancelled
<1>4. CASE Lock(t)
  <2>1. late' \in [Jobs -> Nat]
    BY <1>4, WorkerThreads DEF Lock, CountLate, BeginsLate
  <2> QED
    BY <1>4, <2>1, ThreadInstances DEF Lock
<1>5. CASE DecodeFails(t)
  BY <1>5, FinishTypes DEF DecodeFails
<1>6. CASE LoadThrows(t)
  BY <1>6 DEF LoadThrows
<1>7. CASE PublishSpans(t)
  <2>1. CacheWith(spans, frameIndex[t]) \subseteq 0 .. NumFrames - 1
    BY <1>7 DEF PublishSpans, CacheWith
  <2> QED
    BY <1>7, <2>1 DEF PublishSpans
<1>8. CASE ConvertFrame(t)
  BY <1>8, FinishTypes DEF ConvertFrame
<1>9. CASE Reenter(t)
  BY <1>9 DEF Reenter
<1>10. CASE LeaveCallback(t)
  <2>1. \A u \in JobWorkers : pos'[u] < NumIndices(Owner(u))
    BY <1>10, WorkerThreads, WorkerCounts DEF LeaveCallback
  <2>2. pc' = [pc EXCEPT ![t] = "fetch"]
    BY <1>10 DEF LeaveCallback
  <2> QED
    BY <1>10, <2>1, <2>2 DEF LeaveCallback
<1> QED
  BY <1>1, <1>2, <1>3, <1>4, <1>5, <1>6, <1>7, <1>8, <1>9, <1>10 DEF Step

LEMMA NextTypeOK == AsyncTypeOK /\ [AsyncNext]_asyncVars => AsyncTypeOK'
<1> SUFFICES ASSUME AsyncTypeOK, [AsyncNext]_asyncVars PROVE AsyncTypeOK'
  OBVIOUS
<1> USE DEF AsyncTypeOK, Goto, jobVars, decodeVars, history, rest
<1>1. ASSUME NEW j \in Jobs, StartJob(j) PROVE AsyncTypeOK'
  BY <1>1 DEF StartJob
<1>2. ASSUME NEW j \in Jobs, RequestCancel(j) PROVE AsyncTypeOK'
  BY <1>2 DEF RequestCancel
<1>3. ASSUME NEW j \in Jobs, ReturnJob(j) PROVE AsyncTypeOK'
  BY <1>3 DEF ReturnJob
<1>4. ASSUME NEW s \in SyncThreads, StartSync(s) PROVE AsyncTypeOK'
  BY <1>4, SyncCallers DEF StartSync
<1>5. ASSUME NEW t \in Threads, Step(t) PROVE AsyncTypeOK'
  BY <1>5, StepTypeOK
<1>6. CASE UNCHANGED asyncVars
  BY <1>6 DEF asyncVars
<1> QED
  BY <1>1, <1>2, <1>3, <1>4, <1>5, <1>6 DEF AsyncNext

\* Every job, thread, mutex and counter keeps its type, and a worker's position is
\* always one of its job's (pos in c_api_decoder.cpp's worker loop).
THEOREM TypeCorrect == AsyncSpec => []AsyncTypeOK
BY InitTypeOK, NextTypeOK, PTL DEF AsyncSpec

-----------------------------------------------------------------------------
\* Exclusion.

\* A thread inside decodeFrameLocked() holds its instance's mutex.
Held == \A t \in Threads : Decoding(t) => mutex[Instance(t)] = t

\* Only workers fetch and call back, and those of a job not begun do nothing.
Phases ==
  /\ \A t \in Threads :
       pc[t] \in {"fetch", "check", "callback", "leave"} \/ reentered[t] => t \in JobWorkers
  /\ \A j \in Jobs : job[j] = "idle" => \A t \in WorkersOf(j) : pc[t] = "unborn"

IInv == AsyncTypeOK /\ Held /\ NoLockAcrossCallback /\ Phases

LEMMA InitIInv == AsyncInit => IInv
<1> SUFFICES ASSUME AsyncInit PROVE IInv
  OBVIOUS
<1>1. \A t \in Threads : pc[t] = "unborn" /\ ~reentered[t]
  BY DEF AsyncInit
<1>2. \A j \in Jobs : WorkersOf(j) \subseteq Threads
  BY JobThreads, WorkerThreads
<1>3. NoLockAcrossCallback
  BY DEF AsyncInit, NoLockAcrossCallback
<1> QED
  BY <1>1, <1>2, <1>3, InitTypeOK DEF IInv, Held, Phases, Decoding

\* Whoever takes a step, the other threads stay where they are.
LEMMA OthersStay ==
  ASSUME IInv, NEW t \in Threads, Step(t)
  PROVE  \A u \in Threads \ {t} : pc'[u] = pc[u] /\ reentered'[u] = reentered[u]
  BY DEF Step, Fetch, Cancelled, NotCancelled, Lock, DecodeFails, LoadThrows, PublishSpans,
         ConvertFrame, Reenter, LeaveCallback, Finish, Goto, decodeVars, IInv, AsyncTypeOK

\* A thread that leaves decodeFrameLocked() gives back the mutex it held.
LEMMA FinishExclusive ==
  ASSUME IInv, NEW t \in Threads, NEW from \in {"decode", "convert"}, Finish(t, from)
  PROVE  Held' /\ NoLockAcrossCallback'
<1>1. /\ Decoding(t) /\ mutex[Instance(t)] = t /\ Instance(t) \in Instances /\ t # NoThread
  BY ThreadInstances DEF Finish, Goto, Decoding, IInv, Held
<1>2. /\ pc'[t] \in {"leave", "callback", "done"}
      /\ \A u \in Threads \ {t} : pc'[u] = pc[u] /\ reentered'[u] = reentered[u]
      /\ mutex' = [mutex EXCEPT ![Instance(t)] = NoThread]
      /\ \A i \in Instances : mutex'[i] = IF i = Instance(t) THEN NoThread ELSE mutex[i]
  BY <1>1 DEF Finish, Goto, IInv, AsyncTypeOK
<1>3. ~Decoding(t)' /\ \A u \in Threads \ {t} : Decoding(u)' = Decoding(u) /\ Instance(u)' = Instance(u)
  BY <1>2 DEF Decoding, Instance
<1>4. \A u \in Threads \ {t} : Decoding(u) => Instance(u) # Instance(t)
  BY <1>1 DEF IInv, Held
<1>5. Held'
  BY <1>2, <1>3, <1>4, ThreadInstances DEF IInv, Held
<1>6. \A i \in Instances : i # Instance(t) => mutex[i] # t
  BY <1>1 DEF IInv, NoLockAcrossCallback
<1>7. NoLockAcrossCallback'
  BY <1>2, <1>3, <1>6 DEF IInv, AsyncTypeOK, NoLockAcrossCallback
<1> QED
  BY <1>5, <1>7

LEMMA StepExclusive ==
  ASSUME IInv, NEW t \in Threads, Step(t)
  PROVE  Held' /\ NoLockAcrossCallback'
<1> USE DEF Goto, decodeVars
<1>1. \A u \in Threads \ {t} :
        (Decoding(u)' <=> Decoding(u)) /\ Instance(u)' = Instance(u)
  BY OthersStay DEF Decoding, Instance
<1>2. CASE Fetch(t) \/ Cancelled(t) \/ NotCancelled(t) \/ Reenter(t) \/ LeaveCallback(t)
  <2>1. ~Decoding(t) /\ ~Decoding(t)' /\ mutex' = mutex
    BY <1>2 DEF Fetch, Cancelled, NotCancelled, Reenter, LeaveCallback, Decoding, IInv, AsyncTypeOK
  <2>2. Held'
    BY <1>1, <2>1 DEF IInv, Held
  <2>3. NoLockAcrossCallback'
    BY <1>1, <2>1 DEF IInv, AsyncTypeOK, NoLockAcrossCallback
  <2> QED
    BY <2>2, <2>3
<1>3. CASE Lock(t)
  <2>1. /\ mutex[Instance(t)] = NoThread /\ ~Decoding(t) /\ Decoding(t)' /\ Instance(t)' = Instance(t)
        /\ \A i \in Instances : mutex'[i] = IF i = Instance(t) THEN t ELSE mutex[i]
    BY <1>3, ThreadInstances DEF Lock, Decoding, Instance, IInv, AsyncTypeOK
  <2>2. \A u \in Threads \ {t} : Decoding(u) => Instance(u) # Instance(t)
    BY <2>1, ThreadInstances DEF IInv, Held
  <2>3. Held'
    BY <1>1, <2>1, <2>2, ThreadInstances DEF IInv, Held
  <2>4. NoLockAcrossCallback'
    BY <1>1, <2>1 DEF IInv, AsyncTypeOK, NoLockAcrossCallback
  <2> QED
    BY <2>3, <2>4
<1>4. CASE DecodeFails(t)
  BY <1>4, FinishExclusive DEF DecodeFails
<1>5. CASE ConvertFrame(t)
  BY <1>5, FinishExclusive DEF ConvertFrame
<1>6. CASE LoadThrows(t) \/ PublishSpans(t)
  <2>1. Decoding(t) /\ Decoding(t)' /\ Instance(t)' = Instance(t) /\ mutex' = mutex
    BY <1>6 DEF LoadThrows, PublishSpans, Decoding, Instance, IInv, AsyncTypeOK
  <2>2. Held'
    BY <1>1, <2>1 DEF IInv, Held
  <2>3. NoLockAcrossCallback'
    BY <1>1, <2>1 DEF IInv, AsyncTypeOK, NoLockAcrossCallback
  <2> QED
    BY <2>2, <2>3
<1> QED
  BY <1>2, <1>3, <1>4, <1>5, <1>6 DEF Step

LEMMA StepPhases ==
  ASSUME IInv, NEW t \in Threads, Step(t)
  PROVE  Phases'
<1> USE DEF Goto, jobVars, decodeVars
<1>1. job' = job
  BY DEF Step, Fetch, Cancelled, NotCancelled, Lock, DecodeFails, LoadThrows, PublishSpans,
         ConvertFrame, Reenter, LeaveCallback
<1>2. pc[t] # "unborn"
  BY DEF Step, Fetch, Cancelled, NotCancelled, Lock, DecodeFails, LoadThrows, PublishSpans,
         ConvertFrame, Reenter, LeaveCallback, Finish
<1>3. pc'[t] \in {"fetch", "check", "callback", "leave"} \/ reentered'[t] => t \in JobWorkers
  <2>1. CASE Fetch(t) \/ Cancelled(t) \/ NotCancelled(t)
    BY <2>1 DEF Fetch, Cancelled, NotCancelled
  <2>2. CASE Lock(t) \/ LoadThrows(t) \/ PublishSpans(t)
    BY <2>2 DEF Lock, LoadThrows, PublishSpans, IInv, AsyncTypeOK, Phases
  <2>3. CASE DecodeFails(t) \/ ConvertFrame(t)
    BY <2>3 DEF DecodeFails, ConvertFrame, Finish, IInv, AsyncTypeOK, Phases
  <2>4. CASE Reenter(t) \/ LeaveCallback(t)
    BY <2>4 DEF Reenter, LeaveCallback, IInv, AsyncTypeOK, Phases
  <2> QED
    BY <2>1, <2>2, <2>3, <2>4 DEF Step
<1>4. \A j \in Jobs : job[j] = "idle" => t \notin WorkersOf(j)
  BY <1>2 DEF IInv, Phases
<1>5. \A j \in Jobs : WorkersOf(j) \subseteq Threads
  BY JobThreads, WorkerThreads
<1> QED
  BY <1>1, <1>3, <1>4, <1>5, OthersStay DEF IInv, Phases

LEMMA NextIInv == IInv /\ [AsyncNext]_asyncVars => IInv'
<1> SUFFICES ASSUME IInv, [AsyncNext]_asyncVars PROVE IInv'
  OBVIOUS
<1> USE DEF Goto, jobVars, decodeVars
<1>1. AsyncTypeOK'
  BY NextTypeOK DEF IInv
<1>2. ASSUME NEW j \in Jobs, StartJob(j) PROVE IInv'
  <2>1. /\ \A t \in WorkersOf(j) : pc[t] = "unborn" /\ pc'[t] = "fetch"
        /\ \A t \in Threads : t \notin WorkersOf(j) => pc'[t] = pc[t]
        /\ UNCHANGED <<reentered, mutex>>
    BY <1>2, JobThreads, WorkerThreads DEF StartJob, IInv, Phases
  <2>2. \A t \in Threads : (Decoding(t)' <=> Decoding(t)) /\ Instance(t)' = Instance(t)
    BY <2>1 DEF Decoding, Instance
  <2>3. Held' /\ NoLockAcrossCallback'
    BY <2>1, <2>2 DEF IInv, AsyncTypeOK, Held, NoLockAcrossCallback
  <2>4. \A k \in Jobs : job'[k] = "idle" => k # j /\ job[k] = "idle"
    BY <1>2 DEF StartJob, IInv, AsyncTypeOK
  <2>5. \A k \in Jobs : k # j => \A t \in WorkersOf(k) : t \in Threads /\ t \notin WorkersOf(j)
    BY JobThreads, WorkerThreads
  <2>6. Phases'
    BY <2>1, <2>4, <2>5, JobThreads DEF IInv, Phases
  <2> QED
    BY <1>1, <2>3, <2>6 DEF IInv
<1>3. ASSUME NEW j \in Jobs, RequestCancel(j) \/ ReturnJob(j) PROVE IInv'
  <2>1. UNCHANGED <<pc, reentered, mutex>> /\ \A k \in Jobs : job'[k] = "idle" => job[k] = "idle"
    BY <1>3 DEF RequestCancel, ReturnJob, IInv, AsyncTypeOK
  <2>2. Held' /\ NoLockAcrossCallback' /\ Phases'
    BY <2>1 DEF IInv, Held, NoLockAcrossCallback, Phases, Decoding, Instance
  <2> QED
    BY <1>1, <2>2 DEF IInv
<1>4. ASSUME NEW s \in SyncThreads, StartSync(s) PROVE IInv'
  <2> DEFINE t == <<s, 0>>
  <2>1. t \in Threads /\ \A j \in Jobs : t \notin WorkersOf(j)
    BY SyncCallers
  <2>2. /\ pc[t] = "unborn" /\ pc'[t] = "lock" /\ \A u \in Threads \ {t} : pc'[u] = pc[u]
        /\ UNCHANGED <<job, reentered, mutex>>
    BY <1>4, <2>1 DEF StartSync, IInv, AsyncTypeOK
  <2> HIDE DEF t
  <2>3. \A u \in Threads : (Decoding(u)' <=> Decoding(u)) /\ Instance(u)' = Instance(u)
    BY <2>2 DEF Decoding, Instance
  <2>4. Held' /\ NoLockAcrossCallback'
    BY <2>2, <2>3 DEF IInv, AsyncTypeOK, Held, NoLockAcrossCallback
  <2>5. \A j \in Jobs : WorkersOf(j) \subseteq Threads
    BY JobThreads, WorkerThreads
  <2>6. Phases'
    BY <2>1, <2>2, <2>5 DEF IInv, Phases
  <2> QED
    BY <1>1, <2>4, <2>6 DEF IInv
<1>5. ASSUME NEW t \in Threads, Step(t) PROVE IInv'
  BY <1>1, <1>5, StepExclusive, StepPhases DEF IInv
<1>6. CASE UNCHANGED asyncVars
  BY <1>1, <1>6 DEF asyncVars, IInv, Held, NoLockAcrossCallback, Phases, Decoding, Instance
<1> QED
  BY <1>2, <1>3, <1>4, <1>5, <1>6 DEF AsyncNext

LEMMA IInvExclusive == IInv => InstancesAreExclusive
BY DEF IInv, Held, InstancesAreExclusive, OneThreadPerInstance

\* No decoder instance is ever entered by two threads, and none waits for a mutex or
\* runs a callback while it holds one (decoderMutexes in c_api_decoder.cpp).
THEOREM Exclusive == AsyncSpec => []InstancesAreExclusive
<1>1. AsyncSpec => []IInv
  BY InitIInv, NextIInv, PTL DEF AsyncSpec
<1> QED
  BY <1>1, IInvExclusive, PTL

-----------------------------------------------------------------------------
\* Delivery.

\* A worker with a position in its hands.
Drawn(t) == pc[t] \in {"check", "lock", "decode", "convert", "callback", "leave"}
Holds(t, j, p) == Owner(t) = j /\ Drawn(t) /\ pos[t] = p

HeldOnce == \A t, u \in JobWorkers :
              Drawn(t) /\ Drawn(u) /\ Owner(t) = Owner(u) /\ pos[t] = pos[u] => t = u
HeldBelow == \A t \in JobWorkers : Drawn(t) => pos[t] < next[Owner(t)]
Exhausted == \A t \in JobWorkers : pc[t] = "done" => next[Owner(t)] >= NumIndices(Owner(t))
Joined == \A j \in Jobs : job[j] = "returned" => \A t \in WorkersOf(j) : pc[t] = "done"

\* What was drawn and is in no worker's hands has been delivered, and nothing else.
Settled(j, i) == i - 1 < next[j] /\ \A t \in JobWorkers : ~Holds(t, j, i - 1)
Ledger == delivered = [j \in Jobs |-> [i \in 1 .. NumIndices(j) |-> IF Settled(j, i) THEN 1 ELSE 0]]

Delivery == HeldOnce /\ HeldBelow /\ Exhausted /\ Joined /\ Ledger

LEMMA InitDelivery == AsyncInit => Delivery
<1> SUFFICES ASSUME AsyncInit PROVE Delivery
  OBVIOUS
<1>1. \A t \in JobWorkers : pc[t] = "unborn"
  BY WorkerThreads DEF AsyncInit
<1>2. \A j \in Jobs : \A i \in 1 .. NumIndices(j) : ~Settled(j, i)
  BY WorkerCounts DEF AsyncInit, Settled
<1>3. Ledger
  BY <1>2 DEF AsyncInit, Ledger
<1>4. Joined
  BY DEF AsyncInit, Joined
<1> QED
  BY <1>1, <1>3, <1>4 DEF Delivery, HeldOnce, HeldBelow, Exhausted, Drawn

\* The ledger stays when nothing new is delivered and nothing changes hands.
LEMMA LedgerStays ==
  ASSUME Ledger, delivered' = delivered,
         \A j \in Jobs : \A i \in 1 .. NumIndices(j) : Settled(j, i)' <=> Settled(j, i)
  PROVE  Ledger'
BY DEF Ledger

LEMMA Undisturbed ==
  ASSUME Delivery, UNCHANGED <<next, pos, delivered>>, Joined',
         \A t \in JobWorkers : (Drawn(t)' <=> Drawn(t)) /\ (pc'[t] = "done" <=> pc[t] = "done")
  PROVE  Delivery'
<1>1. \A j \in Jobs : \A i \in 1 .. NumIndices(j) : Settled(j, i)' <=> Settled(j, i)
  BY DEF Settled, Holds
<1>2. Ledger'
  BY <1>1, LedgerStays DEF Delivery
<1>3. HeldOnce' /\ HeldBelow' /\ Exhausted'
  BY DEF Delivery, HeldOnce, HeldBelow, Exhausted
<1> QED
  BY <1>2, <1>3 DEF Delivery

\* A worker that has drawn or may still draw belongs to a job that has not returned.
LEMMA JoinedStays ==
  ASSUME IInv, Joined, NEW t \in Threads, Step(t)
  PROVE  Joined'
<1>1. job' = job /\ pc[t] # "done"
  BY DEF Step, Fetch, Cancelled, NotCancelled, Lock, DecodeFails, LoadThrows, PublishSpans,
         ConvertFrame, Reenter, LeaveCallback, Finish, Goto, jobVars
<1>2. \A j \in Jobs : WorkersOf(j) \subseteq Threads
  BY JobThreads, WorkerThreads
<1> QED
  BY <1>1, <1>2, OthersStay DEF Joined

LEMMA FetchDelivery ==
  ASSUME IInv, Delivery, NEW t \in Threads, Fetch(t)
  PROVE  Delivery'
<1>0. PICK o \in Jobs : o = Owner(t)
  BY WorkerThreads DEF Fetch
<1>1. /\ t \in JobWorkers /\ next[o] \in Nat /\ NumIndices(o) \in Nat
      /\ delivered' = delivered /\ pc[t] = "fetch"
      /\ \A j \in Jobs : next'[j] = IF j = o THEN next[j] + 1 ELSE next[j]
  BY <1>0, WorkerCounts DEF Fetch, Goto, IInv, AsyncTypeOK
<1>2. \A u \in Threads \ {t} : pc'[u] = pc[u] /\ pos'[u] = pos[u]
  BY DEF Fetch, Goto, IInv, AsyncTypeOK
<1>3. \A u \in JobWorkers : /\ u \in Threads /\ Owner(u) \in Jobs /\ pos[u] \in Nat
                           /\ next[Owner(u)] \in Nat /\ NumIndices(Owner(u)) \in Nat
                           /\ pos[u] < NumIndices(Owner(u))
  BY WorkerThreads, WorkerCounts DEF IInv, AsyncTypeOK
<1>4. ~Drawn(t) /\ \A u \in JobWorkers \ {t} : (Drawn(u)' <=> Drawn(u)) /\ pos'[u] = pos[u]
  BY <1>1, <1>2, <1>3 DEF Drawn
<1>5. Joined'
  BY JoinedStays DEF Delivery, Step
<1>8. \A u \in JobWorkers : next'[Owner(u)] \in Nat /\ next'[Owner(u)] >= next[Owner(u)]
  <2> TAKE u \in JobWorkers
  <2>1. PICK j \in Jobs : j = Owner(u)
    BY <1>3
  <2>2. next[j] \in Nat /\ (next'[j] = next[j] + 1 \/ next'[j] = next[j])
    BY <1>1, <1>3, <2>1
  <2> QED
    BY <2>1, <2>2
<1>9. next'[o] = next[o] + 1 /\ \A u \in JobWorkers \ {t} : pc'[u] = pc[u]
  BY <1>1, <1>2, <1>3
<1>6. CASE next[o] >= NumIndices(o)
  <2>1. pc'[t] = "done" /\ ~Drawn(t)' /\ pos' = pos
    BY <1>0, <1>1, <1>6 DEF Fetch, Goto, Drawn, IInv, AsyncTypeOK
  <2>2. \A j \in Jobs : \A i \in 1 .. NumIndices(j) : Settled(j, i)' <=> Settled(j, i)
    <3> TAKE j \in Jobs
    <3> TAKE i \in 1 .. NumIndices(j)
    <3>1. \A u \in JobWorkers : Holds(u, j, i - 1)' <=> Holds(u, j, i - 1)
      BY <1>4, <2>1 DEF Holds
    <3>2. NumIndices(j) \in Nat /\ next[j] \in Nat
      BY WorkerCounts DEF IInv, AsyncTypeOK
    <3>3. i - 1 < next'[j] <=> i - 1 < next[j]
      <4>1. CASE j = o
        BY <1>6, <1>9, <3>2, <4>1
      <4>2. CASE j # o
        BY <1>1, <4>2
      <4> QED
        BY <4>1, <4>2
    <3> QED
      BY <3>1, <3>3 DEF Settled
  <2>3. Ledger'
    BY <1>1, <2>2, LedgerStays DEF Delivery
  <2>4. HeldOnce'
    BY <1>4, <2>1 DEF Delivery, HeldOnce
  <2>5. HeldBelow'
    BY <1>0, <1>3, <1>4, <1>8, <1>9, <2>1 DEF Delivery, HeldBelow
  <2>6. Exhausted'
    <3> SUFFICES ASSUME NEW u \in JobWorkers, pc'[u] = "done"
                 PROVE  next'[Owner(u)] >= NumIndices(Owner(u))
      BY DEF Exhausted
    <3>1. CASE u # t
      <4>1. next[Owner(u)] >= NumIndices(Owner(u))
        BY <1>9, <3>1 DEF Delivery, Exhausted
      <4>2. next[Owner(u)] \in Nat /\ NumIndices(Owner(u)) \in Nat
        BY <1>3
      <4>3. next'[Owner(u)] \in Nat /\ next'[Owner(u)] >= next[Owner(u)]
        BY <1>8
      <4> QED
        BY <4>1, <4>2, <4>3
    <3>2. CASE u = t
      BY <1>0, <1>1, <1>6, <1>9, <3>2
    <3> QED
      BY <3>1, <3>2
  <2> QED
    BY <1>5, <2>3, <2>4, <2>5, <2>6 DEF Delivery
<1>7. CASE next[o] < NumIndices(o)
  <2>1. pc'[t] = "check" /\ Drawn(t)' /\ pos'[t] = next[o]
    BY <1>0, <1>1, <1>7 DEF Fetch, Goto, Drawn, IInv, AsyncTypeOK
  <2>2. \A u \in JobWorkers : Drawn(u) /\ Owner(u) = o => pos[u] < next[o]
    BY DEF Delivery, HeldBelow
  <2>3. \A j \in Jobs : \A i \in 1 .. NumIndices(j) : Settled(j, i)' <=> Settled(j, i)
    <3> TAKE j \in Jobs
    <3> TAKE i \in 1 .. NumIndices(j)
    <3>1. NumIndices(j) \in Nat /\ next[j] \in Nat
      BY WorkerCounts DEF IInv, AsyncTypeOK
    <3>2. \A u \in JobWorkers \ {t} : Holds(u, j, i - 1)' <=> Holds(u, j, i - 1)
      BY <1>4 DEF Holds
    <3>3. ~Holds(t, j, i - 1) /\ (Holds(t, j, i - 1)' <=> j = o /\ i - 1 = next[o])
      BY <1>0, <1>4, <2>1 DEF Holds
    <3>4. CASE j = o /\ i - 1 = next[o]
      BY <1>1, <3>1, <3>3, <3>4 DEF Settled
    <3>5. CASE ~(j = o /\ i - 1 = next[o])
      <4>1. i - 1 < next'[j] <=> i - 1 < next[j]
        BY <1>1, <3>1, <3>5
      <4> QED
        BY <3>2, <3>3, <3>5, <4>1 DEF Settled
    <3> QED
      BY <3>4, <3>5
  <2>4. Ledger'
    BY <1>1, <2>3, LedgerStays DEF Delivery
  <2>5. \A u \in JobWorkers \ {t} : Drawn(u)' /\ Owner(u) = o => pos'[u] # pos'[t]
    BY <1>1, <1>3, <1>4, <2>1, <2>2
  <2>6. HeldOnce'
    <3> SUFFICES ASSUME NEW u \in JobWorkers, NEW v \in JobWorkers, Drawn(u)', Drawn(v)',
                        Owner(u) = Owner(v), pos'[u] = pos'[v]
                 PROVE  u = v
      BY DEF HeldOnce
    <3>1. CASE u # t /\ v # t
      BY <1>4, <3>1 DEF Delivery, HeldOnce
    <3>2. CASE u = t \/ v = t
      BY <1>0, <2>5, <3>2
    <3> QED
      BY <3>1, <3>2
  <2>7. HeldBelow'
    BY <1>0, <1>3, <1>4, <1>8, <1>9, <2>1 DEF Delivery, HeldBelow
  <2>8. Exhausted'
    <3> SUFFICES ASSUME NEW u \in JobWorkers, pc'[u] = "done"
                 PROVE  next'[Owner(u)] >= NumIndices(Owner(u))
      BY DEF Exhausted
    <3>1. CASE u # t
      <4>1. next[Owner(u)] >= NumIndices(Owner(u))
        BY <1>9, <3>1 DEF Delivery, Exhausted
      <4>2. next[Owner(u)] \in Nat /\ NumIndices(Owner(u)) \in Nat
        BY <1>3
      <4>3. next'[Owner(u)] \in Nat /\ next'[Owner(u)] >= next[Owner(u)]
        BY <1>8
      <4> QED
        BY <4>1, <4>2, <4>3
    <3>2. CASE u = t
      BY <2>1, <3>2
    <3> QED
      BY <3>1, <3>2
  <2> QED
    BY <1>5, <2>4, <2>6, <2>7, <2>8 DEF Delivery
<1> QED
  BY <1>1, <1>6, <1>7

LEMMA LeaveDelivery ==
  ASSUME IInv, Delivery, NEW t \in Threads, LeaveCallback(t)
  PROVE  Delivery'
<1>1. /\ t \in JobWorkers /\ Drawn(t) /\ ~Drawn(t)' /\ pc'[t] = "fetch" /\ next' = next
      /\ \A u \in Threads \ {t} : pc'[u] = pc[u] /\ pos'[u] = pos[u]
  BY DEF LeaveCallback, Goto, jobVars, Drawn, IInv, AsyncTypeOK, Phases
<1>2. PICK o \in Jobs, p \in Nat :
        /\ o = Owner(t) /\ p = pos[t] /\ p < NumIndices(o) /\ NumIndices(o) \in Nat
        /\ p < next[o] /\ next[o] \in Nat
  BY <1>1, WorkerThreads, WorkerCounts DEF IInv, AsyncTypeOK, Delivery, HeldBelow
<1>3. \A u \in JobWorkers \ {t} : (Drawn(u)' <=> Drawn(u)) /\ pos'[u] = pos[u] /\ pc'[u] = pc[u]
  BY <1>1, WorkerThreads DEF Drawn
<1>4. Joined'
  BY JoinedStays DEF Delivery, Step
<1>5. HeldOnce' /\ HeldBelow' /\ Exhausted'
  BY <1>1, <1>3 DEF Delivery, HeldOnce, HeldBelow, Exhausted
<1>6. ~Settled(o, p + 1) /\ Settled(o, p + 1)'
  <2>1. Holds(t, o, p) /\ ~Holds(t, o, p)'
    BY <1>1, <1>2 DEF Holds
  <2>2. \A u \in JobWorkers \ {t} : ~Holds(u, o, p)'
    BY <1>1, <1>2, <1>3 DEF Holds, Delivery, HeldOnce
  <2>3. (p + 1) - 1 = p
    BY <1>2
  <2> QED
    BY <1>1, <1>2, <2>1, <2>2, <2>3 DEF Settled
<1>7. \A j \in Jobs : \A i \in 1 .. NumIndices(j) :
        ~(j = o /\ i = p + 1) => (Settled(j, i)' <=> Settled(j, i))
  <2> TAKE j \in Jobs
  <2> TAKE i \in 1 .. NumIndices(j)
  <2> HAVE ~(j = o /\ i = p + 1)
  <2>1. ~Holds(t, j, i - 1) /\ ~Holds(t, j, i - 1)'
    BY <1>1, <1>2, WorkerCounts DEF Holds
  <2>2. \A u \in JobWorkers \ {t} : Holds(u, j, i - 1)' <=> Holds(u, j, i - 1)
    BY <1>3 DEF Holds
  <2> QED
    BY <1>1, <2>1, <2>2 DEF Settled
<1>8. delivered' = [delivered EXCEPT ![o][p + 1] = @ + 1]
  BY <1>2 DEF LeaveCallback
<1>9. p + 1 \in 1 .. NumIndices(o)
  BY <1>2
<1>10. Ledger'
  <2>1. /\ delivered = [j \in Jobs |-> [i \in 1 .. NumIndices(j) |-> IF Settled(j, i) THEN 1 ELSE 0]]
        /\ delivered[o] = [i \in 1 .. NumIndices(o) |-> IF Settled(o, i) THEN 1 ELSE 0]
    BY <1>2 DEF Delivery, Ledger
  <2>2. [delivered[o] EXCEPT ![p + 1] = @ + 1]
          = [i \in 1 .. NumIndices(o) |-> IF Settled(o, i)' THEN 1 ELSE 0]
    <3> DEFINE Before == [i \in 1 .. NumIndices(o) |-> IF Settled(o, i) THEN 1 ELSE 0]
               After == [i \in 1 .. NumIndices(o) |-> IF Settled(o, i)' THEN 1 ELSE 0]
    <3>1. \A i \in 1 .. NumIndices(o) : After[i] = IF i = p + 1 THEN Before[i] + 1 ELSE Before[i]
      BY <1>6, <1>7
    <3>2. [Before EXCEPT ![p + 1] = @ + 1]
            = [i \in 1 .. NumIndices(o) |-> IF i = p + 1 THEN Before[i] + 1 ELSE Before[i]]
      BY <1>9
    <3>3. After = [i \in 1 .. NumIndices(o) |-> IF i = p + 1 THEN Before[i] + 1 ELSE Before[i]]
      <4> HIDE DEF Before
      <4> QED
        BY <3>1
    <3> QED
      BY <2>1, <3>2, <3>3
  <2>3. delivered' = [delivered EXCEPT ![o] = [i \in 1 .. NumIndices(o) |-> IF Settled(o, i)' THEN 1 ELSE 0]]
    BY <1>8, <2>2
  <2>4. \A j \in Jobs : j # o =>
          [i \in 1 .. NumIndices(j) |-> IF Settled(j, i)' THEN 1 ELSE 0]
            = [i \in 1 .. NumIndices(j) |-> IF Settled(j, i) THEN 1 ELSE 0]
    BY <1>7
  <2>5. delivered' = [j \in Jobs |-> [i \in 1 .. NumIndices(j) |-> IF Settled(j, i)' THEN 1 ELSE 0]]
    <3> DEFINE Row(j) == [i \in 1 .. NumIndices(j) |-> IF Settled(j, i) THEN 1 ELSE 0]
               NewRow(j) == [i \in 1 .. NumIndices(j) |-> IF Settled(j, i)' THEN 1 ELSE 0]
    <3>1. delivered = [j \in Jobs |-> Row(j)] /\ delivered' = [delivered EXCEPT ![o] = NewRow(o)]
      BY <2>1, <2>3
    <3>2. \A j \in Jobs : j # o => NewRow(j) = Row(j)
      BY <2>4
    <3> HIDE DEF Row, NewRow
    <3>3. delivered' = [j \in Jobs |-> NewRow(j)]
      BY <3>1, <3>2
    <3> QED
      BY <3>3 DEF NewRow
  <2> QED
    BY <2>5 DEF Ledger
<1> QED
  BY <1>4, <1>5, <1>10 DEF Delivery

\* The steps between a draw and the callback's return keep the position in hand.
LEMMA StepDelivery ==
  ASSUME IInv, Delivery, NEW t \in Threads, Step(t)
  PROVE  Delivery'
<1>1. CASE Fetch(t)
  BY <1>1, FetchDelivery
<1>2. CASE LeaveCallback(t)
  BY <1>2, LeaveDelivery
<1>3. CASE \/ Cancelled(t) \/ NotCancelled(t) \/ Lock(t) \/ DecodeFails(t) \/ LoadThrows(t)
           \/ PublishSpans(t) \/ ConvertFrame(t) \/ Reenter(t)
  <2> USE DEF Goto, Finish, jobVars
  <2>1. UNCHANGED <<next, pos, delivered>>
    BY <1>3 DEF Cancelled, NotCancelled, Lock, DecodeFails, LoadThrows, PublishSpans, ConvertFrame, Reenter
  <2>2. t \in JobWorkers => Drawn(t) /\ Drawn(t)' /\ pc[t] # "done" /\ pc'[t] # "done"
    BY <1>3 DEF Cancelled, NotCancelled, Lock, DecodeFails, LoadThrows, PublishSpans, ConvertFrame, Reenter,
                Drawn, IInv, AsyncTypeOK
  <2>3. \A u \in JobWorkers : (Drawn(u)' <=> Drawn(u)) /\ (pc'[u] = "done" <=> pc[u] = "done")
    BY <2>2, OthersStay, WorkerThreads DEF Drawn
  <2>4. Joined'
    BY JoinedStays DEF Delivery
  <2> QED
    BY <2>1, <2>3, <2>4, Undisturbed
<1> QED
  BY <1>1, <1>2, <1>3 DEF Step

LEMMA NextDelivery == IInv /\ Delivery /\ [AsyncNext]_asyncVars => Delivery'
<1> SUFFICES ASSUME IInv, Delivery, [AsyncNext]_asyncVars PROVE Delivery'
  OBVIOUS
<1> USE DEF Goto, rest
<1>1. ASSUME NEW j \in Jobs, StartJob(j) PROVE Delivery'
  <2>1. /\ \A t \in WorkersOf(j) : pc[t] = "unborn" /\ pc'[t] = "fetch"
        /\ \A t \in Threads : t \notin WorkersOf(j) => pc'[t] = pc[t]
    BY <1>1, JobThreads, WorkerThreads DEF StartJob, IInv, Phases
  <2>2. \A t \in JobWorkers : (Drawn(t)' <=> Drawn(t)) /\ (pc'[t] = "done" <=> pc[t] = "done")
    BY <2>1, WorkerThreads DEF Drawn
  <2>3. \A k \in Jobs : job'[k] = "returned" => job[k] = "returned"
    BY <1>1 DEF StartJob, IInv, AsyncTypeOK
  <2>4. Joined'
    BY <2>2, <2>3, JobThreads DEF Delivery, Joined
  <2> QED
    BY <1>1, <2>2, <2>4, Undisturbed DEF StartJob
<1>2. ASSUME NEW j \in Jobs, RequestCancel(j) PROVE Delivery'
  <2>1. UNCHANGED <<job, next, pc, pos, delivered>>
    BY <1>2 DEF RequestCancel
  <2> QED
    BY <2>1, Undisturbed DEF Delivery, Joined, Drawn
<1>3. ASSUME NEW j \in Jobs, ReturnJob(j) PROVE Delivery'
  <2>1. UNCHANGED <<next, pc, pos, delivered>>
    BY <1>3 DEF ReturnJob
  <2>2. Joined'
    BY <1>3 DEF ReturnJob, Delivery, Joined, IInv, AsyncTypeOK
  <2> QED
    BY <2>1, <2>2, Undisturbed DEF Drawn
<1>4. ASSUME NEW s \in SyncThreads, StartSync(s) PROVE Delivery'
  <2>1. \A t \in JobWorkers : pc'[t] = pc[t]
    BY <1>4, SyncCallers, WorkerThreads DEF StartSync, IInv, AsyncTypeOK
  <2>2. UNCHANGED <<job, next, pos, delivered>>
    BY <1>4 DEF StartSync, jobVars
  <2>3. Joined'
    BY <2>1, <2>2, JobThreads DEF Delivery, Joined
  <2> QED
    BY <2>1, <2>2, <2>3, Undisturbed DEF Drawn
<1>5. ASSUME NEW t \in Threads, Step(t) PROVE Delivery'
  BY <1>5, StepDelivery
<1>6. CASE UNCHANGED asyncVars
  BY <1>6, Undisturbed DEF asyncVars, jobVars, Delivery, Joined, Drawn
<1> QED
  BY <1>1, <1>2, <1>3, <1>4, <1>5, <1>6 DEF AsyncNext

LEMMA DeliveryOnce == IInv /\ Delivery => DeliveredOnce
<1> SUFFICES ASSUME IInv, Delivery, NEW j \in Jobs, NEW i \in 1 .. NumIndices(j)
             PROVE  delivered[j][i] <= 1 /\ (job[j] = "returned" => delivered[j][i] = 1)
  BY DEF DeliveredOnce
<1>1. delivered[j][i] = IF Settled(j, i) THEN 1 ELSE 0
  BY DEF Delivery, Ledger
<1>2. job[j] = "returned" => Settled(j, i)
  <2> HAVE job[j] = "returned"
  <2>1. PICK t \in WorkersOf(j) : pc[t] = "done"
    BY JobThreads DEF Delivery, Joined
  <2>2. next[j] >= NumIndices(j) /\ next[j] \in Nat /\ NumIndices(j) \in Nat
    BY <2>1, JobThreads, WorkerCounts DEF Delivery, Exhausted, IInv, AsyncTypeOK
  <2>3. \A u \in JobWorkers : Owner(u) = j => ~Drawn(u)
    BY WorkerThreads DEF Delivery, Joined, Drawn
  <2> QED
    BY <2>2, <2>3 DEF Settled, Holds
<1> QED
  BY <1>1, <1>2

\* Every index of an asynchronous call reaches the callback exactly once by the time the
\* call returns, cancelled or not (the fetch_add loop of chd_decode_frames_async).
THEOREM OnceEach == AsyncSpec => []DeliveredOnce
<1>1. AsyncSpec => []IInv
  BY InitIInv, NextIInv, PTL DEF AsyncSpec
<1>2. AsyncSpec => []Delivery
  BY <1>1, InitDelivery, NextDelivery, PTL DEF AsyncSpec
<1> QED
  BY <1>1, <1>2, DeliveryOnce, PTL

-----------------------------------------------------------------------------
\* Cancellation.

\* The workers of a job that looked at its flag and are about to decode.
Committed(j) == {t \in WorkersOf(j) : pc[t] = "lock" /\ ~reentered[t]}

\* After the flag is up, each late decode uses up one of them.
Prompt == \A j \in Jobs : IF cancel[j] THEN late[j] + Cardinality(Committed(j)) <= WorkerCount(j)
                                       ELSE late[j] = 0

LEMMA WorkersFinite ==
  ASSUME NEW j \in Jobs
  PROVE  IsFiniteSet(WorkersOf(j)) /\ Cardinality(WorkersOf(j)) <= WorkerCount(j)
<1> DEFINE W == 0 .. WorkerCount(j) - 1
           f == [w \in W |-> <<j, w>>]
<1>1. IsFiniteSet(W) /\ Cardinality(W) = WorkerCount(j)
  <2>1. WorkerCount(j) \in Nat \ {0} /\ WorkerCount(j) - 1 \in Int /\ 0 \in Int
    BY WorkerCounts
  <2>2. Cardinality(W) = IF 0 > WorkerCount(j) - 1 THEN 0 ELSE (WorkerCount(j) - 1) - 0 + 1
    BY <2>1, FS_Interval
  <2>3. IsFiniteSet(W)
    BY <2>1, FS_Interval
  <2> HIDE DEF W
  <2> QED
    BY <2>1, <2>2, <2>3
<1>2. f \in Surjection(W, WorkersOf(j))
  BY DEF Surjection, WorkersOf
<1> QED
  BY <1>1, <1>2, FS_Surjection

LEMMA CommittedFinite ==
  ASSUME NEW j \in Jobs
  PROVE  /\ IsFiniteSet(Committed(j))
         /\ Cardinality(Committed(j)) \in Nat
         /\ Cardinality(Committed(j)) <= WorkerCount(j)
<1>1. Committed(j) \in SUBSET WorkersOf(j)
  BY DEF Committed
<1>2. IsFiniteSet(Committed(j)) /\ Cardinality(Committed(j)) <= Cardinality(WorkersOf(j))
  BY <1>1, WorkersFinite, FS_Subset
<1>3. Cardinality(Committed(j)) \in Nat /\ Cardinality(WorkersOf(j)) \in Nat
  BY <1>2, WorkersFinite, FS_CardinalityType
<1> QED
  BY <1>2, <1>3, WorkersFinite, WorkerCounts

\* Fewer committed workers do not disturb the count.
LEMMA PromptStays ==
  ASSUME Prompt, AsyncTypeOK, UNCHANGED <<cancel, late>>,
         \A j \in Jobs : cancel[j] => Committed(j)' \subseteq Committed(j)
  PROVE  Prompt'
<1> SUFFICES ASSUME NEW j \in Jobs
             PROVE  IF cancel'[j] THEN late'[j] + Cardinality(Committed(j)') <= WorkerCount(j)
                                  ELSE late'[j] = 0
  BY DEF Prompt
<1>1. CASE cancel[j]
  <2>1. Committed(j)' \in SUBSET Committed(j)
    BY <1>1
  <2>2. IsFiniteSet(Committed(j)') /\ Cardinality(Committed(j)') <= Cardinality(Committed(j))
    BY <2>1, CommittedFinite, FS_Subset
  <2>3. Cardinality(Committed(j)') \in Nat
    BY <2>2, FS_CardinalityType
  <2>4. late[j] \in Nat /\ WorkerCount(j) \in Nat /\ late[j] + Cardinality(Committed(j)) <= WorkerCount(j)
    BY <1>1, WorkerCounts DEF AsyncTypeOK, Prompt
  <2> QED
    BY <1>1, <2>2, <2>3, <2>4, CommittedFinite
<1>2. CASE ~cancel[j]
  BY <1>2 DEF Prompt
<1> QED
  BY <1>1, <1>2

\* A decode that begins under a raised flag is one of the committed.
LEMMA LockPrompt ==
  ASSUME IInv, Prompt, NEW t \in Threads, Lock(t)
  PROVE  Prompt'
<1>1. /\ pc[t] = "lock" /\ pc'[t] = "decode" /\ UNCHANGED <<cancel, reentered>>
      /\ \A u \in Threads \ {t} : pc'[u] = pc[u]
  BY DEF Lock, Goto, jobVars, decodeVars, IInv, AsyncTypeOK
<1>2. \A j \in Jobs : WorkersOf(j) \subseteq Threads
  BY JobThreads, WorkerThreads
<1>3. \A j \in Jobs : Committed(j)' = Committed(j) \ {t}
  BY <1>1, <1>2 DEF Committed
<1>4. CASE ~BeginsLate(t)
  <2>1. late' = late
    BY <1>4 DEF Lock, CountLate
  <2> QED
    BY <1>1, <1>3, <2>1, PromptStays DEF IInv
<1>5. CASE BeginsLate(t)
  <2>1. PICK o \in Jobs : o = Owner(t) /\ cancel[o] /\ t \in Committed(o)
    BY <1>1, <1>5, WorkerThreads DEF BeginsLate, Committed
  <2>2. late' = [late EXCEPT ![o] = @ + 1]
    BY <1>5, <2>1 DEF Lock, CountLate
  <2>3. \A j \in Jobs : j # o => Committed(j)' = Committed(j) /\ late'[j] = late[j]
    BY <1>3, <2>1, <2>2, JobThreads DEF Committed, IInv, AsyncTypeOK
  <2>4. late[o] \in Nat /\ late'[o] = late[o] + 1
    BY <2>2 DEF IInv, AsyncTypeOK
  <2>5. Cardinality(Committed(o)') = Cardinality(Committed(o)) - 1
    BY <1>3, <2>1, CommittedFinite, FS_RemoveElement
  <2>6. late[o] + Cardinality(Committed(o)) <= WorkerCount(o)
    BY <2>1 DEF Prompt
  <2>7. late'[o] + Cardinality(Committed(o)') <= WorkerCount(o)
    BY <2>4, <2>5, <2>6, CommittedFinite, WorkerCounts
  <2> QED
    BY <1>1, <2>1, <2>3, <2>7 DEF Prompt
<1> QED
  BY <1>4, <1>5

LEMMA StepPrompt ==
  ASSUME IInv, Prompt, NEW t \in Threads, Step(t)
  PROVE  Prompt'
<1> USE DEF Goto, jobVars, decodeVars, history, rest
<1>1. CASE Lock(t)
  BY <1>1, LockPrompt
<1>2. CASE ~Lock(t)
  <2>1. UNCHANGED <<cancel, late>>
    BY <1>2 DEF Step, Fetch, Cancelled, NotCancelled, DecodeFails, LoadThrows, PublishSpans,
                ConvertFrame, Reenter, LeaveCallback
  <2>2. \A j \in Jobs : WorkersOf(j) \subseteq Threads
    BY JobThreads, WorkerThreads
  <2>3. \A j \in Jobs : t \in Committed(j)' => t \in Committed(j) \/ ~cancel[j]
    <3> TAKE j \in Jobs
    <3>1. CASE NotCancelled(t)
      BY <3>1, JobThreads DEF NotCancelled, Committed
    <3>2. CASE Fetch(t) \/ Cancelled(t) \/ DecodeFails(t) \/ ConvertFrame(t) \/ LeaveCallback(t)
      <4>1. pc'[t] # "lock"
        BY <3>2 DEF Fetch, Cancelled, DecodeFails, ConvertFrame, LeaveCallback, Finish, IInv, AsyncTypeOK
      <4> QED
        BY <4>1 DEF Committed
    <3>3. CASE Reenter(t)
      <4>1. reentered'[t]
        BY <3>3 DEF Reenter, IInv, AsyncTypeOK
      <4> QED
        BY <4>1 DEF Committed
    <3>4. CASE LoadThrows(t) \/ PublishSpans(t)
      <4>1. pc'[t] # "lock"
        BY <3>4 DEF LoadThrows, PublishSpans, IInv, AsyncTypeOK
      <4> QED
        BY <4>1 DEF Committed
    <3> QED
      BY <1>2, <3>1, <3>2, <3>3, <3>4 DEF Step
  <2>4. \A j \in Jobs : cancel[j] => Committed(j)' \subseteq Committed(j)
    BY <2>2, <2>3, OthersStay DEF Committed
  <2> QED
    BY <2>1, <2>4, PromptStays DEF IInv
<1> QED
  BY <1>1, <1>2

LEMMA InitPrompt == AsyncInit => Prompt
BY DEF AsyncInit, Prompt

LEMMA NextPrompt == IInv /\ Prompt /\ [AsyncNext]_asyncVars => Prompt'
<1> SUFFICES ASSUME IInv, Prompt, [AsyncNext]_asyncVars PROVE Prompt'
  OBVIOUS
<1> USE DEF Goto, jobVars, decodeVars, history, rest
<1>1. ASSUME NEW j \in Jobs, StartJob(j) PROVE Prompt'
  <2>1. /\ \A t \in WorkersOf(j) : pc'[t] = "fetch"
        /\ \A t \in Threads : t \notin WorkersOf(j) => pc'[t] = pc[t]
        /\ UNCHANGED <<cancel, late, reentered>>
    BY <1>1, JobThreads, WorkerThreads DEF StartJob
  <2>2. \A k \in Jobs : Committed(k)' \subseteq Committed(k)
    BY <2>1, JobThreads, WorkerThreads DEF Committed
  <2> QED
    BY <2>1, <2>2, PromptStays DEF IInv
<1>2. ASSUME NEW j \in Jobs, RequestCancel(j) PROVE Prompt'
  <2>1. /\ ~cancel[j] /\ late' = late /\ cancel'[j]
        /\ \A k \in Jobs : k # j => cancel'[k] = cancel[k]
        /\ \A k \in Jobs : Committed(k)' = Committed(k)
    BY <1>2 DEF RequestCancel, Committed, IInv, AsyncTypeOK
  <2>2. late[j] = 0
    BY <2>1 DEF Prompt
  <2>3. late'[j] + Cardinality(Committed(j)') <= WorkerCount(j)
    BY <2>1, <2>2, CommittedFinite
  <2> QED
    BY <2>1, <2>3 DEF Prompt
<1>3. ASSUME NEW j \in Jobs, ReturnJob(j) PROVE Prompt'
  <2>1. UNCHANGED <<cancel, late>> /\ \A k \in Jobs : Committed(k)' = Committed(k)
    BY <1>3 DEF ReturnJob, Committed
  <2> QED
    BY <2>1, PromptStays DEF IInv
<1>4. ASSUME NEW s \in SyncThreads, StartSync(s) PROVE Prompt'
  <2>1. UNCHANGED <<cancel, late, reentered>> /\ \A t \in JobWorkers : pc'[t] = pc[t]
    BY <1>4, SyncCallers, WorkerThreads DEF StartSync, IInv, AsyncTypeOK
  <2>2. \A k \in Jobs : Committed(k)' = Committed(k)
    BY <2>1, JobThreads DEF Committed
  <2> QED
    BY <2>1, <2>2, PromptStays DEF IInv
<1>5. ASSUME NEW t \in Threads, Step(t) PROVE Prompt'
  BY <1>5, StepPrompt
<1>6. CASE UNCHANGED asyncVars
  <2>1. UNCHANGED <<cancel, late>> /\ \A k \in Jobs : Committed(k)' = Committed(k)
    BY <1>6 DEF asyncVars, Committed
  <2> QED
    BY <2>1, PromptStays DEF IInv
<1> QED
  BY <1>1, <1>2, <1>3, <1>4, <1>5, <1>6 DEF AsyncNext

LEMMA PromptIsPrompt == IInv /\ Prompt => CancellationIsPrompt
<1> SUFFICES ASSUME IInv, Prompt, NEW j \in Jobs PROVE late[j] <= WorkerCount(j)
  BY DEF CancellationIsPrompt
<1>1. late[j] \in Nat /\ WorkerCount(j) \in Nat /\ Cardinality(Committed(j)) \in Nat
  BY CommittedFinite, WorkerCounts DEF IInv, AsyncTypeOK
<1> QED
  BY <1>1 DEF Prompt

\* After chd_cancel_request a job begins at most one more decode per worker, however
\* long its array of indices (the flag is read before each decode).
THEOREM PromptCancellation == AsyncSpec => []CancellationIsPrompt
<1>1. AsyncSpec => []IInv
  BY InitIInv, NextIInv, PTL DEF AsyncSpec
<1>2. AsyncSpec => []Prompt
  BY <1>1, InitPrompt, NextPrompt, PTL DEF AsyncSpec
<1> QED
  BY <1>1, <1>2, PromptIsPrompt, PTL

-----------------------------------------------------------------------------
\* The span cache.

\* A non-empty set of frames has a lowest one.
LEMMA LowestIsLowest ==
  ASSUME NEW S \in SUBSET Nat, S # {}
  PROVE  Lowest(S) \in S /\ \A f \in S : Lowest(S) <= f
<1>1. PICK x \in S : \A y \in S : ~(<<y, x>> \in OpToRel(<, Nat))
  <2>1. IsWellFoundedOn(OpToRel(<, Nat), Nat)
    BY NatLessThanWellFounded
  <2> QED
    BY <2>1, WFMin
<1>2. \A y \in S : ~(y < x)
  BY <1>1 DEF OpToRel
<1>3. \A y \in S : x <= y
  BY <1>2
<1> QED
  BY <1>3 DEF Lowest

CacheIsFinite == IsFiniteSet(spans) /\ spans \subseteq decoded
Cache == CacheIsFinite /\ SpanCacheBounded /\ StreamingKeepsRecent

\* What the cache of bounded size holds after a frame is put in.
LEMMA CacheSize ==
  ASSUME NEW S \in SUBSET Nat, IsFiniteSet(S), Cardinality(S) <= SpanCacheCap + 1, NEW f \in Nat
  PROVE  /\ IsFiniteSet(CacheWith(S, f))
         /\ Cardinality(CacheWith(S, f)) <= SpanCacheCap + 1
         /\ Cardinality(S) > SpanCacheCap /\ f \notin S => Cardinality(CacheWith(S, f)) = SpanCacheCap + 1
<1>1. Cardinality(S) \in Nat /\ SpanCacheCap \in Nat
  BY FS_CardinalityType
<1>2. CASE Cardinality(S) > SpanCacheCap
  <2> DEFINE T == S \ {Lowest(S)}
  <2>1. S # {}
    BY <1>1, <1>2, FS_EmptySet
  <2>2. Lowest(S) \in S
    BY <2>1, LowestIsLowest
  <2>3. IsFiniteSet(T) /\ Cardinality(T) = SpanCacheCap
    BY <1>1, <1>2, <2>2, FS_RemoveElement
  <2>4. CacheWith(S, f) = T \cup {f}
    BY <1>2 DEF CacheWith
  <2> HIDE DEF T
  <2>5. /\ IsFiniteSet(T \cup {f})
        /\ Cardinality(T \cup {f}) = IF f \in T THEN Cardinality(T) ELSE Cardinality(T) + 1
    BY <2>3, FS_AddElement
  <2>6. f \notin S => f \notin T
    BY DEF T
  <2> QED
    BY <1>1, <2>3, <2>4, <2>5, <2>6
<1>3. CASE ~(Cardinality(S) > SpanCacheCap)
  <2>1. CacheWith(S, f) = S \cup {f}
    BY <1>3 DEF CacheWith
  <2>2. /\ IsFiniteSet(S \cup {f})
        /\ Cardinality(S \cup {f}) = IF f \in S THEN Cardinality(S) ELSE Cardinality(S) + 1
    BY FS_AddElement
  <2> QED
    BY <1>1, <1>3, <2>1, <2>2
<1> QED
  BY <1>2, <1>3

\* A superset of a set of more than cap frames has more than cap.
LEMMA MoreThanCap ==
  ASSUME NEW S, NEW T \in SUBSET S, IsFiniteSet(S), Cardinality(T) > SpanCacheCap
  PROVE  Cardinality(S) > SpanCacheCap
<1>1. IsFiniteSet(T) /\ Cardinality(T) <= Cardinality(S)
  BY FS_Subset
<1>2. Cardinality(T) \in Nat /\ Cardinality(S) \in Nat
  BY <1>1, FS_CardinalityType
<1> QED
  BY <1>1, <1>2

LEMMA PublishCache ==
  ASSUME AsyncTypeOK, Cache, NEW t \in Threads, PublishSpans(t)
  PROVE  Cache'
<1> DEFINE f == frameIndex[t]
<1>1. /\ f \in 0 .. NumFrames - 1 /\ spans' = CacheWith(spans, f) /\ decoded' = decoded \cup {f}
      /\ ascending' = (ascending /\ \A g \in decoded : g < f)
  BY DEF PublishSpans
<1> HIDE DEF f
<1>2. spans \in SUBSET Nat /\ decoded \in SUBSET Nat /\ f \in Nat /\ spans' \in SUBSET Nat
  <2>1. 0 .. NumFrames - 1 \subseteq Nat
    OBVIOUS
  <2>2. spans \in SUBSET Nat /\ decoded \in SUBSET Nat
    BY <2>1 DEF AsyncTypeOK
  <2>3. f \in Nat
    BY <1>1, <2>1
  <2>4. CacheWith(spans, f) \subseteq spans \cup {f}
    BY DEF CacheWith
  <2> QED
    BY <1>1, <2>2, <2>3, <2>4
<1>3. IsFiniteSet(spans) /\ Cardinality(spans) <= SpanCacheCap + 1 /\ spans \subseteq decoded
  BY DEF Cache, CacheIsFinite, SpanCacheBounded
<1>4. /\ IsFiniteSet(spans') /\ Cardinality(spans') <= SpanCacheCap + 1
      /\ Cardinality(spans) > SpanCacheCap /\ f \notin spans => Cardinality(spans') = SpanCacheCap + 1
  BY <1>1, <1>2, <1>3, CacheSize
<1>5. spans' \subseteq decoded'
  BY <1>1, <1>3 DEF CacheWith
<1>6. StreamingKeepsRecent'
  <2> SUFFICES ASSUME ascending', NEW g \in decoded' \ spans'
               PROVE  Cardinality({h \in spans' : h > g}) > SpanCacheCap
    BY DEF StreamingKeepsRecent
  <2>1. ascending /\ \A h \in decoded : h < f
    BY <1>1
  <2>2. g # f /\ g \in decoded /\ g < f
    BY <1>1, <2>1 DEF CacheWith
  <2>3. CASE Cardinality(spans) > SpanCacheCap
    <3>1. f \notin spans
      BY <1>2, <1>3, <2>1
    <3>2. spans # {}
      <4>1. SpanCacheCap \in Nat /\ Cardinality({}) = 0
        BY FS_EmptySet
      <4>2. Cardinality(spans) # Cardinality({})
        BY <2>3, <4>1
      <4> QED
        BY <4>2
    <3>3. Lowest(spans) \in spans /\ \A h \in spans : Lowest(spans) <= h
      BY <1>2, <3>2, LowestIsLowest
    <3>4. spans' = (spans \ {Lowest(spans)}) \cup {f}
      BY <1>1, <2>3 DEF CacheWith
    <3>5. \A h \in spans' : h > g
      <4>1. CASE g \in spans
        <5>1. g = Lowest(spans)
          BY <3>4, <4>1
        <5>2. \A h \in spans \ {g} : h > g
          BY <1>2, <2>2, <3>3, <5>1
        <5> QED
          BY <2>2, <3>4, <5>1, <5>2, <1>2
      <4>2. CASE g \notin spans
        <5> DEFINE Above == {h \in spans : h > g}
        <5>1. Cardinality(Above) > SpanCacheCap
          BY <2>1, <2>2, <4>2 DEF Cache, StreamingKeepsRecent
        <5>2. Above \in SUBSET spans
          OBVIOUS
        <5> HIDE DEF Above
        <5>3. Above = spans
          <6>1. IsFiniteSet(Above) /\ Cardinality(Above) <= Cardinality(spans)
                /\ (Cardinality(spans) = Cardinality(Above) => spans = Above)
            BY <1>3, <5>2, FS_Subset
          <6>2. Cardinality(Above) \in Nat /\ Cardinality(spans) \in Nat /\ SpanCacheCap \in Nat
            BY <1>3, <6>1, FS_CardinalityType
          <6> QED
            BY <1>3, <5>1, <6>1, <6>2
        <5>4. \A h \in spans : h > g
          BY <5>3 DEF Above
        <5> QED
          BY <1>2, <2>2, <3>4, <5>4
      <4> QED
        BY <4>1, <4>2
    <3>6. {h \in spans' : h > g} = spans'
      BY <3>5
    <3>7. Cardinality(spans') = SpanCacheCap + 1 /\ SpanCacheCap \in Nat
      BY <1>4, <2>3, <3>1
    <3>8. Cardinality(spans') > SpanCacheCap
      BY <3>7
    <3> QED
      BY <3>6, <3>8
  <2>4. CASE ~(Cardinality(spans) > SpanCacheCap)
    <3>1. spans' = spans \cup {f} /\ g \notin spans
      BY <1>1, <2>4 DEF CacheWith
    <3>2. Cardinality({h \in spans : h > g}) > SpanCacheCap
      BY <2>1, <2>2, <3>1 DEF Cache, StreamingKeepsRecent
    <3>3. {h \in spans : h > g} \in SUBSET {h \in spans' : h > g}
      BY <3>1
    <3>4. IsFiniteSet({h \in spans' : h > g})
      BY <1>4, FS_Subset
    <3> QED
      BY <3>2, <3>3, <3>4, MoreThanCap
  <2> QED
    BY <2>3, <2>4
<1> QED
  BY <1>4, <1>5, <1>6 DEF Cache, CacheIsFinite, SpanCacheBounded

LEMMA InitCache == AsyncInit => Cache
<1> SUFFICES ASSUME AsyncInit PROVE Cache
  OBVIOUS
<1>1. spans = {} /\ decoded = {}
  BY DEF AsyncInit
<1>2. IsFiniteSet(spans) /\ Cardinality(spans) = 0
  BY <1>1, FS_EmptySet
<1> QED
  BY <1>1, <1>2 DEF Cache, CacheIsFinite, SpanCacheBounded, StreamingKeepsRecent

LEMMA NextCache == AsyncTypeOK /\ Cache /\ [AsyncNext]_asyncVars => Cache'
<1> SUFFICES ASSUME AsyncTypeOK, Cache, [AsyncNext]_asyncVars PROVE Cache'
  OBVIOUS
<1>1. ASSUME NEW t \in Threads, PublishSpans(t) PROVE Cache'
  BY <1>1, PublishCache
<1>2. CASE UNCHANGED <<spans, decoded, ascending>>
  BY <1>2 DEF Cache, CacheIsFinite, SpanCacheBounded, StreamingKeepsRecent
<1>3. ASSUME NEW t \in Threads, Step(t), ~PublishSpans(t) PROVE UNCHANGED <<spans, decoded, ascending>>
  BY <1>3 DEF Step, Fetch, Cancelled, NotCancelled, Lock, DecodeFails, LoadThrows, ConvertFrame,
              Reenter, LeaveCallback, rest, history
<1>4. UNCHANGED asyncVars => UNCHANGED <<spans, decoded, ascending>>
  BY DEF asyncVars, rest, history
<1>5. ASSUME NEW j \in Jobs, StartJob(j) \/ RequestCancel(j) \/ ReturnJob(j)
      PROVE  UNCHANGED <<spans, decoded, ascending>>
  BY <1>5 DEF StartJob, RequestCancel, ReturnJob, rest, history
<1>6. ASSUME NEW s \in SyncThreads, StartSync(s) PROVE UNCHANGED <<spans, decoded, ascending>>
  BY <1>6 DEF StartSync, rest, history
<1> QED
  BY <1>1, <1>2, <1>3, <1>4, <1>5, <1>6 DEF AsyncNext

LEMMA CacheKeepsRecent == Cache => SpanCacheKeepsRecent
BY DEF Cache, SpanCacheKeepsRecent

\* The span cache never holds more than one entry above the cap, and while frames complete
\* in order what it has given up is older than cap entries it holds (the eviction in
\* decodeFrameLocked).
THEOREM RecentSpansKept == AsyncSpec => []SpanCacheKeepsRecent
<1>1. AsyncSpec => []AsyncTypeOK
  BY TypeCorrect
<1>2. AsyncSpec => []Cache
  BY <1>1, InitCache, NextCache, PTL DEF AsyncSpec
<1> QED
  BY <1>2, CacheKeepsRecent, PTL
=============================================================================
