---------------------------- MODULE DecoderPool ----------------------------
(***************************************************************************)
(* The threaded file-to-file pipeline (src/src/pipeline/decoder_pool.cpp):  *)
(* process() starts MaxThreads workers; each claims a batch of frames under *)
(* inputMutex, decodes it, and hands the frames back under outputMutex,     *)
(* where a map of pending frames restores presentation order before the     *)
(* file is written.  A decoder that throws and a write that fails raise the *)
(* shared abort flag; an I/O exception while fields are loaded escapes the  *)
(* worker and terminates the program.                                       *)
(*                                                                          *)
(* A frame is its number; its samples are left out.                         *)
(***************************************************************************)
EXTENDS Integers, Sequences, FiniteSets

CONSTANTS
  NumFrames,         \* ldDecodeMetaData.getNumberOfFrames()
  StartFrames,       \* the startFrame arguments considered; -1 is "not given"
  Lengths,           \* the length arguments considered; -1 is "not given"
  MaxThreads,        \* maxThreads
  DefaultBatchSize   \* DEFAULT_BATCH_SIZE

ASSUME PoolAssumption ==
  /\ NumFrames \in Int
  /\ StartFrames \subseteq (Nat \ {0}) \cup {-1}
  /\ Lengths \subseteq Nat \cup {-1}
  /\ MaxThreads \in Nat \ {0}
  /\ DefaultBatchSize \in Nat \ {0}

Workers == 1 .. MaxThreads
NoWorker == 0
NoReason == "none"

VARIABLES
  phase,              \* where process() is: "configuring", "running", "returned";
                      \* or "terminated" when the whole program is
  startFrame,         \* process() normalises these two members in place
  length,
  inputFrameNumber,   \* guarded by inputMutex
  outputFrameNumber,  \* guarded by outputMutex, like the next three
  pending,            \* keys of pendingOutputFrames
  file,               \* frames in targetVideo, in file order
  good,               \* targetVideo.good(): once false it stays false
  outputMutex,        \* the worker that holds it, or NoWorker
  pc,                 \* where each worker is
  next,               \* the next frame of its batch a worker has to put
  last,               \* the last frame of that batch
  abort,              \* the shared abort flag
  abortReason,        \* why the first worker gave up
  lastError,          \* chd_last_error() of the thread that called process()
  result              \* what process() returned: "none" until it returns

mainVars   == <<phase, startFrame, length, lastError, result>>
outputVars == <<outputFrameNumber, pending, file, good>>
batchVars  == <<next, last>>
abortVars  == <<abort, abortReason>>
vars == <<mainVars, inputFrameNumber, outputVars, outputMutex, pc, batchVars, abortVars>>

----------------------------------------------------------------------------
\* The frame range process() works on, from the arguments it was given.

NormalStart == IF startFrame = -1 THEN 1 ELSE startFrame

AvailableFrames == NumFrames - (NormalStart - 1)

NormalLength ==
  IF length = -1 \/ length > AvailableFrames THEN AvailableFrames ELSE length

lastFrameNumber == length + (startFrame - 1)

Lesser(a, b)  == IF a <= b THEN a ELSE b
Greater(a, b) == IF a >= b THEN a ELSE b

maxBatchSize == Lesser(DefaultBatchSize, Greater(1, length \div MaxThreads))

\* The mutant is off by one at the end of the range.
batchFramesShort == Lesser(maxBatchSize, lastFrameNumber - inputFrameNumber)

batchFrames == Lesser(maxBatchSize, lastFrameNumber + 1 - inputFrameNumber)

Init ==
  /\ phase = "configuring"
  /\ startFrame \in StartFrames
  /\ length \in Lengths
  /\ inputFrameNumber = 0
  /\ outputFrameNumber = 0
  /\ pending = {}
  /\ file = <<>>
  /\ good = TRUE
  /\ outputMutex = NoWorker
  /\ pc = [w \in Workers |-> "unborn"]
  /\ next = [w \in Workers |-> 0]
  /\ last = [w \in Workers |-> -1]
  /\ abort = FALSE
  /\ abortReason = NoReason
  /\ lastError = NoReason
  /\ result = "none"

----------------------------------------------------------------------------
\* The calling thread.

\* process() records the reason on its own thread and starts no worker: the decoder
\* refuses the video or the source does not open, before the arguments are touched;
\* the start frame is past the end; the output file does not open, or its stream
\* header is not written.
FailSetup ==
  /\ phase = "configuring"
  /\ \/ UNCHANGED <<startFrame, length>>
     \/ NormalStart > NumFrames /\ startFrame' = NormalStart /\ UNCHANGED length
     \/ NormalStart <= NumFrames /\ startFrame' = NormalStart /\ length' = NormalLength
  /\ phase' = "returned"
  /\ lastError' = "setup"
  /\ result' = "failure"
  /\ UNCHANGED <<inputFrameNumber, outputVars, outputMutex, pc, batchVars, abortVars>>

StartWorkers ==
  /\ phase = "configuring"
  /\ NormalStart <= NumFrames
  /\ phase' = "running"
  /\ startFrame' = NormalStart
  /\ length' = NormalLength
  /\ inputFrameNumber' = NormalStart
  /\ outputFrameNumber' = NormalStart
  /\ pc' = [w \in Workers |-> "checkAbort"]
  /\ UNCHANGED <<lastError, result, pending, file, good, outputMutex, batchVars, abortVars>>

AllJoined == phase = "running" /\ \A w \in Workers : pc[w] = "exited"

EndStateCorrect ==
  /\ inputFrameNumber = lastFrameNumber + 1
  /\ outputFrameNumber = lastFrameNumber + 1
  /\ pending = {}

ReturnAborted ==
  /\ AllJoined
  /\ abort
  /\ phase' = "returned"
  /\ result' = "failure"
  /\ lastError' = IF abortReason = NoReason THEN lastError ELSE abortReason
  /\ UNCHANGED <<startFrame, length, inputFrameNumber, outputVars, outputMutex, pc,
                 batchVars, abortVars>>

ReturnFinished ==
  /\ AllJoined
  /\ ~abort
  /\ phase' = "returned"
  /\ result' = IF EndStateCorrect THEN "success" ELSE "failure"
  /\ lastError' = IF EndStateCorrect THEN lastError ELSE "incorrectEndState"
  /\ UNCHANGED <<startFrame, length, inputFrameNumber, outputVars, outputMutex, pc,
                 batchVars, abortVars>>

CallingThread == FailSetup \/ StartWorkers \/ ReturnAborted \/ ReturnFinished

----------------------------------------------------------------------------
\* A worker thread: one turn of workerLoop() is checkAbort, getInput,
\* decoding, putOutput, then insert and drain for each frame of the batch.

Goto(w, from, to) ==
  /\ phase = "running"
  /\ pc[w] = from
  /\ pc' = [pc EXCEPT ![w] = to]

CheckAbort(w) ==
  /\ Goto(w, "checkAbort", IF abort THEN "exited" ELSE "getInput")
  /\ UNCHANGED <<mainVars, inputFrameNumber, outputVars, outputMutex, batchVars, abortVars>>

\* inputMutex is held from the first read to the last write of what it guards,
\* so claiming a batch is one step.
EndOfInput(w) ==
  /\ batchFrames = 0
  /\ Goto(w, "getInput", "exited")
  /\ UNCHANGED <<mainVars, inputFrameNumber, outputVars, outputMutex, batchVars, abortVars>>

\* The mutant moves the position on by one frame where a batch was taken.
ClaimBatchOverlapping(w) ==
  /\ batchFrames # 0
  /\ Goto(w, "getInput", "decoding")
  /\ next' = [next EXCEPT ![w] = inputFrameNumber]
  /\ last' = [last EXCEPT ![w] = inputFrameNumber + batchFrames - 1]
  /\ inputFrameNumber' = inputFrameNumber + 1
  /\ UNCHANGED <<mainVars, outputVars, outputMutex, abortVars>>

ClaimBatch(w) ==
  /\ batchFrames # 0
  /\ Goto(w, "getInput", "decoding")
  /\ next' = [next EXCEPT ![w] = inputFrameNumber]
  /\ last' = [last EXCEPT ![w] = inputFrameNumber + batchFrames - 1]
  /\ inputFrameNumber' = inputFrameNumber + batchFrames
  /\ UNCHANGED <<mainVars, outputVars, outputMutex, abortVars>>

\* An exception out of SourceField::loadFields() is outside workerLoop()'s try
\* block, so it leaves the thread function: std::terminate().
LoadThrows(w) ==
  /\ phase = "running"
  /\ pc[w] = "getInput"
  /\ batchFrames # 0
  /\ phase' = "terminated"
  /\ UNCHANGED <<startFrame, length, lastError, result, inputFrameNumber, outputVars,
                 outputMutex, pc, batchVars, abortVars>>

FinishDecode(w) ==
  /\ Goto(w, "decoding", "putOutput")
  /\ UNCHANGED <<mainVars, inputFrameNumber, outputVars, outputMutex, batchVars, abortVars>>

\* Only the first reason is kept.
DecodeThrows(w) ==
  /\ Goto(w, "decoding", "failing")
  /\ abortReason' = IF abortReason = NoReason THEN "decode" ELSE abortReason
  /\ UNCHANGED <<mainVars, inputFrameNumber, outputVars, outputMutex, batchVars, abort>>

EnterOutput(w) ==
  /\ outputMutex = NoWorker
  /\ Goto(w, "putOutput", "insert")
  /\ outputMutex' = w
  /\ UNCHANGED <<mainVars, inputFrameNumber, outputVars, batchVars, abortVars>>

InsertFrame(w) ==
  /\ Goto(w, "insert", "drain")
  /\ pending' = pending \cup {next[w]}
  /\ UNCHANGED <<mainVars, inputFrameNumber, outputFrameNumber, file, good, outputMutex,
                 batchVars, abortVars>>

\* One turn of the while loop of putOutputFrame(): the write succeeds.  The
\* mutant writes whichever pending frame comes first in the map.
WriteFirstPending(w) ==
  /\ phase = "running"
  /\ pc[w] = "drain"
  /\ good
  /\ \E f \in pending :
       /\ \A g \in pending : f <= g
       /\ pending' = pending \ {f}
       /\ file' = Append(file, f)
  /\ outputFrameNumber' = outputFrameNumber + 1
  /\ UNCHANGED <<mainVars, inputFrameNumber, good, outputMutex, pc, batchVars, abortVars>>

WriteFrame(w) ==
  /\ phase = "running"
  /\ pc[w] = "drain"
  /\ outputFrameNumber \in pending
  /\ good
  /\ file' = Append(file, outputFrameNumber)
  /\ pending' = pending \ {outputFrameNumber}
  /\ outputFrameNumber' = outputFrameNumber + 1
  /\ UNCHANGED <<mainVars, inputFrameNumber, good, outputMutex, pc, batchVars, abortVars>>

\* The header or the data does not get out: the stream goes bad, and with it
\* every later write.  The frame stays in the map, the lock is released, which the
\* mutant forgets.
WriteFailsHoldingLock(w) ==
  /\ outputFrameNumber \in pending
  /\ Goto(w, "drain", "failing")
  /\ good' = FALSE
  /\ UNCHANGED <<mainVars, inputFrameNumber, outputFrameNumber, pending, file, outputMutex,
                 batchVars, abortVars>>

WriteFails(w) ==
  /\ outputFrameNumber \in pending
  /\ Goto(w, "drain", "failing")
  /\ good' = FALSE
  /\ outputMutex' = NoWorker
  /\ UNCHANGED <<mainVars, inputFrameNumber, outputFrameNumber, pending, file, batchVars,
                 abortVars>>

\* Nothing more can be written: on to the batch's next frame, or out of the lock.
\* The first mutant does not look whether more can be written, the second leaves
\* the last frame of the batch behind.
DrainOnce(w) ==
  /\ Goto(w, "drain", IF next[w] < last[w] THEN "insert" ELSE "checkAbort")
  /\ next' = [next EXCEPT ![w] = @ + 1]
  /\ outputMutex' = IF next[w] < last[w] THEN w ELSE NoWorker
  /\ UNCHANGED <<mainVars, inputFrameNumber, outputVars, last, abortVars>>

DrainedEarly(w) ==
  /\ outputFrameNumber \notin pending
  /\ Goto(w, "drain", IF next[w] + 1 < last[w] THEN "insert" ELSE "checkAbort")
  /\ next' = [next EXCEPT ![w] = @ + 1]
  /\ outputMutex' = IF next[w] + 1 < last[w] THEN w ELSE NoWorker
  /\ UNCHANGED <<mainVars, inputFrameNumber, outputVars, last, abortVars>>

Drained(w) ==
  /\ outputFrameNumber \notin pending
  /\ Goto(w, "drain", IF next[w] < last[w] THEN "insert" ELSE "checkAbort")
  /\ next' = [next EXCEPT ![w] = @ + 1]
  /\ outputMutex' = IF next[w] < last[w] THEN w ELSE NoWorker
  /\ UNCHANGED <<mainVars, inputFrameNumber, outputVars, last, abortVars>>

RaiseAbort(w) ==
  /\ Goto(w, "failing", "exited")
  /\ abort' = TRUE
  /\ UNCHANGED <<mainVars, inputFrameNumber, outputVars, outputMutex, batchVars, abortReason>>

Worker(w) ==
  \/ CheckAbort(w)
  \/ EndOfInput(w)
  \/ ClaimBatch(w)
  \/ LoadThrows(w)
  \/ FinishDecode(w)
  \/ DecodeThrows(w)
  \/ EnterOutput(w)
  \/ InsertFrame(w)
  \/ WriteFrame(w)
  \/ WriteFails(w)
  \/ Drained(w)
  \/ RaiseAbort(w)

Next == CallingThread \/ \E w \in Workers : Worker(w)

\* Threads the operating system runs: each worker, and the caller inside
\* process(), takes its next step once it can.  Decoding a batch is assumed to
\* end, and a mutex that is free to be granted: a worker takes outputMutex
\* finitely often, so no stronger fairness is needed.
Fairness ==
  /\ WF_vars(CallingThread)
  /\ \A w \in Workers : WF_vars(Worker(w))

Spec == Init /\ [][Next]_vars

FairSpec == Spec /\ Fairness

----------------------------------------------------------------------------
\* Properties.

PCs == {"unborn", "checkAbort", "getInput", "decoding", "putOutput", "insert", "drain",
        "failing", "exited"}

TypeOK ==
  /\ phase \in {"configuring", "running", "returned", "terminated"}
  /\ startFrame \in Int
  /\ length \in Int
  /\ phase = "configuring" => startFrame \in StartFrames /\ length \in Lengths
  /\ phase = "running" =>
       startFrame \in 1 .. NumFrames /\ length \in 0 .. NumFrames - (startFrame - 1)
  /\ inputFrameNumber \in Int
  /\ outputFrameNumber \in Int
  /\ pending \subseteq Int
  /\ file \in Seq(Int)
  /\ good \in BOOLEAN
  /\ outputMutex \in Workers \cup {NoWorker}
  /\ pc \in [Workers -> PCs]
  /\ next \in [Workers -> Int]
  /\ last \in [Workers -> Int]
  /\ abort \in BOOLEAN
  /\ abortReason \in {NoReason, "decode"}
  /\ lastError \in {NoReason, "setup", "decode", "incorrectEndState"}
  /\ result \in {"none", "success", "failure"}

\* The frames in worker w's hands: claimed and not yet in the map.
InHand(w) ==
  IF pc[w] \in {"decoding", "putOutput", "insert"} THEN next[w] .. last[w]
  ELSE IF pc[w] = "drain" THEN next[w] + 1 .. last[w]
  ELSE {}

Started == \E w \in Workers : pc[w] # "unborn"

\* Frames reach the file in presentation order, each once, with no gap, in
\* whatever order the workers finish them (putOutputFrame()'s map).
OutputInOrder ==
  /\ \A i \in 1 .. Len(file) : file[i] = startFrame + i - 1
  /\ Started => Len(file) = outputFrameNumber - startFrame

\* A frame that is waiting in the map, or in a worker's hands, is not in the
\* file yet, was claimed, and no two workers hold the same one: the claim under
\* inputMutex and the hand-over under outputMutex never duplicate a frame.
FrameHeldOnce ==
  Started =>
    /\ pending \subseteq outputFrameNumber .. inputFrameNumber - 1
    /\ \A w \in Workers :
         /\ InHand(w) \subseteq (outputFrameNumber .. inputFrameNumber - 1) \ pending
         /\ \A v \in Workers \ {w} : InHand(w) \cap InHand(v) = {}

\* While no worker has failed, every frame claimed is in the file, in the map or in
\* the hands of a worker: none is dropped between the two locks.
NoFrameLost ==
  Started /\ ~abort /\ (\A w \in Workers : pc[w] # "failing") =>
    \A f \in outputFrameNumber .. inputFrameNumber - 1 :
      f \in pending \/ \E v \in Workers : f \in InHand(v)

\* Nobody leaves outputMutex while the frame the file is waiting for sits in
\* the map, unless the stream has failed.
NothingHeldBack ==
  outputMutex = NoWorker /\ good => outputFrameNumber \notin pending

\* The check for an incorrect state at the end of process() never fires.
EndStateAlwaysCorrect == lastError # "incorrectEndState"

\* process() returns, whatever the workers meet, unless the program is gone.
ProcessReturns == phase = "configuring" ~> phase \in {"returned", "terminated"}

Output == INSTANCE OrderedOutput WITH
  first   <- NormalStart,
  total   <- NormalLength,
  verdict <- result

\* The threaded pipeline implements the sequential promise.
ImplementsOrderedOutput == Output!Spec

\* "On failure the reason is recorded as the calling thread's chd_last_error()
\* detail, including a reason a worker thread found" (decoder_pool.h).
FailureReasonRecorded == result = "failure" => lastError # NoReason
=============================================================================
