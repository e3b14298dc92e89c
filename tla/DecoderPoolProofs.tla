------------------------- MODULE DecoderPoolProofs -------------------------
(***************************************************************************)
(* Theorems about the threaded pipeline, for every number of workers, batch *)
(* size, frame count and argument.                                          *)
(***************************************************************************)
EXTENDS DecoderPool, TLAPS

----------------------------------------------------------------------------
\* The frame range.

LEMMA ArgumentTypes ==
  ASSUME startFrame \in StartFrames, length \in Lengths
  PROVE  /\ NormalStart \in Nat \ {0}
         /\ NormalLength \in Int
         /\ NormalStart <= NumFrames => NormalLength \in 0 .. NumFrames - (NormalStart - 1)
  BY PoolAssumption DEF NormalStart, NormalLength, AvailableFrames

\* A batch is claimed from a range that is an integer interval, and is at least
\* one frame long when the position is not past the end.
LEMMA BatchSize ==
  ASSUME TypeOK, phase = "running"
  PROVE  /\ lastFrameNumber \in Int
         /\ maxBatchSize \in Nat \ {0}
         /\ batchFrames \in Int
         /\ batchFrames <= lastFrameNumber + 1 - inputFrameNumber
         /\ inputFrameNumber <= lastFrameNumber => batchFrames >= 1
         /\ inputFrameNumber = lastFrameNumber + 1 => batchFrames = 0
<1>1. startFrame \in Int /\ length \in Nat /\ inputFrameNumber \in Int
  BY DEF TypeOK
<1>2. MaxThreads \in Nat \ {0} /\ DefaultBatchSize \in Nat \ {0}
  BY PoolAssumption
<1>3. length \div MaxThreads \in Nat
  BY <1>1, <1>2
<1>4. maxBatchSize \in Nat \ {0}
  BY <1>2, <1>3 DEF maxBatchSize, Lesser, Greater
<1>5. lastFrameNumber \in Int
  BY <1>1 DEF lastFrameNumber
<1> QED
  BY <1>1, <1>4, <1>5 DEF batchFrames, Lesser

----------------------------------------------------------------------------
\* Type correctness.

LEMMA InitTypeOK == Init => TypeOK
<1> SUFFICES ASSUME Init PROVE TypeOK
  OBVIOUS
<1>1. startFrame \in Int /\ length \in Int
  BY PoolAssumption DEF Init
<1>2. file \in Seq(Int) /\ pending \subseteq Int
  BY DEF Init
<1>3. /\ pc \in [Workers -> PCs]
      /\ next \in [Workers -> Int]
      /\ last \in [Workers -> Int]
  BY DEF Init, PCs
<1>4. /\ phase = "configuring"
      /\ startFrame \in StartFrames /\ length \in Lengths
      /\ inputFrameNumber \in Int /\ outputFrameNumber \in Int
  BY DEF Init
<1>5. good \in BOOLEAN /\ abort \in BOOLEAN
  BY DEF Init
<1>6. /\ outputMutex \in Workers \cup {NoWorker}
      /\ abortReason \in {NoReason, "decode"}
      /\ lastError \in {NoReason, "setup", "decode", "incorrectEndState"}
      /\ result \in {"none", "success", "failure"}
  BY DEF Init
<1> QED
  BY <1>1, <1>2, <1>3, <1>4, <1>5, <1>6 DEF TypeOK

LEMMA WorkerTypeOK ==
  ASSUME TypeOK, NEW w \in Workers, Worker(w)
  PROVE  TypeOK'
<1> USE DEF TypeOK, Goto, mainVars, outputVars, batchVars, abortVars, PCs
<1>1. CASE CheckAbort(w)
  BY <1>1 DEF CheckAbort
<1>2. CASE EndOfInput(w)
  BY <1>2 DEF EndOfInput
<1>3. CASE ClaimBatch(w)
  <2>1. batchFrames \in Int
    BY <1>3, BatchSize DEF ClaimBatch
  <2> QED
    BY <1>3, <2>1 DEF ClaimBatch
<1>4. CASE LoadThrows(w)
  BY <1>4 DEF LoadThrows
<1>5. CASE FinishDecode(w)
  BY <1>5 DEF FinishDecode
<1>6. CASE DecodeThrows(w)
  BY <1>6 DEF DecodeThrows
<1>7. CASE EnterOutput(w)
  BY <1>7 DEF EnterOutput
<1>8. CASE InsertFrame(w)
  BY <1>8 DEF InsertFrame
<1>9. CASE WriteFrame(w)
  BY <1>9 DEF WriteFrame
<1>10. CASE WriteFails(w)
  BY <1>10 DEF WriteFails
<1>11. CASE Drained(w)
  BY <1>11 DEF Drained
<1>12. CASE RaiseAbort(w)
  BY <1>12 DEF RaiseAbort
<1> QED
  BY <1>1, <1>2, <1>3, <1>4, <1>5, <1>6, <1>7, <1>8, <1>9, <1>10, <1>11, <1>12 DEF Worker

LEMMA CallingThreadTypeOK ==
  ASSUME TypeOK, CallingThread
  PROVE  TypeOK'
<1> USE DEF TypeOK, mainVars, outputVars, batchVars, abortVars, PCs
<1>1. CASE FailSetup
  BY <1>1, ArgumentTypes DEF FailSetup
<1>2. CASE StartWorkers
  <2>1. /\ NormalStart \in 1 .. NumFrames
        /\ NormalLength \in 0 .. NumFrames - (NormalStart - 1)
    BY <1>2, ArgumentTypes, PoolAssumption DEF StartWorkers
  <2> QED
    BY <1>2, <2>1, PoolAssumption DEF StartWorkers
<1>3. CASE ReturnAborted
  BY <1>3 DEF ReturnAborted, AllJoined
<1>4. CASE ReturnFinished
  BY <1>4 DEF ReturnFinished, AllJoined
<1> QED
  BY <1>1, <1>2, <1>3, <1>4 DEF CallingThread

\* Every variable keeps its type, and a range that workers run on lies within the
\* video, whatever start frame and length the caller gave.
THEOREM TypeCorrect == Spec => []TypeOK
<1>1. TypeOK /\ [Next]_vars => TypeOK'
  <2> SUFFICES ASSUME TypeOK, [Next]_vars PROVE TypeOK'
    OBVIOUS
  <2>1. CASE UNCHANGED vars
    BY <2>1 DEF TypeOK, vars, mainVars, outputVars, batchVars, abortVars
  <2> QED
    BY <2>1, WorkerTypeOK, CallingThreadTypeOK DEF Next
<1> QED
  BY InitTypeOK, <1>1, PTL DEF Spec

----------------------------------------------------------------------------
\* The inductive invariant.  OutputInOrder, FrameHeldOnce, NoFrameLost and
\* NothingHeldBack of the model are parts of it; the parts below tie them to the
\* program counters.

\* Until the workers start nothing has happened; nothing is returned before the end.
Phases ==
  /\ phase = "configuring" =>
       /\ \A w \in Workers : pc[w] = "unborn"
       /\ file = <<>> /\ pending = {} /\ good /\ ~abort /\ outputMutex = NoWorker
  /\ phase = "running" => \A w \in Workers : pc[w] # "unborn"
  /\ phase # "returned" => result = "none" /\ lastError = NoReason

\* The output position follows the input position through the range.
Positions ==
  Started =>
    /\ startFrame <= outputFrameNumber
    /\ outputFrameNumber <= inputFrameNumber
    /\ inputFrameNumber <= lastFrameNumber + 1

\* A worker with a batch has at least one frame of it left, and exactly the worker
\* inside putOutputFrames() holds its mutex.
BatchShape ==
  \A w \in Workers :
    /\ pc[w] \in {"decoding", "putOutput", "insert", "drain"} => next[w] <= last[w]
    /\ pc[w] \in {"insert", "drain"} <=> outputMutex = w

\* A failed stream has been noticed, and a worker leaves only at the end of the
\* input or after a failure.
ExitReason ==
  /\ ~good => abort \/ \E w \in Workers : pc[w] = "failing"
  /\ \A w \in Workers :
       pc[w] = "exited" => abort \/ inputFrameNumber = lastFrameNumber + 1

IInv ==
  /\ TypeOK
  /\ Phases
  /\ Positions
  /\ BatchShape
  /\ ExitReason
  /\ OutputInOrder
  /\ FrameHeldOnce
  /\ NoFrameLost
  /\ NothingHeldBack
  /\ EndStateAlwaysCorrect

LEMMA NoWorkerIsNone == NoWorker \notin Workers
  BY PoolAssumption DEF NoWorker, Workers

LEMMA InitInv == Init => IInv
<1> SUFFICES ASSUME Init PROVE IInv
  OBVIOUS
<1> USE DEF Init
<1>1. Phases
  BY DEF Phases
<1>2. ~Started
  BY DEF Started
<1>3. Positions /\ FrameHeldOnce /\ NoFrameLost
  BY <1>2 DEF Positions, FrameHeldOnce, NoFrameLost
<1>4. BatchShape /\ ExitReason
  BY NoWorkerIsNone DEF BatchShape, ExitReason
<1>5. OutputInOrder
  BY <1>2 DEF OutputInOrder
<1>6. NothingHeldBack /\ EndStateAlwaysCorrect
  BY DEF NothingHeldBack, EndStateAlwaysCorrect, NoReason
<1> QED
  BY InitTypeOK, <1>1, <1>3, <1>4, <1>5, <1>6 DEF IInv

\* The steps that touch neither the positions nor the map, the file or a batch.
LEMMA QuietStepsInv ==
  ASSUME IInv, NEW w \in Workers,
         \/ CheckAbort(w) \/ EndOfInput(w) \/ FinishDecode(w) \/ DecodeThrows(w)
         \/ EnterOutput(w) \/ RaiseAbort(w)
  PROVE  IInv'
<1> DEFINE quiet == <<mainVars, inputFrameNumber, outputVars, batchVars>>
<1>1. TypeOK /\ TypeOK' /\ phase = "running"
  BY WorkerTypeOK DEF IInv, Worker, CheckAbort, EndOfInput, FinishDecode, DecodeThrows,
     EnterOutput, RaiseAbort, Goto
<1>2. UNCHANGED quiet
  BY DEF CheckAbort, EndOfInput, FinishDecode, DecodeThrows, EnterOutput, RaiseAbort
<1>3. \A v \in Workers \ {w} : pc'[v] = pc[v]
  BY <1>1 DEF TypeOK, CheckAbort, EndOfInput, FinishDecode, DecodeThrows, EnterOutput,
     RaiseAbort, Goto
<1>4. /\ pc[w] # "unborn" /\ pc'[w] # "unborn"
      /\ pc[w] \notin {"insert", "drain"}
      /\ pc'[w] # "drain"
      /\ pc'[w] \in {"putOutput", "insert"} => pc[w] \in {"decoding", "putOutput"}
      /\ pc'[w] # "decoding"
  BY <1>1 DEF TypeOK, CheckAbort, EndOfInput, FinishDecode, DecodeThrows, EnterOutput,
     RaiseAbort, Goto
<1>5. Phases'
  BY <1>1, <1>2, <1>3, <1>4 DEF IInv, Phases, mainVars
<1>6. Started /\ Started' /\ Positions'
  BY <1>2, <1>4 DEF IInv, Positions, Started, lastFrameNumber, mainVars, outputVars
<1>7. BatchShape'
  <2>1. \A v \in Workers : pc'[v] \in {"decoding", "putOutput", "insert", "drain"}
          => next'[v] <= last'[v]
    BY <1>2, <1>3, <1>4 DEF IInv, BatchShape, batchVars
  <2>2. CASE EnterOutput(w)
    BY <2>1, <2>2, <1>1, <1>3, NoWorkerIsNone DEF IInv, BatchShape, EnterOutput, Goto, TypeOK
  <2>3. CASE ~EnterOutput(w)
    <3>1. outputMutex' = outputMutex /\ pc'[w] \notin {"insert", "drain"}
      BY <2>3, <1>1 DEF TypeOK, CheckAbort, EndOfInput, FinishDecode, DecodeThrows,
         RaiseAbort, Goto
    <3> QED
      BY <2>1, <3>1, <1>3, <1>4 DEF IInv, BatchShape
  <2> QED
    BY <2>2, <2>3
<1>8. ExitReason'
  <2>1. /\ good' = good /\ inputFrameNumber' = inputFrameNumber
        /\ lastFrameNumber' = lastFrameNumber
    BY <1>2 DEF outputVars, mainVars, lastFrameNumber
  <2>2. CASE CheckAbort(w)
    BY <2>1, <2>2, <1>1 DEF IInv, ExitReason, CheckAbort, Goto, TypeOK, abortVars
  <2>3. CASE EndOfInput(w)
    <3>1. inputFrameNumber = lastFrameNumber + 1
      <4>1. batchFrames = 0 /\ ~(inputFrameNumber <= lastFrameNumber)
        BY <2>3, <1>1, BatchSize DEF EndOfInput
      <4>2. inputFrameNumber \in Int /\ lastFrameNumber \in Int
        BY <1>1, BatchSize DEF TypeOK
      <4>3. inputFrameNumber <= lastFrameNumber + 1
        BY <1>6 DEF IInv, Positions
      <4> QED
        BY <4>1, <4>2, <4>3
    <3> QED
      BY <2>1, <2>3, <3>1, <1>1 DEF IInv, ExitReason, EndOfInput, Goto, TypeOK, abortVars
  <2>4. CASE FinishDecode(w)
    BY <2>1, <2>4, <1>1 DEF IInv, ExitReason, FinishDecode, Goto, TypeOK, abortVars
  <2>5. CASE DecodeThrows(w)
    BY <2>1, <2>5, <1>1 DEF IInv, ExitReason, DecodeThrows, Goto, TypeOK
  <2>6. CASE EnterOutput(w)
    BY <2>1, <2>6, <1>1 DEF IInv, ExitReason, EnterOutput, Goto, TypeOK, abortVars
  <2>7. CASE RaiseAbort(w)
    BY <2>1, <2>7, <1>1 DEF IInv, ExitReason, RaiseAbort, Goto, TypeOK
  <2> QED
    BY <2>2, <2>3, <2>4, <2>5, <2>6, <2>7
<1>9. OutputInOrder'
  BY <1>2, <1>6 DEF IInv, OutputInOrder, mainVars, outputVars
<1>10. \A v \in Workers : InHand(v)' \subseteq InHand(v)
  BY <1>2, <1>3, <1>4 DEF InHand, batchVars
<1>11. FrameHeldOnce'
  <2>1. /\ pending' = pending /\ outputFrameNumber' = outputFrameNumber
        /\ inputFrameNumber' = inputFrameNumber
    BY <1>2 DEF outputVars
  <2> QED
    BY <2>1, <1>6, <1>10 DEF IInv, FrameHeldOnce
<1>12. NoFrameLost'
  <2> SUFFICES ASSUME ~abort', \A v \in Workers : pc'[v] # "failing"
               PROVE  \A f \in outputFrameNumber .. inputFrameNumber - 1 :
                        f \in pending \/ \E v \in Workers : f \in InHand(v)'
    BY <1>2 DEF NoFrameLost, outputVars
  <2>1. /\ ~abort
        /\ CheckAbort(w) \/ EndOfInput(w) \/ FinishDecode(w) \/ EnterOutput(w)
    BY <1>1 DEF CheckAbort, EndOfInput, FinishDecode, DecodeThrows, EnterOutput, RaiseAbort,
       Goto, TypeOK, abortVars
  <2>2. /\ pc[w] # "failing"
        /\ pc[w] = "decoding" => pc'[w] = "putOutput"
        /\ pc[w] = "putOutput" => pc'[w] = "insert"
    BY <2>1, <1>1 DEF CheckAbort, EndOfInput, FinishDecode, EnterOutput, Goto, TypeOK
  <2>3. \A v \in Workers : InHand(v)' = InHand(v)
    BY <1>2, <1>3, <1>4, <2>2 DEF InHand, batchVars
  <2>4. \A v \in Workers : pc[v] # "failing"
    BY <1>3, <2>2
  <2> QED
    BY <2>1, <2>3, <2>4, <1>6 DEF IInv, NoFrameLost
<1>13. NothingHeldBack'
  <2>1. outputMutex' = NoWorker => outputMutex = NoWorker
    BY NoWorkerIsNone DEF CheckAbort, EndOfInput, FinishDecode, DecodeThrows, EnterOutput,
       RaiseAbort
  <2> QED
    BY <2>1, <1>2 DEF IInv, NothingHeldBack, outputVars
<1>14. EndStateAlwaysCorrect'
  BY <1>2 DEF IInv, EndStateAlwaysCorrect, mainVars
<1> QED
  BY <1>1, <1>5, <1>6, <1>7, <1>8, <1>9, <1>11, <1>12, <1>13, <1>14 DEF IInv

LEMMA LoadThrowsInv ==
  ASSUME IInv, NEW w \in Workers, LoadThrows(w)
  PROVE  IInv'
<1>1. TypeOK'
  BY WorkerTypeOK DEF IInv, Worker
<1>2. /\ phase = "running" /\ phase' = "terminated"
      /\ UNCHANGED <<startFrame, length, lastError, result, inputFrameNumber, outputVars,
                     outputMutex, pc, batchVars, abortVars>>
  BY DEF LoadThrows
<1> USE DEF IInv, outputVars, batchVars, abortVars
<1>3. Phases'
  BY <1>2 DEF Phases
<1>4. Positions' /\ BatchShape' /\ ExitReason'
  BY <1>2 DEF Positions, Started, BatchShape, ExitReason, lastFrameNumber
<1>5. OutputInOrder' /\ NothingHeldBack' /\ EndStateAlwaysCorrect'
  BY <1>2 DEF OutputInOrder, Started, NothingHeldBack, EndStateAlwaysCorrect
<1>6. FrameHeldOnce' /\ NoFrameLost'
  BY <1>2 DEF FrameHeldOnce, NoFrameLost, Started, InHand
<1> QED
  BY <1>1, <1>3, <1>4, <1>5, <1>6

\* A claim takes the frames from the input position on, which nobody holds.
LEMMA ClaimBatchInv ==
  ASSUME IInv, NEW w \in Workers, ClaimBatch(w)
  PROVE  IInv'
<1> USE DEF IInv, outputVars, abortVars
<1>1. TypeOK /\ TypeOK' /\ phase = "running"
  BY WorkerTypeOK DEF Worker, ClaimBatch, Goto
<1>2. /\ UNCHANGED <<mainVars, outputVars, outputMutex, abortVars>>
      /\ lastFrameNumber' = lastFrameNumber
  BY DEF ClaimBatch, mainVars, lastFrameNumber
<1>3. /\ pc[w] = "getInput" /\ pc'[w] = "decoding"
      /\ next'[w] = inputFrameNumber
      /\ last'[w] = inputFrameNumber + batchFrames - 1
      /\ inputFrameNumber' = inputFrameNumber + batchFrames
      /\ \A v \in Workers \ {w} : pc'[v] = pc[v] /\ next'[v] = next[v] /\ last'[v] = last[v]
  BY <1>1 DEF ClaimBatch, Goto, TypeOK
<1>4. Started /\ Started'
  BY <1>3 DEF Started
<1>5. /\ inputFrameNumber \in Int /\ outputFrameNumber \in Int /\ startFrame \in Int
      /\ lastFrameNumber \in Int
      /\ batchFrames \in Int /\ batchFrames >= 1
      /\ batchFrames <= lastFrameNumber + 1 - inputFrameNumber
  <2>1. batchFrames # 0
    BY DEF ClaimBatch
  <2>2. inputFrameNumber <= lastFrameNumber + 1
    BY <1>4 DEF Positions
  <2>3. /\ inputFrameNumber \in Int /\ outputFrameNumber \in Int /\ startFrame \in Int
        /\ lastFrameNumber \in Int /\ batchFrames \in Int
        /\ batchFrames <= lastFrameNumber + 1 - inputFrameNumber
    BY <1>1, BatchSize DEF TypeOK
  <2>4. inputFrameNumber <= lastFrameNumber => batchFrames >= 1
    BY <1>1, BatchSize
  <2>5. inputFrameNumber = lastFrameNumber + 1 => batchFrames = 0
    BY <1>1, BatchSize
  <2> QED
    BY <2>1, <2>2, <2>3, <2>4, <2>5
<1>6. Phases'
  BY <1>1, <1>2, <1>3 DEF Phases, mainVars
<1>7. Positions'
  BY <1>2, <1>3, <1>4, <1>5 DEF Positions, mainVars
<1>8. BatchShape'
  BY <1>2, <1>3, <1>5 DEF BatchShape
<1>9. ExitReason'
  <2>1. ASSUME NEW v \in Workers, pc'[v] = "exited" PROVE abort
    <3>1. v # w /\ pc[v] = "exited"
      BY <2>1, <1>3
    <3> QED
      BY <3>1, <1>5 DEF ExitReason
  <2>2. ~good => abort \/ \E v \in Workers : pc'[v] = "failing"
    BY <1>3 DEF ExitReason
  <2> QED
    BY <2>1, <2>2, <1>2 DEF ExitReason
<1>10. OutputInOrder' /\ EndStateAlwaysCorrect'
  BY <1>2, <1>4 DEF OutputInOrder, EndStateAlwaysCorrect, mainVars
<1>11. NothingHeldBack'
  BY <1>2 DEF NothingHeldBack
<1>12. /\ InHand(w) = {}
       /\ InHand(w)' = inputFrameNumber .. inputFrameNumber' - 1
       /\ \A v \in Workers \ {w} : InHand(v)' = InHand(v)
  BY <1>3, <1>5 DEF InHand
<1>13. FrameHeldOnce'
  <2>1. pending' = pending /\ outputFrameNumber' = outputFrameNumber
    BY <1>2
  <2>2. pending \subseteq outputFrameNumber .. inputFrameNumber - 1
    BY <1>4 DEF FrameHeldOnce
  <2>3. \A v \in Workers \ {w} :
          InHand(v)' \subseteq (outputFrameNumber .. inputFrameNumber - 1) \ pending
    BY <1>4, <1>12 DEF FrameHeldOnce
  <2>4. \A v, u \in Workers \ {w} : v # u => InHand(v)' \cap InHand(u)' = {}
    BY <1>4, <1>12 DEF FrameHeldOnce
  <2>5. outputFrameNumber <= inputFrameNumber
    BY <1>4 DEF Positions
  <2>6. InHand(w)' \subseteq (outputFrameNumber .. inputFrameNumber' - 1) \ pending
    BY <1>12, <1>3, <1>5, <2>2, <2>5
  <2>7. \A v \in Workers \ {w} : InHand(v)' \cap InHand(w)' = {}
    BY <1>12, <1>3, <1>5, <2>3
  <2>8. outputFrameNumber .. inputFrameNumber - 1
          \subseteq outputFrameNumber .. inputFrameNumber' - 1
    BY <1>3, <1>5
  <2>9. \A v \in Workers :
          InHand(v)' \subseteq (outputFrameNumber .. inputFrameNumber' - 1) \ pending
    BY <2>3, <2>6, <2>8
  <2>10. \A v \in Workers : \A u \in Workers \ {v} : InHand(v)' \cap InHand(u)' = {}
    BY <2>4, <2>7
  <2>11. pending \subseteq outputFrameNumber .. inputFrameNumber' - 1
    BY <2>2, <2>8
  <2> QED
    BY <2>1, <2>9, <2>10, <2>11 DEF FrameHeldOnce
<1>14. NoFrameLost'
  <2> SUFFICES ASSUME ~abort, \A v \in Workers : pc'[v] # "failing",
                      NEW f \in outputFrameNumber .. inputFrameNumber' - 1
               PROVE  f \in pending \/ \E v \in Workers : f \in InHand(v)'
    BY <1>2 DEF NoFrameLost
  <2>1. CASE f \in inputFrameNumber .. inputFrameNumber' - 1
    BY <2>1, <1>12
  <2>2. CASE f \in outputFrameNumber .. inputFrameNumber - 1
    <3>1. \A v \in Workers : pc[v] # "failing"
      BY <1>3
    <3>2. f \in pending \/ \E v \in Workers : f \in InHand(v)
      BY <2>2, <3>1, <1>4 DEF NoFrameLost
    <3> QED
      BY <3>2, <1>12
  <2> QED
    BY <2>1, <2>2, <1>3, <1>5
<1> QED
  BY <1>1, <1>6, <1>7, <1>8, <1>9, <1>10, <1>11, <1>13, <1>14

\* A worker inside putOutputFrames() moves the next frame of its batch to the map.
LEMMA InsertFrameInv ==
  ASSUME IInv, NEW w \in Workers, InsertFrame(w)
  PROVE  IInv'
<1> USE DEF IInv, batchVars, abortVars
<1>1. TypeOK /\ TypeOK' /\ phase = "running"
  BY WorkerTypeOK DEF Worker, InsertFrame, Goto
<1>2. /\ UNCHANGED <<mainVars, inputFrameNumber, outputFrameNumber, file, good, outputMutex,
                     batchVars, abortVars>>
      /\ lastFrameNumber' = lastFrameNumber
      /\ pending' = pending \cup {next[w]}
  BY DEF InsertFrame, mainVars, lastFrameNumber
<1>3. /\ pc[w] = "insert" /\ pc'[w] = "drain"
      /\ \A v \in Workers \ {w} : pc'[v] = pc[v]
  BY <1>1 DEF InsertFrame, Goto, TypeOK
<1>4. Started /\ Started'
  BY <1>3 DEF Started
<1>5. next[w] \in Int /\ last[w] \in Int /\ next[w] <= last[w]
  BY <1>1, <1>3 DEF TypeOK, BatchShape
<1>6. Phases' /\ Positions' /\ BatchShape' /\ ExitReason'
  <2>1. Phases'
    BY <1>1, <1>2, <1>3 DEF Phases, mainVars
  <2>2. Positions'
    BY <1>2, <1>4 DEF Positions, mainVars
  <2>3. BatchShape'
    BY <1>2, <1>3 DEF BatchShape
  <2>4. ExitReason'
    BY <1>2, <1>3 DEF ExitReason
  <2> QED
    BY <2>1, <2>2, <2>3, <2>4
<1>7. OutputInOrder' /\ EndStateAlwaysCorrect'
  BY <1>2, <1>4 DEF OutputInOrder, EndStateAlwaysCorrect, mainVars
<1>8. NothingHeldBack'
  <2>1. outputMutex' = w
    BY <1>2, <1>3 DEF BatchShape
  <2> QED
    BY <2>1, NoWorkerIsNone DEF NothingHeldBack
<1>9. /\ InHand(w) = next[w] .. last[w]
      /\ InHand(w)' = InHand(w) \ {next[w]}
      /\ next[w] \in InHand(w)
      /\ \A v \in Workers \ {w} : InHand(v)' = InHand(v)
  BY <1>2, <1>3, <1>5 DEF InHand
<1>10. FrameHeldOnce'
  <2>1. \A v \in Workers : InHand(v)' \subseteq InHand(v)
    BY <1>9
  <2>2. ASSUME NEW v \in Workers PROVE next[w] \notin InHand(v)'
    <3>1. v # w => InHand(v) \cap InHand(w) = {}
      BY <1>4 DEF FrameHeldOnce
    <3> QED
      BY <3>1, <1>9
  <2>3. next[w] \in outputFrameNumber .. inputFrameNumber - 1
    BY <1>4, <1>9 DEF FrameHeldOnce
  <2> QED
    BY <1>2, <1>4, <2>1, <2>2, <2>3 DEF FrameHeldOnce
<1>11. NoFrameLost'
  <2> SUFFICES ASSUME ~abort, \A v \in Workers : pc'[v] # "failing",
                      NEW f \in outputFrameNumber .. inputFrameNumber - 1
               PROVE  f \in pending' \/ \E v \in Workers : f \in InHand(v)'
    BY <1>2 DEF NoFrameLost
  <2>1. \A v \in Workers : pc[v] # "failing"
    BY <1>3
  <2>2. f \in pending \/ \E v \in Workers : f \in InHand(v)
    BY <2>1, <1>4 DEF NoFrameLost
  <2> QED
    BY <2>2, <1>2, <1>9
<1> QED
  BY <1>1, <1>6, <1>7, <1>8, <1>10, <1>11

\* The frame the file is waiting for moves from the map to the file.
LEMMA WriteFrameInv ==
  ASSUME IInv, NEW w \in Workers, WriteFrame(w)
  PROVE  IInv'
<1> USE DEF IInv, batchVars, abortVars
<1>1. TypeOK /\ TypeOK' /\ phase = "running"
  BY WorkerTypeOK DEF Worker, WriteFrame
<1>2. /\ UNCHANGED <<mainVars, inputFrameNumber, good, outputMutex, pc, batchVars, abortVars>>
      /\ lastFrameNumber' = lastFrameNumber
      /\ outputFrameNumber \in pending
      /\ pending' = pending \ {outputFrameNumber}
      /\ file' = Append(file, outputFrameNumber)
      /\ outputFrameNumber' = outputFrameNumber + 1
      /\ pc[w] = "drain"
  BY DEF WriteFrame, mainVars, lastFrameNumber
<1>3. Started /\ Started'
  BY <1>2 DEF Started
<1>4. /\ inputFrameNumber \in Int /\ outputFrameNumber \in Int /\ startFrame \in Int
      /\ file \in Seq(Int)
  BY <1>1 DEF TypeOK
<1>5. outputFrameNumber <= inputFrameNumber - 1
  BY <1>2, <1>3, <1>4 DEF FrameHeldOnce
<1>6. Phases' /\ BatchShape' /\ ExitReason'
  BY <1>1, <1>2 DEF Phases, BatchShape, ExitReason, mainVars
<1>7. Positions'
  BY <1>2, <1>3, <1>4, <1>5 DEF Positions, mainVars
<1>8. OutputInOrder'
  <2>1. Len(file) = outputFrameNumber - startFrame
    BY <1>3 DEF OutputInOrder
  <2>2. Len(file') = Len(file) + 1 /\ file'[Len(file) + 1] = outputFrameNumber
    BY <1>2, <1>4
  <2>3. \A i \in 1 .. Len(file) : file'[i] = file[i]
    BY <1>2, <1>4
  <2>4. \A i \in 1 .. Len(file) : file[i] = startFrame + i - 1
    BY DEF OutputInOrder
  <2>5. Len(file) \in Nat
    BY <1>4
  <2>6. ASSUME NEW i \in 1 .. Len(file') PROVE file'[i] = startFrame + i - 1
    <3>1. CASE i \in 1 .. Len(file)
      BY <3>1, <2>3, <2>4
    <3>2. CASE i = Len(file) + 1
      BY <3>2, <2>1, <2>2, <2>5, <1>4
    <3> QED
      BY <3>1, <3>2, <2>2, <2>5
  <2>7. Len(file') = outputFrameNumber' - startFrame
    BY <2>1, <2>2, <1>2, <1>4
  <2> QED
    BY <2>6, <2>7, <1>2 DEF OutputInOrder, mainVars
<1>9. EndStateAlwaysCorrect'
  BY <1>2 DEF EndStateAlwaysCorrect, mainVars
<1>10. NothingHeldBack'
  <2>1. outputMutex' = w
    BY <1>2 DEF BatchShape
  <2> QED
    BY <2>1, NoWorkerIsNone DEF NothingHeldBack
<1>11. \A v \in Workers : InHand(v)' = InHand(v)
  BY <1>2 DEF InHand
<1>12. FrameHeldOnce'
  <2>1. \A v \in Workers : outputFrameNumber \notin InHand(v)
    BY <1>2, <1>3 DEF FrameHeldOnce
  <2>2. \A f \in outputFrameNumber .. inputFrameNumber - 1 :
          f # outputFrameNumber => f \in outputFrameNumber' .. inputFrameNumber - 1
    BY <1>2, <1>4
  <2>3. pending' \subseteq outputFrameNumber' .. inputFrameNumber - 1
    BY <2>2, <1>2, <1>3 DEF FrameHeldOnce
  <2>4. \A v \in Workers :
          InHand(v) \subseteq (outputFrameNumber' .. inputFrameNumber - 1) \ pending'
    BY <2>1, <2>2, <1>2, <1>3 DEF FrameHeldOnce
  <2> QED
    BY <2>3, <2>4, <1>2, <1>3, <1>11 DEF FrameHeldOnce
<1>13. NoFrameLost'
  <2> SUFFICES ASSUME ~abort, \A v \in Workers : pc[v] # "failing",
                      NEW f \in outputFrameNumber' .. inputFrameNumber - 1
               PROVE  f \in pending' \/ \E v \in Workers : f \in InHand(v)
    BY <1>2, <1>11 DEF NoFrameLost
  <2>1. f \in outputFrameNumber .. inputFrameNumber - 1 /\ f # outputFrameNumber
    BY <1>2, <1>4
  <2>2. f \in pending \/ \E v \in Workers : f \in InHand(v)
    BY <2>1, <1>3 DEF NoFrameLost
  <2> QED
    BY <2>1, <2>2, <1>2
<1> QED
  BY <1>1, <1>6, <1>7, <1>8, <1>9, <1>10, <1>12, <1>13

\* A failed write leaves its frame in the map and releases the mutex.
LEMMA WriteFailsInv ==
  ASSUME IInv, NEW w \in Workers, WriteFails(w)
  PROVE  IInv'
<1> USE DEF IInv, batchVars, abortVars
<1>1. TypeOK /\ TypeOK' /\ phase = "running"
  BY WorkerTypeOK DEF Worker, WriteFails, Goto
<1>2. /\ UNCHANGED <<mainVars, inputFrameNumber, outputFrameNumber, pending, file, batchVars,
                     abortVars>>
      /\ lastFrameNumber' = lastFrameNumber
      /\ good' = FALSE /\ outputMutex' = NoWorker
  BY DEF WriteFails, mainVars, lastFrameNumber
<1>3. /\ pc[w] = "drain" /\ pc'[w] = "failing"
      /\ \A v \in Workers \ {w} : pc'[v] = pc[v]
  BY <1>1 DEF WriteFails, Goto, TypeOK
<1>4. Started /\ Started'
  BY <1>3 DEF Started
<1>5. Phases' /\ Positions'
  <2>1. Phases'
    BY <1>1, <1>2, <1>3 DEF Phases, mainVars
  <2>2. Positions'
    BY <1>2, <1>4 DEF Positions, mainVars
  <2> QED
    BY <2>1, <2>2
<1>6. BatchShape'
  <2>1. outputMutex = w
    BY <1>3 DEF BatchShape
  <2>2. \A v \in Workers \ {w} : pc'[v] \notin {"insert", "drain"}
    BY <2>1, <1>3 DEF BatchShape
  <2> QED
    BY <2>2, <1>2, <1>3, NoWorkerIsNone DEF BatchShape
<1>7. ExitReason'
  BY <1>2, <1>3 DEF ExitReason
<1>8. OutputInOrder' /\ EndStateAlwaysCorrect' /\ NothingHeldBack'
  BY <1>2, <1>4 DEF OutputInOrder, EndStateAlwaysCorrect, NothingHeldBack, mainVars
<1>9. \A v \in Workers : InHand(v)' \subseteq InHand(v)
  BY <1>2, <1>3 DEF InHand
<1>10. FrameHeldOnce'
  BY <1>2, <1>4, <1>9 DEF FrameHeldOnce
<1>11. NoFrameLost'
  BY <1>3 DEF NoFrameLost
<1> QED
  BY <1>1, <1>5, <1>6, <1>7, <1>8, <1>10, <1>11

\* On to the next frame of the batch, or out of the mutex with nothing to write.
LEMMA DrainedInv ==
  ASSUME IInv, NEW w \in Workers, Drained(w)
  PROVE  IInv'
<1> USE DEF IInv, abortVars
<1>1. TypeOK /\ TypeOK' /\ phase = "running"
  BY WorkerTypeOK DEF Worker, Drained, Goto
<1>2. /\ UNCHANGED <<mainVars, inputFrameNumber, outputVars, last, abortVars>>
      /\ lastFrameNumber' = lastFrameNumber
      /\ outputFrameNumber \notin pending
  BY DEF Drained, mainVars, lastFrameNumber
<1>3. /\ pc[w] = "drain"
      /\ pc'[w] = IF next[w] < last[w] THEN "insert" ELSE "checkAbort"
      /\ next'[w] = next[w] + 1
      /\ outputMutex' = IF next[w] < last[w] THEN w ELSE NoWorker
      /\ \A v \in Workers \ {w} : pc'[v] = pc[v] /\ next'[v] = next[v]
  BY <1>1 DEF Drained, Goto, TypeOK
<1>4. Started /\ Started'
  BY <1>3 DEF Started
<1>5. next[w] \in Int /\ last[w] \in Int
  BY <1>1 DEF TypeOK
<1>6. Phases' /\ Positions'
  <2>1. Phases'
    BY <1>1, <1>2, <1>3 DEF Phases, mainVars
  <2>2. Positions'
    BY <1>2, <1>4 DEF Positions, mainVars, outputVars
  <2> QED
    BY <2>1, <2>2
<1>7. BatchShape'
  <2>1. \A v \in Workers \ {w} : pc[v] \notin {"insert", "drain"}
    BY <1>3 DEF BatchShape
  <2>2. next[w] < last[w] => next'[w] <= last[w]
    BY <1>3, <1>5
  <2> QED
    BY <2>1, <2>2, <1>2, <1>3, NoWorkerIsNone DEF BatchShape
<1>8. ExitReason'
  BY <1>2, <1>3 DEF ExitReason, outputVars
<1>9. OutputInOrder' /\ EndStateAlwaysCorrect' /\ NothingHeldBack'
  BY <1>2, <1>4 DEF OutputInOrder, EndStateAlwaysCorrect, NothingHeldBack, mainVars, outputVars
<1>10. \A v \in Workers : InHand(v)' = InHand(v)
  <2>1. InHand(w)' = InHand(w)
    <3>1. CASE next[w] < last[w]
      BY <3>1, <1>2, <1>3 DEF InHand
    <3>2. CASE ~(next[w] < last[w])
      BY <3>2, <1>3, <1>5 DEF InHand
    <3> QED
      BY <3>1, <3>2
  <2>2. \A v \in Workers \ {w} : InHand(v)' = InHand(v)
    BY <1>2, <1>3 DEF InHand
  <2> QED
    BY <2>1, <2>2
<1>11. FrameHeldOnce'
  <2>1. \A v \in Workers : InHand(v)' \subseteq InHand(v)
    BY <1>10
  <2> QED
    BY <2>1, <1>2, <1>4 DEF FrameHeldOnce, outputVars
<1>12. NoFrameLost'
  <2>1. pc[w] # "failing" /\ pc'[w] # "failing"
    BY <1>3
  <2> QED
    BY <2>1, <1>2, <1>3, <1>4, <1>10 DEF NoFrameLost, outputVars
<1> QED
  BY <1>1, <1>6, <1>7, <1>8, <1>9, <1>11, <1>12

\* When every worker has left and none failed, the whole range is in the file.
LEMMA FinishedMeansComplete ==
  ASSUME IInv, AllJoined, ~abort
  PROVE  EndStateCorrect
<1> USE DEF IInv
<1>1. TypeOK /\ \A w \in Workers : pc[w] = "exited"
  BY DEF AllJoined
<1>2. PICK w \in Workers : pc[w] = "exited"
  BY <1>1, PoolAssumption DEF Workers
<1>3. Started
  BY <1>2 DEF Started
<1>4. inputFrameNumber = lastFrameNumber + 1
  BY <1>2 DEF ExitReason
<1>5. good /\ outputMutex = NoWorker
  BY <1>1 DEF ExitReason, BatchShape, TypeOK
<1>6. outputFrameNumber \notin pending
  BY <1>5 DEF NothingHeldBack
<1>7. \A v \in Workers : InHand(v) = {}
  BY <1>1 DEF InHand
<1>8. \A f \in outputFrameNumber .. inputFrameNumber - 1 : f \in pending
  BY <1>1, <1>3, <1>7 DEF NoFrameLost
<1>9. outputFrameNumber \in Int /\ inputFrameNumber \in Int
  BY <1>1 DEF TypeOK
<1>10. outputFrameNumber <= inputFrameNumber
  BY <1>3 DEF Positions
<1>11. outputFrameNumber = inputFrameNumber
  BY <1>6, <1>8, <1>9, <1>10
<1>12. pending \subseteq outputFrameNumber .. inputFrameNumber - 1
  BY <1>3 DEF FrameHeldOnce
<1>13. pending = {}
  BY <1>9, <1>11, <1>12
<1> QED
  BY <1>4, <1>11, <1>13 DEF EndStateCorrect

LEMMA CallingThreadInv ==
  ASSUME IInv, CallingThread
  PROVE  IInv'
<1> USE DEF IInv, outputVars, batchVars, abortVars
<1>1. TypeOK /\ TypeOK'
  BY CallingThreadTypeOK
<1>2. CASE FailSetup
  <2>1. /\ phase = "configuring" /\ phase' = "returned" /\ lastError' = "setup"
        /\ UNCHANGED <<inputFrameNumber, outputVars, outputMutex, pc, batchVars, abortVars>>
    BY <1>2 DEF FailSetup
  <2>2. ~Started /\ ~Started' /\ file = <<>>
    BY <2>1 DEF Phases, Started
  <2>3. \A w \in Workers : pc'[w] = "unborn"
    BY <2>1 DEF Phases
  <2>4. Phases' /\ Positions' /\ BatchShape' /\ ExitReason'
    BY <2>1, <2>2, <2>3 DEF Phases, Positions, BatchShape, ExitReason
  <2>5. OutputInOrder' /\ NothingHeldBack'
    BY <2>1, <2>2 DEF OutputInOrder, NothingHeldBack
  <2>6. FrameHeldOnce' /\ NoFrameLost' /\ EndStateAlwaysCorrect'
    BY <2>1, <2>2 DEF FrameHeldOnce, NoFrameLost, EndStateAlwaysCorrect
  <2> QED
    BY <1>1, <2>4, <2>5, <2>6
<1>3. CASE StartWorkers
  <2>1. /\ phase = "configuring" /\ phase' = "running"
        /\ startFrame' = NormalStart /\ length' = NormalLength
        /\ inputFrameNumber' = NormalStart /\ outputFrameNumber' = NormalStart
        /\ UNCHANGED <<lastError, result, pending, file, good, outputMutex, batchVars,
                       abortVars>>
        /\ \A w \in Workers : pc'[w] = "checkAbort"
    BY <1>3 DEF StartWorkers
  <2>2. /\ file = <<>> /\ pending = {} /\ good /\ ~abort /\ outputMutex = NoWorker
    BY <2>1 DEF Phases
  <2>3. startFrame' \in Int /\ length' \in Nat
    BY <1>1, <2>1 DEF TypeOK
  <2>4. \A w \in Workers : InHand(w)' = {}
    BY <2>1 DEF InHand
  <2>5. Phases'
    BY <2>1 DEF Phases
  <2>6. Positions'
    BY <2>1, <2>3 DEF Positions, lastFrameNumber
  <2>7. BatchShape' /\ ExitReason'
    BY <2>1, <2>2, NoWorkerIsNone DEF BatchShape, ExitReason
  <2>8. OutputInOrder' /\ NothingHeldBack' /\ EndStateAlwaysCorrect'
    BY <2>1, <2>2, <2>3 DEF OutputInOrder, NothingHeldBack, EndStateAlwaysCorrect
  <2>9. FrameHeldOnce' /\ NoFrameLost'
    BY <2>1, <2>2, <2>3, <2>4 DEF FrameHeldOnce, NoFrameLost
  <2> QED
    BY <1>1, <2>5, <2>6, <2>7, <2>8, <2>9
<1>4. CASE ReturnAborted \/ ReturnFinished
  <2>1. /\ AllJoined /\ phase' = "returned"
        /\ UNCHANGED <<startFrame, length, inputFrameNumber, outputVars, outputMutex, pc,
                       batchVars, abortVars>>
    BY <1>4 DEF ReturnAborted, ReturnFinished
  <2>2. Phases' /\ Positions' /\ BatchShape' /\ ExitReason'
    BY <2>1 DEF Phases, Positions, BatchShape, ExitReason, Started, lastFrameNumber
  <2>3. OutputInOrder' /\ NothingHeldBack'
    BY <2>1 DEF OutputInOrder, NothingHeldBack, Started
  <2>4. FrameHeldOnce' /\ NoFrameLost'
    BY <2>1 DEF FrameHeldOnce, NoFrameLost, Started, InHand
  <2>5. EndStateAlwaysCorrect'
    <3>1. CASE ReturnAborted
      BY <3>1, <1>1 DEF ReturnAborted, EndStateAlwaysCorrect, TypeOK, NoReason
    <3>2. CASE ReturnFinished
      BY <3>2, <2>1, FinishedMeansComplete DEF ReturnFinished, EndStateAlwaysCorrect
    <3> QED
      BY <1>4, <3>1, <3>2
  <2> QED
    BY <1>1, <2>2, <2>3, <2>4, <2>5
<1> QED
  BY <1>2, <1>3, <1>4 DEF CallingThread

LEMMA NextInv ==
  ASSUME IInv, [Next]_vars
  PROVE  IInv'
<1>1. CASE CallingThread
  BY <1>1, CallingThreadInv
<1>2. ASSUME NEW w \in Workers, Worker(w) PROVE IInv'
  <2>1. CASE \/ CheckAbort(w) \/ EndOfInput(w) \/ FinishDecode(w) \/ DecodeThrows(w)
            \/ EnterOutput(w) \/ RaiseAbort(w)
    BY <2>1, QuietStepsInv
  <2>2. CASE LoadThrows(w)
    BY <2>2, LoadThrowsInv
  <2>3. CASE ClaimBatch(w)
    BY <2>3, ClaimBatchInv
  <2>4. CASE InsertFrame(w)
    BY <2>4, InsertFrameInv
  <2>5. CASE WriteFrame(w)
    BY <2>5, WriteFrameInv
  <2>6. CASE WriteFails(w)
    BY <2>6, WriteFailsInv
  <2>7. CASE Drained(w)
    BY <2>7, DrainedInv
  <2> QED
    BY <1>2, <2>1, <2>2, <2>3, <2>4, <2>5, <2>6, <2>7 DEF Worker
<1>3. CASE UNCHANGED vars
  <2> USE DEF vars, mainVars, outputVars, batchVars, abortVars
  <2>1. TypeOK' /\ Phases' /\ Positions' /\ BatchShape' /\ ExitReason'
    BY <1>3 DEF IInv, TypeOK, Phases, Positions, BatchShape, ExitReason, Started,
       lastFrameNumber
  <2>2. OutputInOrder' /\ NothingHeldBack' /\ EndStateAlwaysCorrect'
    BY <1>3 DEF IInv, OutputInOrder, NothingHeldBack, EndStateAlwaysCorrect, Started
  <2>3. FrameHeldOnce' /\ NoFrameLost'
    BY <1>3 DEF IInv, FrameHeldOnce, NoFrameLost, Started, InHand
  <2> QED
    BY <2>1, <2>2, <2>3 DEF IInv
<1> QED
  BY <1>1, <1>2, <1>3 DEF Next

\* The inductive invariant holds throughout, so each of its parts does.
THEOREM Invariance == Spec => []IInv
<1>1. IInv /\ [Next]_vars => IInv'
  BY NextInv
<1> QED
  BY InitInv, <1>1, PTL DEF Spec

\* putOutputFrame()'s map puts the frames in the file in presentation order, each
\* once and without a gap, however many workers finish in whatever order.
THEOREM FileInOrder == Spec => []OutputInOrder
<1>1. IInv => OutputInOrder
  BY DEF IInv
<1> QED
  BY Invariance, <1>1, PTL

\* The claim under inputMutex and the hand-over under outputMutex never give one
\* frame to two holders.
THEOREM EachFrameHeldOnce == Spec => []FrameHeldOnce
<1>1. IInv => FrameHeldOnce
  BY DEF IInv
<1> QED
  BY Invariance, <1>1, PTL

\* No frame falls between the two mutexes while no worker has failed.
THEOREM EveryFrameSomewhere == Spec => []NoFrameLost
<1>1. IInv => NoFrameLost
  BY DEF IInv
<1> QED
  BY Invariance, <1>1, PTL

\* No worker leaves a writable frame behind in the map.
THEOREM MapDrained == Spec => []NothingHeldBack
<1>1. IInv => NothingHeldBack
  BY DEF IInv
<1> QED
  BY Invariance, <1>1, PTL

\* The "incorrect state" check at the end of process() is dead code.
THEOREM EndStateNeverIncorrect == Spec => []EndStateAlwaysCorrect
<1>1. IInv => EndStateAlwaysCorrect
  BY DEF IInv
<1> QED
  BY Invariance, <1>1, PTL

----------------------------------------------------------------------------
\* Refinement: with the workers hidden, the pipeline is the sequential promise.

LEMMA InitRefines == Init => Output!Init
<1> SUFFICES ASSUME Init PROVE Output!Init
  OBVIOUS
<1>1. NormalStart \in Int /\ NormalLength \in Int
  BY ArgumentTypes DEF Init
<1> QED
  BY <1>1 DEF Init, Output!Init

\* The range in use is already normalised.
LEMMA RangeIsNormal ==
  ASSUME TypeOK, phase = "running"
  PROVE  NormalStart = startFrame /\ NormalLength = length
<1>1. startFrame \in 1 .. NumFrames /\ length \in 0 .. NumFrames - (startFrame - 1)
  BY DEF TypeOK
<1> QED
  BY <1>1, PoolAssumption DEF NormalStart, NormalLength, AvailableFrames

\* Every step of process() is one step of the promise or none of it.
LEMMA StepRefines ==
  ASSUME IInv, [Next]_vars
  PROVE  [Output!Next]_Output!vars
<1> USE DEF Output!vars
<1>1. TypeOK
  BY DEF IInv
<1>2. CASE FailSetup
  <2>1. phase = "configuring" /\ result' = "failure" /\ file' = file
    BY <1>2 DEF FailSetup, outputVars
  <2>2. NormalStart \in Nat \ {0}
    BY <2>1, <1>1, ArgumentTypes DEF TypeOK
  <2>3. startFrame' \in {startFrame, NormalStart} /\ length' \in {length, NormalLength}
    BY <1>2 DEF FailSetup
  <2>4. NormalStart' = NormalStart
    BY <2>2, <2>3 DEF NormalStart
  <2>5. NormalLength' = NormalLength
    <3>1. CASE length' = length
      BY <2>4, <3>1 DEF NormalLength, AvailableFrames
    <3>2. CASE NormalStart <= NumFrames /\ length' = NormalLength
      <4>1. NormalLength \in Nat /\ NormalLength <= AvailableFrames
        BY <2>1, <2>2, <3>2, <1>1, PoolAssumption DEF TypeOK, NormalLength, AvailableFrames
      <4>2. AvailableFrames' = AvailableFrames /\ AvailableFrames \in Int
        BY <2>2, <2>4, PoolAssumption DEF AvailableFrames
      <4> QED
        BY <3>2, <4>1, <4>2 DEF NormalLength
    <3> QED
      BY <1>2, <3>1, <3>2 DEF FailSetup
  <2>6. result = "none"
    BY <2>1 DEF IInv, Phases
  <2> QED
    BY <2>1, <2>4, <2>5, <2>6 DEF Output!Next, Output!GiveUp
<1>3. CASE StartWorkers
  <2>1. /\ startFrame' = NormalStart /\ length' = NormalLength /\ phase' = "running"
        /\ result' = result /\ file' = file
    BY <1>3 DEF StartWorkers
  <2>2. TypeOK'
    BY <1>1, <1>3, CallingThreadTypeOK DEF CallingThread
  <2>3. startFrame' \in 1 .. NumFrames /\ length' \in 0 .. NumFrames - (startFrame' - 1)
    BY <2>1, <2>2 DEF TypeOK
  <2>4. NormalStart' = NormalStart
    BY <2>1, <2>3 DEF NormalStart
  <2>5. NormalLength' = NormalLength
    BY <2>1, <2>3, <2>4, PoolAssumption DEF NormalLength, AvailableFrames
  <2> QED
    BY <2>1, <2>4, <2>5
<1>4. CASE ReturnAborted
  <2>1. /\ phase = "running" /\ result' = "failure"
        /\ UNCHANGED <<startFrame, length, file>>
    BY <1>4 DEF ReturnAborted, AllJoined, outputVars
  <2>2. result = "none"
    BY <2>1 DEF IInv, Phases
  <2>3. NormalStart' = NormalStart /\ NormalLength' = NormalLength
    BY <2>1 DEF NormalStart, NormalLength, AvailableFrames
  <2> QED
    BY <2>1, <2>2, <2>3 DEF Output!Next, Output!GiveUp
<1>5. CASE ReturnFinished
  <2>1. /\ phase = "running" /\ AllJoined /\ ~abort
        /\ result' = IF EndStateCorrect THEN "success" ELSE "failure"
        /\ UNCHANGED <<startFrame, length, file>>
    BY <1>5 DEF ReturnFinished, AllJoined, outputVars
  <2>2. result = "none" /\ EndStateCorrect
    BY <2>1, FinishedMeansComplete DEF IInv, Phases
  <2>3. NormalStart' = NormalStart /\ NormalLength' = NormalLength
    BY <2>1 DEF NormalStart, NormalLength, AvailableFrames
  <2>4. Started
    BY <2>1, PoolAssumption DEF AllJoined, Started, Workers
  <2>5. Len(file) = outputFrameNumber - startFrame
    BY <2>4 DEF IInv, OutputInOrder
  <2>6. outputFrameNumber = length + (startFrame - 1) + 1
    BY <2>2 DEF EndStateCorrect, lastFrameNumber
  <2>7. startFrame \in Int /\ length \in Int
    BY <1>1 DEF TypeOK
  <2>8. Len(file) = NormalLength
    BY <2>1, <2>5, <2>6, <2>7, <1>1, RangeIsNormal
  <2> QED
    BY <2>1, <2>2, <2>3, <2>8 DEF Output!Next, Output!Succeed
<1>6. ASSUME NEW w \in Workers, WriteFrame(w) PROVE [Output!Next]_Output!vars
  <2>1. /\ phase = "running" /\ outputFrameNumber \in pending /\ pc[w] = "drain"
        /\ file' = Append(file, outputFrameNumber)
        /\ UNCHANGED <<startFrame, length, result>>
    BY <1>6 DEF WriteFrame, mainVars
  <2>2. result = "none"
    BY <2>1 DEF IInv, Phases
  <2>3. NormalStart' = NormalStart /\ NormalLength' = NormalLength
    BY <2>1 DEF NormalStart, NormalLength, AvailableFrames
  <2>4. Started
    BY <2>1 DEF Started
  <2>5. Len(file) = outputFrameNumber - startFrame
    BY <2>4 DEF IInv, OutputInOrder
  <2>6. /\ outputFrameNumber \in Int /\ inputFrameNumber \in Int
        /\ startFrame \in Int /\ length \in Int
    BY <1>1 DEF TypeOK
  <2>7. outputFrameNumber \in outputFrameNumber .. inputFrameNumber - 1
    BY <2>1, <2>4 DEF IInv, FrameHeldOnce
  <2>8. inputFrameNumber <= length + (startFrame - 1) + 1
    BY <2>4 DEF IInv, Positions, lastFrameNumber
  <2>9. NormalStart = startFrame /\ NormalLength = length
    BY <2>1, <1>1, RangeIsNormal
  <2>10. Len(file) < NormalLength
    BY <2>5, <2>6, <2>7, <2>8, <2>9
  <2>11. outputFrameNumber = NormalStart + Len(file)
    BY <2>5, <2>6, <2>9
  <2> QED
    BY <2>1, <2>2, <2>3, <2>10, <2>11 DEF Output!Next, Output!Emit
<1>7. ASSUME NEW w \in Workers, Worker(w), ~WriteFrame(w) PROVE [Output!Next]_Output!vars
  <2>1. UNCHANGED <<startFrame, length, file, result>>
    BY <1>7 DEF Worker, CheckAbort, EndOfInput, ClaimBatch, LoadThrows, FinishDecode,
       DecodeThrows, EnterOutput, InsertFrame, WriteFails, Drained, RaiseAbort,
       mainVars, outputVars
  <2> QED
    BY <2>1 DEF NormalStart, NormalLength, AvailableFrames
<1>8. CASE UNCHANGED vars
  BY <1>8 DEF vars, mainVars, outputVars, NormalStart, NormalLength, AvailableFrames
<1> QED
  BY <1>2, <1>3, <1>4, <1>5, <1>6, <1>7, <1>8 DEF Next, CallingThread

\* process() with its threads does what the sequential specification promises: the
\* frames it was asked for, in order, and true only when all of them are there.
THEOREM Refinement == Spec => ImplementsOrderedOutput
<1>1. Init => Output!Init
  BY InitRefines
<1>2. IInv /\ [Next]_vars => [Output!Next]_Output!vars
  BY StepRefines
<1> QED
  BY <1>1, <1>2, Invariance, PTL DEF Spec, Output!Spec, ImplementsOrderedOutput
=============================================================================
