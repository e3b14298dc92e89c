\* Two decoders, one of them with the field order reversed, on every capture of up to four fields and
\* those of five with one break, complete or one field short in the file; and captures of every kind of sidecar,
\* opened alone or as a pair, given up to three options and committed; and two threads
\* of a neural decoder on hosts of every kind, in up to two calls with up to two faults.
SPECIFICATION MCSpec
CONSTANTS
  d1 = d1
  d2 = d2
  Decoders = {d1, d2}
  Reverse <- MCOneReversed
  Captures <- MCCaptures
  OpenedOrders = {TRUE, FALSE}
  SourceFields = {0, 1}
  HasChroma = FALSE
  MaxFrame = 3
  Directories <- MCDirectories
  Kinds <- MCKinds
  OptionBudget = 3
  MaxExtras = 1
  Hosts <- SomeHosts
  Artifacts <- ModelFiles
  FieldHeight = 3
  ActiveRows <- ActiveRowsDef
  Workers = {w1, w2}
  w1 = w1
  w2 = w2
  Areas <- SmallAreas
  Block = 4
  ChunkTiles = 4
  Linked = {"cuda"}
  ResidentWanted = {FALSE, TRUE}
  FrameFields <- BothOrders
  MaxBatch = 2
  MaxCalls = 2
  MaxFaults = 2
CONSTRAINT Bounded
SYMMETRY Alike
\* A neural decoder stops after its last call.
CHECK_DEADLOCK FALSE
INVARIANTS
  ShownIsOneInterlacedPair
  FramesFollow
  CommittedDecoderIsTheOneAsked
  NnFramesAreTheirOwn
  SumsMatchTheirWeights
  GpuBuffersFit
  BurstOfItsOwnRow
  BackendIsTheFirstThatAttaches
