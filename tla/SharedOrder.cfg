\* Two decoders of different field orders on one video.
SPECIFICATION MCSpec
CONSTANTS
  d1 = d1
  d2 = d2
  Decoders = {d1, d2}
  Reverse <- MCOneReversed
  Captures <- MCPlainCaptures
  OpenedOrders = {TRUE}
  SourceFields = {0}
  HasChroma = FALSE
  MaxFrame = 3
  Directories <- MCDirectories
  Kinds <- MCKinds
  OptionBudget = 3
  MaxExtras = 1
  Hosts <- SomeHosts
  Artifacts <- ModelFiles
  FieldHeight = 3
  ActiveRows <- ActiveRowsDef
  Workers = {w1, w2}
  w1 = w1
  w2 = w2
  Areas <- SmallAreas
  Block = 4
  ChunkTiles = 4
  Linked = {"cuda"}
  ResidentWanted = {FALSE, TRUE}
  FrameFields <- BothOrders
  MaxBatch = 2
  MaxCalls = 2
  MaxFaults = 2
CONSTRAINT Bounded
INVARIANTS
  CommittedOrderKept
