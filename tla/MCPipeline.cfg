\* 3 workers, up to 7 frames, batches of at most 2: several batches per worker,
\* a short last batch, and a worker that overtakes two others.  Or three frames asked
\* for in up to two calls of up to three frames; or SECAM frames in any order by either
\* of two instances.
SPECIFICATION MCFairSpec
CONSTANTS
  NumFrames = 7
  StartFrames <- MCStartFrames
  Lengths <- MCLengths
  MaxThreads = 3
  DefaultBatchSize = 2
  FirstLine = 4
  LastLine = 11
  FieldLines = 30
  Captures <- MCCaptures
  Combs <- MCCombs
  Crops <- MCCrops
  Colours <- MCColours
  FrameCount = 3
  MaxRun = 3
  MaxCalls = 2
  w1 = w1
  w2 = w2
  SecamWorkers <- MCWorkers
  SecamCaptures <- MCSecamCaptures
  Modes <- MCModes
  Starts <- MCStarts
  Rows = 40
  Width = 20
  SecamFirst = 40
  SecamLast = 79
  VideoEnd = 18
  FirstComponent = 0
  Fob = 34000
  For = 35250
  Recentre = 80
  MinPair = 720
  MaxPair = 1840
  PorchRows = 8
  AutoRows = 8
  BottleRows = 4
  ContentRows = 16
  Deviation = 2800
  PorchGap = 1
  PorchLength = 4
  PorchFloor = 6
  PorchFrac <- MCPorch
  DetectPad = 1
  ClickMargin = 1
  MaxInterpolated = 4
\* A process returns, and every decoder stops after its last call.
CHECK_DEADLOCK FALSE
INVARIANTS
  FrameHeldOnce
  NoFrameLost
  NothingHeldBack
  EndStateAlwaysCorrect
  SameWhateverTheCall
  CombFindsOppositePhases
  PalPicturesAreWhole
  LatticeIsTrue
  CalibrationIsTheFields
  ConcealedSpansTellTheTruth
PROPERTIES
  ProcessReturns
  ImplementsOrderedOutput
