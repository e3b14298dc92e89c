\* One worker is enough: its write fails.
SPECIFICATION MCSpec
CONSTANTS
  NumFrames = 7
  StartFrames <- MCStartFrames
  Lengths <- MCLengths
  MaxThreads = 1
  DefaultBatchSize = 2
  FirstLine = 4
  LastLine = 11
  FieldLines = 30
  Captures <- MCCaptures
  Combs <- MCCombs
  Crops <- MCCrops
  Colours <- MCColours
  FrameCount = 3
  MaxRun = 3
  MaxCalls = 2
  w1 = w1
  w2 = w2
  SecamWorkers <- MCWorkers
  SecamCaptures <- MCSecamCaptures
  Modes <- MCModes
  Starts <- MCStarts
  Rows = 40
  Width = 20
  SecamFirst = 40
  SecamLast = 79
  VideoEnd = 18
  FirstComponent = 0
  Fob = 34000
  For = 35250
  Recentre = 80
  MinPair = 720
  MaxPair = 1840
  PorchRows = 8
  AutoRows = 8
  BottleRows = 4
  ContentRows = 16
  Deviation = 2800
  PorchGap = 1
  PorchLength = 4
  PorchFloor = 6
  PorchFrac <- MCPorch
  DetectPad = 1
  ClickMargin = 1
  MaxInterpolated = 4
CHECK_DEADLOCK FALSE
INVARIANT FailureReasonRecorded
