\* As MCFrames, whose extras may be a field shorter than their metadata.
SPECIFICATION MCSpec
CONSTANTS
  Systems = {"PAL", "PAL_M", "NTSC", "SECAM"}
  LineLength = 7
  LineCount = 7
  ColourBurstEnd = 1
  ActiveVideoEnd = 5
  FirstActiveFieldLine = 1
  LastActiveFieldLine = 6
  ExtraSources = 1
  Quality <- MCQuality
  Findings <- MCFindings
  OverCorrectionDots = 2
  Extras = 1
  Sets <- MCSets
  Reversals = {TRUE, FALSE}
  LastNumber = 999999
  FieldWidth = 6
  FieldHeight = 5
  Crops <- MCCrops
  Paddings = {1, 6}
  Formats <- MCFormats
  Damages <- MCDamages
  Concealments <- MCConcealments
  OverDots = 1
  j1 = j1
  j2 = j2
  s1 = s1
  Jobs = {j1, j2}
  Indices <- MCIndices
  SyncThreads = {s1}
  CallerFrames = {1}
  ReentrantJobs = {j2}
  CancelJobs = {j1}
  NumFrames = 3
  ThreadCount = 2
  SpanCacheCap = 1
CHECK_DEADLOCK FALSE
INVARIANT NoExceptionCrosses
