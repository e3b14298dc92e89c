\* A field of 7 lines of 7 samples, burst up to 1, picture up to 5, and one extra
\* capture, with a dropout of every place, size and kind; or a primary and one extra
\* of three frames, with every choice of which frames carry a readable number; or a
\* picture of 6 by 9 samples in every format, crop and padding; or two concurrent jobs,
\* the first with two workers, and one synchronous caller, on a decoder of two instances,
\* with a span cache of two entries.
SPECIFICATION MCFairSpec
CONSTANTS
  Systems = {"PAL", "PAL_M", "NTSC", "SECAM"}
  LineLength = 7
  LineCount = 7
  ColourBurstEnd = 1
  ActiveVideoEnd = 5
  FirstActiveFieldLine = 1
  LastActiveFieldLine = 6
  ExtraSources = 1
  Quality <- MCQuality
  Findings <- MCFindings
  OverCorrectionDots = 2
  Extras = 1
  Sets <- MCSets
  Reversals = {TRUE, FALSE}
  LastNumber = 999999
  FieldWidth = 6
  FieldHeight = 5
  Crops <- MCCrops
  Paddings = {1, 6}
  Formats <- MCFormats
  Damages <- MCDamages
  Concealments <- MCConcealments
  OverDots = 1
  j1 = j1
  j2 = j2
  s1 = s1
  Jobs = {j1, j2}
  Indices <- MCIndices
  SyncThreads = {s1}
  CallerFrames = {1}
  ReentrantJobs = {j2}
  CancelJobs = {j1}
  NumFrames = 3
  ThreadCount = 2
  SpanCacheCap = 1
\* A correction, a picture and the calls end.
CHECK_DEADLOCK FALSE
INVARIANTS
  NoDamageCopied
  ChromaInPhase
  NearestCleanLineUsed
  SamePictureUsed
  CoveringExtraUsed
  PlanesKeepThePicture
  MaskMatchesPicture
  InstancesAreExclusive
  DeliveredOnce
  CancellationIsPrompt
  SpanCacheKeepsRecent
PROPERTIES
  JobReturns
