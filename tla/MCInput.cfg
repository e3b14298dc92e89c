\* Captures of every standard, layout, row cut, colour phase and encoding under every
\* sidecar and override; up to two saves of up to two fields, with a fault; and files
\* of up to four frames, read by each reader, with two faults.
SPECIFICATION MCSpec
CHECK_DEADLOCK FALSE
CONSTANTS
  Words <- MCWords
  Drops <- MCDrops
  Contents <- MCContents
  SystemLines <- MCSystemLines
  SchemaSystems <- MCSchemaSystems
  Systems <- MCSystems
  InitialFiles <- MCInitialFiles
  JsonFiles <- MCJsonFiles
  MaxFields = 2
  MaxEdits = 3
  MaxSaves = 2
  MaxFaults = 1
  Captures <- MCCaptures
  Pairs <- MCPairs
  Extras <- MCExtras
  ExtraPairs <- MCExtraPairs
  Overrides <- MCOverrides
  WordTriples <- MCWordTriples
  DropoutTables <- MCDropoutTables
  SamplesPerLine = 4
  LinesPerField = 2
  Standards <- MCFileStandards
  Files <- MCFiles
  Kinds <- MCKinds
  MaxField = 3
  MaxReadFaults = 2
INVARIANTS
  FileIsLastSave
  SourcesAreAsDescribed
  MeasuredPhaseIsTrue
  DecodedAsStored
  ReadsAreTrue
PROPERTIES
  CountedFieldsReadable
