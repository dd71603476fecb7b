\* Every input of the small sets of MCDecisions.  CHECK_DEADLOCK FALSE: a
\* decision is taken once.
SPECIFICATION Spec
CONSTANTS
  Names <- FewNames
  Denied <- Log
  MeasuredRoots <- Root
  DispatchRoots <- Dispatch
  KnownIndirect <- Known
  TestHooks <- Hook
  Markers <- Inject
  NpuEntry = "npu"
  AllowedObjects <- Allowed
  Elfs <- FewElfs
  IO_MAX = 6
  SramEnd = 1024
  StackTop = 512
  TaProfiles <- TaTwo
  AxiLimits <- AxiTwo
  MacStepMax = 1
  KnownFields = 1
  Slots = 2
  MaxWords = 18
  Values <- FewValues
  Packings <- FewPackings
  Records <- FewRecords
  Metrics <- FewMetrics
  Operators <- FewOperators
INVARIANTS
  CleanMeansSilent
  AdvisoryExcusesOneGate
  BlobReadsBack
  BlobSectionsApart
  LoaderHonoursBlob
  RecordSurvives
  ClaimsHoldForEveryRun
  EveryOperatorRouted
CHECK_DEADLOCK FALSE
