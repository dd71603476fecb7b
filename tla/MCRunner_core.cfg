\* Runs, results and resets of the protocol, under jobs that may end after the
\* driver gave them up; two images.  CHECK_DEADLOCK FALSE: the boot vector's
\* handler may hang the board, and nothing resets it here.
SPECIFICATION Spec
CONSTANTS
  StagingSize = 1
  Byte = {0, 1}
  MaxStaged = 1
  LateCompletion = TRUE
  Workloads <- TwoImages
  SramWorkloads <- None
  ZeroPower <- TwoImages
  EventSets = {0}
  EffectiveSlots = 0
  MaxRuns = 2
  MaxConfigs = 0
  Sends <- RunSends
  Seqs = {1}
  Chunks <- OneByteChunks
  Images <- TwoImages
  MaxBoots = 0
INVARIANTS
  TypeOK
  ServedOutputIsCorrect
  EvidenceAgrees
  NoFrameRefused
  VectorRestored
PROPERTY
  NewRunNewNumber
CHECK_DEADLOCK FALSE
