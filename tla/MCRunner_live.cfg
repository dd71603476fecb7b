\* Every accepted run is answered, and every answer is ResultService's, when
\* no job ends after it was given up.
SPECIFICATION FairSpec
CONSTANTS
  StagingSize = 1
  Byte = {1}
  MaxStaged = 1
  LateCompletion = FALSE
  Workloads <- OneImage
  SramWorkloads <- None
  ZeroPower <- OneImage
  EventSets = {0}
  EffectiveSlots = 1
  MaxRuns = 2
  MaxConfigs = 1
  Sends <- RunSends
  Seqs = {1}
  Chunks <- JustOne
  Images <- OneImage
  MaxBoots = 1
INVARIANTS
  ResultIsFresh
  NoStaleTrigger
PROPERTIES
  RunIsAnswered
  ServesNewestRun
