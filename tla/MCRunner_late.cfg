\* main.c:58 "It NEVER returns stale bytes", under jobs that end after the
\* driver gave them up.  One property is looked for, not the whole space.
SPECIFICATION Spec
CONSTANTS
  StagingSize = 1
  Byte = {1}
  MaxStaged = 1
  LateCompletion = TRUE
  Workloads <- OneImage
  SramWorkloads <- None
  ZeroPower <- None
  EventSets = {0}
  EffectiveSlots = 1
  MaxRuns = 2
  MaxConfigs = 1
  Sends <- RunSends
  Seqs = {1}
  Chunks <- JustOne
  Images <- OneImage
  MaxBoots = 0
INVARIANT
  ResultIsFresh
CHECK_DEADLOCK FALSE
