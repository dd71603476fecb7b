\* pmwl.c:144: rc 125 says that a knob did not hold.
SPECIFICATION Spec
CONSTANTS
  StagingSize = 1
  Byte = {1}
  MaxStaged = 1
  LateCompletion = FALSE
  Workloads <- OneImage
  SramWorkloads <- None
  ZeroPower <- None
  EventSets = {0}
  EffectiveSlots = 1
  MaxRuns = 2
  MaxConfigs = 0
  Sends <- RunSends
  Seqs = {1}
  Chunks <- JustOne
  Images <- OneImage
  MaxBoots = 0
INVARIANT
  KnobRefusalMeansKnob
CHECK_DEADLOCK FALSE
