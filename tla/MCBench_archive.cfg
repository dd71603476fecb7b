\* A link that fails at SET_INSTRUMENTATION_MODE of the second set.  CHECK_DEADLOCK
\* FALSE: the process ends.
SPECIFICATION Spec
CONSTANTS
  Runners <- RunnerImages
  Mlek = "mlek"
  r1 = r1
  r2 = r2
  Roots <- FewRoots
  MaxFaults = 1
  EventSlots = 2
  Tasks <- FewTasks
  Again <- FewAgain
  CYCLE = 17
  NPU_ACTIVE = 35
  MAC_ACTIVE = 48
  ProfileImage = "A"
  MaxScripts = 3
SYMMETRY AnyRoot
INVARIANT
  ArchivesEveryRun
CHECK_DEADLOCK FALSE
