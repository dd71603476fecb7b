\* The card's scripts, then one campaign and its gate.  CHECK_DEADLOCK FALSE: the
\* process ends.
SPECIFICATION Spec
CONSTANTS
  Runners <- RunnerImages
  Mlek = "mlek"
  r1 = r1
  r2 = r2
  Roots <- FewRoots
  MaxFaults = 2
  EventSlots = 2
  Tasks <- FewTasks
  Again <- FewAgain
  CYCLE = 17
  NPU_ACTIVE = 35
  MAC_ACTIVE = 48
  ProfileImage = "A"
  MaxScripts = 3
SYMMETRY AnyRoot
INVARIANTS
  OriginalsKept
  RestoreUndoes
  PassIsOfTheProfileImage
  PassMeansEveryRunClean
  CountedMeansEveryRunValid
CHECK_DEADLOCK FALSE
