\* Up to two symbols lost or damaged, anywhere in four frames.  CHECK_DEADLOCK
\* FALSE: the line runs dry.
SPECIFICATION Spec
CONSTANTS
  Sends <- FewSends
  Byte <- Bytes
  MAX_PAYLOAD = 2
  MaxFaults = 2
INVARIANTS
  HostLosesNoFrame
  HostStallBounded
  BoardInventsNothing
  BoardSwallowBounded
PROPERTY
  CleanLineDelivers
CHECK_DEADLOCK FALSE
