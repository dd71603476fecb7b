\* Two runs under counters that wrap after four cycles and two events.
\* CHECK_DEADLOCK FALSE: no host need ask for another run.
SPECIFICATION Spec
CONSTANTS
  Slots = 2
  Codes = {"clock", "mac"}
  ClockCodes = {"clock"}
  Configs <- FewConfigs
  LoWrap = 2
  HiWrap = 2
  EvWrap = 2
  READ_TRIES = 2
  MaxRuns = 2
  MaxTicks = 4
INVARIANTS
  CyclesAreWhole
  AcceptedCoversJob
  EventsAreOwn
CHECK_DEADLOCK FALSE
