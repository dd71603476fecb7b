\* runner_proto.py:496-498: run reports silence of its whole timeout.  One
\* property is looked for, not the whole space.
SPECIFICATION Spec
CONSTANTS
  Tags <- LinkTags
  ReadLimit = 2
  RunLimit = 3
  RequestLimit = 1
  LineLimit = 2
  MaxEpochs = 1
INVARIANT
  SilenceMeansTimeout
CHECK_DEADLOCK FALSE
