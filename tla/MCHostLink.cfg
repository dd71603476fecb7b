\* Three programs after each other on one port, a board that may restart.  No
\* program is bound to call, and none is left to: CHECK_DEADLOCK FALSE.
SPECIFICATION Spec
CONSTANTS
  Tags <- LinkTags
  ReadLimit = 2
  RunLimit = 3
  RequestLimit = 1
  LineLimit = 2
  MaxEpochs = 1
INVARIANTS
  LinkTypeOK
  AnswerIsOwn
PROPERTIES
  RecordIsNewest
  CallEnds
CHECK_DEADLOCK FALSE
