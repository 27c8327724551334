SPECIFICATION Spec
CONSTANTS
  NWorkers = 2
  Fds = {1, 2}
  RSize = 2
  HighWat = 4
  ReqsPerEvent = 1
  Scenarios <- AllScenarios
INVARIANTS StreamInSync AnswersInOrder RefsReleased FdOwned
PROPERTIES EveryCommandServed
CHECK_DEADLOCK FALSE
