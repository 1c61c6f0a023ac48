SPECIFICATION Spec
CONSTANTS
  Operations = {"open", "read", "export"}
  MaxSessions = 1
  MaxRequests = 2
  MaxGeneration = 2
  MaxDeaths = 1
  MaxFaults = 1
  MaxEdits = 1
INVARIANTS
  NobodyForgotten
  NeverReplayed
PROPERTIES
  AnswersFit
  OneWorker
  Settles
  ShutsDown
CHECK_DEADLOCK FALSE
