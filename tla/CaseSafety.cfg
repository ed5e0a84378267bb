SPECIFICATION LiveSpec
CONSTANTS
  o1 = o1
  o2 = o2
  Operators <- MCOperators
  Commands <- MCCommands
  Requestable = {"AGENT"}
  Scores <- MCScores
  Config <- MCConfig
  Deadline = 2
  Reported = {"OPTED_OUT", "ALREADY_PAID"}
  Retries = TRUE
  AmountAtRisk = 1
  MockEvents = {e1}
  Evidences <- MCEvidences
  Configs <- MCConfigs
  DayLength = 3
  RetryDelay = 2
  None = None
INVARIANTS TypeOK HeldUntilApproved DecisionIsSound
PROPERTIES ClosedStaysAtRest StopIsHeard
CHECK_DEADLOCK FALSE
