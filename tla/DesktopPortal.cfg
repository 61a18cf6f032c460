SPECIFICATION FairSpec
CONSTANTS
  MaxSessions = 1
  MaxImports = 2
  MaxPollers = 2
  MaxWork = 1
  MaxTokens = 4
  Choosers = {"folder", "place"}
  Outcomes = {"selected", "cancelled", "failed"}
  Files = {f1}
  Faults = {"broker"}
  None = None
PROPERTIES BrokerReaped
CHECK_DEADLOCK FALSE
