SPECIFICATION FairSpec
CONSTANTS
  MaxSessions = 2
  MaxImports = 2
  MaxPollers = 2
  MaxWork = 3
  MaxTokens = 4
  Choosers = {"place", "image"}
  Outcomes = {"selected"}
  Files = {f1}
  Faults = {"list", "read"}
  None = None
PROPERTIES RevokedSessionEnds AuthorityReleased BrokerReaped
CHECK_DEADLOCK FALSE
