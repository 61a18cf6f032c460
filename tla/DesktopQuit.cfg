SPECIFICATION Spec
CONSTANTS
  MaxSessions = 1
  MaxImports = 2
  MaxPollers = 2
  MaxWork = 1
  MaxTokens = 4
  Choosers = {"folder", "image"}
  Outcomes = {"selected", "failed"}
  Files = {f1}
  Faults = {}
  None = None
INVARIANTS QuitAfterClose
CHECK_DEADLOCK FALSE
