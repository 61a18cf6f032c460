SPECIFICATION Spec
CONSTANTS
  MaxSessions = 2
  MaxImports = 2
  MaxPollers = 2
  MaxWork = 3
  MaxTokens = 4
  Choosers = {"folder", "image"}
  Outcomes = {"selected", "failed"}
  Files = {f1}
  Faults = {"open", "image", "publish", "thumbnail", "broker"}
  None = None
INVARIANTS TypeOK LockedIsBlank DecisionIsPreviewed ViewIsCurrent NoSilentDuplicate
PROPERTIES OwnerSpec
CHECK_DEADLOCK FALSE
