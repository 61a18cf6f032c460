SPECIFICATION FairSpec
CONSTANTS
  Chunks = 2
  MaxResults = 1
  Ceiling = 1
  Capacity = 1
  Restarts = 1
  Faults = {"rogue", "spawn", "crash", "cancel", "startup", "operation", "memlock"}
INVARIANTS TypeOK AcceptedMeansFinished ResultIsWhole TransformOnlyWhole LockedMeansLocked
PROPERTIES HonestCallReturns DeadlineEnds CancellationEnds AbstractSpec RetryOnlyInHandshake
