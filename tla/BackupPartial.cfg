INIT BackupInit
NEXT BackupNext
CONSTANTS
  MaxVersion = 2
  BackupFaults = {"io", "kill", "power"}
INVARIANT PartialBackupFailsClosed
CHECK_DEADLOCK FALSE
