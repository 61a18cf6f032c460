SPECIFICATION FairSpec
CONSTANTS
  o1 = o1
  o2 = o2
  t1 = t1
  t2 = t2
  None = None
  Procs = {p1, p2}
  Ids = {o1, t1}
  Media = {m1}
  RoleOf <- MCRoleOf
  ShardOf <- MCShardOf
  Faults = {"io", "kill", "power"}
INVARIANTS ReaderSeesRepaired
PROPERTIES RecoveryConverges ReaderIsolation
