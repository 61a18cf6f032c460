SPECIFICATION Spec
CONSTANTS
  o1 = o1
  o2 = o2
  t1 = t1
  t2 = t2
  None = None
  Procs = {p1}
  Ids = {o1}
  Media = {m1}
  RoleOf <- MCRoleOf
  ShardOf <- MCShardOf
  Faults = {"commit", "kill"}
SYMMETRY MCSymmetry
INVARIANTS DurableReference
