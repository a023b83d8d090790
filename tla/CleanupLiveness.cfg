SPECIFICATION FairSpec
CONSTANTS
  None = None
  junk = junk
  small = small
  Target = {t1}
  User = {u1}
  Intent = {i1, i2}
  Request = {r1, r2}
  Key = {k1}
  File = {f1}
  Size = {small}
  SizeOf <- MCSizeOf
  Handler = {}
  Worker = {w1}
  Due = 2
  Lifetime = 1
  Grace = 0
  MaxTime = 1
  Batch = 1
INVARIANT OneSlotPerTarget
PROPERTY OrphanDeleted
