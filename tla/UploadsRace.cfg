SPECIFICATION Spec
CONSTANTS
  None = None
  junk = junk
  small = small
  Target = {t1}
  User = {u1, u2}
  Intent = {i1}
  Request = {r1}
  Key = {k1}
  File = {f1, junk}
  Size = {small}
  SizeOf <- MCSizeOf
  Handler = {h1, h2}
  Worker = {w1}
  Due = 2
  Lifetime = 1
  Grace = 1
  MaxTime = 2
  Batch = 1
SYMMETRY Symmetry
INVARIANTS SubmissionsSound RetiredNeverSubmitted VerifiedIsStored
PROPERTIES ImplementsContract
