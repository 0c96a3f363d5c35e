SPECIFICATION ConstraintsSpec
CONSTANTS
  Users = {u1, u2}
  Orgs = {o1, o2}
  Invites = {i1, i2}
  Requests = {q1, q2}
  None = None
  ann = ann
  Ann = Ann
  bob = bob
  Spellings = {ann, Ann, bob}
  Fold <- MCFold
  ByStaff = {bob}
  Tokens = {t1, t2, t3}
  Entries = {e1, e2, e3}
  Nil = Nil
  d1 = d1
  Attempts = {a1, a2}
  Workers = {w1, w2}
  Charges = {x1, x2, x3}
  Cards = {d1, d2}
  Null = Null
SYMMETRY Symmetry
CHECK_DEADLOCK FALSE
INVARIANTS
  AccessSafe JoinedByInvitation ActsWhereAdmin
  CredentialsSafe GatewaySafe
PROPERTIES PromiseKept
