SPECIFICATION Spec
CONSTANTS
  p1 = p1
  p2 = p2
  s1 = s1
  Subs = {s1}
  Orgs = {p1, p2}
  OrgOf <- MCOrgOf
  Attempts = {a1, a2, a3}
  Charges = {c1, c2, c3}
  Keys = {}
  MaxPeriod = 2
  MaxDunning = 2
  NoCharge = NoCharge
  NoKey = NoKey
  NoInvoice = NoInvoice
SYMMETRY Symmetry
CHECK_DEADLOCK FALSE
INVARIANTS OverduePayable
