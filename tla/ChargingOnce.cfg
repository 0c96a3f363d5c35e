SPECIFICATION ChargingSpec
CONSTANTS
  p1 = p1
  Subs = {s1}
  Orgs = {p1}
  OrgOf <- MCOrgOf
  Attempts = {a1, a2, a3}
  Charges = {a1, a2, a3}
  Keys = {k1}
  MaxPeriod = 1
  MaxDunning = 2
  NoCharge = NoCharge
  NoKey = NoKey
  NoInvoice = NoInvoice
  Workers = {w1, w2}
  Events = {e1}
  Truthful = TRUE
  MaxFaults = 1
  NoAttempt = NoAttempt
SYMMETRY Symmetry
CHECK_DEADLOCK FALSE
INVARIANTS ChargingTypeOK ChargedOnce BooksFollowProvider
PROPERTIES PromiseKept
