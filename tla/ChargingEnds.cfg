SPECIFICATION FairSpec
CONSTANTS
  p1 = p1
  Subs = {s1}
  Orgs = {p1}
  OrgOf <- MCOrgOf
  Attempts = {a1, a2, a3}
  Charges = {a1, a2, a3}
  Keys = {}
  MaxPeriod = 1
  MaxDunning = 2
  NoCharge = NoCharge
  NoKey = NoKey
  NoInvoice = NoInvoice
  Workers = {w1}
  Events = {e1}
  Truthful = FALSE
  MaxFaults = 1
  NoAttempt = NoAttempt
CHECK_DEADLOCK FALSE
PROPERTIES BooksKept CollectionEnds AttemptsEnd
