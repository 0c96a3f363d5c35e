SPECIFICATION DatabaseSpec
CONSTANTS
  s1 = s1
  s2 = s2
  i1 = i1
  i2 = i2
  i3 = i3
  a1 = a1
  a2 = a2
  a3 = a3
  c1 = c1
  c2 = c2
  p1 = p1
  e1 = e1
  e2 = e2
  o1 = o1
  Txns = {t1, t2, t3}
  Subs = {s1, s2}
  Invoices = {i1, i2, i3}
  Attempts = {a1, a2, a3}
  Customers = {c1}
  Plans = {p1}
  Project = Project
  Charges = {x1}
  Events = {e1}
  SubOf <- MCSubOf
  InvoiceOf <- MCInvoiceOf
  PlanOf <- MCPlanOf
  CustomerOf <- MCCustomerOf
  Projects = {o1, o2}
  OldCustomers = {c1, c2}
  OldPlans = {p1}
  OldSubs = {s1, s2}
  OldCustomerOf <- MCOldCustomerOf
  OldPlanOf <- MCOldPlanOf
  OldAttempts = {a1, a2, a3}
  OldSubOf <- MCOldSubOf
  OldEvents = {e1, e2}
  About <- MCAbout
  OldKeys = {k1}
  Unknown = Unknown
  Blank = Blank
  Null = Null
SYMMETRY Symmetry
CHECK_DEADLOCK FALSE
INVARIANTS DeadlockFree LocksSafe UpgradeSafe 
