SPECIFICATION TenancySpec
CONSTANTS
  Customers = {c1, c2}
  Plans = {p1, p2}
  Subs = {s1, s2}
  Orgs = {o1, o2}
  Txns = {t1, t2}
  Deletable = {p1}
  None = None
SYMMETRY Symmetry
CHECK_DEADLOCK FALSE
INVARIANTS TenancyTypeOK OwnershipAgrees
PROPERTIES SubscribedWhileActive ProjectKept
