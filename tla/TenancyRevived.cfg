SPECIFICATION TenancySpec
CONSTANTS
  Customers = {c1}
  Plans = {p1}
  Subs = {s1}
  Orgs = {o1, o2}
  Txns = {t1, t2, t3}
  Deletable = {p1}
  None = None
SYMMETRY Symmetry
CHECK_DEADLOCK FALSE
INVARIANTS PlanAgrees
