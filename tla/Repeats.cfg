SPECIFICATION RepeatsSpec
CONSTANTS
  Workers = {w1, w2}
  Items = {i1, i2, i3}
  Bad = {i1}
  MaxRetries = 1
  Capacity = 2
  MaxDue = 2
  MaxFaults = 2
  Servers = {v1, v2}
  Events = {e1}
  Payloads = {p1, p2, x1}
  Foreign = {x1}
  None = None
  Window = 1
  Skew = 1
  MaxBreaks = 1
CHECK_DEADLOCK FALSE
 
PROPERTIES HealthyServed InboxKept Acknowledged
