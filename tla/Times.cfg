SPECIFICATION TimesSpec
CONSTANTS
  acme = acme
  k1 = k1
  k2 = k2
  r1 = r1
  r2 = r2
  r4 = r4
  ip = ip
  Calls = {r1, r2, r3, r4}
  ProjectOf <- MCProjectOf
  CallerOf <- MCCallerOf
  IpOf <- MCIpOf
  NoProject = NoProject
  Budget = 2
  Duration = 2
  Overlap = 2
  MaxTime = 3
  FirstDay <- BeforeLeapYear
  TrialDays = 14
  MaxDays = 435
  Hosts = {h1, h2}
  Skew = 1
  MaxDunning = 2
  MaxTries = 3
  MaxNow = 7
CHECK_DEADLOCK FALSE
INVARIANTS ThrottleSafe CalendarSafe ClocksSafe
 
