SPECIFICATION Spec
CONSTANTS
  Caller = {c1, c2}
  Cost = {0, 1}
  Policies <- MCPolicies
  IsAdmin = TRUE
  MaxTime = 1
  Day = {0, 1}
  Month = {0}
  DayOf <- MCDayOf
  MonthOf <- MCMonthOf
  MaxCalls = 2
  MaxEvents = 1
CHECK_DEADLOCK FALSE
SYMMETRY Symmetry
INVARIANTS
  Accounted
  DailyLimit
  RateLimit
  TokenOvershoot
