SPECIFICATION PlatformSpec
CONSTANTS
  Thread = {t1, t2}
  Id = {x1, x2}
  Key = {y1, y2}

  Editor = {t1, t2}
  Prompt = {x1, x2}
  Version = {v1, v2, v3}
  Agent = {a1}
  Title = {y1, y2}
  Origin = {o1}
  NoPrompt = none
  NoVersion = none
  NoTitle = none
  MaxEdits = 4

  Request = {t1, t2}
  MaxUser = 4
  MaxLegacy = 2
  Name = {admin, n1}
  AdminName = admin
  Mail = {seed, x1, x2}
  SeedMail = seed
  Freed = freed
  MaxRequests = 2
  MaxFailures = 1

  Guard = {t1, t2}
  Member = {u1}
  Role = {r1}
  Permission = {x1, x2}
  Admin = admin
  NoRole = none
  MaxCalls = 5
  MaxFaults = 1

  Caller = {t1, t2}
  Person = {u1}
  Token = {x1, x2}
  word = word
  Password = {word, other}
  NoPerson = none
  NoToken = none
  NoPassword = none
  RateMax = 2
  MaxVisits = 4
  MaxLosses = 1

  Operator = {t1, t2}
  vendor = vendor
  Provider = {vendor, other}
  BuiltIn <- BuiltInProviders
  Purpose = {x1, x2}
  NoProvider = none
  MaxOrders = 4

  Speaker = {t1, t2}
  Turns = {1}
  Budget = {1}
  Size = {0, 1}
  Blocks = {0, 1}
  MaxTalks = 2

  Worker = {t1, t2}
  Owner = {u1, u2}
  Server = {x1, x2}
  Url = {y1, y2}
  ToolName = {n1}
  NoUser = none
  NoCopy = none
  MaxToolCalls = 1
  MaxJobs = 3
  MaxStops = 1

  Tester = {t1, t2}
  Suite = {s1}
  EvalCase = {x1, x2}
  EvalRun = {y1, y2}
  NoSuite = none
  NoRun = none
  MaxCases = 2
  MaxTasks = 5
  MaxMishaps = 1

  Number = {0, 1, 2, 3}
  index = index
  Word = {word}
  NoValue = none
  Variable = {index, word}
  Index = index
  Value = {0, 1, word}
  Terms <- LoopTerms
  Limit <- LoopLimits
  Count <- LoopCounts
  DefaultMaxIter = 3
  MaxTerms = 3
  MaxNodes = 2
SYMMETRY Symmetry
CHECK_DEADLOCK FALSE
INVARIANTS TypeOK  NamesOwnVersions NamesKept RemovedAreFreed GrantsAreAsked TokensSingle LockoutsEnd
  DefaultIsChosen EditsStay NothingForgotten LoopsMean RegistryFollowsRows RunsAccounted
PROPERTIES ResolvedWasCurrent
