SPECIFICATION FairSpec
CONSTANTS
  Clerk = {c1, c2}
  Parse = {p1, p2, p3}
  Doc = {d1, d2}
  NoDoc = none
  NoParse = none
  MaxDesk = 3
  MaxTrouble = 1
CHECK_DEADLOCK FALSE
INVARIANTS CountAccounted VectorsMatchRows
PROPERTIES ParsesSettle
