SPECIFICATION Spec
CONSTANTS
  a = a
  b = b
  r = r
  w = w
  Process = {a, b}
  Thread <- Threads
  ProcessOf <- Apart
  MaxEdits = 1
  MaxRev = 2
  MaxTrouble = 0
INVARIANTS
  ReadsAreCurrent
