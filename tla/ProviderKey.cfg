SPECIFICATION Spec
CONSTANTS
  a = a
  b = b
  r = r
  w = w
  Process = {a, b}
  Thread <- Threads
  ProcessOf <- Apart
  MaxEdits = 2
  MaxRev = 3
  MaxTrouble = 0
INVARIANTS
  KeyBelongsToCopy
