SPECIFICATION ConvSpec
CONSTANTS
  Speaker = {s1, s2}
  Turns = {0}
  Budget = {0}
  Size = {1}
  Blocks = {1}
  MaxTalks = 2
CHECK_DEADLOCK FALSE
INVARIANT TurnIsAppended
