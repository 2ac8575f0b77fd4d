SPECIFICATION Spec
CONSTANTS
  a = a
  b = b
  x = x
  gate = gate
  sign = sign
  straight = straight
  diamond = diamond
  cyclic = cyclic
  untyped = untyped
  garbled = garbled
  Node = {a, b, gate, sign, x}
  WaitNodes = {gate, sign}
  TimedWaits = {}
  Untyped = {x}
  Definitions = {straight}
  Unparsable = {}
  NodesOf <- MCNodesOf
  Edges <- MCEdges
  Starter = starter
  Requests = {r1, r2}
  Ops = {"approve"}
  Pins = {}
  MaxCrashes = 0
  MaxOverruns = 0
  MaxUpdates = 0
CHECK_DEADLOCK FALSE
PROPERTIES
  ResumeOnlyFromWaiting
