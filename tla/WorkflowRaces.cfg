SPECIFICATION Spec
CONSTANTS
  a = a
  b = b
  x = x
  gate = gate
  sign = sign
  straight = straight
  diamond = diamond
  cyclic = cyclic
  untyped = untyped
  garbled = garbled
  Node = {a, b, gate, sign, x}
  WaitNodes = {gate, sign}
  TimedWaits = {gate}
  Untyped = {x}
  Definitions = {straight, diamond, cyclic, untyped, garbled}
  Unparsable = {garbled}
  NodesOf <- MCNodesOf
  Edges <- MCEdges
  Starter = starter
  Requests = {r1, r2}
  Ops = {"resume", "approve", "reject", "cancel"}
  Pins = {1}
  MaxCrashes = 1
  MaxOverruns = 1
  MaxUpdates = 0
CHECK_DEADLOCK FALSE
SYMMETRY Symmetry
INVARIANTS
  TypeOK
  CheckpointsClosed
  PredecessorsFirst
  ApprovalGate
  CompletedMeansAllDone
PROPERTIES
  ImplementsGates
