SPECIFICATION FairSpec
CONSTANTS
  a = a
  b = b
  x = x
  gate = gate
  sign = sign
  straight = straight
  diamond = diamond
  cyclic = cyclic
  untyped = untyped
  garbled = garbled
  Node = {a, b, gate, sign, x}
  WaitNodes = {gate, sign}
  TimedWaits = {gate}
  Untyped = {x}
  Definitions = {straight, diamond}
  Unparsable = {}
  NodesOf <- MCNodesOf
  Edges <- MCEdges
  Starter = starter
  Requests = {r1, r2}
  Ops = {"resume", "approve", "reject", "cancel"}
  Pins = {}
  MaxCrashes = 0
  MaxOverruns = 0
  MaxUpdates = 1
CHECK_DEADLOCK FALSE
INVARIANTS
  SingleDriver
  CheckpointNumberFree
  WaitingIsResumable
  NodeRunsSettled
PROPERTIES
  NoRerun
  Settles
  LockReleased
  TimedWaitEnds
