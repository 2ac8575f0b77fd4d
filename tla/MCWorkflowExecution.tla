-------------------------- MODULE MCWorkflowExecution --------------------------
(***************************************************************************)
(* Instances of WorkflowExecution for TLC.                                 *)
(***************************************************************************)
EXTENDS WorkflowExecution, TLC

CONSTANTS a, b, x, gate, sign, straight, diamond, cyclic, untyped, garbled

MCWaitNodes == {gate, sign}

(* straight waits twice; in diamond, b runs beside the wait and a needs both; *)
(* the other three never get past their first node.                           *)
MCNodesOf ==
  [d \in Definitions |->
     CASE d = straight -> {a, gate, sign}
       [] d = diamond  -> {a, b, gate}
       [] d = cyclic   -> {a, b}
       [] d = untyped  -> {a, x}
       [] d = garbled  -> {}]

MCEdges ==
  [d \in Definitions |->
     CASE d = straight -> {<<gate, a>>, <<a, sign>>}
       [] d = diamond  -> {<<gate, a>>, <<b, a>>}
       [] d = cyclic   -> {<<a, b>>, <<b, a>>}
       [] d = untyped  -> {<<a, x>>}
       [] d = garbled  -> {}]

Symmetry == Permutations(Requests)
================================================================================
