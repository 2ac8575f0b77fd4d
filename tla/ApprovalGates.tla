----------------------------- MODULE ApprovalGates -----------------------------
(***************************************************************************)
(* What a workflow execution promises, whatever requests race on it: the   *)
(* nodes of one graph get done in dependency order, and nothing behind a   *)
(* wait node gets done before that wait has been passed by an approval.    *)
(***************************************************************************)
CONSTANTS Node, Wait

VARIABLES
  graph,   \* the dependencies, pairs <<source, target>>
  done,    \* nodes that have succeeded
  passed   \* wait nodes an approval has continued past

vars == <<graph, done, passed>>

Init ==
  /\ graph \subseteq Node \X Node
  /\ done = {}
  /\ passed = {}

(* n succeeds: its dependencies have, and those that are waits were passed. *)
Do(n) ==
  /\ \A m \in Node : <<m, n>> \in graph => m \in done /\ (m \in Wait => m \in passed)
  /\ done' = done \cup {n}
  /\ UNCHANGED <<graph, passed>>

(* An approval continues past some of the waits that have been reached. *)
Pass(W) ==
  /\ W \subseteq done \cap Wait
  /\ passed' = passed \cup W
  /\ UNCHANGED <<graph, done>>

Next == (\E n \in Node : Do(n)) \/ (\E W \in SUBSET Wait : Pass(W))

Spec == Init /\ [][Next]_vars
================================================================================
