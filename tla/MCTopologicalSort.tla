--------------------------- MODULE MCTopologicalSort ---------------------------
(***************************************************************************)
(* Instances of TopologicalSort for TLC.                                   *)
(***************************************************************************)
EXTENDS TopologicalSort, TLC

Symmetry == Permutations(Id)
================================================================================
