---------------------------- MODULE MCProviderCache ----------------------------
(***************************************************************************)
(* Instances of ProviderCache for TLC.                                     *)
(***************************************************************************)
EXTENDS ProviderCache, TLC

CONSTANTS a, b, r, w         \* two processes and a goroutine in each

Threads == {r, w}
Apart == r :> a @@ w :> b
================================================================================
