-------------------------------- MODULE MCQuota --------------------------------
(***************************************************************************)
(* Instances of Quota for TLC.                                             *)
(***************************************************************************)
EXTENDS Quota, TLC

(* Midnight falls after minute 0. *)
MCDayOf == [t \in Time |-> IF t = 0 THEN 0 ELSE 1]
MCMonthOf == [t \in Time |-> 0]

Plain == [enabled |-> TRUE, adminUnlimited |-> FALSE,
          rpm |-> 0, dailyReq |-> 1, dailyTok |-> 0, monthTok |-> 2]

MCPolicies == {Plain, [Plain EXCEPT !.rpm = 2, !.dailyReq = 0, !.dailyTok = 1],
               [Plain EXCEPT !.adminUnlimited = TRUE]}

Symmetry == Permutations(Caller)
================================================================================
