-------------------------------- MODULE Roles --------------------------------
(***************************************************************************)
(* Roles, their permissions, who has which role, and the check a request   *)
(* passes.  internal/rbac/service.go and internal/middleware/rbac.go.      *)
(*                                                                         *)
(* A role is known by its code, which the index keeps unique even among    *)
(* deleted roles.  An edit of a role's permissions deletes all of them and *)
(* inserts the new ones, each a statement of its own: checks, deletes and  *)
(* other edits run between them.  Names and descriptions are left out.     *)
(***************************************************************************)
EXTENDS Integers, FiniteSets

CONSTANTS
  Guard,        \* goroutines that serve requests
  Member,       \* users
  Role, Permission,
  Admin,        \* the code that passes every check
  NoRole,
  MaxCalls, MaxFaults    \* bounds: requests; statements that fail, crashes

ASSUME RoleAssumption ==
  /\ Admin \notin Role /\ NoRole \notin Role \cup {Admin}
  /\ MaxCalls \in Nat /\ MaxFaults \in Nat

VARIABLES
  roles,       \* code -> "none", "live" or "deleted"
  grants,      \* code -> the permissions in role_permissions
  perms,       \* permission -> "none", "live" or "deleted"
  roleOf,      \* user -> a code
  call,        \* goroutine -> its request
  received, faults,
  (* history *)
  asked,       \* code -> the permissions of the last edit that ended
  tangled      \* codes with two edits at once, or an edit that broke off

roleVars == <<roles, grants, perms, roleOf, call, received, faults, asked, tangled>>

Call == [at : {"idle", "exists", "clear", "add", "drop", "dropPerm", "assign"},
         role : Role \cup {Admin, NoRole}, todo : SUBSET Permission, new : SUBSET Permission]
NoCall == [at |-> "idle", role |-> NoRole, todo |-> {}, new |-> {}]

Begins(t, r) == call[t].at = "idle" /\ call' = [call EXCEPT ![t] = r]
Goes(t, at)  == call' = [call EXCEPT ![t].at = at]
Ends(t)      == call' = [call EXCEPT ![t] = NoCall]
Made         == {p \in Permission : perms[p] # "none"}
Adding(r)    == {t \in Guard : call[t].at = "add" /\ call[t].role = r}
Faulty       == faults < MaxFaults /\ faults' = faults + 1
Sound        == UNCHANGED faults

(* checkUserPermission: one query over users, roles, role_permissions and      *)
(* permissions.  It joins the deleted roles and permissions too.               *)
Granted(u) == IF roleOf[u] \in Role
              THEN grants[roleOf[u]] \cap Made ELSE {}

(* RequirePermission, and RequireAnyPermission code by code: the role admin     *)
(* passes, others ask the query.                                               *)
Passes(u, p) == roleOf[u] = Admin \/ p \in Granted(u)

(* Names ending in _Bug are variants of the definition that follows them, each *)
(* with a mistake the code could have; the properties are tried against them.  *)

-----------------------------------------------------------------------------
CreatePermission(t) ==
  /\ call[t].at = "idle"
  /\ \E p \in Permission : perms[p] = "none" /\ perms' = [perms EXCEPT ![p] = "live"]
  /\ Sound
  /\ UNCHANGED <<roles, grants, roleOf, call, asked, tangled>>

(* The row, then its delete; the grants of it stay.                            *)
BeginDeletePermission(t) ==
  /\ \E p \in Permission :
       perms[p] = "live" /\ Begins(t, [NoCall EXCEPT !.at = "dropPerm", !.todo = {p}])
  /\ Sound
  /\ UNCHANGED <<roles, grants, perms, roleOf, asked, tangled>>

DeletePermission(t) ==
  /\ call[t].at = "dropPerm"
  /\ perms' = [p \in Permission |-> IF p \in call[t].todo THEN "deleted" ELSE perms[p]]
  /\ Ends(t) /\ Sound
  /\ UNCHANGED <<roles, grants, roleOf, asked, tangled>>

(* CreateRole looks for the code among live roles, then inserts the role and   *)
(* its permissions in one transaction.                                         *)
BeginCreateRole(t) ==
  /\ \E r \in Role, new \in SUBSET Made :
       roles[r] # "live" /\ Begins(t, [NoCall EXCEPT !.at = "exists", !.role = r, !.new = new])
  /\ Sound
  /\ UNCHANGED <<roles, grants, perms, roleOf, asked, tangled>>

CreateRole(t) ==
  LET r == call[t].role IN
  /\ call[t].at = "exists"
  /\ IF roles[r] = "none"
     THEN /\ roles' = [roles EXCEPT ![r] = "live"]
          /\ grants' = [grants EXCEPT ![r] = call[t].new]
          /\ asked' = [asked EXCEPT ![r] = call[t].new]
     ELSE UNCHANGED <<roles, grants, asked>>
  /\ Ends(t) /\ Sound
  /\ UNCHANGED <<perms, roleOf, tangled>>

(* UpdateRole and DeleteRole read the role first; no list, no change to the    *)
(* permissions.                                                                *)
BeginOnRole(t) ==
  /\ \E r \in Role :
       /\ roles[r] = "live"
       /\ \/ \E new \in (SUBSET Made) \ {{}} :
               Begins(t, [at |-> "clear", role |-> r, todo |-> new, new |-> new])
          \/ Begins(t, [NoCall EXCEPT !.at = "drop", !.role = r])
  /\ Sound
  /\ UNCHANGED <<roles, grants, perms, roleOf, asked, tangled>>

(* The delete's error is ignored. *)
ClearGrants_Bug(t) ==        \* nothing is deleted
  LET r == call[t].role IN
  /\ call[t].at = "clear"
  /\ UNCHANGED grants /\ Sound
  /\ tangled' = IF Adding(r) = {} THEN tangled ELSE tangled \cup {r}
  /\ Goes(t, "add")
  /\ UNCHANGED <<roles, perms, roleOf, asked>>

ClearGrants(t) ==
  LET r == call[t].role IN
  /\ call[t].at = "clear"
  /\ \/ /\ grants' = [grants EXCEPT ![r] = {}]
        /\ tangled' = IF Adding(r) = {} THEN tangled ELSE tangled \cup {r}
        /\ Sound
     \/ UNCHANGED grants /\ tangled' = tangled \cup {r} /\ Faulty
  /\ Goes(t, "add")
  /\ UNCHANGED <<roles, perms, roleOf, asked>>

AddGrant(t) ==
  LET r == call[t].role IN
  /\ call[t].at = "add"
  /\ IF call[t].todo = {}
     THEN /\ asked' = [asked EXCEPT ![r] = call[t].new]
          /\ Ends(t) /\ UNCHANGED grants
     ELSE \E p \in call[t].todo :
            /\ grants' = [grants EXCEPT ![r] = @ \cup {p}]
            /\ call' = [call EXCEPT ![t].todo = @ \ {p}]
            /\ UNCHANGED asked
  /\ Sound
  /\ UNCHANGED <<roles, perms, roleOf, tangled>>

DeleteRole(t) ==
  /\ call[t].at = "drop"
  /\ roles' = [roles EXCEPT ![call[t].role] = "deleted"]
  /\ Ends(t) /\ Sound
  /\ UNCHANGED <<grants, perms, roleOf, asked, tangled>>

(* AssignRole looks the code up, then writes it into the user's row.  A role   *)
(* may have the code admin too: it needs no grants.                            *)
BeginAssign(t) ==
  /\ \E r \in Role \cup {Admin} :
       /\ r \in Role => roles[r] = "live"
       /\ Begins(t, [NoCall EXCEPT !.at = "assign", !.role = r])
  /\ Sound
  /\ UNCHANGED <<roles, grants, perms, roleOf, asked, tangled>>

AssignRole(t) ==
  /\ call[t].at = "assign"
  /\ \E u \in Member : roleOf' = [roleOf EXCEPT ![u] = call[t].role]
  /\ Ends(t) /\ Sound
  /\ UNCHANGED <<roles, grants, perms, asked, tangled>>

(* The request ends with an error: of an edit that has begun to insert, what   *)
(* was inserted stays.                                                         *)
BreakOff(t) ==
  /\ call[t].at # "idle" /\ Faulty
  /\ tangled' = IF call[t].at = "add" THEN tangled \cup {call[t].role} ELSE tangled
  /\ Ends(t)
  /\ UNCHANGED <<roles, grants, perms, roleOf, asked>>

-----------------------------------------------------------------------------
RoleInit ==
  /\ roles = [r \in Role |-> "none"] /\ grants = [r \in Role |-> {}]
  /\ perms = [p \in Permission |-> "none"]
  /\ roleOf \in [Member -> {Admin, NoRole}]
  /\ call = [t \in Guard |-> NoCall] /\ received = 0 /\ faults = 0
  /\ asked = [r \in Role |-> {}] /\ tangled = {}

Enter(t) ==
  /\ received < MaxCalls /\ received' = received + 1
  /\ \/ CreatePermission(t) \/ BeginDeletePermission(t) \/ BeginCreateRole(t)
     \/ BeginOnRole(t) \/ BeginAssign(t)

Advance(t) ==
  /\ UNCHANGED received
  /\ \/ DeletePermission(t) \/ CreateRole(t) \/ ClearGrants(t) \/ AddGrant(t)
     \/ DeleteRole(t) \/ AssignRole(t) \/ BreakOff(t)

RoleNext == \E t \in Guard : Enter(t) \/ Advance(t)
RoleSpec == RoleInit /\ [][RoleNext]_roleVars

-----------------------------------------------------------------------------
(* Every variable keeps its type. *)
RoleTypeOK ==
  /\ roles \in [Role -> {"none", "live", "deleted"}]
  /\ grants \in [Role -> SUBSET Permission] /\ asked \in [Role -> SUBSET Permission]
  /\ perms \in [Permission -> {"none", "live", "deleted"}]
  /\ roleOf \in [Member -> Role \cup {Admin, NoRole}]
  /\ call \in [Guard -> Call] /\ received \in Nat /\ faults \in Nat
  /\ tangled \subseteq Role

(* A user who is no administrator passes exactly what the last edit of the     *)
(* role that ended asked for, and while edits insert, nothing that none of     *)
(* them asks for; unless two edits of the role ran at once or one broke off    *)
(* (rbac/service.go:171).                                                      *)
GrantsAreAsked ==
  \A u \in Member : roleOf[u] \in Role \ tangled =>
    LET r      == roleOf[u]
        passes == {p \in Permission : Passes(u, p)}
    IN IF Adding(r) = {} THEN passes = asked[r]
                         ELSE passes \subseteq UNION {call[t].new : t \in Adding(r)}
================================================================================
