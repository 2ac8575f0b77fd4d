----------------------------- MODULE ProviderRows -----------------------------
(***************************************************************************)
(* The rows of model providers and which of them is the default for chat   *)
(* and for embeddings.  internal/provider/service.go and repository.go;    *)
(* what the cache makes of each change is in ProviderCache.                *)
(*                                                                         *)
(* Update reads a row and saves all of it later.  SetDefault is a          *)
(* transaction of two statements under READ COMMITTED: what another one    *)
(* commits after its first statement began it neither sees nor clears.     *)
(* Addresses, keys, models and test results are left out; a priority is    *)
(* any order.                                                              *)
(***************************************************************************)
EXTENDS Integers, Sequences, FiniteSets

CONSTANTS
  Operator,    \* goroutines that serve requests
  Provider,    \* ids
  BuiltIn,     \* the sequence of default providers
  Purpose,     \* what a provider is for: chat, embeddings
  NoProvider,
  MaxOrders    \* bound: requests

ASSUME ProviderAssumption ==
  /\ NoProvider \notin Provider /\ BuiltIn \in Seq(Provider) /\ MaxOrders \in Nat

VARIABLES
  rows,       \* provider -> its row
  order,      \* goroutine -> its request
  orders,
  (* history *)
  chosen,     \* purpose -> the provider made default last
  blurred     \* purposes whose flags a stale save wrote or two SetDefaults at once,
              \* or whose provider a save put back after it was deleted

providerVars == <<rows, order, orders, chosen, blurred>>

ProviderRow == [is : {"none", "live", "deleted"}, on : BOOLEAN, can : SUBSET Purpose,
                default : SUBSET Purpose]
NoProviderRow == [is |-> "none", on |-> FALSE, can |-> {}, default |-> {}]
Order == [at : {"idle", "save", "begin", "commit"}, id : Provider \cup {NoProvider},
          row : ProviderRow, for : SUBSET Purpose, found : SUBSET Provider]
NoOrder == [at |-> "idle", id |-> NoProvider, row |-> NoProviderRow, for |-> {}, found |-> {}]

Present     == {p \in Provider : rows[p].is = "live"}
Defaults(q) == {p \in Present : q \in rows[p].default}

Takes(t, r) == order[t].at = "idle" /\ order' = [order EXCEPT ![t] = r]
Closes(t)   == order' = [order EXCEPT ![t] = NoOrder]

(* loadActiveFromDB, loadEmbeddingFromDB: the default if it is enabled and     *)
(* able, else an enabled one that is able.                                     *)
Able(p, q)  == rows[p].on /\ q \in rows[p].can
Active(q)   == IF \E p \in Defaults(q) : Able(p, q) THEN {p \in Defaults(q) : Able(p, q)}
               ELSE {p \in Present : Able(p, q)}

(* Names ending in _Bug are variants of the definition that follows them, each *)
(* with a mistake the code could have; the properties are tried against them.  *)

-----------------------------------------------------------------------------
(* DefaultProviders: switched off, nobody's default.                           *)
BuiltInRow(can) == [NoProviderRow EXCEPT !.is = "live", !.can = can]

(* InitDefaultProviders, when a process starts: in order, the missing ones are *)
(* created; a deleted one's id is taken, which ends it.                        *)
InitDefaultProviders ==
  LET Reached == {p \in Provider : \E i \in 1..Len(BuiltIn) :
                    p = BuiltIn[i] /\ \A j \in 1..i : rows[BuiltIn[j]].is # "deleted"}
  IN /\ \E able \in [Reached \ Present -> SUBSET Purpose \ {{}}] :
          rows' = [p \in Provider |-> IF p \in Reached \ Present
                                      THEN BuiltInRow(able[p]) ELSE rows[p]]
     /\ UNCHANGED <<order, orders, chosen, blurred>>

CreateProvider(t) ==
  /\ order[t].at = "idle"
  /\ \E p \in Provider, on \in BOOLEAN, can \in SUBSET Purpose \ {{}} :
       /\ rows[p].is = "none"
       /\ rows' = [rows EXCEPT ![p] = [is |-> "live", on |-> on, can |-> can, default |-> {}]]
  /\ UNCHANGED <<order, chosen, blurred>>

(* Update: the row read, changed, and saved whole: a row deleted in between is *)
(* there again, and the flags are as they were read.                           *)
ReadForUpdate(t) ==
  /\ \E p \in Present, on \in BOOLEAN, can \in SUBSET Purpose \ {{}} :
       Takes(t, [NoOrder EXCEPT !.at = "save", !.id = p,
                                !.row = [rows[p] EXCEPT !.on = on, !.can = can]])
  /\ UNCHANGED <<rows, chosen, blurred>>

UpdateProvider(t) ==
  LET p   == order[t].id
      now == rows[p].default
      was == order[t].row.default
  IN
  /\ order[t].at = "save"
  /\ rows' = [rows EXCEPT ![p] = order[t].row]
  /\ blurred' = blurred \cup (now \ was) \cup (was \ now)
                        \cup (IF p \in Present THEN {}
                              ELSE was \cup {q \in Purpose : chosen[q] = p})
  /\ Closes(t)
  /\ UNCHANGED chosen

DeleteProvider(t) ==
  /\ order[t].at = "idle"
  /\ \E p \in Present : rows' = [rows EXCEPT ![p].is = "deleted"]
  /\ UNCHANGED <<order, chosen, blurred>>

(* SetDefault: the row must be able; then the transaction.                     *)
ReadForDefault(t) ==
  /\ \E p \in Present : \E q \in rows[p].can :
       Takes(t, [NoOrder EXCEPT !.at = "begin", !.id = p, !.for = {q}])
  /\ UNCHANGED <<rows, chosen, blurred>>

FindDefaults_Bug(t) ==       \* the new default is set, the others stay
  /\ order[t].at = "begin"
  /\ order' = [order EXCEPT ![t].at = "commit"]
  /\ UNCHANGED <<rows, chosen, blurred>>

FindDefaults(t) ==
  /\ order[t].at = "begin"
  /\ order' = [order EXCEPT ![t].at = "commit",
                            ![t].found = UNION {Defaults(q) : q \in order[t].for}]
  /\ blurred' = IF \E u \in Operator : order[u].at = "commit" /\ order[u].for = order[t].for
                THEN blurred \cup order[t].for ELSE blurred
  /\ UNCHANGED <<rows, chosen>>

SetDefault(t) ==
  LET set(p) == IF p = order[t].id /\ p \in Present THEN order[t].for ELSE {}
      unset(p) == IF p \in order[t].found \cap Present THEN order[t].for ELSE {}
  IN
  /\ order[t].at = "commit"
  /\ rows' = [p \in Provider |-> [rows[p] EXCEPT !.default = (@ \ unset(p)) \cup set(p)]]
  /\ chosen' = [q \in Purpose |-> IF q \in order[t].for THEN order[t].id ELSE chosen[q]]
  /\ Closes(t)
  /\ UNCHANGED blurred

(* A query fails, or the transaction is rolled back.                           *)
Drop(t) ==
  /\ order[t].at # "idle"
  /\ Closes(t)
  /\ UNCHANGED <<rows, chosen, blurred>>

-----------------------------------------------------------------------------
ProviderInit ==
  /\ rows = [p \in Provider |-> NoProviderRow]
  /\ order = [t \in Operator |-> NoOrder] /\ orders = 0
  /\ chosen = [q \in Purpose |-> NoProvider] /\ blurred = {}

Takeup(t) ==
  /\ orders < MaxOrders /\ orders' = orders + 1
  /\ CreateProvider(t) \/ ReadForUpdate(t) \/ DeleteProvider(t) \/ ReadForDefault(t)

Carry(t) ==
  /\ UNCHANGED orders
  /\ UpdateProvider(t) \/ FindDefaults(t) \/ SetDefault(t) \/ Drop(t)

ProviderNext == InitDefaultProviders \/ \E t \in Operator : Takeup(t) \/ Carry(t)
ProviderSpec == ProviderInit /\ [][ProviderNext]_providerVars

-----------------------------------------------------------------------------
(* Every variable keeps its type. *)
ProviderTypeOK ==
  /\ rows \in [Provider -> ProviderRow]
  /\ order \in [Operator -> Order] /\ orders \in Nat
  /\ chosen \in [Purpose -> Provider \cup {NoProvider}]
  /\ blurred \subseteq Purpose

(* The provider made default last is the only default for its purpose while it *)
(* is there, and the one in use while it is enabled and able; unless a save    *)
(* wrote flags that had changed since it read them, or put a deleted row back, *)
(* or two SetDefaults ran at once (provider/service.go:211).                   *)
DefaultIsChosen ==
  \A q \in Purpose \ blurred :
    /\ Defaults(q) = {chosen[q]} \cap Present
    /\ chosen[q] \in Present /\ Able(chosen[q], q) => Active(q) = {chosen[q]}
================================================================================
