----------------------------- MODULE ProviderCache -----------------------------
(***************************************************************************)
(* The model provider in force, read through two levels of cache.          *)
(* internal/modelcache/{cache,local,remote}.go and the part of             *)
(* internal/provider/service.go that fills, reads and invalidates it.      *)
(*                                                                         *)
(* Every server process keeps one copy of the provider's snapshot; Redis   *)
(* keeps another one and a revision.  A copy is tagged with the revision   *)
(* it was made under, and is used as long as that is Redis's.  Each        *)
(* command to Redis, each query and each critical section of the local     *)
(* copy is an action: goroutines of every process run between them.        *)
(*                                                                         *)
(* The configuration is its version: the number of edits it contains.      *)
(***************************************************************************)
EXTENDS Integers

CONSTANTS
  Process, Thread,
  ProcessOf,    \* the process a goroutine runs in
  MaxEdits,     \* bound: edits of providers
  MaxRev,       \* bound: revisions
  MaxTrouble    \* bound: commands to Redis and queries that fail, keys that expire

ASSUME CacheAssumption ==
  /\ ProcessOf \in [Thread -> Process]
  /\ MaxEdits \in Nat /\ MaxTrouble \in Nat
  /\ MaxRev \in Nat \ {0}

Version == 0 .. MaxEdits
Rev     == 0 .. MaxRev
Copy    == [ver : Version, rev : Rev]

VARIABLES
  db,        \* the version in the database
  none,      \* it has no provider that can be in force
  rev,       \* Redis's revision; 0 is no key
  remote,    \* Redis's snapshot: no copy or one
  local,     \* process -> its copy: none or one
  key,       \* process -> version of the decrypted key kept beside it, if any
  fresh,     \* process -> its copy is younger than 30 s
  pc,        \* what each goroutine does next
  op,        \* "active", "chat" or "edit"
  stage,     \* which of its reads of the cache it is in
  seen,      \* the revision it read
  held,      \* the copy it holds: none or one
  prov,      \* the version of the provider it found
  plain,     \* version of the key it will put beside its copy, if any
  vouched,   \* its provider came from the database or under a revision
  trouble,   \* Redis commands and queries that failed and keys that expired
  (* history *)
  covered,   \* revision -> the version when it was made
  settled,   \* the latest version whose edit has returned
  target,    \* the version an edit made
  floor,     \* what was settled when a read began
  disturbed  \* one of the four things the protocol does not withstand happened

store   == <<db, none>>
redis   == <<rev, remote>>
copies  == <<local, key, fresh>>
frame   == <<op, stage, seen, held, prov, plain, vouched>>
history == <<covered, settled, target, floor, disturbed>>
vars    == <<store, redis, copies, pc, frame, trouble, history>>

Pcs == {"idle", "rev", "look", "fresh", "load", "keep", "db", "currev", "put",
        "save", "clear", "incr", "del"}

Goto(t, p) == pc' = [pc EXCEPT ![t] = p]
Set(f, t, v) == [f EXCEPT ![t] = v]

(* A Redis command fails: Redis is away for longer than its 400 ms. *)
RedisFails == trouble < MaxTrouble /\ trouble' = trouble + 1

(* A query fails: it is taken for one that found nothing. *)
QueryFails == trouble < MaxTrouble /\ trouble' = trouble + 1

(* Names ending in _Bug are variants of the definition that follows them, each *)
(* with a mistake the code could have; the properties are tried against them.  *)

-----------------------------------------------------------------------------
(* Requests begin.  A read of the provider starts with the cache; a chat's     *)
(* first read (GetHot) wants the decrypted key as well.                       *)
BeginRead(t, o) ==
  /\ pc[t] = "idle"
  /\ op' = Set(op, t, o)
  /\ stage' = Set(stage, t, IF o = "chat" THEN "hot" ELSE "get")
  /\ floor' = Set(floor, t, settled)
  /\ vouched' = Set(vouched, t, FALSE)
  /\ Goto(t, "rev")
  /\ UNCHANGED <<store, redis, copies, seen, held, prov, plain, trouble, covered,
                 settled, target, disturbed>>

(* Create, Update, Delete and SetDefault write the database, then refresh.     *)
(* They may leave no provider, or none that is enabled and can chat.          *)
WriteDB(t) ==
  /\ pc[t] = "idle"
  /\ db < MaxEdits
  /\ db' = db + 1
  /\ none' \in BOOLEAN
  /\ target' = Set(target, t, db + 1)
  /\ op' = Set(op, t, "edit")
  /\ vouched' = Set(vouched, t, FALSE)
  /\ Goto(t, "clear")
  /\ UNCHANGED <<redis, copies, stage, seen, held, prov, plain, trouble, covered,
                 settled, floor, disturbed>>

-----------------------------------------------------------------------------
(* Get and GetHot *)

GetRev(t) ==
  /\ pc[t] = "rev"
  /\ \/ Goto(t, "look") /\ seen' = Set(seen, t, rev) /\ UNCHANGED trouble
     \/ Goto(t, "fresh") /\ RedisFails /\ UNCHANGED seen
  /\ UNCHANGED <<store, redis, copies, op, stage, held, prov, plain, vouched,
                 history>>

(* The cache has copy c, with key k beside it: GetActive answers, or goes on   *)
(* in its chat to read once more; GetHot answers when it has a key, else puts  *)
(* the copy back with the key decrypted; the last read of a chat puts the copy *)
(* back with the key of the provider it found before.                          *)
Found(t, c, k, vouch) ==
  /\ stage' = IF stage[t] = "get" /\ op[t] = "chat" THEN Set(stage, t, "again") ELSE stage
  /\ Goto(t, CASE stage[t] = "get" /\ op[t] = "active" -> "idle"
               [] stage[t] = "get" /\ op[t] = "chat" -> "rev"
               [] stage[t] = "hot" /\ k # {} -> "idle"
               [] OTHER -> "put")
  /\ seen' = Set(seen, t, 0)
  /\ held' = Set(held, t, IF pc'[t] = "put" THEN {c} ELSE {})
  /\ plain' = Set(plain, t, IF pc'[t] # "put" THEN {}
                            ELSE IF stage[t] = "again" THEN {prov[t]} ELSE {c.ver})
  /\ IF stage[t] = "again" THEN UNCHANGED <<prov, vouched>>
     ELSE prov' = Set(prov, t, c.ver) /\ vouched' = Set(vouched, t, vouch)

(* It has none: the chat goes on to GetActive, GetActive to the database. *)
Missed(t) ==
  /\ stage' = IF stage[t] = "hot" THEN Set(stage, t, "get") ELSE stage
  /\ Goto(t, CASE stage[t] = "hot" -> "rev"
               [] stage[t] = "get" -> "db"
               [] OTHER -> "idle")
  /\ seen' = Set(seen, t, 0)
  /\ UNCHANGED <<held, plain, prov, vouched>>

Usable(t) ==
  {c \in local[ProcessOf[t]] :
     c.rev = seen[t] /\ (stage[t] = "hot" => key[ProcessOf[t]] # {})}

GetIfRev_Bug(t) ==           \* any copy will do
  /\ pc[t] = "look"
  /\ \/ \E c \in local[ProcessOf[t]] : Found(t, c, key[ProcessOf[t]], TRUE)
     \/ /\ local[ProcessOf[t]] = {}
        /\ Goto(t, "load") /\ UNCHANGED <<stage, seen, held, plain, prov, vouched>>
  /\ UNCHANGED <<store, redis, copies, op, trouble, history>>

GetIfRev(t) ==
  /\ pc[t] = "look"
  /\ \/ \E c \in Usable(t) : Found(t, c, key[ProcessOf[t]], TRUE)
     \/ /\ Usable(t) = {}
        /\ Goto(t, "load") /\ UNCHANGED <<stage, seen, held, plain, prov, vouched>>
  /\ UNCHANGED <<store, redis, copies, op, trouble, history>>

(* The fallback when Redis does not answer. *)
GetIfFresh(t) ==
  LET p == ProcessOf[t] IN
  /\ pc[t] = "fresh"
  /\ \/ \E c \in local[p] : fresh[p] /\ Found(t, c, key[p], FALSE)
     \/ (local[p] = {} \/ ~fresh[p]) /\ Missed(t)
  /\ UNCHANGED <<store, redis, copies, op, trouble, history>>

Load(t) ==
  /\ pc[t] = "load"
  /\ \/ \E c \in remote :
          /\ seen[t] = 0 \/ c.rev = seen[t]
          /\ held' = Set(held, t, {c})
          /\ Goto(t, "keep")
          /\ UNCHANGED <<stage, seen, plain, prov, vouched, trouble>>
     \/ /\ \A c \in remote : seen[t] # 0 /\ c.rev # seen[t]
        /\ Missed(t)
        /\ UNCHANGED trouble
     \/ /\ RedisFails
        /\ IF stage[t] = "hot" THEN Missed(t)
           ELSE Goto(t, "fresh") /\ UNCHANGED <<stage, seen, held, plain, prov, vouched>>
  /\ UNCHANGED <<store, redis, copies, op, history>>

(* What was loaded becomes the local copy, without a key. *)
KeepLoaded(t) ==
  LET p == ProcessOf[t] IN
  /\ pc[t] = "keep"
  /\ local' = Set(local, p, held[t])
  /\ key' = Set(key, p, {})
  /\ fresh' = Set(fresh, p, TRUE)
  /\ \E c \in held[t] : Found(t, c, {}, TRUE)
  /\ UNCHANGED <<store, redis, op, trouble, history>>

-----------------------------------------------------------------------------
(* Filling *)

(* loadActiveFromDB and buildSnapshot.  The first enabled provider is asked    *)
(* for when there is no default: nothing is found if there is none at the      *)
(* second query, and what the second finds while a default is being chosen is  *)
(* the configuration before that edit.  The last query only adds the names of *)
(* models.  An edit that leaves no provider fills nothing, a read fails.      *)
LoadActiveFromDB(t) ==
  /\ pc[t] = "db"
  /\ \/ /\ ~none
        /\ Goto(t, "currev") /\ prov' = Set(prov, t, db)
        /\ vouched' = Set(vouched, t, op[t] # "edit")
        /\ UNCHANGED <<settled, trouble>>
     \/ /\ (none /\ UNCHANGED trouble) \/ QueryFails
        /\ Goto(t, "idle") /\ UNCHANGED <<prov, vouched>>
        /\ settled' = IF op[t] = "edit" /\ target[t] > settled THEN target[t] ELSE settled
  /\ UNCHANGED <<store, redis, copies, op, stage, seen, held, plain,
                 covered, target, floor, disturbed>>

(* CurrentRev: no revision, and no answer, is revision 1. *)
CurrentRev_Bug(t) ==         \* the revision an invalidation would make
  /\ pc[t] = "currev"
  /\ rev < MaxRev
  /\ held' = Set(held, t, {[ver |-> prov[t], rev |-> rev + 1]})
  /\ plain' = Set(plain, t, {})
  /\ Goto(t, "put")
  /\ UNCHANGED <<store, redis, copies, op, stage, seen, prov, vouched, covered,
                 settled, target, floor, trouble, disturbed>>

CurrentRev(t) ==
  /\ pc[t] = "currev"
  /\ \E r \in {rev, 0} :
       LET s == IF r = 0 THEN 1 ELSE r IN
       /\ \/ r = rev /\ UNCHANGED trouble
          \/ r = 0 /\ RedisFails
       /\ held' = Set(held, t, {[ver |-> prov[t], rev |-> s]})
       /\ disturbed' = (disturbed \/ prov[t] < covered[s])   \* a late fill
  /\ plain' = Set(plain, t, {})
  /\ Goto(t, "put")
  /\ UNCHANGED <<store, redis, copies, op, stage, seen, prov, vouched, covered,
                 settled, target, floor>>

PutHot(t) ==
  LET p == ProcessOf[t] IN
  /\ pc[t] = "put"
  /\ local' = Set(local, p, held[t])
  /\ key' = Set(key, p, plain[t])
  /\ fresh' = Set(fresh, p, TRUE)
  /\ Goto(t, "save")
  /\ UNCHANGED <<store, redis, frame, trouble, history>>

(* Save writes the copy and its revision in one transaction.  Then a chat that *)
(* came through GetActive reads once more, an edit returns.                   *)
Save(t) ==
  /\ pc[t] = "save"
  /\ \/ \E c \in held[t] :
          /\ rev' = c.rev
          /\ remote' = {c}
          /\ disturbed' = (disturbed \/ c.rev # rev)        \* a late save
          /\ UNCHANGED trouble
     \/ RedisFails /\ UNCHANGED <<redis, disturbed>>
  /\ IF op[t] = "chat" /\ stage[t] = "get"
     THEN Goto(t, "rev") /\ stage' = Set(stage, t, "again")
     ELSE Goto(t, "idle") /\ UNCHANGED stage
  /\ held' = Set(held, t, {})
  /\ plain' = Set(plain, t, {})
  /\ settled' = IF op[t] = "edit" /\ target[t] > settled THEN target[t] ELSE settled
  /\ UNCHANGED <<store, copies, op, seen, prov, vouched, covered,
                 target, floor>>

-----------------------------------------------------------------------------
(* Invalidate *)

Clear(t) ==
  LET p == ProcessOf[t] IN
  /\ pc[t] = "clear"
  /\ local' = Set(local, p, {})
  /\ key' = Set(key, p, {})
  /\ fresh' = Set(fresh, p, FALSE)
  /\ Goto(t, "incr")
  /\ UNCHANGED <<store, redis, frame, trouble, history>>

(* BumpRev's increment.  If it fails the snapshot is not deleted either, and   *)
(* the edit goes on as if nothing had happened.                               *)
Incr(t) ==
  /\ pc[t] = "incr"
  /\ \/ /\ rev < MaxRev
        /\ rev' = rev + 1
        /\ covered' = [covered EXCEPT ![rev + 1] = db]
        /\ Goto(t, "del")
        /\ UNCHANGED <<trouble, disturbed>>
     \/ /\ RedisFails
        /\ disturbed' = TRUE                                \* a lost bump
        /\ Goto(t, "db")
        /\ UNCHANGED <<rev, covered>>
  /\ UNCHANGED <<store, remote, copies, frame, settled, target, floor>>

Del(t) ==
  /\ pc[t] = "del"
  /\ \/ remote' = {} /\ UNCHANGED trouble
     \/ RedisFails /\ UNCHANGED remote
  /\ Goto(t, "db")
  /\ UNCHANGED <<store, rev, copies, frame, history>>

-----------------------------------------------------------------------------
(* Time *)

LocalExpires(p) ==
  /\ fresh[p]
  /\ fresh' = Set(fresh, p, FALSE)
  /\ UNCHANGED <<store, redis, local, key, pc, frame, trouble, history>>

(* Both keys live 600 s; the revision's time is renewed last. *)
SnapshotExpires ==
  /\ remote # {} /\ trouble < MaxTrouble
  /\ trouble' = trouble + 1
  /\ remote' = {}
  /\ UNCHANGED <<store, rev, copies, pc, frame, history>>

RevExpires ==
  /\ rev # 0 /\ trouble < MaxTrouble
  /\ trouble' = trouble + 1
  /\ rev' = 0
  /\ remote' = {}
  /\ disturbed' = TRUE                                      \* ten idle minutes
  /\ UNCHANGED <<store, copies, pc, frame, covered, settled, target, floor>>

-----------------------------------------------------------------------------
(* The processes have started, the last of them has refreshed the cache. *)
Init ==
  /\ db = 0
  /\ none = FALSE
  /\ rev = 1
  /\ remote = {[ver |-> 0, rev |-> 1]}
  /\ local = [p \in Process |-> {}]
  /\ key = [p \in Process |-> {}]
  /\ fresh = [p \in Process |-> FALSE]
  /\ pc = [t \in Thread |-> "idle"]
  /\ op = [t \in Thread |-> "active"]
  /\ stage = [t \in Thread |-> "get"]
  /\ seen = [t \in Thread |-> 0]
  /\ held = [t \in Thread |-> {}]
  /\ prov = [t \in Thread |-> 0]
  /\ plain = [t \in Thread |-> {}]
  /\ vouched = [t \in Thread |-> FALSE]
  /\ trouble = 0
  /\ covered = [r \in Rev |-> 0]
  /\ settled = 0
  /\ target = [t \in Thread |-> 0]
  /\ floor = [t \in Thread |-> 0]
  /\ disturbed = FALSE

Step(t) ==
  \/ \E o \in {"active", "chat"} : BeginRead(t, o)
  \/ WriteDB(t)
  \/ GetRev(t) \/ GetIfRev(t) \/ GetIfFresh(t) \/ Load(t) \/ KeepLoaded(t)
  \/ LoadActiveFromDB(t) \/ CurrentRev(t) \/ PutHot(t) \/ Save(t)
  \/ Clear(t) \/ Incr(t) \/ Del(t)

Next ==
  \/ \E t \in Thread : Step(t)
  \/ \E p \in Process : LocalExpires(p)
  \/ SnapshotExpires
  \/ RevExpires

Spec == Init /\ [][Next]_vars
-----------------------------------------------------------------------------
(* Properties *)

(* The values every variable ranges over. *)
TypeOK ==
  /\ db \in Version
  /\ none \in BOOLEAN
  /\ rev \in Rev
  /\ remote \in SUBSET Copy
  /\ local \in [Process -> SUBSET Copy]
  /\ key \in [Process -> SUBSET Version]
  /\ fresh \in [Process -> BOOLEAN]
  /\ pc \in [Thread -> Pcs]
  /\ op \in [Thread -> {"active", "chat", "edit"}]
  /\ stage \in [Thread -> {"hot", "get", "again"}]
  /\ seen \in [Thread -> Rev]
  /\ held \in [Thread -> SUBSET Copy]
  /\ prov \in [Thread -> Version]
  /\ plain \in [Thread -> SUBSET Version]
  /\ vouched \in [Thread -> BOOLEAN]
  /\ trouble \in Nat
  /\ covered \in [Rev -> Version]
  /\ settled \in Version
  /\ target \in [Thread -> Version]
  /\ floor \in [Thread -> Version]
  /\ disturbed \in BOOLEAN

(* A read that was answered by the database, or by a copy whose revision was  *)
(* compared with Redis's, contains every edit that had returned when it began *)
(* (the claim of cache.go:9-10 and local.go:10-11).                           *)
ReadsAreCurrent == \A t \in Thread : vouched[t] => prov[t] >= floor[t]

(* The claim holds as long as no fill ends after an edit it began before, no  *)
(* save takes the revision back, no increment is lost and no revision expires:*)
(* these four are all that can make a read stale.                             *)
ReadsAreCurrentUndisturbed == ~disturbed => ReadsAreCurrent

(* What a revision promises, as long as nothing of the four happens: a copy   *)
(* tagged with it, wherever it lies, contains every edit it covers, and it    *)
(* covers every edit that has returned.                                       *)
RevisionsCover ==
  ~disturbed =>
    /\ settled <= covered[rev]
    /\ \A p \in Process : \A c \in local[p] \cup remote : c.ver >= covered[c.rev]

(* The decrypted key kept beside a copy is that copy's (cache.go:64).         *)
KeyBelongsToCopy ==
  \A p \in Process : \A c \in local[p] : \A k \in key[p] : k = c.ver
================================================================================
