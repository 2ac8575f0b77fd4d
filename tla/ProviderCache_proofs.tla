-------------------------- MODULE ProviderCache_proofs -------------------------
(***************************************************************************)
(* Theorems about ProviderCache, for any processes and goroutines and any  *)
(* bounds.                                                                 *)
(***************************************************************************)
EXTENDS ProviderCache, TLAPS

USE CacheAssumption DEF store, QueryFails

(* The variables of the model keep their types under every step. *)
THEOREM TypeCorrect == Spec => []TypeOK
<1> USE DEF TypeOK, Pcs, Goto, Set, RedisFails
<1>1. Init => TypeOK
  <2>1. 0 \in Version /\ 0 \in Rev /\ 1 \in Rev
    BY DEF Version, Rev
  <2>2. [ver |-> 0, rev |-> 1] \in Copy
    BY <2>1 DEF Copy
  <2>3. ASSUME Init PROVE remote \in SUBSET Copy
    BY <2>2, <2>3 DEF Init
  <2>4. ASSUME Init PROVE disturbed \in BOOLEAN /\ fresh \in [Process -> BOOLEAN]
    BY <2>4 DEF Init
  <2>5. ASSUME Init
        PROVE  /\ local \in [Process -> SUBSET Copy] /\ held \in [Thread -> SUBSET Copy]
               /\ key \in [Process -> SUBSET Version]
               /\ plain \in [Thread -> SUBSET Version]
    BY <2>5 DEF Init
  <2>6. ASSUME Init
        PROVE  /\ pc \in [Thread -> Pcs] /\ op \in [Thread -> {"active", "chat", "edit"}]
               /\ stage \in [Thread -> {"hot", "get", "again"}]
    BY <2>6 DEF Init
  <2>7. ASSUME Init
        PROVE  /\ seen \in [Thread -> Rev] /\ prov \in [Thread -> Version]
               /\ covered \in [Rev -> Version] /\ target \in [Thread -> Version]
               /\ floor \in [Thread -> Version] /\ vouched \in [Thread -> BOOLEAN]
    BY <2>1, <2>7 DEF Init
  <2>8. ASSUME Init
        PROVE  /\ db \in Version /\ none \in BOOLEAN /\ rev \in Rev
               /\ settled \in Version /\ trouble \in Nat
    BY <2>1, <2>8 DEF Init
  <2>9. QED BY <2>3, <2>4, <2>5, <2>6, <2>7, <2>8
<1>2. TypeOK /\ [Next]_vars => TypeOK'
  <2> SUFFICES ASSUME TypeOK, [Next]_vars PROVE TypeOK'
    OBVIOUS
  <2>1. ASSUME NEW t \in Thread, NEW o \in {"active", "chat"}, BeginRead(t, o)
        PROVE  TypeOK'
    BY <2>1 DEF BeginRead, redis, copies
  <2>2. ASSUME NEW t \in Thread, WriteDB(t) PROVE TypeOK'
    <3>1. db + 1 \in Version
      BY <2>2 DEF WriteDB, Version
    <3>2. QED BY <2>2, <3>1 DEF WriteDB, redis, copies
  <2>3. ASSUME NEW t \in Thread, GetRev(t) PROVE TypeOK'
    BY <2>3 DEF GetRev, redis, copies, history
  <2>4. ASSUME NEW t \in Thread, NEW c \in Copy, NEW k \in SUBSET Version,
               NEW v \in BOOLEAN, Found(t, c, k, v)
        PROVE  /\ pc' \in [Thread -> Pcs] /\ seen' \in [Thread -> Rev]
               /\ stage' \in [Thread -> {"hot", "get", "again"}]
               /\ held' \in [Thread -> SUBSET Copy] /\ prov' \in [Thread -> Version]
               /\ plain' \in [Thread -> SUBSET Version]
               /\ vouched' \in [Thread -> BOOLEAN]
    <3>1. c.ver \in Version /\ 0 \in Rev
      BY DEF Copy, Rev
    <3>2. /\ pc' \in [Thread -> Pcs] /\ stage' \in [Thread -> {"hot", "get", "again"}]
          /\ seen' \in [Thread -> Rev] /\ held' \in [Thread -> SUBSET Copy]
      BY <2>4, <3>1 DEF Found
    <3>3. plain' \in [Thread -> SUBSET Version]
      BY <2>4, <3>1 DEF Found
    <3>4. prov' \in [Thread -> Version] /\ vouched' \in [Thread -> BOOLEAN]
      BY <2>4, <3>1 DEF Found
    <3>5. QED BY <3>2, <3>3, <3>4
  <2>5. ASSUME NEW t \in Thread, Missed(t)
        PROVE  /\ pc' \in [Thread -> Pcs] /\ seen' \in [Thread -> Rev]
               /\ stage' \in [Thread -> {"hot", "get", "again"}]
               /\ held' \in [Thread -> SUBSET Copy] /\ prov' \in [Thread -> Version]
               /\ plain' \in [Thread -> SUBSET Version]
               /\ vouched' \in [Thread -> BOOLEAN]
    BY <2>5 DEF Missed, Rev
  <2>6. ASSUME NEW t \in Thread, GetIfRev(t) PROVE TypeOK'
    <3>1. CASE \E c \in Usable(t) : Found(t, c, key[ProcessOf[t]], TRUE)
      BY <2>4, <2>6, <3>1 DEF GetIfRev, Usable, redis, copies, history
    <3>2. CASE Goto(t, "load") /\ UNCHANGED <<stage, seen, held, plain, prov, vouched>>
      BY <2>6, <3>2 DEF GetIfRev, redis, copies, history
    <3>3. QED BY <2>6, <3>1, <3>2 DEF GetIfRev
  <2>7. ASSUME NEW t \in Thread, GetIfFresh(t) PROVE TypeOK'
    BY <2>4, <2>5, <2>7 DEF GetIfFresh, redis, copies, history
  <2>8. ASSUME NEW t \in Thread, Load(t) PROVE TypeOK'
    <3>1. CASE Missed(t)
      BY <2>5, <2>8, <3>1 DEF Load, redis, copies, history
    <3>2. CASE ~Missed(t)
      BY <2>8, <3>2 DEF Load, redis, copies, history
    <3>3. QED BY <3>1, <3>2
  <2>9. ASSUME NEW t \in Thread, KeepLoaded(t) PROVE TypeOK'
    <3>1. PICK c \in held[t] : Found(t, c, {}, TRUE)
      BY <2>9 DEF KeepLoaded
    <3>2. QED BY <2>4, <2>9, <3>1 DEF KeepLoaded, redis, history
  <2>10. ASSUME NEW t \in Thread, LoadActiveFromDB(t) PROVE TypeOK'
    <3>1. vouched' \in [Thread -> BOOLEAN]
      <4>1. (op[t] # "edit") \in BOOLEAN
        OBVIOUS
      <4>2. QED BY <2>10, <4>1 DEF LoadActiveFromDB
    <3>2. settled' \in Version /\ prov' \in [Thread -> Version]
      BY <2>10 DEF LoadActiveFromDB
    <3>3. QED BY <2>10, <3>1, <3>2 DEF LoadActiveFromDB, redis, copies
  <2>11. ASSUME NEW t \in Thread, CurrentRev(t) PROVE TypeOK'
    <3>1. PICK r \in {rev, 0} :
            /\ held' = Set(held, t, {[ver |-> prov[t], rev |-> IF r = 0 THEN 1 ELSE r]})
            /\ disturbed' = (disturbed \/ prov[t] < covered[IF r = 0 THEN 1 ELSE r])
            /\ trouble' \in {trouble, trouble + 1}
      BY <2>11 DEF CurrentRev
    <3>2. [ver |-> prov[t], rev |-> IF r = 0 THEN 1 ELSE r] \in Copy
      BY DEF Copy, Rev
    <3>3. held' \in [Thread -> SUBSET Copy]
      BY <3>1, <3>2
    <3>4. disturbed' \in BOOLEAN
      BY <3>1
    <3>5. QED BY <2>11, <3>1, <3>3, <3>4 DEF CurrentRev, redis, copies
  <2>12. ASSUME NEW t \in Thread, PutHot(t) PROVE TypeOK'
    BY <2>12 DEF PutHot, redis, frame, history
  <2>13. ASSUME NEW t \in Thread, Save(t) PROVE TypeOK'
    <3>1. rev' \in Rev /\ remote' \in SUBSET Copy /\ trouble' \in Nat
      BY <2>13 DEF Save, redis, Copy
    <3>2. disturbed' \in BOOLEAN
      BY <2>13 DEF Save
    <3>3. settled' \in Version /\ stage' \in [Thread -> {"hot", "get", "again"}]
      BY <2>13 DEF Save
    <3>4. QED BY <2>13, <3>1, <3>2, <3>3 DEF Save, copies
  <2>14. ASSUME NEW t \in Thread, Clear(t) PROVE TypeOK'
    BY <2>14 DEF Clear, redis, frame, history
  <2>15. ASSUME NEW t \in Thread, Incr(t) PROVE TypeOK'
    <3>1. rev < MaxRev => rev + 1 \in Rev
      BY DEF Rev
    <3>2. rev' \in Rev /\ trouble' \in Nat
      BY <2>15, <3>1 DEF Incr
    <3>b. disturbed' \in BOOLEAN
      BY <2>15 DEF Incr
    <3>3. covered' \in [Rev -> Version]
      BY <2>15, <3>1 DEF Incr
    <3>4. QED BY <2>15, <3>2, <3>b, <3>3 DEF Incr, copies, frame
  <2>16. ASSUME NEW t \in Thread, Del(t) PROVE TypeOK'
    BY <2>16 DEF Del, copies, frame, history
  <2>17. ASSUME NEW p \in Process, LocalExpires(p) PROVE TypeOK'
    BY <2>17 DEF LocalExpires, redis, frame, history
  <2>18. CASE SnapshotExpires
    BY <2>18 DEF SnapshotExpires, copies, frame, history
  <2>19. CASE RevExpires
    BY <2>19 DEF RevExpires, copies, frame, Rev
  <2>20. CASE UNCHANGED vars
    BY <2>20 DEF vars, redis, copies, frame, history
  <2>21. QED
    BY <2>1, <2>2, <2>3, <2>6, <2>7, <2>8, <2>9, <2>10, <2>11, <2>12, <2>13, <2>14,
       <2>15, <2>16, <2>17, <2>18, <2>19, <2>20 DEF Next, Step
<1>3. QED BY <1>1, <1>2, PTL DEF Spec

-----------------------------------------------------------------------------
(* A copy contains what the revision it is tagged with covers, and no copy is  *)
(* tagged with a revision still to come.                                      *)
Good(c) == c.rev <= rev /\ c.ver >= covered[c.rev]

(* A goroutine: what it has read of the cache is not older than what had       *)
(* returned when it began; an edit past its increment is covered.             *)
ThreadOK(t) ==
  /\ floor[t] <= settled
  /\ target[t] <= db
  /\ \A c \in held[t] : Good(c)
  /\ pc[t] \in {"rev", "look", "fresh", "load", "keep"} => op[t] # "edit"
  /\ pc[t] \in {"look", "load"} => seen[t] \in 1 .. rev /\ covered[seen[t]] >= floor[t]
  /\ pc[t] = "keep" => \A c \in held[t] : c.ver >= floor[t]
  /\ op[t] = "edit" /\ pc[t] \in {"del", "db", "currev", "put", "save"}
       => target[t] <= covered[rev]
  /\ vouched[t] => prov[t] >= floor[t]

StoreOK ==
  /\ rev >= 1
  /\ settled <= covered[rev]
  /\ settled <= db
  /\ \A c \in remote : Good(c)
  /\ \A p \in Process : \A c \in local[p] : Good(c)

Inv == ~disturbed => StoreOK /\ \A t \in Thread : ThreadOK(t)

(* A goroutine at rest while others move, without a new revision. *)
LEMMA OthersKeep ==
  ASSUME TypeOK, NEW t \in Thread, ThreadOK(t), UNCHANGED <<rev, covered>>,
         settled' \in Version, settled' >= settled, db' \in Version, db' >= db,
         floor'[t] = floor[t], target'[t] = target[t], held'[t] = held[t],
         pc'[t] = pc[t], seen'[t] = seen[t], op'[t] = op[t], vouched'[t] = vouched[t],
         prov'[t] = prov[t]
  PROVE  ThreadOK(t)'
BY DEF ThreadOK, Good, TypeOK, Version

(* The cache answers goroutine t with a good copy c. *)
LEMMA FoundKeeps ==
  ASSUME TypeOK, NEW t \in Thread, ThreadOK(t), NEW c \in Copy, NEW k, NEW v \in BOOLEAN,
         Good(c), v => c.ver >= floor[t], Found(t, c, k, v), op[t] # "edit",
         UNCHANGED <<db, rev, op, trouble, history>>
  PROVE  ThreadOK(t)'
<1>1. pc'[t] \in {"idle", "rev", "put"}
  BY DEF Found, Goto, Set, TypeOK
<1>2. held'[t] \in {{}, {c}}
  BY DEF Found, Set, TypeOK
<1>3. vouched'[t] => prov'[t] >= floor[t]
  BY DEF Found, Set, TypeOK, ThreadOK
<1>4. \A e \in held'[t] : Good(e)
  BY <1>2
<1>5. QED BY <1>1, <1>3, <1>4 DEF ThreadOK, Good, history

(* The cache has nothing for goroutine t. *)
LEMMA MissedKeeps ==
  ASSUME TypeOK, NEW t \in Thread, ThreadOK(t), Missed(t), op[t] # "edit",
         UNCHANGED <<db, rev, op, history>>
  PROVE  ThreadOK(t)'
<1>1. pc'[t] \in {"idle", "rev", "db"}
  BY DEF Missed, Goto, Set, TypeOK
<1>2. QED BY <1>1 DEF Missed, ThreadOK, Good, history

(* Disturbance is not forgotten. *)
LEMMA Remembered ==
  ASSUME TypeOK, [Next]_vars, ~disturbed'
  PROVE  ~disturbed
BY DEF TypeOK, Next, Step, BeginRead, WriteDB, GetRev, GetIfRev, GetIfFresh, Load,
       KeepLoaded, LoadActiveFromDB, CurrentRev, PutHot, Save, Clear, Incr, Del,
       LocalExpires, SnapshotExpires, RevExpires, history, vars

(* The goroutines a step is not of. *)
LEMMA OthersUntouched ==
  ASSUME TypeOK, NEW t \in Thread, Step(t), NEW e \in Thread, e # t
  PROVE  /\ floor'[e] = floor[e] /\ target'[e] = target[e] /\ held'[e] = held[e]
         /\ pc'[e] = pc[e] /\ seen'[e] = seen[e] /\ op'[e] = op[e]
         /\ vouched'[e] = vouched[e] /\ prov'[e] = prov[e]
<1> USE DEF TypeOK, Goto, Set
<1>1. floor'[e] = floor[e] /\ target'[e] = target[e]
  BY DEF Step, BeginRead, WriteDB, GetRev, GetIfRev, GetIfFresh, Load, KeepLoaded,
         LoadActiveFromDB, CurrentRev, PutHot, Save, Clear, Incr, Del, history
<1>2. op'[e] = op[e]
  BY DEF Step, BeginRead, WriteDB, GetRev, GetIfRev, GetIfFresh, Load, KeepLoaded,
         LoadActiveFromDB, CurrentRev, PutHot, Save, Clear, Incr, Del, frame
<1>3. pc'[e] = pc[e]
  BY DEF Step, BeginRead, WriteDB, GetRev, GetIfRev, GetIfFresh, Load, KeepLoaded,
         LoadActiveFromDB, CurrentRev, PutHot, Save, Clear, Incr, Del, Found, Missed
<1>4. held'[e] = held[e]
  BY DEF Step, BeginRead, WriteDB, GetRev, GetIfRev, GetIfFresh, Load, KeepLoaded,
         LoadActiveFromDB, CurrentRev, PutHot, Save, Clear, Incr, Del, Found, Missed,
         frame
<1>5. seen'[e] = seen[e]
  BY DEF Step, BeginRead, WriteDB, GetRev, GetIfRev, GetIfFresh, Load, KeepLoaded,
         LoadActiveFromDB, CurrentRev, PutHot, Save, Clear, Incr, Del, Found, Missed,
         frame
<1>6. vouched'[e] = vouched[e] /\ prov'[e] = prov[e]
  BY DEF Step, BeginRead, WriteDB, GetRev, GetIfRev, GetIfFresh, Load, KeepLoaded,
         LoadActiveFromDB, CurrentRev, PutHot, Save, Clear, Incr, Del, Found, Missed,
         frame
<1>7. QED BY <1>1, <1>2, <1>3, <1>4, <1>5, <1>6

(* Only an increment changes the revision, as long as nothing disturbs it. *)
LEMMA SameRev ==
  ASSUME TypeOK, NEW t \in Thread, Step(t), ~Incr(t), ~disturbed'
  PROVE  UNCHANGED <<rev, covered>> /\ settled' >= settled /\ db' >= db
<1> USE DEF TypeOK, Version
<1>1. UNCHANGED <<rev, covered>>
  BY DEF Step, BeginRead, WriteDB, GetRev, GetIfRev, GetIfFresh, Load, KeepLoaded,
         LoadActiveFromDB, CurrentRev, PutHot, Save, Clear, Del, history, redis
<1>2. settled' >= settled
  <2>1. settled' = settled \/ (target[t] > settled /\ settled' = target[t])
    BY DEF Step, BeginRead, WriteDB, GetRev, GetIfRev, GetIfFresh, Load, KeepLoaded,
           LoadActiveFromDB, CurrentRev, PutHot, Save, Clear, Del, history
  <2>2. settled \in Int /\ target[t] \in Int
    OBVIOUS
  <2>3. QED BY <2>1, <2>2
<1>3. db' >= db
  <2>1. db' = db \/ db' = db + 1
    BY DEF Step, BeginRead, WriteDB, GetRev, GetIfRev, GetIfFresh, Load, KeepLoaded,
           LoadActiveFromDB, CurrentRev, PutHot, Save, Clear, Del
  <2>2. QED BY <2>1
<1>4. QED BY <1>1, <1>2, <1>3

(* A goroutine's own step, other than the increment. *)
LEMMA OwnStep ==
  ASSUME TypeOK, TypeOK', StoreOK, NEW t \in Thread, ThreadOK(t), Step(t), ~Incr(t),
         ~disturbed, ~disturbed'
  PROVE  ThreadOK(t)'
<1> USE DEF Goto, Set
<1>t. /\ \A u \in Thread : floor[u] \in Int /\ target[u] \in Int /\ prov[u] \in Int
      /\ settled \in Int /\ db \in Int /\ rev \in Int
      /\ \A r \in Rev : covered[r] \in Int
  <2>1. Version \subseteq Int /\ Rev \subseteq Int
    BY DEF Version, Rev
  <2>2. QED BY <2>1 DEF TypeOK
<1>r. UNCHANGED <<rev, covered>>
  BY SameRev
<1>1. ASSUME NEW o \in {"active", "chat"}, BeginRead(t, o) PROVE ThreadOK(t)'
  BY <1>1, <1>t, <1>r DEF BeginRead, ThreadOK, StoreOK, Good, TypeOK
<1>2. CASE WriteDB(t)
  BY <1>2, <1>t, <1>r DEF WriteDB, ThreadOK, StoreOK, Good, TypeOK
<1>3. CASE GetRev(t)
  BY <1>3, <1>t, <1>r DEF GetRev, ThreadOK, StoreOK, Good, TypeOK, history, Rev
<1>4. CASE GetIfRev(t)
  <2>1. op[t] # "edit"
    BY <1>4 DEF GetIfRev, ThreadOK
  <2>2. ASSUME NEW c \in Usable(t), Found(t, c, key[ProcessOf[t]], TRUE)
        PROVE  ThreadOK(t)'
    <3>1. c \in Copy /\ Good(c)
      BY DEF Usable, TypeOK, StoreOK
    <3>2. c.ver >= floor[t]
      <4>1. c.rev = seen[t] /\ covered[seen[t]] >= floor[t] /\ c.ver >= covered[c.rev]
        BY <1>4, <3>1 DEF GetIfRev, ThreadOK, Usable, Good
      <4>2. c.ver \in Int /\ covered[c.rev] \in Int
        BY <3>1, <1>t DEF Copy, Version
      <4>3. QED BY <4>1, <4>2, <1>t
    <3>3. QED BY <1>4, <2>1, <2>2, <3>1, <3>2, FoundKeeps DEF GetIfRev, redis
  <2>3. CASE Goto(t, "load") /\ UNCHANGED <<stage, seen, held, plain, prov, vouched>>
    BY <1>4, <2>3, <1>r DEF GetIfRev, ThreadOK, Good, TypeOK, history
  <2>4. QED BY <1>4, <2>2, <2>3 DEF GetIfRev
<1>5. CASE GetIfFresh(t)
  <2>1. op[t] # "edit"
    BY <1>5 DEF GetIfFresh, ThreadOK
  <2>2. ASSUME NEW c \in local[ProcessOf[t]], Found(t, c, key[ProcessOf[t]], FALSE)
        PROVE  ThreadOK(t)'
    <3>1. c \in Copy /\ Good(c)
      BY DEF TypeOK, StoreOK
    <3>2. QED BY <1>5, <2>1, <2>2, <3>1, FoundKeeps DEF GetIfFresh, redis
  <2>3. CASE Missed(t)
    BY <1>5, <2>1, <2>3, MissedKeeps DEF GetIfFresh, redis
  <2>4. QED BY <1>5, <2>2, <2>3 DEF GetIfFresh
<1>6. CASE Load(t)
  <2>1. op[t] # "edit" /\ UNCHANGED <<db, rev, op, history>>
    BY <1>6 DEF Load, ThreadOK, redis
  <2>2. CASE Missed(t)
    BY <2>1, <2>2, MissedKeeps
  <2>3. ASSUME NEW c \in remote, seen[t] = 0 \/ c.rev = seen[t],
               held' = Set(held, t, {c}), Goto(t, "keep"),
               UNCHANGED <<stage, seen, plain, prov, vouched>>
        PROVE  ThreadOK(t)'
    <3>1. c \in Copy /\ Good(c)
      BY DEF TypeOK, StoreOK
    <3>2. c.rev = seen[t] /\ covered[seen[t]] >= floor[t]
      BY <1>6, <2>3, <1>t DEF Load, ThreadOK
    <3>3. c.ver >= floor[t]
      <4>1. c.ver \in Int /\ covered[c.rev] \in Int
        BY <3>1, <1>t DEF Copy, Version
      <4>2. QED BY <3>1, <3>2, <4>1, <1>t DEF Good
    <3>4. held'[t] = {c} /\ pc'[t] = "keep"
      BY <2>3 DEF TypeOK
    <3>5. QED BY <2>1, <2>3, <3>1, <3>3, <3>4 DEF ThreadOK, Good, history
  <2>4. CASE Goto(t, "fresh") /\ UNCHANGED <<stage, seen, held, plain, prov, vouched>>
    BY <2>1, <2>4 DEF ThreadOK, Good, TypeOK, history
  <2>5. QED BY <1>6, <2>2, <2>3, <2>4 DEF Load
<1>7. CASE KeepLoaded(t)
  <2>1. PICK c \in held[t] : Found(t, c, {}, TRUE)
    BY <1>7 DEF KeepLoaded
  <2>2. op[t] # "edit" /\ Good(c) /\ c.ver >= floor[t] /\ c \in Copy
    BY <1>7 DEF KeepLoaded, ThreadOK, TypeOK
  <2>3. QED BY <1>7, <2>1, <2>2, FoundKeeps DEF KeepLoaded, redis
<1>8. CASE LoadActiveFromDB(t)
  <2>1. floor[t] <= settled /\ settled <= db /\ target[t] <= db
    BY DEF ThreadOK, StoreOK
  <2>2. settled' >= settled /\ settled' \in Int
    BY SameRev DEF TypeOK, Version
  <2>3. floor'[t] <= settled'
    BY <1>8, <2>1, <2>2, <1>t DEF LoadActiveFromDB
  <2>4. vouched'[t] => prov'[t] >= floor[t]
    <3>1. CASE prov' = Set(prov, t, db)
      BY <2>1, <3>1, <1>t DEF TypeOK
    <3>2. CASE UNCHANGED <<prov, vouched>>
      BY <3>2 DEF ThreadOK
    <3>3. QED BY <1>8, <3>1, <3>2 DEF LoadActiveFromDB
  <2>5. pc'[t] \in {"currev", "idle"}
    BY <1>8 DEF LoadActiveFromDB, TypeOK
  <2>6. QED BY <1>8, <1>r, <2>3, <2>4, <2>5 DEF LoadActiveFromDB, ThreadOK, Good
<1>9. CASE CurrentRev(t)
  <2>1. PICK r \in {rev, 0} :
          /\ held' = Set(held, t, {[ver |-> prov[t], rev |-> IF r = 0 THEN 1 ELSE r]})
          /\ disturbed' = (disturbed \/ prov[t] < covered[IF r = 0 THEN 1 ELSE r])
    BY <1>9 DEF CurrentRev
  <2>2. rev >= 1 /\ (IF r = 0 THEN 1 ELSE r) \in Rev
    BY DEF StoreOK, TypeOK, Rev
  <2>3. Good([ver |-> prov[t], rev |-> IF r = 0 THEN 1 ELSE r])
    <3>1. (IF r = 0 THEN 1 ELSE r) <= rev
      BY <2>2, <1>t
    <3>2. prov[t] >= covered[IF r = 0 THEN 1 ELSE r]
      <4>1. ~(prov[t] < covered[IF r = 0 THEN 1 ELSE r])
        BY <2>1
      <4>2. QED BY <2>2, <4>1, <1>t
    <3>3. QED BY <3>1, <3>2 DEF Good
  <2>4. \A c \in held'[t] : Good(c)
    BY <2>1, <2>3 DEF TypeOK
  <2>5. pc'[t] = "put"
    BY <1>9 DEF CurrentRev, TypeOK
  <2>6. QED BY <1>9, <1>r, <2>4, <2>5 DEF CurrentRev, ThreadOK, Good
<1>10. CASE PutHot(t)
  BY <1>10, <1>r DEF PutHot, ThreadOK, Good, TypeOK, frame, history
<1>11. CASE Save(t)
  <2>1. settled' >= settled /\ settled' \in Int
    BY SameRev DEF TypeOK, Version
  <2>2. floor'[t] <= settled'
    BY <1>11, <2>1, <1>t DEF Save, ThreadOK
  <2>3. pc'[t] \in {"rev", "idle"} /\ (pc'[t] = "rev" => op[t] # "edit")
    BY <1>11 DEF Save, TypeOK
  <2>4. held'[t] = {}
    BY <1>11 DEF Save, TypeOK
  <2>5. QED BY <1>11, <1>r, <2>2, <2>3, <2>4 DEF Save, ThreadOK, Good
<1>12. CASE Clear(t)
  BY <1>12, <1>r DEF Clear, ThreadOK, Good, TypeOK, frame, history
<1>13. CASE Del(t)
  BY <1>13, <1>r DEF Del, ThreadOK, Good, TypeOK, frame, history
<1>14. QED
  BY <1>1, <1>2, <1>3, <1>4, <1>5, <1>6, <1>7, <1>8, <1>9, <1>10, <1>11, <1>12, <1>13
     DEF Step

(* What the caches hold, after a step other than the increment. *)
LEMMA StoreStep ==
  ASSUME TypeOK, TypeOK', StoreOK, NEW t \in Thread, ThreadOK(t), Step(t), ~Incr(t),
         ~disturbed, ~disturbed'
  PROVE  StoreOK'
<1> USE DEF Goto, Set
<1>r. UNCHANGED <<rev, covered>>
  BY SameRev
<1>t. /\ \A u \in Thread : target[u] \in Int
      /\ settled \in Int /\ db \in Int /\ db' \in Int /\ covered[rev] \in Int
  <2>1. Version \subseteq Int
    BY DEF Version
  <2>2. QED BY <2>1 DEF TypeOK
<1>1. \A c \in remote' : Good(c)
  <2>1. remote' = remote \/ remote' = {} \/ (\E c \in held[t] : remote' = {c})
    BY DEF Step, BeginRead, WriteDB, GetRev, GetIfRev, GetIfFresh, Load, KeepLoaded,
           LoadActiveFromDB, CurrentRev, PutHot, Save, Clear, Del, redis
  <2>2. QED BY <2>1 DEF StoreOK, ThreadOK
<1>2. \A p \in Process : \A c \in local'[p] : Good(c)
  <2>1. local' = local \/ (\E p \in Process : local' = Set(local, p, held[t]))
          \/ (\E p \in Process : local' = Set(local, p, {}))
    BY DEF Step, BeginRead, WriteDB, GetRev, GetIfRev, GetIfFresh, Load, KeepLoaded,
           LoadActiveFromDB, CurrentRev, PutHot, Save, Clear, Del, copies
  <2>2. QED BY <2>1 DEF StoreOK, ThreadOK, TypeOK
<1>3. settled' <= covered[rev]
  <2>1. settled' = settled \/ (op[t] = "edit" /\ pc[t] \in {"db", "save"}
                               /\ settled' = target[t])
    BY DEF Step, BeginRead, WriteDB, GetRev, GetIfRev, GetIfFresh, Load, KeepLoaded,
           LoadActiveFromDB, CurrentRev, PutHot, Save, Clear, Del, history
  <2>2. QED BY <2>1 DEF StoreOK, ThreadOK
<1>4. settled' <= db'
  <2>1. settled' = settled \/ settled' = target[t]
    BY DEF Step, BeginRead, WriteDB, GetRev, GetIfRev, GetIfFresh, Load, KeepLoaded,
           LoadActiveFromDB, CurrentRev, PutHot, Save, Clear, Del, history
  <2>2. db' >= db
    BY SameRev
  <2>3. QED BY <2>1, <2>2, <1>t DEF StoreOK, ThreadOK
<1>5. QED BY <1>r, <1>1, <1>2, <1>3, <1>4 DEF StoreOK, Good

(* The increment: the new revision covers the database as it is. *)
LEMMA IncrStep ==
  ASSUME TypeOK, TypeOK', StoreOK, \A u \in Thread : ThreadOK(u),
         NEW t \in Thread, Incr(t), ~disturbed'
  PROVE  StoreOK' /\ \A u \in Thread : ThreadOK(u)'
<1> USE DEF Goto, Set
<1>1. /\ rev' = rev + 1
      /\ covered' = [covered EXCEPT ![rev + 1] = db]
      /\ pc[t] = "incr" /\ pc' = [pc EXCEPT ![t] = "del"]
      /\ UNCHANGED <<db, remote, local, frame, settled, target, floor>>
  BY DEF Incr, copies
<1>2. rev \in Int /\ rev + 1 \in Rev /\ rev >= 1
  BY <1>1 DEF TypeOK, Rev, StoreOK
<1>3. covered'[rev + 1] = db /\ \A r \in Rev : r <= rev => covered'[r] = covered[r]
  BY <1>1, <1>2 DEF TypeOK, Rev
<1>4. ASSUME NEW c \in Copy, Good(c) PROVE Good(c)'
  <2>1. c.rev \in Rev /\ c.rev \in Int
    BY DEF Copy, Rev
  <2>2. QED BY <1>1, <1>2, <1>3, <1>4, <2>1 DEF Good
<1>5. StoreOK'
  BY <1>1, <1>2, <1>3, <1>4 DEF StoreOK, TypeOK
<1>6. ASSUME NEW u \in Thread PROVE ThreadOK(u)'
  <2>1. ThreadOK(u)
    OBVIOUS
  <2>2. \A c \in held'[u] : Good(c)'
    BY <1>1, <1>4, <2>1 DEF ThreadOK, frame, TypeOK
  <2>3. pc'[u] \in {"look", "load"}
          => seen'[u] \in 1 .. rev' /\ covered'[seen'[u]] >= floor'[u]
    <3>1. CASE u = t
      BY <1>1, <3>1 DEF TypeOK
    <3>2. CASE u # t /\ pc[u] \in {"look", "load"}
      <4>1. seen[u] \in 1 .. rev /\ covered[seen[u]] >= floor[u] /\ seen[u] \in Rev
        BY <2>1, <3>2 DEF ThreadOK, TypeOK
      <4>2. covered'[seen[u]] = covered[seen[u]]
        BY <1>2, <1>3, <4>1
      <4>3. QED BY <1>1, <1>2, <4>1, <4>2 DEF frame
    <3>3. QED BY <1>1, <3>1, <3>2 DEF TypeOK
  <2>4. target'[u] <= covered'[rev']
    BY <1>1, <1>3, <2>1 DEF ThreadOK
  <2>5. u = t => pc'[u] = "del"
    BY <1>1 DEF TypeOK
  <2>6. u # t => pc'[u] = pc[u]
    BY <1>1 DEF TypeOK
  <2>7. QED BY <1>1, <2>1, <2>2, <2>3, <2>4, <2>5, <2>6 DEF ThreadOK, frame
<1>7. QED BY <1>5, <1>6

LEMMA InvHolds == Spec => []Inv
<1>1. Init => Inv
  <2> SUFFICES ASSUME Init PROVE StoreOK /\ \A t \in Thread : ThreadOK(t)
    BY DEF Inv
  <2>1. \A r \in Rev : covered[r] = 0
    BY DEF Init
  <2>2. 1 \in Rev
    BY DEF Rev
  <2>3. StoreOK
    BY <2>1, <2>2 DEF Init, StoreOK, Good
  <2>4. \A t \in Thread : ThreadOK(t)
    BY DEF Init, ThreadOK
  <2>5. QED BY <2>3, <2>4
<1>2. TypeOK /\ TypeOK' /\ Inv /\ [Next]_vars => Inv'
  <2> SUFFICES ASSUME TypeOK, TypeOK', Inv, [Next]_vars, ~disturbed'
               PROVE  StoreOK' /\ \A t \in Thread : ThreadOK(t)'
    BY DEF Inv
  <2>1. ~disturbed /\ StoreOK /\ \A t \in Thread : ThreadOK(t)
    BY Remembered DEF Inv
  <2>2. ASSUME NEW t \in Thread, Step(t), ~Incr(t)
        PROVE  StoreOK' /\ \A e \in Thread : ThreadOK(e)'
    <3>1. StoreOK' /\ ThreadOK(t)'
      BY <2>1, <2>2, StoreStep, OwnStep
    <3>2. ASSUME NEW e \in Thread, e # t PROVE ThreadOK(e)'
      <4>1. /\ floor'[e] = floor[e] /\ target'[e] = target[e] /\ held'[e] = held[e]
            /\ pc'[e] = pc[e] /\ seen'[e] = seen[e] /\ op'[e] = op[e]
            /\ vouched'[e] = vouched[e] /\ prov'[e] = prov[e]
        BY <2>2, <3>2, OthersUntouched
      <4>2. UNCHANGED <<rev, covered>> /\ settled' >= settled /\ db' >= db
        BY <2>2, SameRev
      <4>3. settled' \in Version /\ db' \in Version
        BY DEF TypeOK
      <4>4. QED BY <2>1, <4>1, <4>2, <4>3, OthersKeep
    <3>3. QED BY <3>1, <3>2
  <2>3. ASSUME NEW t \in Thread, Incr(t)
        PROVE  StoreOK' /\ \A e \in Thread : ThreadOK(e)'
    BY <2>1, <2>3, IncrStep
  <2>4. ASSUME UNCHANGED <<db, rev, local, pc, frame, history>>, remote' \in {remote, {}}
        PROVE  StoreOK' /\ \A e \in Thread : ThreadOK(e)'
    BY <2>1, <2>4 DEF StoreOK, ThreadOK, Good, frame, history
  <2>5. ~RevExpires
    BY DEF RevExpires
  <2>6. QED
    BY <2>2, <2>3, <2>4, <2>5
       DEF Next, LocalExpires, SnapshotExpires, vars, redis, copies
<1>3. QED BY <1>1, <1>2, TypeCorrect, PTL DEF Spec

(* As long as none of the four things happened, a copy contains what its       *)
(* revision covers, and the revision covers every edit that has returned.      *)
THEOREM RevisionsCoverHolds == Spec => []RevisionsCover
<1>1. Inv => RevisionsCover
  BY DEF Inv, StoreOK, Good, RevisionsCover
<1>2. QED BY <1>1, InvHolds, PTL

(* As long as none of the four things happened, every read answered by the    *)
(* database or under a compared revision contains every edit that had returned *)
(* when it began: GetRev, getIfRev, Invalidate and the order they are called   *)
(* in are enough, for any processes and goroutines.                            *)
THEOREM ReadsAreCurrentUndisturbedHolds == Spec => []ReadsAreCurrentUndisturbed
<1>1. Inv => ReadsAreCurrentUndisturbed
  BY DEF Inv, ThreadOK, ReadsAreCurrentUndisturbed, ReadsAreCurrent
<1>2. QED BY <1>1, InvHolds, PTL
================================================================================
