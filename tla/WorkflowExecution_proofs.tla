------------------------ MODULE WorkflowExecution_proofs ------------------------
(***************************************************************************)
(* Theorems about WorkflowExecution, for every graph, every set of         *)
(* requests and every bound.                                               *)
(***************************************************************************)
EXTENDS WorkflowExecution, FiniteSetTheorems, TLAPS

(* What an order is, without its cardinality: a sequence over the definition's *)
(* nodes that visits each of them and respects the edges.                      *)
LEMMA OrderFacts ==
  ASSUME NEW d \in Definitions, NEW s \in Orders(d)
  PROVE  /\ s \in Seq(Node)
         /\ NodesOf[d] \subseteq {s[i] : i \in 1 .. Len(s)}
         /\ \A j \in 1 .. Len(s) : \A m \in Node :
              <<m, s[j]>> \in Edges[d] => \E i \in 1 .. Len(s) : i < j /\ s[i] = m
<1>1. NodesOf[d] \in SUBSET Node
  BY GraphAssumption
<1>2. IsFiniteSet(NodesOf[d])
  BY <1>1, GraphAssumption, FS_Subset
<1>3. Cardinality(NodesOf[d]) \in Nat
  BY <1>2, FS_CardinalityType
<1>4. s \in [1 .. Cardinality(NodesOf[d]) -> NodesOf[d]]
  BY DEF Orders
<1>5. s \in Seq(NodesOf[d]) /\ Len(s) = Cardinality(NodesOf[d])
  BY <1>3, <1>4
<1>6. s \in Seq(Node) /\ DOMAIN s = 1 .. Len(s)
  BY <1>1, <1>5
<1> QED
  BY <1>6 DEF Orders, Respects

-----------------------------------------------------------------------------
(* Types.  An executor is entered only at a position of the order, which is   *)
(* what keeps the nodes recorded as done nodes of the graph.                  *)

LoopPcs == {"node", "exec", "save_node", "save_wait", "save_final", "suspend",
            "complete"}

PositionOK ==
  \A t \in Threads :
    /\ pos[t] <= Len(order[t]) + 1
    /\ pc[t] = "exec" => pos[t] <= Len(order[t])
    /\ pc[t] \notin LoopPcs => order[t] = <<>> /\ pos[t] = 1

(* Nothing runs before the execution's row exists. *)
BornOK == status = "none" => \A t \in Threads : pc[t] = "idle"

TypeInv == TypeOK /\ PositionOK

(* The sets of program locations, spelled out for the provers. *)
USE DEF LoopPcs, EnginePcs, HandlerPcs, Resumes, Statuses, RunStates, Reasons

LEMMA TypeInit == Init => TypeInv
<1> SUFFICES ASSUME Init PROVE TypeOK /\ PositionOK
  BY DEF TypeInv
<1>1. <<>> \in Seq(Checkpoint) /\ <<>> \in Seq(Node) /\ Len(<<>>) = 0
  OBVIOUS
<1>2. TypeOK
  BY <1>1 DEF Init, TypeOK
<1>3. PositionOK
  BY <1>1 DEF Init, PositionOK
<1> QED BY <1>2, <1>3

(* What the goroutine has completed is a set of nodes. *)
LEMMA CompletedType ==
  ASSUME TypeInv, NEW t \in Threads
  PROVE  Completed(t) \in SUBSET Node
<1>1. \A i \in 1 .. (pos[t] - 1) : order[t][i] \in Node
  BY DEF TypeInv, TypeOK, PositionOK
<1> QED
  BY <1>1 DEF Completed, TypeInv, TypeOK

(* Leaving Execute resets the goroutine's variables to values of their types. *)
LEMMA LeaveType ==
  ASSUME TypeInv, NEW t \in Threads, Leave(t)
  PROVE  /\ pc' \in [Threads -> {"idle", "end"} \cup EnginePcs \cup HandlerPcs]
         /\ skip' \in [Threads -> SUBSET Node]
         /\ order' \in [Threads -> Seq(Node)]
         /\ pos' \in [Threads -> Nat \ {0}]
         /\ seq' \in [Threads -> Nat]
         /\ PositionOK'
BY DEF TypeInv, TypeOK, PositionOK, Leave, Goto

LEMMA DieType ==
  ASSUME TypeInv, Die
  PROVE  TypeInv'
<1>1. <<>> \in Seq(Node) /\ Len(<<>>) = 0
  OBVIOUS
<1>2. TypeOK'
  BY <1>1, ThreadAssumption DEF Die, row, stored, author, asked, TypeInv, TypeOK
<1>3. PositionOK'
  BY <1>1 DEF Die, PositionOK
<1> QED BY <1>2, <1>3 DEF TypeInv

LEMMA TypeEngine ==
  ASSUME TypeInv, NEW t \in Threads, EngineStep(t)
  PROVE  TypeInv'
<1> USE DEF row, stored, author, asked, local, bounds
<1>1. CASE Begin(t)
  <2>1. CASE Leave(t) /\ status' = "failed" /\ waitUntil' \in {"null", "set"}
             /\ UNCHANGED <<stored, author, lock, asked, def, bounds, approved>>
    BY <2>1, LeaveType DEF TypeInv, TypeOK
  <2>2. CASE \E s \in Orders(def[t]) : order' = [order EXCEPT ![t] = s]
    <3>1. def[t] \in Definitions
      BY DEF TypeInv, TypeOK
    <3>2. PICK s \in Orders(def[t]) : order' = [order EXCEPT ![t] = s]
      BY <2>2
    <3>3. s \in Seq(Node)
      BY <3>1, OrderFacts
    <3>4. CASE ~ Leave(t)
      <4>1. /\ SetStatus("running", "null")
            /\ Goto(t, "node")
            /\ UNCHANGED <<skip, pos, seq>>
            /\ UNCHANGED <<stored, author, lock, asked, def, bounds, approved>>
        BY <1>1, <3>4 DEF Begin
      <4>2. TypeOK'
        BY <3>2, <3>3, <4>1 DEF SetStatus, Goto, TypeInv, TypeOK
      <4>3. pos[t] = 1
        BY <1>1 DEF Begin, TypeInv, PositionOK
      <4>4. PositionOK'
        BY <3>2, <3>3, <4>1, <4>3 DEF Goto, TypeInv, TypeOK, PositionOK
      <4> QED BY <4>2, <4>4 DEF TypeInv
    <3>5. CASE Leave(t)
      BY <1>1, <2>1, <3>5 DEF Begin, SetStatus, Leave, Goto, TypeInv, TypeOK
    <3> QED BY <3>4, <3>5
  <2> QED BY <1>1, <2>1, <2>2 DEF Begin, SetStatus, TypeInv, TypeOK
<1>2. CASE SkipNode(t)
  BY <1>2 DEF SkipNode, AtNode, LoopDone, Record, TypeInv, TypeOK, PositionOK
<1>3. CASE StartNode(t)
  BY <1>3 DEF StartNode, AtNode, LoopDone, Record, Goto, TypeInv, TypeOK, PositionOK
<1>4. CASE UnknownNode(t)
  BY <1>4, LeaveType DEF UnknownNode, Record, SetStatus, TypeInv, TypeOK
<1>5. CASE FinishNode(t)
  <2>1. order[t][pos[t]] \in Node
    BY <1>5 DEF FinishNode, TypeInv, TypeOK, PositionOK
  <2>2. Len(checkpoints) \in Nat
    BY DEF TypeInv, TypeOK
  <2>3. TypeOK'
    BY <1>5, <2>1, <2>2 DEF FinishNode, Record, Goto, TypeInv, TypeOK
  <2>4. PositionOK'
    BY <1>5 DEF FinishNode, Goto, TypeInv, TypeOK, PositionOK
  <2> QED BY <2>3, <2>4 DEF TypeInv
<1>6. CASE FailNode(t)
  BY <1>6, LeaveType DEF FailNode, Record, SetStatus, TypeInv, TypeOK
<1>7. CASE PanicNode(t)
  <2>1. CASE op[t] # "debug"
    <3>1. /\ Leave(t) /\ status' = "failed" /\ waitUntil' = waitUntil
          /\ UNCHANGED <<stored, author, lock, asked, def, bounds, approved>>
      BY <1>7, <2>1 DEF PanicNode, SetStatus
    <3> QED BY <3>1, LeaveType DEF TypeInv, TypeOK
  <2>2. CASE op[t] = "debug"
    <3>1. Die
      BY <1>7, <2>2 DEF PanicNode
    <3> QED BY <3>1, DieType
  <2> QED BY <2>1, <2>2
<1>8. CASE FinishOrder(t)
  BY <1>8 DEF FinishOrder, Goto, TypeInv, TypeOK, PositionOK
<1>9. CASE SaveCheckpoint(t)
  <2>1. ASSUME NEW why \in Reasons,
               NEW from \in {"save_node", "save_wait", "save_final"},
               NEW to \in {"node", "suspend", "complete"},
               Insert(t, why, from, to)
        PROVE  TypeInv'
    <3>1. [done |-> Completed(t), reason |-> why] \in Checkpoint
      BY CompletedType DEF Checkpoint
    <3>2. checkpoints' \in Seq(Checkpoint)
      BY <2>1, <3>1 DEF Insert, TypeInv, TypeOK
    <3> QED BY <2>1, <3>2 DEF Insert, Goto, TypeInv, TypeOK, PositionOK
  <2> QED BY <1>9, <2>1 DEF SaveCheckpoint
<1>10. CASE Suspend(t)
  BY <1>10, LeaveType DEF Suspend, SetStatus, TypeInv, TypeOK
<1>11. CASE Complete(t)
  BY <1>11, LeaveType DEF Complete, SetStatus, TypeInv, TypeOK
<1> QED
  BY <1>1, <1>2, <1>3, <1>4, <1>5, <1>6, <1>7, <1>8, <1>9, <1>10, <1>11 DEF EngineStep

LEMMA TypeHandler ==
  ASSUME TypeInv, NEW r \in Requests, HandlerStep(r)
  PROVE  TypeInv'
<1> USE DEF row, stored, author, asked, local, bounds, Threads, Goto
<1>1. CASE CheckStatus(r)
  <2>1. ASSUME NEW at \in HandlerPcs, NEW accepted, NEW to \in HandlerPcs,
               Check(r, at, accepted, to)
        PROVE  TypeInv'
    <3>1. TypeOK'
      BY <2>1 DEF Check, TypeInv, TypeOK
    <3> QED BY <2>1, <3>1 DEF Check, TypeInv, TypeOK, PositionOK
  <2> QED BY <1>1, <2>1 DEF CheckStatus
<1>2. CASE TryLock(r)
  BY <1>2 DEF TryLock, TypeInv, TypeOK, PositionOK
<1>3. CASE Load(r)
  <2>1. checkpoints[Target(r)].done \in SUBSET Node
    <3>1. checkpoints[Target(r)] \in Checkpoint
      BY <1>3 DEF Load, Loadable, TypeInv, TypeOK
    <3> QED BY <3>1 DEF Checkpoint
  <2> QED BY <1>3, <2>1 DEF Load, TypeInv, TypeOK, PositionOK
<1>4. CASE LoadFailed(r)
  BY <1>4 DEF LoadFailed, TypeInv, TypeOK, PositionOK
<1>5. CASE Wake(r)
  BY <1>5 DEF Wake, SetStatus, TypeInv, TypeOK, PositionOK
<1>6. CASE Unlock(r)
  BY <1>6 DEF Unlock, TypeInv, TypeOK, PositionOK
<1>7. CASE WriteStatus(r)
  BY <1>7 DEF WriteStatus, Write, SetStatus, TypeInv, TypeOK, PositionOK
<1> QED
  BY <1>1, <1>2, <1>3, <1>4, <1>5, <1>6, <1>7 DEF HandlerStep

LEMMA BornStep == BornOK /\ [Next]_vars => BornOK'
<1> SUFFICES ASSUME BornOK, [Next]_vars, status' = "none" PROVE \A t \in Threads : pc'[t] = "idle"
  BY DEF BornOK
<1> USE DEF row, SetStatus
<1>1. ASSUME NEW t \in Threads, EngineStep(t) PROVE FALSE
  <2>1. pc[t] # "idle" /\ status' \in {status, "running", "failed", "waiting", "completed"}
    BY <1>1 DEF EngineStep, Begin, SkipNode, AtNode, StartNode, UnknownNode, FinishNode,
                FailNode, PanicNode, FinishOrder, SaveCheckpoint, Insert, Suspend,
                Complete, Die
  <2> QED BY <2>1 DEF BornOK
<1>2. ASSUME NEW r \in Requests, HandlerStep(r) PROVE FALSE
  <2>1. pc[r] # "idle" /\ status' \in {status, "running", "failed", "cancelled"}
    BY <1>2 DEF HandlerStep, CheckStatus, Check, TryLock, Load, LoadFailed, Wake,
                Unlock, WriteStatus, Write
  <2> QED BY <2>1 DEF BornOK, Threads
<1>3. CASE \/ \E o \in {"execute", "debug"} : Create(o)
           \/ \E r \in Requests, o \in Ops, p \in Pins \cup {0} : Call(r, o, p)
           \/ TimeoutScan \/ ExpireLock \/ Crash
           \/ \E d \in Definitions : UpdateWorkflow(d)
           \/ DeleteWorkflow \/ UNCHANGED vars
  BY <1>3 DEF Create, Call, TimeoutScan, ExpireLock, Crash, Die, UpdateWorkflow,
              DeleteWorkflow, vars, BornOK
<1> QED BY <1>1, <1>2, <1>3 DEF Next

LEMMA TypeStep == TypeInv /\ BornOK /\ [Next]_vars => TypeInv'
<1> SUFFICES ASSUME TypeInv, BornOK, [Next]_vars PROVE TypeInv'
  OBVIOUS
<1> USE DEF row, stored, author, asked, local, bounds
<1>1. ASSUME NEW o \in {"execute", "debug"}, Create(o) PROVE TypeInv'
  <2>1. Starter \in Threads
    BY DEF Threads
  <2>2. TypeOK'
    BY <1>1, <2>1 DEF Create, SetStatus, Goto, TypeInv, TypeOK
  <2>3. pc[Starter] \notin LoopPcs
    BY <1>1, <2>1 DEF Create, BornOK
  <2>4. PositionOK'
    BY <1>1, <2>1, <2>3 DEF Create, Goto, TypeInv, TypeOK, PositionOK
  <2> QED BY <2>2, <2>4 DEF TypeInv
<1>2. ASSUME NEW r \in Requests, NEW o \in Ops, NEW p \in Pins \cup {0}, Call(r, o, p)
      PROVE  TypeInv'
  <2>1. o \in HandlerPcs /\ p \in Nat
    BY ThreadAssumption
  <2> QED BY <1>2, <2>1 DEF Call, Goto, Threads, TypeInv, TypeOK, PositionOK
<1>3. ASSUME NEW t \in Threads, EngineStep(t) PROVE TypeInv'
  BY <1>3, TypeEngine
<1>4. ASSUME NEW r \in Requests, HandlerStep(r) PROVE TypeInv'
  BY <1>4, TypeHandler
<1>5. CASE TimeoutScan
  BY <1>5 DEF TimeoutScan, SetStatus, TypeInv, TypeOK, PositionOK
<1>6. CASE ExpireLock
  BY <1>6 DEF ExpireLock, TypeInv, TypeOK, PositionOK
<1>7. CASE Crash
  BY <1>7, DieType DEF Crash
<1>8. ASSUME NEW d \in Definitions, UpdateWorkflow(d) PROVE TypeInv'
  BY <1>8 DEF UpdateWorkflow, TypeInv, TypeOK, PositionOK
<1>9. CASE DeleteWorkflow
  BY <1>9 DEF DeleteWorkflow, TypeInv, TypeOK, PositionOK
<1>10. CASE UNCHANGED vars
  BY <1>10 DEF vars, TypeInv, TypeOK, PositionOK
<1> QED
  BY <1>1, <1>2, <1>3, <1>4, <1>5, <1>6, <1>7, <1>8, <1>9, <1>10 DEF Next

(* Every variable keeps to its type in every behaviour.                       *)
THEOREM TypeCorrect == Spec => []TypeOK
<1>1. Init => TypeInv /\ BornOK BY TypeInit DEF Init, BornOK
<1>2. TypeInv /\ BornOK /\ [Next]_vars => (TypeInv /\ BornOK)' BY TypeStep, BornStep
<1>3. TypeInv => TypeOK BY DEF TypeInv
<1> QED BY <1>1, <1>2, <1>3, PTL DEF Spec

-----------------------------------------------------------------------------
(* One driver.  While locks do not expire under their holders, the lock is    *)
(* held by at most one request, and no request gets near it while the goroutine*)
(* that started the execution is still driving it: until that goroutine       *)
(* suspends, the row is never waiting, and only a waiting row lets a request   *)
(* reach the lock.                                                             *)

LockInv ==
  /\ overruns = 0
  /\ \A r \in Threads : Holding(r) => lock = "held"
  /\ \A r, u \in Threads : Holding(r) /\ Holding(u) => r = u
  /\ Driving(Starter) =>
       /\ status # "waiting"
       /\ \A r \in Threads : ~Holding(r) /\ pc[r] # "lock"

LEMMA LockInit == Init => LockInv
BY DEF Init, LockInv, Holding, Driving, Threads

(* A driver is the starter or a request that holds the lock. *)
LEMMA LockMeansSingleDriver == LockInv => SingleDriver
BY DEF LockInv, SingleDriver, Holding, Driving, Threads

(* A step keeps LockInv when it makes nobody a holder, moves nobody to the    *)
(* lock under a driving starter, and leaves the lock alone.                   *)
LEMMA LockKept ==
  ASSUME LockInv, overruns' = overruns, lock' = lock,
         \A u \in Threads : Holding(u)' => Holding(u),
         Driving(Starter)' =>
           /\ Driving(Starter)
           /\ status' = "waiting" => status = "waiting"
           /\ \A u \in Threads : pc'[u] = "lock" => pc[u] = "lock"
  PROVE  LockInv'
<1> HIDE DEF EnginePcs, HandlerPcs
<1> QED BY DEF LockInv

LEMMA LockEngine ==
  ASSUME TypeInv, LockInv, NEW t \in Threads, EngineStep(t)
  PROVE  LockInv'
<1> USE DEF bounds, row, SetStatus, Holding, Driving
<1>1. CASE \/ Begin(t) \/ SkipNode(t) \/ StartNode(t) \/ UnknownNode(t) \/ FinishNode(t)
           \/ FailNode(t) \/ FinishOrder(t) \/ SaveCheckpoint(t) \/ Complete(t)
           \/ Suspend(t) \/ (PanicNode(t) /\ ~Die)
  <2>1. /\ pc[t] \in EnginePcs
        /\ UNCHANGED <<lock, overruns>>
        /\ \/ pc' = pc
           \/ \E p \in EnginePcs : pc' = [pc EXCEPT ![t] = p]
           \/ pc' = [pc EXCEPT ![t] = IF t = Starter THEN "end" ELSE "unlock"]
    BY <1>1 DEF Begin, SkipNode, AtNode, StartNode, UnknownNode, FinishNode, FailNode,
                FinishOrder, SaveCheckpoint, Insert, Suspend, Complete, PanicNode,
                Leave, Goto
  <2>2. status' = "waiting" => \/ status = "waiting"
                               \/ pc' = [pc EXCEPT ![t] = IF t = Starter THEN "end" ELSE "unlock"]
    BY <1>1 DEF Begin, SkipNode, AtNode, StartNode, UnknownNode, FinishNode, FailNode,
                FinishOrder, SaveCheckpoint, Insert, Suspend, Complete, PanicNode,
                Leave, Goto
  <2>3. \A u \in Threads : Holding(u)' => Holding(u)
    BY <2>1, ThreadAssumption DEF TypeInv, TypeOK
  <2>4. Driving(Starter)' =>
          /\ Driving(Starter)
          /\ status' = "waiting" => status = "waiting"
          /\ \A u \in Threads : pc'[u] = "lock" => pc[u] = "lock"
    <3>1. CASE t = Starter
      BY <2>1, <2>2, <3>1 DEF TypeInv, TypeOK, LockInv
    <3>2. CASE t # Starter
      <4>1. Holding(t)
        BY <2>1, <3>2 DEF Threads
      <4>2. ~Driving(Starter)
        BY <4>1 DEF LockInv
      <4> QED BY <2>1, <3>2, <4>2 DEF TypeInv, TypeOK, Threads
    <3> QED BY <3>1, <3>2
  <2> HIDE DEF Holding, Driving
  <2> QED BY <2>1, <2>3, <2>4, LockKept
<1>2. CASE Die
  BY <1>2 DEF Die, LockInv, Threads
<1> QED BY <1>1, <1>2 DEF EngineStep

LEMMA LockHandler ==
  ASSUME TypeInv, LockInv, NEW r \in Requests, HandlerStep(r)
  PROVE  LockInv'
<1> USE DEF bounds, row, SetStatus, Holding, Driving, Goto, Threads
<1>0. r # Starter
  BY ThreadAssumption
<1>1. CASE CheckStatus(r)
  <2>1. /\ UNCHANGED <<lock, overruns, status>>
        /\ pc[r] \in {"approve", "resume", "reject", "cancel"}
        /\ \E p \in {"resume", "lock", "reject_write", "cancel_write", "end"} :
             /\ pc' = [pc EXCEPT ![r] = p]
             /\ p = "lock" => status = "waiting"
    BY <1>1 DEF CheckStatus, Check
  <2>2. \A u \in Threads : Holding(u)' => Holding(u)
    BY <2>1 DEF TypeInv, TypeOK
  <2>3. Driving(Starter)' =>
          /\ Driving(Starter)
          /\ status' = "waiting" => status = "waiting"
          /\ \A u \in Threads : pc'[u] = "lock" => pc[u] = "lock"
    BY <1>0, <2>1 DEF LockInv, TypeInv, TypeOK
  <2> HIDE DEF Holding, Driving
  <2> QED BY <2>1, <2>2, <2>3, LockKept
<1>2. CASE TryLock(r)
  <2>1. CASE LockFree /\ lock' = "held" /\ Goto(r, "load")
    <3>1. \A u \in Threads : ~Holding(u)
      BY <2>1 DEF LockFree, LockInv
    <3>2. \A u \in Threads : Holding(u)' => u = r
      BY <2>1, <3>1 DEF TypeInv, TypeOK
    <3>3. ~Driving(Starter)'
      BY <1>0, <1>2, <2>1 DEF TryLock, LockInv, TypeInv, TypeOK
    <3>4. overruns' = overruns
      BY <1>2 DEF TryLock
    <3> HIDE DEF Holding, Driving, EnginePcs
    <3> QED BY <2>1, <3>2, <3>3, <3>4 DEF LockInv
  <2>2. CASE UNCHANGED lock /\ Goto(r, "end")
    BY <1>0, <1>2, <2>2 DEF TryLock, LockInv, TypeInv, TypeOK
  <2> QED BY <1>2, <2>1, <2>2 DEF TryLock
<1>3. CASE Load(r)
  BY <1>0, <1>3 DEF Load, LockInv, TypeInv, TypeOK
<1>4. CASE LoadFailed(r)
  BY <1>0, <1>4 DEF LoadFailed, LockInv, TypeInv, TypeOK
<1>5. CASE Wake(r)
  BY <1>0, <1>5 DEF Wake, LockInv, TypeInv, TypeOK
<1>6. CASE Unlock(r)
  BY <1>0, <1>6 DEF Unlock, LockInv, TypeInv, TypeOK
<1>7. CASE WriteStatus(r)
  <2>1. /\ UNCHANGED <<lock, overruns>>
        /\ status' # "waiting"
        /\ pc' = [pc EXCEPT ![r] = "end"]
    BY <1>7 DEF WriteStatus, Write
  <2> QED BY <1>0, <2>1 DEF LockInv, TypeInv, TypeOK
<1> QED
  BY <1>1, <1>2, <1>3, <1>4, <1>5, <1>6, <1>7 DEF HandlerStep

LEMMA LockStep ==
  ASSUME MaxOverruns = 0, TypeInv, BornOK, LockInv, [Next]_vars
  PROVE  LockInv'
<1> USE DEF bounds, row, SetStatus, Holding, Driving, Goto, Threads
<1>1. ASSUME NEW o \in {"execute", "debug"}, Create(o) PROVE LockInv'
  <2>1. \A t \in Threads : pc[t] = "idle"
    BY <1>1 DEF Create, BornOK
  <2>2. pc' = [pc EXCEPT ![Starter] = "begin"] /\ status' # "waiting"
    BY <1>1 DEF Create
  <2>3. \A t \in Threads : ~Holding(t)' /\ pc'[t] # "lock"
    BY <2>1, <2>2, ThreadAssumption DEF TypeInv, TypeOK
  <2>4. overruns' = overruns
    BY <1>1 DEF Create
  <2> HIDE DEF Holding, Driving, EnginePcs
  <2> QED BY <2>2, <2>3, <2>4 DEF LockInv
<1>2. ASSUME NEW r \in Requests, NEW o \in Ops, NEW p \in Pins \cup {0}, Call(r, o, p)
      PROVE  LockInv'
  <2>1. /\ UNCHANGED <<lock, overruns, status>>
        /\ o \in {"resume", "approve", "reject", "cancel"}
        /\ pc' = [pc EXCEPT ![r] = o]
    BY <1>2, ThreadAssumption DEF Call
  <2>2. \A u \in Threads : Holding(u)' => Holding(u)
    BY <2>1 DEF TypeInv, TypeOK
  <2>3. Driving(Starter)' =>
          Driving(Starter) /\ \A u \in Threads : pc'[u] = "lock" => pc[u] = "lock"
    BY <2>1, ThreadAssumption DEF TypeInv, TypeOK
  <2> HIDE DEF Holding, Driving
  <2> QED BY <2>1, <2>2, <2>3, LockKept
<1>3. ASSUME NEW t \in Threads, EngineStep(t) PROVE LockInv'
  BY <1>3, LockEngine
<1>4. ASSUME NEW r \in Requests, HandlerStep(r) PROVE LockInv'
  BY <1>4, LockHandler
<1>5. CASE TimeoutScan
  BY <1>5 DEF TimeoutScan, LockInv
<1>6. CASE ExpireLock
  BY <1>6 DEF ExpireLock, LockInv, TypeInv, TypeOK
<1>7. CASE Crash
  BY <1>7 DEF Crash, Die, LockInv
<1>8. CASE \/ \E d \in Definitions : UpdateWorkflow(d)
           \/ DeleteWorkflow \/ UNCHANGED vars
  BY <1>8 DEF UpdateWorkflow, DeleteWorkflow, vars, LockInv
<1> QED
  BY <1>1, <1>2, <1>3, <1>4, <1>5, <1>6, <1>7, <1>8 DEF Next

(* With locks that outlive their holders, one goroutine drives an execution   *)
(* at a time, whatever requests race on it and whenever the process crashes.  *)
THEOREM SingleDriverHolds ==
  ASSUME MaxOverruns = 0
  PROVE  Spec => []SingleDriver
<1>1. Init => TypeInv /\ BornOK /\ LockInv
  BY TypeInit, LockInit DEF Init, BornOK
<1>2. TypeInv /\ BornOK /\ LockInv /\ [Next]_vars => (TypeInv /\ BornOK /\ LockInv)'
  BY TypeStep, BornStep, LockStep
<1> QED BY <1>1, <1>2, LockMeansSingleDriver, PTL DEF Spec
-----------------------------------------------------------------------------
(* Progress.  What a goroutine has behind it has succeeded, and the waits it  *)
(* has behind it were continued past by a resume.  Nothing here depends on    *)
(* the lock: it holds however many goroutines drive the execution at once.    *)

(* Locations at which every wait node behind the goroutine was approved: it   *)
(* is past the gate only at the two that follow a wait node's own success.    *)
PassedPcs == {"begin", "node", "exec", "save_node", "save_final", "complete"}

ThreadOK(t) ==
  /\ pc[t] \in LoopPcs => order[t] \in Orders(def[t])
  /\ pc[t] \in {"save_final", "complete"} => LoopDone(t)
  /\ pc[t] \notin {"wake"} \cup EnginePcs => skip[t] = {}
  /\ Completed(t) \subseteq everDone
  /\ pc[t] \in PassedPcs => Completed(t) \cap WaitNodes \subseteq approved

StoreOK ==
  /\ \A i \in 1 .. Len(checkpoints) : checkpoints[i].done \subseteq everDone
  /\ approved \subseteq everDone \cap WaitNodes

ProgressInv == (\A t \in Threads : ThreadOK(t)) /\ StoreOK

LEMMA ProgressInit == Init => ProgressInv
<1> SUFFICES ASSUME Init PROVE ProgressInv
  OBVIOUS
<1>1. \A t \in Threads : Completed(t) = {}
  BY DEF Init, Completed
<1>2. StoreOK
  BY DEF Init, StoreOK
<1>3. \A t \in Threads : ThreadOK(t)
  BY <1>1 DEF Init, ThreadOK
<1> QED BY <1>2, <1>3 DEF ProgressInv

(* A step that leaves u alone keeps ThreadOK(u): the two sets only grow. *)
LEMMA ThreadKept ==
  ASSUME NEW u \in Threads, ThreadOK(u),
         pc'[u] = pc[u], order'[u] = order[u], pos'[u] = pos[u], skip'[u] = skip[u],
         def'[u] = def[u], everDone \subseteq everDone', approved \subseteq approved'
  PROVE  ThreadOK(u)'
BY DEF ThreadOK, Completed, LoopDone, Orders, Respects

(* A thread at rest has nothing behind it. *)
LEMMA ThreadAtRest ==
  ASSUME NEW u \in Threads, skip'[u] = {}, order'[u] = <<>>, pos'[u] = 1,
         pc'[u] \notin LoopPcs
  PROVE  ThreadOK(u)'
<1>1. Completed(u)' = {}
  BY DEF Completed
<1> QED BY <1>1 DEF ThreadOK

LEMMA StoreKept ==
  ASSUME StoreOK, UNCHANGED <<checkpoints, everDone, approved>>
  PROVE  StoreOK'
BY DEF StoreOK

(* Leaving Execute. *)
LEMMA ProgressLeave ==
  ASSUME TypeInv, ProgressInv, NEW t \in Threads, Leave(t), UNCHANGED def,
         UNCHANGED <<checkpoints, everDone, approved>>
  PROVE  ProgressInv'
<1>1. ThreadOK(t)'
  BY ThreadAtRest DEF Leave, Goto, TypeInv, TypeOK
<1>2. ASSUME NEW u \in Threads, u # t PROVE ThreadOK(u)'
  BY <1>2, ThreadKept DEF Leave, Goto, ProgressInv, TypeInv, TypeOK
<1> QED BY <1>1, <1>2, StoreKept DEF ProgressInv

LEMMA ProgressDie ==
  ASSUME TypeInv, ProgressInv, Die
  PROVE  ProgressInv'
<1>1. ASSUME NEW u \in Threads PROVE ThreadOK(u)'
  BY ThreadAtRest DEF Die
<1> QED BY <1>1, StoreKept DEF ProgressInv, Die, stored

(* A step inside Execute that touches one thread. *)
LEMMA ProgressEngine ==
  ASSUME TypeInv, ProgressInv, NEW t \in Threads, EngineStep(t)
  PROVE  ProgressInv'
<1> USE DEF row, stored, author, asked, local, bounds, SetStatus
<1>0. ThreadOK(t) /\ StoreOK
  BY DEF ProgressInv
<1>a. def[t] \in Definitions /\ pos[t] \in Nat \ {0}
  BY DEF TypeInv, TypeOK
<1>1. CASE Begin(t)
  <2>1. CASE Leave(t)
    BY <1>1, <2>1, ProgressLeave DEF Begin
  <2>2. CASE ~Leave(t)
    <3>1. PICK s \in Orders(def[t]) : order' = [order EXCEPT ![t] = s]
      BY <1>1, <2>2 DEF Begin
    <3>2. /\ pc' = [pc EXCEPT ![t] = "node"]
          /\ UNCHANGED <<skip, pos, def, checkpoints, everDone, approved>>
      BY <1>1, <2>2 DEF Begin, Goto
    <3>3. pos[t] = 1 /\ pc[t] = "begin"
      BY <1>1 DEF Begin, TypeInv, PositionOK
    <3>4. Completed(t) = skip[t] /\ Completed(t)' = skip[t]
      BY <3>2, <3>3 DEF Completed
    <3>5. ThreadOK(t)'
      <4>1. order'[t] \in Orders(def[t])
        BY <3>1 DEF TypeInv, TypeOK
      <4>2. Orders(def[t])' = Orders(def[t])
        BY <3>2 DEF Orders, Respects
      <4>3. pc'[t] = "node"
        BY <3>2 DEF TypeInv, TypeOK
      <4> QED BY <1>0, <3>2, <3>3, <3>4, <4>1, <4>2, <4>3 DEF ThreadOK, PassedPcs
    <3>6. ASSUME NEW u \in Threads, u # t PROVE ThreadOK(u)'
      BY <3>1, <3>2, <3>6, ThreadKept DEF ProgressInv, TypeInv, TypeOK
    <3> QED BY <3>2, <3>5, <3>6, <1>0, StoreKept DEF ProgressInv
  <2> QED BY <2>1, <2>2
<1>2. CASE SkipNode(t)
  <2>1. /\ pc[t] = "node" /\ pos[t] \in 1 .. Len(order[t])
        /\ order[t][pos[t]] \in skip[t]
        /\ pos' = [pos EXCEPT ![t] = @ + 1]
        /\ UNCHANGED <<pc, skip, order, def, checkpoints, everDone, approved>>
    BY <1>2, <1>a DEF SkipNode, AtNode, LoopDone, TypeInv, TypeOK
  <2>2. Completed(t)' = Completed(t)
    BY <1>a, <2>1 DEF Completed, TypeInv, TypeOK
  <2>3. ThreadOK(t)'
    BY <1>0, <2>1, <2>2 DEF ThreadOK, Orders, Respects
  <2>4. ASSUME NEW u \in Threads, u # t PROVE ThreadOK(u)'
    BY <2>1, <2>4, ThreadKept DEF ProgressInv, TypeInv, TypeOK
  <2> QED BY <1>0, <2>1, <2>3, <2>4, StoreKept DEF ProgressInv
<1>3. CASE StartNode(t)
  <2>1. /\ pc[t] = "node"
        /\ pc' = [pc EXCEPT ![t] = "exec"]
        /\ UNCHANGED <<skip, order, pos, def, checkpoints, everDone, approved>>
    BY <1>3 DEF StartNode, AtNode, Goto
  <2>2. Completed(t)' = Completed(t)
    BY <2>1 DEF Completed
  <2>3. pc'[t] = "exec"
    BY <2>1 DEF TypeInv, TypeOK
  <2>4. ThreadOK(t)'
    BY <1>0, <2>1, <2>2, <2>3 DEF ThreadOK, Orders, Respects, PassedPcs
  <2>5. ASSUME NEW u \in Threads, u # t PROVE ThreadOK(u)'
    BY <2>1, <2>5, ThreadKept DEF ProgressInv, TypeInv, TypeOK
  <2> QED BY <1>0, <2>1, <2>4, <2>5, StoreKept DEF ProgressInv
<1>4. CASE UnknownNode(t)
  BY <1>4, ProgressLeave DEF UnknownNode
<1>5. CASE FinishNode(t)
  <2> DEFINE n == order[t][pos[t]]
  <2>1. /\ pc[t] = "exec" /\ pos[t] \in 1 .. Len(order[t])
        /\ everDone' = everDone \cup {n}
        /\ pc' = [pc EXCEPT ![t] = IF n \in WaitNodes THEN "save_wait" ELSE "save_node"]
        /\ pos' = [pos EXCEPT ![t] = @ + 1]
        /\ UNCHANGED <<skip, order, def, checkpoints, approved>>
    BY <1>5, <1>a DEF FinishNode, Goto, TypeInv, TypeOK, PositionOK
  <2>2. Completed(t)' = Completed(t) \cup {n}
    BY <1>a, <2>1 DEF Completed, TypeInv, TypeOK
  <2>3. pc'[t] = IF n \in WaitNodes THEN "save_wait" ELSE "save_node"
    BY <2>1 DEF TypeInv, TypeOK
  <2>4. ThreadOK(t)'
    BY <1>0, <2>1, <2>2, <2>3 DEF ThreadOK, Orders, Respects, PassedPcs
  <2>5. ASSUME NEW u \in Threads, u # t PROVE ThreadOK(u)'
    BY <2>1, <2>5, ThreadKept DEF ProgressInv, TypeInv, TypeOK
  <2>6. StoreOK'
    BY <1>0, <2>1 DEF StoreOK
  <2> QED BY <2>4, <2>5, <2>6 DEF ProgressInv
<1>6. CASE FailNode(t)
  BY <1>6, ProgressLeave DEF FailNode
<1>7. CASE PanicNode(t)
  <2>1. CASE Die
    BY <2>1, ProgressDie
  <2>2. CASE ~Die
    BY <1>7, <2>2, ProgressLeave DEF PanicNode
  <2> QED BY <2>1, <2>2
<1>8. CASE FinishOrder(t)
  <2>1. /\ pc[t] = "node" /\ LoopDone(t)
        /\ pc' = [pc EXCEPT ![t] = "save_final"]
        /\ UNCHANGED <<skip, order, pos, def, checkpoints, everDone, approved>>
    BY <1>8 DEF FinishOrder, Goto
  <2>2. Completed(t)' = Completed(t) /\ LoopDone(t)'
    BY <2>1 DEF Completed, LoopDone
  <2>3. pc'[t] = "save_final"
    BY <2>1 DEF TypeInv, TypeOK
  <2>4. ThreadOK(t)'
    BY <1>0, <2>1, <2>2, <2>3 DEF ThreadOK, Orders, Respects, PassedPcs
  <2>5. ASSUME NEW u \in Threads, u # t PROVE ThreadOK(u)'
    BY <2>1, <2>5, ThreadKept DEF ProgressInv, TypeInv, TypeOK
  <2> QED BY <1>0, <2>1, <2>4, <2>5, StoreKept DEF ProgressInv
<1>9. CASE SaveCheckpoint(t)
  <2>1. /\ \/ pc[t] = "save_node" /\ pc' = [pc EXCEPT ![t] = "node"]
           \/ pc[t] = "save_wait" /\ pc' = [pc EXCEPT ![t] = "suspend"]
           \/ pc[t] = "save_final" /\ pc' = [pc EXCEPT ![t] = "complete"]
        /\ UNCHANGED <<skip, order, pos, def, everDone, approved>>
    BY <1>9 DEF SaveCheckpoint, Insert, Goto
  <2>2. Completed(t)' = Completed(t) /\ LoopDone(t)' = LoopDone(t)
    BY <2>1 DEF Completed, LoopDone
  <2>3. \/ pc[t] = "save_node" /\ pc'[t] = "node"
        \/ pc[t] = "save_wait" /\ pc'[t] = "suspend"
        \/ pc[t] = "save_final" /\ pc'[t] = "complete"
    BY <2>1 DEF TypeInv, TypeOK
  <2>4. ThreadOK(t)'
    BY <1>0, <2>1, <2>2, <2>3 DEF ThreadOK, Orders, Respects, PassedPcs
  <2>5. ASSUME NEW u \in Threads, u # t PROVE ThreadOK(u)'
    BY <2>1, <2>5, ThreadKept DEF ProgressInv, TypeInv, TypeOK
  <2>6. \E why \in Reasons :
          checkpoints' \in {checkpoints,
                            Append(checkpoints, [done |-> Completed(t), reason |-> why])}
    BY <1>9 DEF SaveCheckpoint, Insert
  <2>7. StoreOK'
    <3>1. checkpoints \in Seq(Checkpoint)
      BY DEF TypeInv, TypeOK
    <3>2. PICK why \in Reasons :
            checkpoints' \in {checkpoints,
                              Append(checkpoints, [done |-> Completed(t), reason |-> why])}
      BY <2>6
    <3>3. \A i \in 1 .. Len(checkpoints') :
            \/ i \in 1 .. Len(checkpoints) /\ checkpoints'[i] = checkpoints[i]
            \/ checkpoints'[i].done = Completed(t)
      BY <3>1, <3>2
    <3> QED BY <1>0, <2>1, <3>3 DEF StoreOK, ThreadOK
  <2> QED BY <2>4, <2>5, <2>7 DEF ProgressInv
<1>10. CASE Suspend(t)
  BY <1>10, ProgressLeave DEF Suspend
<1>11. CASE Complete(t)
  BY <1>11, ProgressLeave DEF Complete
<1> QED
  BY <1>1, <1>2, <1>3, <1>4, <1>5, <1>6, <1>7, <1>8, <1>9, <1>10, <1>11 DEF EngineStep

(* A step that only moves thread r, outside Execute. *)
LEMMA ProgressMove ==
  ASSUME TypeInv, ProgressInv, NEW r \in Threads,
         NEW p \in HandlerPcs \cup {"end", "begin"},
         p = "wake" => pc[r] = "wake", p = "begin" => pc[r] = "idle",
         pc[r] \notin EnginePcs \cup {"wake"},
         pc' = [pc EXCEPT ![r] = p],
         UNCHANGED <<skip, order, pos, checkpoints, everDone, approved>>,
         \A u \in Threads : u # r => def'[u] = def[u]
  PROVE  ProgressInv'
<1>1. skip[r] = {} /\ order[r] = <<>> /\ pos[r] = 1
  BY DEF ProgressInv, ThreadOK, TypeInv, PositionOK
<1>2. ThreadOK(r)'
  BY <1>1, ThreadAtRest DEF TypeInv, TypeOK
<1>3. ASSUME NEW u \in Threads, u # r PROVE ThreadOK(u)'
  BY <1>3, ThreadKept DEF ProgressInv, TypeInv, TypeOK
<1> QED BY <1>2, <1>3, StoreKept DEF ProgressInv

LEMMA ProgressHandler ==
  ASSUME TypeInv, ProgressInv, NEW r \in Requests, HandlerStep(r)
  PROVE  ProgressInv'
<1> USE DEF row, stored, author, asked, local, bounds, SetStatus, Goto
<1>0. r \in Threads /\ ThreadOK(r) /\ StoreOK
  BY DEF Threads, ProgressInv
<1>1. CASE CheckStatus(r)
  <2>1. ASSUME NEW at \in {"approve", "resume", "reject", "cancel"}, NEW accepted,
               NEW to \in {"resume", "lock", "reject_write", "cancel_write"},
               Check(r, at, accepted, to)
        PROVE  ProgressInv'
    <3>1. PICK p \in {to, "end"} : pc' = [pc EXCEPT ![r] = p]
      BY <2>1 DEF Check
    <3> QED BY <1>0, <2>1, <3>1, ProgressMove DEF Check
  <2> QED BY <1>1, <2>1 DEF CheckStatus
<1>2. CASE TryLock(r)
  <2>1. PICK p \in {"load", "end"} : pc' = [pc EXCEPT ![r] = p]
    BY <1>2 DEF TryLock
  <2> QED BY <1>0, <1>2, <2>1, ProgressMove DEF TryLock
<1>3. CASE Load(r)
  <2>1. /\ pc[r] = "load" /\ Target(r) \in 1 .. Len(checkpoints)
        /\ pc' = [pc EXCEPT ![r] = "wake"]
        /\ skip' = [skip EXCEPT ![r] = checkpoints[Target(r)].done]
        /\ def' = [def EXCEPT ![r] = workflow]
        /\ UNCHANGED <<order, pos, checkpoints, everDone, approved>>
    BY <1>3 DEF Load, Loadable, TypeInv, TypeOK
  <2>2. order[r] = <<>> /\ pos[r] = 1
    BY <1>0, <2>1 DEF TypeInv, PositionOK
  <2>3. skip'[r] \subseteq everDone
    BY <1>0, <2>1 DEF StoreOK, TypeInv, TypeOK
  <2>4. Completed(r)' = skip'[r]
    BY <2>1, <2>2 DEF Completed
  <2>5. pc'[r] = "wake"
    BY <1>0, <2>1 DEF TypeInv, TypeOK
  <2>6. ThreadOK(r)'
    BY <2>1, <2>3, <2>4, <2>5 DEF ThreadOK, PassedPcs
  <2>7. ASSUME NEW u \in Threads, u # r PROVE ThreadOK(u)'
    BY <2>1, <2>7, ThreadKept DEF ProgressInv, TypeInv, TypeOK
  <2> QED BY <1>0, <2>1, <2>6, <2>7, StoreKept DEF ProgressInv
<1>4. CASE LoadFailed(r)
  BY <1>0, <1>4, ProgressMove DEF LoadFailed
<1>5. CASE Wake(r)
  <2>1. /\ pc[r] = "wake"
        /\ pc' = [pc EXCEPT ![r] = "begin"]
        /\ approved' = approved \cup (skip[r] \cap WaitNodes)
        /\ UNCHANGED <<skip, def, order, pos, checkpoints, everDone>>
    BY <1>5 DEF Wake
  <2>2. order[r] = <<>> /\ pos[r] = 1
    BY <1>0, <2>1 DEF TypeInv, PositionOK
  <2>3. Completed(r) = skip[r] /\ Completed(r)' = skip[r]
    BY <2>1, <2>2 DEF Completed
  <2>4. pc'[r] = "begin"
    BY <1>0, <2>1 DEF TypeInv, TypeOK
  <2>5. ThreadOK(r)'
    BY <1>0, <2>1, <2>3, <2>4 DEF ThreadOK, PassedPcs
  <2>6. ASSUME NEW u \in Threads, u # r PROVE ThreadOK(u)'
    BY <2>1, <2>6, ThreadKept DEF ProgressInv, TypeInv, TypeOK
  <2>7. StoreOK'
    BY <1>0, <2>1, <2>3 DEF StoreOK, ThreadOK
  <2> QED BY <2>5, <2>6, <2>7 DEF ProgressInv
<1>6. CASE Unlock(r)
  BY <1>0, <1>6, ProgressMove DEF Unlock
<1>7. CASE WriteStatus(r)
  BY <1>0, <1>7, ProgressMove DEF WriteStatus, Write
<1> QED
  BY <1>1, <1>2, <1>3, <1>4, <1>5, <1>6, <1>7 DEF HandlerStep

LEMMA ProgressStep ==
  ASSUME TypeInv, BornOK, ProgressInv, [Next]_vars
  PROVE  ProgressInv'
<1> USE DEF row, stored, author, asked, local, bounds, SetStatus, Goto
<1>1. ASSUME NEW o \in {"execute", "debug"}, Create(o) PROVE ProgressInv'
  <2>1. Starter \in Threads /\ pc[Starter] = "idle"
    BY <1>1 DEF Create, BornOK, Threads
  <2>2. /\ pc' = [pc EXCEPT ![Starter] = "begin"]
        /\ UNCHANGED <<skip, order, pos, checkpoints, everDone, approved>>
        /\ \A u \in Threads : u # Starter => def'[u] = def[u]
    BY <1>1, <2>1 DEF Create, TypeInv, TypeOK
  <2> QED BY <2>1, <2>2, ProgressMove
<1>2. ASSUME NEW r \in Requests, NEW o \in Ops, NEW p \in Pins \cup {0}, Call(r, o, p)
      PROVE  ProgressInv'
  <2>1. r \in Threads /\ o \in {"resume", "approve", "reject", "cancel"}
    BY ThreadAssumption DEF Threads
  <2> QED BY <1>2, <2>1, ProgressMove DEF Call
<1>3. ASSUME NEW t \in Threads, EngineStep(t) PROVE ProgressInv'
  BY <1>3, ProgressEngine
<1>4. ASSUME NEW r \in Requests, HandlerStep(r) PROVE ProgressInv'
  BY <1>4, ProgressHandler
<1>5. CASE Crash
  BY <1>5, ProgressDie DEF Crash
<1>6. CASE \/ TimeoutScan \/ ExpireLock \/ (\E d \in Definitions : UpdateWorkflow(d))
           \/ DeleteWorkflow \/ UNCHANGED vars
  <2>1. UNCHANGED <<pc, skip, order, pos, def, checkpoints, everDone, approved>>
    BY <1>6 DEF TimeoutScan, ExpireLock, UpdateWorkflow, DeleteWorkflow, vars
  <2>2. ASSUME NEW u \in Threads PROVE ThreadOK(u)'
    BY <2>1, ThreadKept DEF ProgressInv
  <2> QED BY <2>1, <2>2, StoreKept DEF ProgressInv
<1> QED BY <1>1, <1>2, <1>3, <1>4, <1>5, <1>6 DEF Next

(* The three invariants so far, together.                                     *)
CoreInv == TypeInv /\ BornOK /\ ProgressInv

LEMMA CoreCorrect == Spec => []CoreInv
<1>1. Init => CoreInv
  BY TypeInit, ProgressInit DEF CoreInv, Init, BornOK
<1>2. CoreInv /\ [Next]_vars => CoreInv'
  BY TypeStep, BornStep, ProgressStep DEF CoreInv
<1> QED BY <1>1, <1>2, PTL DEF Spec

(* A node about to be executed has its dependencies behind it. *)
LEMMA DependenciesMet ==
  ASSUME CoreInv, NEW t \in Threads, NEW m \in Node, pc[t] = "exec",
         <<m, order[t][pos[t]]>> \in Edges[def[t]]
  PROVE  m \in everDone /\ (m \in WaitNodes => m \in approved)
<1>1. def[t] \in Definitions /\ order[t] \in Orders(def[t]) /\ pos[t] \in 1 .. Len(order[t])
  BY DEF CoreInv, ProgressInv, ThreadOK, TypeInv, TypeOK, PositionOK
<1>2. PICK i \in 1 .. Len(order[t]) : i < pos[t] /\ order[t][i] = m
  BY <1>1, OrderFacts
<1>3. m \in Completed(t)
  BY <1>1, <1>2 DEF Completed
<1> QED BY <1>3 DEF CoreInv, ProgressInv, ThreadOK, PassedPcs

(* Whatever races, crashes or expires, an executor is entered only when all   *)
(* that its node depends on has succeeded.                                    *)
THEOREM PredecessorsFirstHolds == Spec => []PredecessorsFirst
<1>1. CoreInv => PredecessorsFirst
  BY DependenciesMet DEF PredecessorsFirst
<1> QED BY <1>1, CoreCorrect, PTL

(* Whatever races, crashes or expires, an executor behind a wait node is      *)
(* entered only after a resume has continued past that wait.                  *)
THEOREM ApprovalGateHolds == Spec => []ApprovalGate
<1>1. CoreInv => ApprovalGate
  BY DependenciesMet, GraphAssumption DEF ApprovalGate
<1> QED BY <1>1, CoreCorrect, PTL

-----------------------------------------------------------------------------
(* The graph.  While the definition is not edited, every goroutine runs the   *)
(* one definition, so what it completes, what it stores and what a resume     *)
(* skips are all prefixes of the same graph.                                  *)

GraphInv ==
  updates = 0 =>
    /\ \A t \in Threads : def[t] = workflow /\ Closed(skip[t])
    /\ \A i \in 1 .. Len(checkpoints) : Closed(checkpoints[i].done)
    /\ status = "completed" => /\ NodesOf[workflow] \subseteq everDone
                              /\ NodesOf[workflow] \cap WaitNodes \subseteq approved

(* A prefix of an order is closed under the dependencies. *)
LEMMA CompletedClosed ==
  ASSUME CoreInv, NEW t \in Threads, def[t] = workflow, Closed(skip[t])
  PROVE  Closed(Completed(t))
<1> SUFFICES ASSUME NEW n \in Completed(t), NEW m \in Node, <<m, n>> \in Edges[workflow]
             PROVE  m \in Completed(t)
  BY DEF Closed
<1>1. CASE n \in skip[t]
  BY <1>1 DEF Closed, Completed
<1>2. CASE n \notin skip[t]
  <2>1. PICK i \in 1 .. (pos[t] - 1) : n = order[t][i]
    BY <1>2 DEF Completed
  <2>2. pos[t] <= Len(order[t]) + 1 /\ pos[t] \in Nat /\ Len(order[t]) \in Nat
    BY DEF CoreInv, TypeInv, TypeOK, PositionOK
  <2>3. i \in 1 .. Len(order[t])
    BY <2>1, <2>2
  <2>4. order[t] \in Orders(def[t]) /\ def[t] \in Definitions
    BY <2>3 DEF CoreInv, ProgressInv, ThreadOK, TypeInv, TypeOK, PositionOK
  <2>5. PICK k \in 1 .. Len(order[t]) : k < i /\ order[t][k] = m
    BY <2>1, <2>3, <2>4, OrderFacts
  <2> QED BY <2>1, <2>2, <2>5 DEF Completed
<1> QED BY <1>1, <1>2

LEMMA GraphInit == Init => GraphInv
BY DEF Init, GraphInv, Closed

(* A step that edits nothing, stores nothing and completes nothing. *)
LEMMA GraphKept ==
  ASSUME TypeInv, GraphInv, UNCHANGED <<workflow, updates, checkpoints>>,
         \A t \in Threads : def'[t] \in {def[t], workflow},
         \A t \in Threads : Closed(skip[t]) => Closed(skip'[t]),
         everDone \subseteq everDone', approved \subseteq approved',
         status' = "completed" => status = "completed"
  PROVE  GraphInv'
<1>1. \A S : Closed(S)' <=> Closed(S')
  BY DEF Closed
<1> QED BY DEF GraphInv, Closed

LEMMA GraphEngine ==
  ASSUME CoreInv, GraphInv, NEW t \in Threads, EngineStep(t)
  PROVE  GraphInv'
<1> USE DEF row, stored, author, asked, local, bounds, SetStatus
<1>0. TypeInv /\ ThreadOK(t) /\ Closed({})
  BY DEF CoreInv, ProgressInv, Closed
<1>1. CASE \/ Begin(t) \/ SkipNode(t) \/ StartNode(t) \/ UnknownNode(t) \/ FinishNode(t)
           \/ FailNode(t) \/ PanicNode(t) \/ FinishOrder(t) \/ Suspend(t)
  <2>1. /\ UNCHANGED <<workflow, updates, checkpoints, def, approved>>
        /\ everDone \subseteq everDone'
        /\ status' = "completed" => status = "completed"
    BY <1>1 DEF Begin, SkipNode, StartNode, UnknownNode, FinishNode, FailNode, PanicNode,
                FinishOrder, Suspend, Die
  <2>2. \A u \in Threads : skip'[u] \in {skip[u], {}}
    BY <1>0, <1>1 DEF Begin, SkipNode, StartNode, UnknownNode, FinishNode, FailNode, PanicNode,
                FinishOrder, Suspend, Die, Leave, TypeInv, TypeOK
  <2> QED BY <1>0, <2>1, <2>2, GraphKept
<1>2. CASE SaveCheckpoint(t)
  <2>1. /\ UNCHANGED <<workflow, updates, status, skip, def, everDone, approved>>
        /\ \E why \in Reasons :
             checkpoints' \in {checkpoints,
                               Append(checkpoints, [done |-> Completed(t), reason |-> why])}
    BY <1>2 DEF SaveCheckpoint, Insert
  <2>2. PICK why \in Reasons :
          checkpoints' \in {checkpoints,
                            Append(checkpoints, [done |-> Completed(t), reason |-> why])}
    BY <2>1
  <2>3. checkpoints \in Seq(Checkpoint)
    BY <1>0 DEF TypeInv, TypeOK
  <2>4. \A i \in 1 .. Len(checkpoints') :
          \/ i \in 1 .. Len(checkpoints) /\ checkpoints'[i] = checkpoints[i]
          \/ checkpoints'[i].done = Completed(t)
    BY <2>2, <2>3
  <2>5. CASE updates = 0
    <3>1. Closed(Completed(t))
      BY <2>5, CompletedClosed DEF GraphInv
    <3> QED BY <2>1, <2>4, <3>1 DEF GraphInv, Closed
  <2> QED BY <2>1, <2>5 DEF GraphInv
<1>3. CASE Complete(t)
  <2>1. /\ pc[t] = "complete" /\ Leave(t)
        /\ UNCHANGED <<workflow, updates, def, checkpoints, everDone, approved>>
    BY <1>3 DEF Complete
  <2>2. order[t] \in Orders(def[t]) /\ LoopDone(t) /\ def[t] \in Definitions
    BY <1>0, <2>1 DEF ThreadOK, TypeInv, TypeOK
  <2>3. NodesOf[def[t]] \subseteq {order[t][i] : i \in 1 .. Len(order[t])}
    BY <2>2, OrderFacts
  <2>4. 1 .. Len(order[t]) \subseteq 1 .. (pos[t] - 1)
    BY <1>0, <2>2 DEF LoopDone, TypeInv, TypeOK
  <2>5. NodesOf[def[t]] \subseteq Completed(t)
    BY <2>3, <2>4 DEF Completed
  <2>6. NodesOf[def[t]] \subseteq everDone /\ NodesOf[def[t]] \cap WaitNodes \subseteq approved
    BY <1>0, <2>1, <2>5 DEF ThreadOK, PassedPcs
  <2>7. \A u \in Threads : skip'[u] \in {skip[u], {}}
    BY <1>0, <2>1 DEF Leave, TypeInv, TypeOK
  <2> QED BY <1>0, <2>1, <2>6, <2>7 DEF GraphInv, Closed
<1> QED BY <1>1, <1>2, <1>3 DEF EngineStep

LEMMA GraphStep ==
  ASSUME CoreInv, GraphInv, [Next]_vars
  PROVE  GraphInv'
<1> USE DEF row, stored, author, asked, local, bounds, SetStatus
<1>0. TypeInv
  BY DEF CoreInv
<1>1. ASSUME NEW t \in Threads, EngineStep(t) PROVE GraphInv'
  BY <1>1, GraphEngine
<1>2. ASSUME NEW r \in Requests, Load(r) PROVE GraphInv'
  <2>1. /\ UNCHANGED <<workflow, updates, status, checkpoints, everDone, approved>>
        /\ \A u \in Threads : def'[u] \in {def[u], workflow}
        /\ \A u \in Threads : skip'[u] \in {skip[u], checkpoints[Target(r)].done}
        /\ Target(r) \in 1 .. Len(checkpoints)
    BY <1>0, <1>2 DEF Load, Loadable, TypeInv, TypeOK
  <2> QED BY <2>1 DEF GraphInv, Closed
<1>3. ASSUME NEW r \in Requests, HandlerStep(r), ~Load(r) PROVE GraphInv'
  <2>1. /\ UNCHANGED <<workflow, updates, def, skip, checkpoints, everDone>>
        /\ approved \subseteq approved'
        /\ status' = "completed" => status = "completed"
    BY <1>3 DEF HandlerStep, CheckStatus, Check, TryLock, LoadFailed, Wake, Unlock,
                WriteStatus, Write
  <2> QED BY <1>0, <2>1, GraphKept
<1>4. ASSUME NEW d \in Definitions, UpdateWorkflow(d) PROVE GraphInv'
  BY <1>0, <1>4 DEF UpdateWorkflow, GraphInv, TypeInv, TypeOK
<1>5. CASE \/ \E o \in {"execute", "debug"} : Create(o)
           \/ \E r \in Requests, o \in Ops, p \in Pins \cup {0} : Call(r, o, p)
           \/ TimeoutScan \/ ExpireLock \/ Crash \/ DeleteWorkflow \/ UNCHANGED vars
  <2>1. /\ UNCHANGED <<workflow, updates, checkpoints, everDone, approved>>
        /\ \A u \in Threads : def'[u] \in {def[u], workflow}
        /\ \A u \in Threads : skip'[u] \in {skip[u], {}}
        /\ status' = "completed" => status = "completed"
    BY <1>0, <1>5 DEF Create, Call, TimeoutScan, ExpireLock, Crash, Die, DeleteWorkflow,
                      vars, TypeInv, TypeOK
  <2>2. Closed({})
    BY DEF Closed
  <2> QED BY <1>0, <2>1, <2>2, GraphKept
<1> QED BY <1>1, <1>2, <1>3, <1>4, <1>5 DEF Next

LEMMA GraphCorrect == Spec => []GraphInv
<1>1. Init => GraphInv
  BY GraphInit
<1>2. CoreInv /\ GraphInv /\ [Next]_vars => GraphInv'
  BY GraphStep
<1> QED BY <1>1, <1>2, CoreCorrect, PTL DEF Spec

(* Every checkpoint ever stored is a prefix of the graph.                     *)
THEOREM CheckpointsClosedHolds == Spec => []CheckpointsClosed
<1>1. TypeInv /\ GraphInv => CheckpointsClosed
  <2>1. TypeInv => DOMAIN checkpoints = 1 .. Len(checkpoints)
    BY DEF TypeInv, TypeOK
  <2> QED BY <2>1 DEF GraphInv, CheckpointsClosed
<1>2. CoreInv => TypeInv
  BY DEF CoreInv
<1> QED BY <1>1, <1>2, CoreCorrect, GraphCorrect, PTL

(* A completed execution has run every node and passed every wait.            *)
THEOREM CompletedMeansAllDoneHolds == Spec => []CompletedMeansAllDone
<1>1. GraphInv => CompletedMeansAllDone
  BY DEF GraphInv, CompletedMeansAllDone
<1> QED BY <1>1, GraphCorrect, PTL
-----------------------------------------------------------------------------
(* Checkpoint numbers.  A number that was read stays free until it is used,   *)
(* because only a driver inserts and there is one driver.                     *)

SavePcs == {"save_node", "save_wait", "save_final"}

LEMMA NumberKept ==
  ASSUME CheckpointNumberFree, UNCHANGED checkpoints,
         \A t \in Threads : pc'[t] \in SavePcs => pc[t] = pc'[t] /\ seq[t] = seq'[t]
  PROVE  CheckpointNumberFree'
BY DEF CheckpointNumberFree, SavePcs

LEMMA NumberEngine ==
  ASSUME TypeInv, SingleDriver, CheckpointNumberFree, NEW t \in Threads, EngineStep(t)
  PROVE  CheckpointNumberFree'
<1> USE DEF row, stored, author, asked, local, bounds, SetStatus, SavePcs
<1>1. CASE \/ Begin(t) \/ SkipNode(t) \/ StartNode(t) \/ UnknownNode(t)
           \/ FailNode(t) \/ PanicNode(t) \/ Suspend(t) \/ Complete(t)
  <2>1. /\ UNCHANGED checkpoints
        /\ \A u \in Threads : pc'[u] \in SavePcs => pc[u] = pc'[u] /\ seq[u] = seq'[u]
    BY <1>1 DEF Begin, SkipNode, AtNode, StartNode, UnknownNode, FailNode, PanicNode,
                Suspend, Complete, Die, Leave, Goto, TypeInv, TypeOK
  <2> QED BY <2>1, NumberKept
<1>2. CASE FinishNode(t) \/ FinishOrder(t)
  <2>1. /\ UNCHANGED checkpoints
        /\ seq' = [seq EXCEPT ![t] = Len(checkpoints) + 1]
        /\ \E p \in SavePcs : pc' = [pc EXCEPT ![t] = p]
    BY <1>2 DEF FinishNode, FinishOrder, Goto
  <2>2. \A u \in Threads : u # t => pc'[u] = pc[u] /\ seq'[u] = seq[u]
    BY <2>1 DEF TypeInv, TypeOK
  <2>3. seq'[t] = Len(checkpoints) + 1
    BY <2>1 DEF TypeInv, TypeOK
  <2> QED BY <2>1, <2>2, <2>3 DEF CheckpointNumberFree
<1>3. CASE SaveCheckpoint(t)
  <2>1. Driving(t) /\ pc'[t] \notin SavePcs /\ \A u \in Threads : u # t => pc'[u] = pc[u]
    BY <1>3 DEF SaveCheckpoint, Insert, Goto, Driving, TypeInv, TypeOK
  <2>2. \A u \in Threads : pc'[u] \notin SavePcs
    BY <2>1 DEF SingleDriver, Driving
  <2> QED BY <2>2 DEF CheckpointNumberFree
<1> QED BY <1>1, <1>2, <1>3 DEF EngineStep

LEMMA NumberStep ==
  ASSUME TypeInv, BornOK, SingleDriver, CheckpointNumberFree, [Next]_vars
  PROVE  CheckpointNumberFree'
<1> USE DEF row, stored, author, asked, local, bounds, SetStatus, Goto, SavePcs
<1>1. ASSUME NEW t \in Threads, EngineStep(t) PROVE CheckpointNumberFree'
  BY <1>1, NumberEngine
<1>2. ASSUME NEW r \in Requests, HandlerStep(r) PROVE CheckpointNumberFree'
  <2>1. /\ UNCHANGED <<checkpoints, seq>>
        /\ \E p \in HandlerPcs \cup {"end", "begin"} : pc' = [pc EXCEPT ![r] = p]
    BY <1>2 DEF HandlerStep, CheckStatus, Check, TryLock, Load, LoadFailed, Wake, Unlock,
                WriteStatus, Write
  <2> QED BY <2>1, NumberKept DEF Threads, TypeInv, TypeOK
<1>3. ASSUME NEW o \in {"execute", "debug"}, Create(o) PROVE CheckpointNumberFree'
  BY <1>3, NumberKept DEF Create, Threads, TypeInv, TypeOK
<1>4. ASSUME NEW r \in Requests, NEW o \in Ops, NEW p \in Pins \cup {0}, Call(r, o, p)
      PROVE  CheckpointNumberFree'
  BY <1>4, NumberKept, ThreadAssumption DEF Call, Threads, TypeInv, TypeOK
<1>5. CASE \/ TimeoutScan \/ ExpireLock \/ Crash \/ (\E d \in Definitions : UpdateWorkflow(d))
           \/ DeleteWorkflow \/ UNCHANGED vars
  BY <1>5, NumberKept DEF TimeoutScan, ExpireLock, Crash, Die, UpdateWorkflow,
                          DeleteWorkflow, vars
<1> QED BY <1>1, <1>2, <1>3, <1>4, <1>5 DEF Next

(* With locks that outlive their holders, no checkpoint is ever lost to the   *)
(* unique (execution_id, seq) index.                                          *)
THEOREM CheckpointNumberFreeHolds ==
  ASSUME MaxOverruns = 0
  PROVE  Spec => []CheckpointNumberFree
<1>1. Init => CheckpointNumberFree
  BY DEF Init, CheckpointNumberFree
<1>2. TypeInv /\ BornOK /\ SingleDriver /\ CheckpointNumberFree /\ [Next]_vars
        => CheckpointNumberFree'
  BY NumberStep
<1>3. CoreInv => TypeInv /\ BornOK
  BY DEF CoreInv
<1> QED BY <1>1, <1>2, <1>3, CoreCorrect, SingleDriverHolds, PTL DEF Spec
-----------------------------------------------------------------------------
(* Waiting and completed executions are driven by nobody: the two statuses    *)
(* are written by a driver as it leaves, and a resume writes running before   *)
(* it drives.                                                                 *)

RestInv == \A t \in Threads : Driving(t) => status \notin {"waiting", "completed"}

LEMMA RestInit == Init => RestInv
BY DEF Init, RestInv, Driving

LEMMA RestStep ==
  ASSUME TypeInv, BornOK, SingleDriver, RestInv, [Next]_vars
  PROVE  RestInv'
<1> USE DEF row, bounds, SetStatus, Driving, Goto
<1>1. ASSUME NEW t \in Threads, EngineStep(t), ~Die PROVE RestInv'
  <2>1. Driving(t) /\ \A u \in Threads : Driving(u) => u = t
    BY <1>1 DEF SingleDriver, EngineStep, Begin, SkipNode, AtNode, StartNode, UnknownNode, FinishNode,
                FailNode, PanicNode, FinishOrder, SaveCheckpoint, Insert, Suspend, Complete
  <2>2. /\ \E p \in EnginePcs \cup {"end", "unlock"} : pc' = [pc EXCEPT ![t] = p]
        /\ \/ status' \notin {"waiting", "completed"}
           \/ status' = status
           \/ pc' = [pc EXCEPT ![t] = IF t = Starter THEN "end" ELSE "unlock"]
    <3>1. CASE \/ Begin(t) \/ StartNode(t) \/ UnknownNode(t) \/ FailNode(t) \/ PanicNode(t)
               \/ Suspend(t) \/ Complete(t)
      BY <1>1, <3>1 DEF Begin, StartNode, UnknownNode, FailNode, PanicNode, Suspend, Complete, Leave
    <3>2. CASE SkipNode(t) \/ FinishNode(t) \/ FinishOrder(t) \/ SaveCheckpoint(t)
      BY <3>2 DEF SkipNode, AtNode, FinishNode, FinishOrder, SaveCheckpoint, Insert, TypeInv, TypeOK
    <3> QED BY <1>1, <3>1, <3>2 DEF EngineStep
  <2>3. \A u \in Threads : Driving(u)' => u = t
    BY <2>1, <2>2 DEF TypeInv, TypeOK
  <2> QED BY <2>1, <2>2, <2>3 DEF RestInv, TypeInv, TypeOK
<1>2. CASE Die
  BY <1>2 DEF Die, RestInv
<1>3. ASSUME NEW r \in Requests, HandlerStep(r) PROVE RestInv'
  <2>1. /\ r \in Threads
        /\ status' \in {status, "running", "failed", "cancelled"}
        /\ \E p \in HandlerPcs \cup {"begin", "end"} : pc' = [pc EXCEPT ![r] = p]
        /\ pc'[r] = "begin" => status' = "running"
    BY <1>3 DEF HandlerStep, CheckStatus, Check, TryLock, Load, LoadFailed, Wake, Unlock,
                WriteStatus, Write, Threads, TypeInv, TypeOK
  <2>2. \A u \in Threads : Driving(u)' => Driving(u) \/ status' = "running"
    BY <2>1 DEF TypeInv, TypeOK
  <2> QED BY <2>1, <2>2 DEF RestInv
<1>4. ASSUME NEW o \in {"execute", "debug"}, Create(o) PROVE RestInv'
  BY <1>4 DEF Create, RestInv
<1>5. ASSUME NEW r \in Requests, NEW o \in Ops, NEW p \in Pins \cup {0}, Call(r, o, p)
      PROVE  RestInv'
  BY <1>5, ThreadAssumption DEF Call, RestInv, Threads, TypeInv, TypeOK
<1>6. CASE \/ TimeoutScan \/ ExpireLock \/ (\E d \in Definitions : UpdateWorkflow(d))
           \/ DeleteWorkflow \/ UNCHANGED vars
  BY <1>6 DEF TimeoutScan, ExpireLock, UpdateWorkflow, DeleteWorkflow, vars, RestInv
<1> QED BY <1>1, <1>2, <1>3, <1>4, <1>5, <1>6 DEF Next, Crash

-----------------------------------------------------------------------------
(* The latest checkpoint.  Unless a goroutine is between a node's success and *)
(* the insert, or died there, the latest checkpoint holds all that has        *)
(* succeeded; a goroutine that died there leaves a status no resume accepts.  *)

Latest == IF checkpoints = <<>> THEN {} ELSE checkpoints[Len(checkpoints)].done

Entered == checkpoints # <<>> /\ checkpoints[Len(checkpoints)].reason = "enter_waiting"

Unsaved == \E t \in Threads : pc[t] \in {"save_node", "save_wait"}

(* Locations of a goroutine that resumes from the latest checkpoint or drives. *)
WorkPcs == {"wake"} \cup EnginePcs
NearPcs == {"lock", "load"} \cup WorkPcs

LatestInv ==
  /\ \A t \in Threads : pin[t] = 0
  /\ status = "none" => everDone = {} /\ checkpoints = <<>>
  /\ (status = "waiting" \/ \E t \in Threads : pc[t] \in NearPcs) /\ ~Unsaved
       => everDone = Latest
  /\ \A t \in Threads : pc[t] \in WorkPcs => Completed(t) = everDone
  /\ (status = "waiting" \/ \E t \in Threads : pc[t] = "suspend") => Entered

LEMMA LastAppended ==
  ASSUME NEW S, NEW s \in Seq(S), NEW e \in S
  PROVE  Append(s, e) # <<>> /\ Append(s, e)[Len(Append(s, e))] = e
OBVIOUS

LEMMA LatestInit == Init => LatestInv
BY DEF Init, LatestInv, Latest, WorkPcs, NearPcs

(* Whoever holds the loaded checkpoint or drives is the only one to do so. *)
LEMMA OneWorker ==
  ASSUME LockInv, NEW t \in Threads, NEW u \in Threads,
         pc[t] \in {"load"} \cup WorkPcs, pc[u] \in {"load"} \cup WorkPcs,
         pc[Starter] \notin {"load", "wake"}
  PROVE  t = u
BY DEF LockInv, Holding, Driving, Threads, WorkPcs

(* The starter is a goroutine, not a request. *)
StarterOK == pc[Starter] \in {"idle", "end"} \cup EnginePcs

LEMMA StarterStep ==
  ASSUME TypeInv, StarterOK, [Next]_vars
  PROVE  StarterOK'
<1> USE DEF Goto, StarterOK, Threads
<1>1. ASSUME NEW t \in Threads, EngineStep(t) PROVE StarterOK'
  BY <1>1 DEF EngineStep, Begin, SkipNode, StartNode, UnknownNode, FinishNode, FailNode, PanicNode,
              FinishOrder, SaveCheckpoint, Insert, Suspend, Complete, Die, Leave, TypeInv, TypeOK
<1>2. ASSUME NEW r \in Requests, HandlerStep(r) PROVE StarterOK'
  BY <1>2, ThreadAssumption
     DEF HandlerStep, CheckStatus, Check, TryLock, Load, LoadFailed, Wake, Unlock, WriteStatus, Write,
         TypeInv, TypeOK
<1>3. CASE \/ \E o \in {"execute", "debug"} : Create(o)
           \/ \E r \in Requests, o \in Ops, p \in Pins \cup {0} : Call(r, o, p)
  BY <1>3, ThreadAssumption DEF Create, Call, TypeInv, TypeOK
<1>4. CASE \/ TimeoutScan \/ ExpireLock \/ Crash \/ (\E d \in Definitions : UpdateWorkflow(d))
           \/ DeleteWorkflow \/ UNCHANGED vars
  BY <1>4 DEF TimeoutScan, ExpireLock, Crash, Die, UpdateWorkflow, DeleteWorkflow, vars
<1> QED BY <1>1, <1>2, <1>3, <1>4 DEF Next

(* What the steps below start from. *)
WorkInv ==
  /\ CoreInv
  /\ LockInv
  /\ StarterOK
  /\ RestInv
  /\ CheckpointNumberFree

(* A driver that is not about to insert knows the latest checkpoint. *)
LEMMA DriverKnows ==
  ASSUME WorkInv, LatestInv, NEW t \in Threads, Driving(t), pc[t] \notin {"save_node", "save_wait"}
  PROVE  /\ everDone = Latest /\ Completed(t) = everDone
         /\ status \notin {"none", "waiting", "completed"}
         /\ \A u \in Threads : u # t => pc[u] \notin {"load"} \cup WorkPcs
<1>1. \A u \in Threads : u # t => pc[u] \notin {"load"} \cup WorkPcs
  BY OneWorker DEF WorkInv, StarterOK, Driving, WorkPcs
<1>2. ~Unsaved
  BY <1>1 DEF Unsaved, WorkPcs
<1>3. status \notin {"none", "waiting", "completed"}
  BY DEF WorkInv, RestInv, CoreInv, BornOK, Driving
<1> QED BY <1>1, <1>2, <1>3 DEF LatestInv, Driving, NearPcs, WorkPcs

(* A driver leaves Execute. *)
LEMMA LatestLeave ==
  ASSUME WorkInv, LatestInv, NEW t \in Threads, Driving(t), pc[t] \notin {"save_node", "save_wait"},
         Leave(t), UNCHANGED <<checkpoints, everDone, pin>>,
         status' # "none", status' = "waiting" => pc[t] = "suspend"
  PROVE  LatestInv'
<1>1. /\ everDone = Latest /\ Completed(t) = everDone
      /\ \A u \in Threads : u # t => pc[u] \notin {"load"} \cup WorkPcs
  BY DriverKnows
<1>2. everDone' = Latest'
  BY <1>1 DEF Latest
<1>3. \A u \in Threads : pc'[u] \notin WorkPcs
  BY <1>1 DEF Leave, Goto, WorkPcs, CoreInv, WorkInv, TypeInv, TypeOK
<1>4. status' = "waiting" => Entered'
  BY DEF LatestInv, Entered
<1> QED BY <1>2, <1>3, <1>4 DEF LatestInv, WorkPcs

(* A driver moves on and completes nothing. *)
LEMMA LatestInside ==
  ASSUME WorkInv, LatestInv, NEW t \in Threads, Driving(t),
         pc[t] \notin {"save_node", "save_wait", "suspend"},
         NEW p \in EnginePcs \ {"save_node", "save_wait", "suspend"}, pc' = [pc EXCEPT ![t] = p],
         Completed(t)' = Completed(t), UNCHANGED <<checkpoints, everDone, pin>>,
         status' \notin {"none", "waiting"}
  PROVE  LatestInv'
<1>1. /\ everDone = Latest /\ Completed(t) = everDone
      /\ \A u \in Threads : u # t => pc[u] \notin {"load"} \cup WorkPcs
  BY DriverKnows
<1>2. everDone' = Latest'
  BY <1>1 DEF Latest
<1>3. \A u \in Threads : pc'[u] \in WorkPcs => u = t
  BY <1>1 DEF WorkPcs, CoreInv, WorkInv, TypeInv, TypeOK
<1>4. pc'[t] = p
  BY DEF CoreInv, WorkInv, TypeInv, TypeOK
<1>5. \A u \in Threads : pc'[u] # "suspend"
  BY <1>3, <1>4 DEF WorkPcs
<1> QED BY <1>1, <1>2, <1>3, <1>5 DEF LatestInv

LEMMA LatestDie ==
  ASSUME WorkInv, LatestInv, Die
  PROVE  LatestInv'
<1>1. /\ UNCHANGED <<checkpoints, everDone, pin, status>>
      /\ \A u \in Threads : pc'[u] \in {"idle", "end"}
  BY DEF Die, row, stored, asked
<1>2. status = "waiting" => ~Unsaved
  BY DEF Unsaved, WorkInv, RestInv, Driving
<1>3. status = "waiting" => everDone' = Latest' /\ Entered'
  BY <1>1, <1>2 DEF LatestInv, Latest, Entered
<1> QED BY <1>1, <1>3 DEF LatestInv, WorkPcs, NearPcs

LEMMA LatestEngine ==
  ASSUME WorkInv, LatestInv, NEW t \in Threads, EngineStep(t)
  PROVE  LatestInv'
<1> USE DEF row, stored, asked, bounds, local, author, SetStatus, Goto
<1>0. TypeInv /\ BornOK /\ ThreadOK(t)
  BY DEF WorkInv, CoreInv, ProgressInv
<1>a. pc[t] # "idle" => status \notin {"none"}
  BY <1>0 DEF BornOK
<1>1. CASE Begin(t)
  <2>1. Driving(t) /\ pc[t] = "begin"
    BY <1>1 DEF Begin, Driving
  <2>2. CASE Leave(t)
    BY <1>1, <2>1, <2>2, LatestLeave DEF Begin
  <2>3. CASE ~Leave(t)
    <3>1. /\ pc' = [pc EXCEPT ![t] = "node"] /\ status' = "running"
          /\ UNCHANGED <<skip, pos, checkpoints, everDone, pin>>
      BY <1>1, <2>3 DEF Begin
    <3>2. pos[t] = 1
      BY <1>0, <2>1 DEF TypeInv, PositionOK
    <3>3. Completed(t)' = Completed(t)
      BY <3>1, <3>2 DEF Completed
    <3> QED BY <2>1, <3>1, <3>3, LatestInside
  <2> QED BY <2>2, <2>3
<1>2. CASE SkipNode(t)
  <2>1. /\ pc[t] = "node" /\ pos[t] \in 1 .. Len(order[t])
        /\ order[t][pos[t]] \in skip[t]
        /\ pos' = [pos EXCEPT ![t] = @ + 1]
        /\ UNCHANGED <<status, pc, skip, order, checkpoints, everDone, pin>>
    BY <1>0, <1>2 DEF SkipNode, AtNode, LoopDone, TypeInv, TypeOK
  <2>2. Completed(t)' = Completed(t)
    BY <1>0, <2>1 DEF Completed, TypeInv, TypeOK
  <2>3. Driving(t) /\ pc' = [pc EXCEPT ![t] = "node"]
    BY <1>0, <2>1 DEF Driving, TypeInv, TypeOK
  <2>4. status' \notin {"none", "waiting"}
    BY <2>1, <2>3, DriverKnows
  <2> QED BY <2>1, <2>2, <2>3, <2>4, LatestInside
<1>3. CASE StartNode(t)
  <2>1. /\ pc[t] = "node" /\ pc' = [pc EXCEPT ![t] = "exec"] /\ status' \in {status, "running"}
        /\ UNCHANGED <<skip, order, pos, checkpoints, everDone, pin>>
    BY <1>3 DEF StartNode, AtNode
  <2>2. Completed(t)' = Completed(t)
    BY <2>1 DEF Completed
  <2>3. Driving(t)
    BY <2>1 DEF Driving
  <2>4. status' \notin {"none", "waiting"}
    BY <2>1, <2>3, DriverKnows
  <2> QED BY <2>1, <2>2, <2>3, <2>4, LatestInside
<1>4. CASE UnknownNode(t)
  BY <1>4, LatestLeave DEF UnknownNode, AtNode, Driving
<1>5. CASE FinishNode(t)
  <2> DEFINE n == order[t][pos[t]]
  <2>1. /\ pc[t] = "exec" /\ pos[t] \in 1 .. Len(order[t])
        /\ everDone' = everDone \cup {n}
        /\ pc' = [pc EXCEPT ![t] = IF n \in WaitNodes THEN "save_wait" ELSE "save_node"]
        /\ pos' = [pos EXCEPT ![t] = @ + 1]
        /\ UNCHANGED <<status, skip, order, checkpoints, pin>>
    BY <1>0, <1>5 DEF FinishNode, TypeInv, TypeOK, PositionOK
  <2>2. Completed(t)' = Completed(t) \cup {n}
    BY <1>0, <2>1 DEF Completed, TypeInv, TypeOK
  <2>3. /\ Completed(t) = everDone /\ status \notin {"none", "waiting"}
        /\ \A u \in Threads : u # t => pc[u] \notin WorkPcs
    BY <2>1, DriverKnows DEF Driving
  <2>4. pc'[t] \in {"save_node", "save_wait"} /\ \A u \in Threads : u # t => pc'[u] = pc[u]
    BY <1>0, <2>1 DEF TypeInv, TypeOK
  <2>5. Unsaved' /\ \A u \in Threads : pc'[u] \in WorkPcs => u = t
    BY <2>3, <2>4 DEF Unsaved
  <2>6. \A u \in Threads : pc'[u] # "suspend"
    BY <2>4, <2>5 DEF WorkPcs
  <2> QED BY <2>1, <2>2, <2>3, <2>5, <2>6 DEF LatestInv
<1>6. CASE FailNode(t)
  BY <1>6, LatestLeave DEF FailNode, Driving
<1>7. CASE PanicNode(t)
  <2>1. CASE Die
    BY <2>1, LatestDie
  <2>2. CASE ~Die
    BY <1>7, <2>2, LatestLeave DEF PanicNode, Driving
  <2> QED BY <2>1, <2>2
<1>8. CASE FinishOrder(t)
  <2>1. /\ pc[t] = "node" /\ pc' = [pc EXCEPT ![t] = "save_final"]
        /\ UNCHANGED <<status, skip, order, pos, checkpoints, everDone, pin>>
    BY <1>8 DEF FinishOrder
  <2>2. Completed(t)' = Completed(t)
    BY <2>1 DEF Completed
  <2>3. Driving(t)
    BY <2>1 DEF Driving
  <2>4. status' \notin {"none", "waiting"}
    BY <2>1, <2>3, DriverKnows
  <2> QED BY <2>1, <2>2, <2>3, <2>4, LatestInside
<1>9. CASE SaveCheckpoint(t)
  <2>1. PICK why \in Reasons, to \in {"node", "suspend", "complete"} :
          /\ pc[t] \in {"save_node", "save_wait", "save_final"}
          /\ to = "suspend" => why = "enter_waiting"
          /\ checkpoints' = IF seq[t] = Len(checkpoints) + 1
                            THEN Append(checkpoints, [done |-> Completed(t), reason |-> why])
                            ELSE checkpoints
          /\ pc' = [pc EXCEPT ![t] = to]
          /\ UNCHANGED <<status, skip, order, pos, everDone, pin>>
    BY <1>9 DEF SaveCheckpoint, Insert
  <2>2. checkpoints' = Append(checkpoints, [done |-> Completed(t), reason |-> why])
    BY <2>1 DEF WorkInv, CheckpointNumberFree
  <2>3. checkpoints \in Seq(Checkpoint)
    BY <1>0 DEF TypeInv, TypeOK
  <2>4. [done |-> Completed(t), reason |-> why] \in Checkpoint
    BY <1>0, CompletedType DEF Checkpoint
  <2>5. /\ checkpoints' # <<>>
        /\ checkpoints'[Len(checkpoints')] = [done |-> Completed(t), reason |-> why]
    BY <2>2, <2>3, <2>4, LastAppended
  <2>6. Completed(t) = everDone
    BY <2>1 DEF LatestInv, WorkPcs
  <2>7. everDone' = Latest' /\ Completed(t)' = Completed(t) /\ (why = "enter_waiting" => Entered')
    <3>1. Completed(t)' = Completed(t)
      BY <2>1 DEF Completed
    <3>2. checkpoints'[Len(checkpoints')].done = Completed(t)
      BY <2>5
    <3>3. checkpoints'[Len(checkpoints')].reason = why
      BY <2>5
    <3>4. Latest' = Completed(t)
      BY <2>5, <3>2 DEF Latest
    <3>5. Entered' <=> why = "enter_waiting"
      BY <2>5, <3>3 DEF Entered
    <3> QED BY <2>1, <2>6, <3>1, <3>4, <3>5
  <2>8. /\ status \notin {"none", "waiting"}
        /\ \A u \in Threads : u # t => pc[u] \notin WorkPcs
    <3>1. Driving(t) /\ pc[t] # "idle"
      BY <2>1 DEF Driving
    <3>2. \A u \in Threads : u # t => pc[u] \notin WorkPcs
      BY <3>1, OneWorker DEF WorkInv, StarterOK, Driving, WorkPcs
    <3> QED BY <1>a, <3>1, <3>2 DEF WorkInv, RestInv
  <2>9. pc'[t] = to /\ \A u \in Threads : u # t => pc'[u] = pc[u]
    BY <1>0, <2>1 DEF TypeInv, TypeOK
  <2>10. \A u \in Threads : u # t => pc'[u] \notin WorkPcs
    BY <2>8, <2>9
  <2>11. (\E u \in Threads : pc'[u] = "suspend") => why = "enter_waiting"
    BY <2>1, <2>9, <2>10 DEF WorkPcs
  <2> QED BY <2>1, <2>6, <2>7, <2>8, <2>10, <2>11 DEF LatestInv
<1>10. CASE Suspend(t)
  BY <1>10, LatestLeave DEF Suspend, Driving
<1>11. CASE Complete(t)
  BY <1>11, LatestLeave DEF Complete, Driving
<1> QED
  BY <1>1, <1>2, <1>3, <1>4, <1>5, <1>6, <1>7, <1>8, <1>9, <1>10, <1>11 DEF EngineStep

(* A request moves outside Execute; only a waiting row lets it to the lock. *)
LEMMA LatestMove ==
  ASSUME WorkInv, LatestInv, NEW r \in Threads, NEW p \in HandlerPcs \cup {"end"}, p # "wake",
         pc' = [pc EXCEPT ![r] = p], pc[r] \notin WorkPcs,
         p \in {"lock", "load"} => status = "waiting" \/ pc[r] \in NearPcs,
         status' = "none" => status = "none",
         status' = "waiting" => status = "waiting",
         UNCHANGED <<skip, order, pos, checkpoints, everDone>>, \A u \in Threads : pin'[u] = 0
  PROVE  LatestInv'
<1>1. pc'[r] = p /\ \A u \in Threads : u # r => pc'[u] = pc[u]
  BY DEF WorkInv, CoreInv, TypeInv, TypeOK
<1>2. Latest' = Latest /\ Entered' = Entered /\ \A u \in Threads : Completed(u)' = Completed(u)
  BY DEF Latest, Entered, Completed
<1>3. \A u \in Threads : pc'[u] \in WorkPcs => pc[u] = pc'[u]
  BY <1>1 DEF WorkPcs
<1>4. Unsaved' = Unsaved
  BY <1>1 DEF Unsaved, WorkPcs
<1>5. (\E u \in Threads : pc'[u] \in NearPcs)
        => status = "waiting" \/ \E u \in Threads : pc[u] \in NearPcs
  BY <1>1 DEF NearPcs, WorkPcs
<1>6. (\E u \in Threads : pc'[u] = "suspend") => \E u \in Threads : pc[u] = "suspend"
  BY <1>3 DEF WorkPcs
<1> QED BY <1>2, <1>3, <1>4, <1>5, <1>6 DEF LatestInv

LEMMA LatestHandler ==
  ASSUME WorkInv, LatestInv, NEW r \in Requests, HandlerStep(r)
  PROVE  LatestInv'
<1> USE DEF row, stored, asked, bounds, local, author, SetStatus, Goto
<1>0. r \in Threads /\ TypeInv /\ BornOK
  BY DEF Threads, WorkInv, CoreInv
<1>a. \A u \in Threads : pin[u] = 0
  BY DEF LatestInv
<1>1. CASE CheckStatus(r)
  <2>1. /\ \E p \in {"resume", "lock", "reject_write", "cancel_write", "end"} :
             pc' = [pc EXCEPT ![r] = p] /\ (p = "lock" => status = "waiting")
        /\ pc[r] \notin WorkPcs
        /\ UNCHANGED <<status, skip, order, pos, checkpoints, everDone, pin>>
    BY <1>1 DEF CheckStatus, Check, WorkPcs
  <2>2. PICK p \in {"resume", "lock", "reject_write", "cancel_write", "end"} :
             pc' = [pc EXCEPT ![r] = p] /\ (p = "lock" => status = "waiting")
    BY <2>1
  <2> QED BY <1>0, <1>a, <2>1, <2>2, LatestMove
<1>2. CASE TryLock(r)
  <2>1. PICK p \in {"load", "end"} : pc' = [pc EXCEPT ![r] = p]
    BY <1>2 DEF TryLock
  <2> QED BY <1>0, <1>2, <1>a, <2>1, LatestMove DEF TryLock, NearPcs, WorkPcs
<1>3. CASE Load(r)
  <2>1. /\ pc[r] = "load" /\ Target(r) = Len(checkpoints) /\ Target(r) \in 1 .. Len(checkpoints)
        /\ pc' = [pc EXCEPT ![r] = "wake"]
        /\ skip' = [skip EXCEPT ![r] = checkpoints[Target(r)].done]
        /\ UNCHANGED <<status, order, pos, checkpoints, everDone, pin>>
    BY <1>0, <1>3, <1>a DEF Load, Loadable, Target, TypeInv, TypeOK
  <2>2. \A u \in Threads : u # r => pc[u] \notin WorkPcs
    BY <1>0, <2>1, OneWorker DEF WorkInv, StarterOK
  <2>3. ~Unsaved
    BY <2>1, <2>2 DEF Unsaved, WorkPcs
  <2>4. everDone = Latest
    BY <1>0, <2>1, <2>3 DEF LatestInv, NearPcs
  <2>5. checkpoints # <<>>
    BY <2>1
  <2>6. skip'[r] = everDone
    BY <1>0, <2>1, <2>4, <2>5 DEF Latest, TypeInv, TypeOK
  <2>7. order[r] = <<>> /\ pos[r] = 1
    BY <1>0, <2>1 DEF TypeInv, PositionOK
  <2>8. Completed(r)' = everDone
    BY <2>1, <2>6, <2>7 DEF Completed
  <2>9. pc'[r] = "wake" /\ \A u \in Threads : u # r => pc'[u] = pc[u]
    BY <1>0, <2>1 DEF TypeInv, TypeOK
  <2>10. \A u \in Threads : pc'[u] \in WorkPcs => u = r
    BY <2>2, <2>9
  <2>11. Latest' = Latest /\ Entered' = Entered /\ \A u \in Threads : pc'[u] # "suspend"
    BY <2>1, <2>9, <2>10 DEF Latest, Entered, WorkPcs
  <2> QED BY <2>1, <2>4, <2>8, <2>10, <2>11 DEF LatestInv
<1>4. CASE LoadFailed(r)
  BY <1>0, <1>4, <1>a, LatestMove DEF LoadFailed, WorkPcs
<1>5. CASE Wake(r)
  <2>1. /\ pc[r] = "wake" /\ pc' = [pc EXCEPT ![r] = "begin"] /\ status' = "running"
        /\ UNCHANGED <<skip, order, pos, checkpoints, everDone, pin>>
    BY <1>5 DEF Wake
  <2>2. \A u \in Threads : u # r => pc[u] \notin WorkPcs
    BY <1>0, <2>1, OneWorker DEF WorkInv, StarterOK, WorkPcs
  <2>3. pc'[r] = "begin" /\ \A u \in Threads : u # r => pc'[u] = pc[u]
    BY <1>0, <2>1 DEF TypeInv, TypeOK
  <2>4. ~Unsaved
    BY <2>1, <2>2 DEF Unsaved, WorkPcs
  <2>5. everDone = Latest /\ Completed(r) = everDone
    BY <1>0, <2>1, <2>4 DEF LatestInv, NearPcs, WorkPcs
  <2>6. Completed(r)' = Completed(r) /\ Latest' = Latest
    BY <2>1 DEF Completed, Latest
  <2>7. \A u \in Threads : pc'[u] \in WorkPcs => u = r
    BY <2>2, <2>3
  <2>8. \A u \in Threads : pc'[u] # "suspend"
    BY <2>3, <2>7 DEF WorkPcs
  <2> QED BY <2>1, <2>5, <2>6, <2>7, <2>8 DEF LatestInv
<1>6. CASE Unlock(r)
  BY <1>0, <1>6, <1>a, LatestMove DEF Unlock, WorkPcs
<1>7. CASE WriteStatus(r)
  BY <1>0, <1>7, <1>a, LatestMove DEF WriteStatus, Write, WorkPcs
<1> QED
  BY <1>1, <1>2, <1>3, <1>4, <1>5, <1>6, <1>7 DEF HandlerStep

LEMMA LatestStep ==
  ASSUME Pins = {}, WorkInv, LatestInv, [Next]_vars
  PROVE  LatestInv'
<1> USE DEF row, stored, asked, bounds, local, author, SetStatus, Goto
<1>0. TypeInv /\ BornOK /\ \A u \in Threads : pin[u] = 0
  BY DEF WorkInv, CoreInv, LatestInv
<1>1. ASSUME NEW o \in {"execute", "debug"}, Create(o) PROVE LatestInv'
  <2>1. /\ Starter \in Threads /\ \A u \in Threads : pc[u] = "idle"
        /\ pc' = [pc EXCEPT ![Starter] = "begin"] /\ status' \notin {"none", "waiting"}
        /\ everDone = {} /\ checkpoints = <<>>
        /\ UNCHANGED <<skip, order, pos, checkpoints, everDone, pin>>
    BY <1>1, <1>0 DEF Create, BornOK, Threads, LatestInv
  <2>2. pc'[Starter] = "begin" /\ \A u \in Threads : u # Starter => pc'[u] = "idle"
    BY <1>0, <2>1 DEF TypeInv, TypeOK
  <2>3. skip[Starter] = {} /\ pos[Starter] = 1
    BY <1>0, <2>1 DEF WorkInv, CoreInv, ProgressInv, ThreadOK, TypeInv, PositionOK
  <2>4. Completed(Starter)' = {} /\ Latest' = {}
    BY <2>1, <2>3 DEF Completed, Latest
  <2>5. \A u \in Threads : pc'[u] \in WorkPcs => u = Starter
    BY <2>2 DEF WorkPcs
  <2>6. \A u \in Threads : pc'[u] # "suspend"
    BY <2>2
  <2> QED BY <1>0, <2>1, <2>4, <2>5, <2>6 DEF LatestInv
<1>2. ASSUME NEW r \in Requests, NEW o \in Ops, NEW p \in Pins \cup {0}, Call(r, o, p)
      PROVE  LatestInv'
  <2>1. /\ r \in Threads /\ o \in {"resume", "approve", "reject", "cancel"} /\ p = 0
        /\ pc[r] \notin WorkPcs
        /\ UNCHANGED <<status, skip, order, pos, checkpoints, everDone>>
        /\ \A u \in Threads : pin'[u] = 0
        /\ pc' = [pc EXCEPT ![r] = o]
    BY <1>0, <1>2, ThreadAssumption DEF Threads, Call, WorkPcs, TypeInv, TypeOK
  <2> QED BY <2>1, LatestMove
<1>3. ASSUME NEW t \in Threads, EngineStep(t) PROVE LatestInv'
  BY <1>3, LatestEngine
<1>4. ASSUME NEW r \in Requests, HandlerStep(r) PROVE LatestInv'
  BY <1>4, LatestHandler
<1>5. CASE Crash
  BY <1>5, LatestDie DEF Crash
<1>6. CASE \/ TimeoutScan \/ ExpireLock \/ (\E d \in Definitions : UpdateWorkflow(d))
           \/ DeleteWorkflow \/ UNCHANGED vars
  <2>1. /\ UNCHANGED <<pc, skip, order, pos, checkpoints, everDone, pin>>
        /\ status' \in {status, "failed"}
    BY <1>6 DEF TimeoutScan, ExpireLock, UpdateWorkflow, DeleteWorkflow, vars
  <2>2. Latest' = Latest /\ Entered' = Entered /\ Unsaved' = Unsaved
        /\ \A u \in Threads : Completed(u)' = Completed(u)
    BY <2>1 DEF Latest, Entered, Unsaved, Completed
  <2> QED BY <2>1, <2>2 DEF LatestInv
<1> QED BY <1>1, <1>2, <1>3, <1>4, <1>5, <1>6 DEF Next

LEMMA WorkCorrect ==
  ASSUME MaxOverruns = 0
  PROVE  Spec => []WorkInv
<1>1. Init => LockInv /\ StarterOK /\ RestInv
  BY LockInit, RestInit DEF Init, StarterOK, Threads
<1>2. CoreInv => TypeInv /\ BornOK
  BY DEF CoreInv
<1>3. TypeInv /\ BornOK /\ SingleDriver /\ LockInv /\ StarterOK /\ RestInv /\ [Next]_vars
        => (LockInv /\ StarterOK /\ RestInv)'
  BY LockStep, StarterStep, RestStep
<1>4. CoreInv /\ LockInv /\ StarterOK /\ RestInv /\ CheckpointNumberFree => WorkInv
  BY DEF WorkInv
<1> QED
  BY <1>1, <1>2, <1>3, <1>4, CoreCorrect, SingleDriverHolds, CheckpointNumberFreeHolds, PTL DEF Spec

(* With locks that outlive their holders and resumes from the latest          *)
(* checkpoint, a waiting execution can be continued where it stopped: nothing *)
(* that has succeeded is missing from the checkpoint it would resume from.    *)
THEOREM WaitingIsResumableHolds ==
  ASSUME MaxOverruns = 0, Pins = {}
  PROVE  Spec => []WaitingIsResumable
<1>1. Init => LatestInv
  BY LatestInit
<1>2. WorkInv /\ LatestInv /\ [Next]_vars => LatestInv'
  BY LatestStep
<1>3. WorkInv /\ LatestInv => WaitingIsResumable
  <2> SUFFICES ASSUME WorkInv, LatestInv, status = "waiting" PROVE Entered /\ everDone = Latest
    BY DEF WaitingIsResumable, Entered, Latest
  <2>1. ~Unsaved
    BY DEF Unsaved, WorkInv, RestInv, Driving
  <2> QED BY <2>1 DEF LatestInv
<1> QED BY <1>1, <1>2, <1>3, WorkCorrect, PTL DEF Spec

-----------------------------------------------------------------------------
(* Node runs.  What the one driver has behind it is recorded succeeded or     *)
(* skipped, but for the node it is in, should the order name it twice.        *)

Done == {"succeeded", "skipped"}

Settled(t) ==
  \A i \in 1 .. (pos[t] - 1) :
    \/ nodeRun[order[t][i]] \in Done
    \/ pc[t] = "exec" /\ order[t][i] = order[t][pos[t]]

SettledInv ==
  /\ \A t \in Threads : pc[t] \in LoopPcs => Settled(t)
  /\ NodeRunsSettled

LEMMA SettledInit == Init => SettledInv
BY DEF Init, SettledInv, NodeRunsSettled

(* A step that records nothing and completes nothing. *)
LEMMA SettledKept ==
  ASSUME SettledInv, UNCHANGED <<nodeRun, workflow, updates>>,
         \A t \in Threads : pc'[t] \in LoopPcs =>
           pc'[t] = pc[t] /\ pos'[t] = pos[t] /\ order'[t] = order[t],
         status' = "completed" => status = "completed"
  PROVE  SettledInv'
BY DEF SettledInv, NodeRunsSettled, Settled

(* A driver's step, of which its own loop is all that is left to settle. *)
LEMMA SettledDriver ==
  ASSUME WorkInv, SettledInv, NEW t \in Threads, Driving(t),
         \A u \in Threads : u # t => pc'[u] = pc[u],
         status' # "completed",
         pc'[t] \in LoopPcs => Settled(t)'
  PROVE  SettledInv'
<1>1. \A u \in Threads : u # t => pc'[u] \notin LoopPcs
  BY LockMeansSingleDriver DEF WorkInv, SingleDriver, Driving
<1> QED BY <1>1 DEF SettledInv, NodeRunsSettled

LEMMA SettledEngine ==
  ASSUME WorkInv, GraphInv, SettledInv, NEW t \in Threads, EngineStep(t)
  PROVE  SettledInv'
<1> USE DEF row, stored, author, asked, local, bounds, SetStatus, Goto
<1>0. TypeInv /\ ThreadOK(t)
  BY DEF WorkInv, CoreInv, ProgressInv
<1>a. pc[t] \in LoopPcs => Settled(t)
  BY DEF SettledInv
<1>b. Driving(t) => status # "completed"
  BY DEF WorkInv, RestInv
<1>1. CASE Begin(t) /\ ~Leave(t)
  <2>1. /\ pc[t] = "begin" /\ pc' = [pc EXCEPT ![t] = "node"] /\ status' = "running"
        /\ UNCHANGED pos
    BY <1>1 DEF Begin
  <2>2. pos[t] = 1
    BY <1>0, <2>1 DEF TypeInv, PositionOK
  <2>3. Settled(t)'
    BY <2>1, <2>2 DEF Settled
  <2> QED BY <1>0, <2>1, <2>3, SettledDriver DEF Driving, TypeInv, TypeOK
<1>2. CASE SkipNode(t)
  <2>1. /\ pc[t] = "node" /\ pos[t] \in 1 .. Len(order[t])
        /\ nodeRun' = [nodeRun EXCEPT ![order[t][pos[t]]] = "skipped"]
        /\ pos' = [pos EXCEPT ![t] = @ + 1]
        /\ UNCHANGED <<status, pc, order>>
    BY <1>0, <1>2 DEF SkipNode, AtNode, LoopDone, Record, TypeInv, TypeOK
  <2>2. \A i \in 1 .. pos[t] : order[t][i] \in Node
    BY <1>0, <2>1 DEF TypeInv, TypeOK
  <2>3. pos'[t] = pos[t] + 1 /\ \A n \in Node : nodeRun'[n] =
          IF n = order[t][pos[t]] THEN "skipped" ELSE nodeRun[n]
    BY <1>0, <2>1 DEF TypeInv, TypeOK
  <2>4. \A i \in 1 .. (pos[t] - 1) : nodeRun[order[t][i]] \in Done
    BY <1>a, <2>1 DEF Settled
  <2>5. Settled(t)'
    <3>1. SUFFICES ASSUME NEW i \in 1 .. (pos'[t] - 1) PROVE nodeRun'[order[t][i]] \in Done
      BY <2>1 DEF Settled
    <3>2. i \in 1 .. pos[t] /\ (i = pos[t] \/ i \in 1 .. (pos[t] - 1))
      BY <2>1, <2>3
    <3> QED BY <2>2, <2>3, <2>4, <3>2 DEF Done
  <2> QED BY <1>b, <2>1, <2>5, SettledDriver DEF Driving
<1>3. CASE StartNode(t)
  <2>1. /\ pc[t] = "node" /\ pos[t] \in 1 .. Len(order[t])
        /\ nodeRun' = [nodeRun EXCEPT ![order[t][pos[t]]] = "running"]
        /\ pc' = [pc EXCEPT ![t] = "exec"] /\ status' \in {status, "running"}
        /\ UNCHANGED <<pos, order>>
    BY <1>0, <1>3 DEF StartNode, AtNode, LoopDone, Record, TypeInv, TypeOK
  <2>2. \A i \in 1 .. pos[t] : order[t][i] \in Node
    BY <1>0, <2>1 DEF TypeInv, TypeOK
  <2>3. \A n \in Node : n # order[t][pos[t]] => nodeRun'[n] = nodeRun[n]
    BY <1>0, <2>1 DEF TypeInv, TypeOK
  <2>4. \A i \in 1 .. (pos[t] - 1) : nodeRun[order[t][i]] \in Done
    BY <1>a, <2>1 DEF Settled
  <2>5. pc'[t] = "exec" /\ \A u \in Threads : u # t => pc'[u] = pc[u]
    BY <1>0, <2>1 DEF TypeInv, TypeOK
  <2>6. Settled(t)'
    <3>1. SUFFICES ASSUME NEW i \in 1 .. (pos[t] - 1), order[t][i] # order[t][pos[t]]
                   PROVE  nodeRun'[order[t][i]] \in Done
      BY <2>1, <2>5 DEF Settled
    <3>2. i \in 1 .. pos[t]
      BY <2>1
    <3> QED BY <2>2, <2>3, <2>4, <3>1, <3>2
  <2> QED BY <1>b, <2>1, <2>5, <2>6, SettledDriver DEF Driving
<1>4. CASE FinishNode(t)
  <2>1. /\ pc[t] = "exec" /\ pos[t] \in 1 .. Len(order[t])
        /\ nodeRun' = [nodeRun EXCEPT ![order[t][pos[t]]] = "succeeded"]
        /\ pos' = [pos EXCEPT ![t] = @ + 1]
        /\ UNCHANGED <<status, order>>
        /\ \A u \in Threads : u # t => pc'[u] = pc[u]
    BY <1>0, <1>4 DEF FinishNode, Record, TypeInv, TypeOK, PositionOK
  <2>2. \A i \in 1 .. pos[t] : order[t][i] \in Node
    BY <1>0, <2>1 DEF TypeInv, TypeOK
  <2>3. pos'[t] = pos[t] + 1 /\ \A n \in Node : nodeRun'[n] =
          IF n = order[t][pos[t]] THEN "succeeded" ELSE nodeRun[n]
    BY <1>0, <2>1 DEF TypeInv, TypeOK
  <2>4. \A i \in 1 .. (pos[t] - 1) :
          nodeRun[order[t][i]] \in Done \/ order[t][i] = order[t][pos[t]]
    BY <1>a, <2>1 DEF Settled
  <2>5. Settled(t)'
    <3>1. SUFFICES ASSUME NEW i \in 1 .. (pos'[t] - 1) PROVE nodeRun'[order[t][i]] \in Done
      BY <2>1 DEF Settled
    <3>2. i \in 1 .. pos[t] /\ (i = pos[t] \/ i \in 1 .. (pos[t] - 1))
      BY <2>1, <2>3
    <3> QED BY <2>2, <2>3, <2>4, <3>2 DEF Done
  <2> QED BY <1>b, <2>1, <2>5, SettledDriver DEF Driving
<1>5. CASE FinishOrder(t) \/ SaveCheckpoint(t)
  <2>1. /\ pc[t] \in {"node", "save_node", "save_wait", "save_final"}
        /\ \E p \in LoopPcs \ {"exec"} : pc' = [pc EXCEPT ![t] = p]
        /\ UNCHANGED <<status, nodeRun, order, pos>>
    BY <1>5 DEF FinishOrder, SaveCheckpoint, Insert
  <2>2. Settled(t)'
    BY <1>a, <2>1 DEF Settled
  <2>3. \A u \in Threads : u # t => pc'[u] = pc[u]
    BY <1>0, <2>1 DEF TypeInv, TypeOK
  <2> QED BY <1>b, <2>1, <2>2, <2>3, SettledDriver DEF Driving
<1>6. CASE \/ (Begin(t) /\ Leave(t)) \/ UnknownNode(t) \/ FailNode(t) \/ (PanicNode(t) /\ ~Die)
           \/ Suspend(t)
  <2>1. Driving(t) /\ Leave(t) /\ status' \in {"failed", "running", "waiting"}
    BY <1>6 DEF Begin, UnknownNode, AtNode, FailNode, PanicNode, Suspend, Driving
  <2>2. pc'[t] \notin LoopPcs /\ \A u \in Threads : u # t => pc'[u] = pc[u]
    BY <1>0, <2>1 DEF Leave, TypeInv, TypeOK
  <2> QED BY <2>1, <2>2, SettledDriver
<1>7. CASE Die
  BY <1>7, SettledKept DEF Die
<1>8. CASE Complete(t)
  <2>1. /\ pc[t] = "complete" /\ Leave(t)
        /\ UNCHANGED <<nodeRun, workflow, updates>>
    BY <1>8 DEF Complete
  <2>2. order[t] \in Orders(def[t]) /\ LoopDone(t) /\ def[t] \in Definitions
    BY <1>0, <2>1 DEF ThreadOK, TypeInv, TypeOK
  <2>3. NodesOf[def[t]] \subseteq {order[t][i] : i \in 1 .. Len(order[t])}
    BY <2>2, OrderFacts
  <2>4. 1 .. Len(order[t]) \subseteq 1 .. (pos[t] - 1)
    BY <1>0, <2>2 DEF LoopDone, TypeInv, TypeOK
  <2>5. \A n \in NodesOf[def[t]] : nodeRun[n] \in Done
    BY <1>a, <2>1, <2>3, <2>4 DEF Settled
  <2>6. NodeRunsSettled'
    BY <2>1, <2>5 DEF NodeRunsSettled, GraphInv, Done
  <2>7. \A u \in Threads : pc'[u] \notin LoopPcs
    <3>1. \A u \in Threads : u # t => pc[u] \notin LoopPcs
      BY <2>1, LockMeansSingleDriver DEF WorkInv, SingleDriver, Driving
    <3> QED BY <1>0, <2>1, <3>1 DEF Leave, TypeInv, TypeOK
  <2> QED BY <2>6, <2>7 DEF SettledInv
<1> QED
  BY <1>1, <1>2, <1>3, <1>4, <1>5, <1>6, <1>7, <1>8 DEF EngineStep

LEMMA SettledStep ==
  ASSUME WorkInv, GraphInv, SettledInv, [Next]_vars
  PROVE  SettledInv'
<1> USE DEF row, stored, author, asked, local, bounds, SetStatus, Goto
<1>0. TypeInv
  BY DEF WorkInv, CoreInv
<1>1. ASSUME NEW t \in Threads, EngineStep(t) PROVE SettledInv'
  BY <1>1, SettledEngine
<1>2. ASSUME NEW r \in Requests, HandlerStep(r) PROVE SettledInv'
  <2>1. /\ UNCHANGED <<nodeRun, workflow, updates, order, pos>>
        /\ status' = "completed" => status = "completed"
        /\ \E p \in HandlerPcs \cup {"begin", "end"} : pc' = [pc EXCEPT ![r] = p]
    BY <1>2 DEF HandlerStep, CheckStatus, Check, TryLock, Load, LoadFailed, Wake, Unlock,
                WriteStatus, Write
  <2>2. \A u \in Threads : pc'[u] \in LoopPcs => pc'[u] = pc[u]
    BY <1>0, <2>1 DEF Threads, TypeInv, TypeOK
  <2> QED BY <2>1, <2>2, SettledKept
<1>3. CASE \/ \E o \in {"execute", "debug"} : Create(o)
           \/ \E r \in Requests, o \in Ops, p \in Pins \cup {0} : Call(r, o, p)
  <2>1. /\ UNCHANGED <<nodeRun, workflow, updates, order, pos>>
        /\ status' = "completed" => status = "completed"
        /\ \E r \in Threads, p \in HandlerPcs \cup {"begin"} : pc' = [pc EXCEPT ![r] = p]
    BY <1>3, ThreadAssumption DEF Create, Call, Threads
  <2>2. \A u \in Threads : pc'[u] \in LoopPcs => pc'[u] = pc[u]
    BY <1>0, <2>1 DEF TypeInv, TypeOK
  <2> QED BY <2>1, <2>2, SettledKept
<1>4. ASSUME NEW d \in Definitions, UpdateWorkflow(d) PROVE SettledInv'
  <2>1. updates' # 0 /\ UNCHANGED <<nodeRun, pc, order, pos>>
    BY <1>0, <1>4 DEF UpdateWorkflow, TypeInv, TypeOK
  <2> QED BY <2>1 DEF SettledInv, Settled, NodeRunsSettled
<1>5. CASE TimeoutScan \/ ExpireLock \/ Crash \/ DeleteWorkflow \/ UNCHANGED vars
  BY <1>5, SettledKept DEF TimeoutScan, ExpireLock, Crash, Die, DeleteWorkflow, vars
<1> QED BY <1>1, <1>2, <1>3, <1>4, <1>5 DEF Next

(* With locks that outlive their holders, a completed execution shows every   *)
(* node run succeeded or skipped, whatever runs it was resumed from.          *)
THEOREM NodeRunsSettledHolds ==
  ASSUME MaxOverruns = 0
  PROVE  Spec => []NodeRunsSettled
<1>1. Init => SettledInv
  BY SettledInit
<1>2. WorkInv /\ GraphInv /\ SettledInv /\ [Next]_vars => SettledInv'
  BY SettledStep
<1>3. SettledInv => NodeRunsSettled
  BY DEF SettledInv
<1> QED BY <1>1, <1>2, <1>3, WorkCorrect, GraphCorrect, PTL DEF Spec

-----------------------------------------------------------------------------
(* Reruns.  A driver knows all that has succeeded, an order names a node only *)
(* once, and a driver starts neither what it skips nor what it has behind it. *)

LEMMA OrderInjective ==
  ASSUME NEW d \in Definitions, NEW s \in Orders(d),
         NEW i \in 1 .. Len(s), NEW j \in 1 .. Len(s), s[i] = s[j]
  PROVE  i = j
<1> DEFINE n == Cardinality(NodesOf[d])
<1>1. IsFiniteSet(NodesOf[d]) /\ n \in Nat
  <2>1. NodesOf[d] \in SUBSET Node
    BY GraphAssumption
  <2> QED BY <2>1, GraphAssumption, FS_Subset, FS_CardinalityType
<1>2. s \in [1 .. n -> NodesOf[d]] /\ NodesOf[d] \subseteq {s[k] : k \in DOMAIN s}
  BY DEF Orders
<1>3. Len(s) = n /\ DOMAIN s = 1 .. n
  BY <1>1, <1>2
<1>4. \A x \in NodesOf[d] : \E k \in 1 .. n : s[k] = x
  BY <1>2, <1>3
<1>5. s \in Surjection(1 .. n, NodesOf[d])
  BY <1>2, <1>4 DEF Surjection
<1>6. IsFiniteSet(1 .. n) /\ Cardinality(1 .. n) = n
  <2> HIDE DEF n
  <2>1. n \in Int /\ 1 \in Int /\ (IF 1 > n THEN 0 ELSE n - 1 + 1) = n
    BY <1>1
  <2> QED BY <2>1, FS_Interval
<1>7. s \in Injection(1 .. n, NodesOf[d])
  BY <1>1, <1>5, <1>6, FS_SurjSameCardinalityImpliesInj
<1> QED BY <1>3, <1>7 DEF Injection, IsInjective

LEMMA NoRerunStep ==
  ASSUME WorkInv, LatestInv, [Next]_vars, NEW n \in everDone, nodeRun'[n] = "running"
  PROVE  nodeRun[n] = "running"
<1> USE DEF row, stored, author, asked, local, bounds
<1>0. TypeInv /\ n \in Node
  BY DEF WorkInv, CoreInv, TypeInv, TypeOK
<1>1. ASSUME NEW t \in Threads, StartNode(t) PROVE nodeRun[n] = "running"
  <2> DEFINE m == order[t][pos[t]]
  <2>1. /\ pc[t] = "node" /\ pos[t] \in 1 .. Len(order[t])
        /\ m \notin skip[t] /\ nodeRun' = [nodeRun EXCEPT ![m] = "running"]
    BY <1>0, <1>1 DEF StartNode, AtNode, LoopDone, Record, TypeInv, TypeOK
  <2>2. Completed(t) = everDone
    BY <2>1 DEF LatestInv, WorkPcs
  <2>3. order[t] \in Orders(def[t]) /\ def[t] \in Definitions
    BY <1>0, <2>1 DEF WorkInv, CoreInv, ProgressInv, ThreadOK, TypeInv, TypeOK
  <2>4. m \notin everDone
    <3>1. SUFFICES ASSUME NEW i \in 1 .. (pos[t] - 1), order[t][i] = m PROVE FALSE
      BY <2>1, <2>2 DEF Completed
    <3>2. i \in 1 .. Len(order[t]) /\ i # pos[t]
      BY <2>1
    <3> QED BY <2>1, <2>3, <3>1, <3>2, OrderInjective
  <2> QED BY <1>0, <2>1, <2>4 DEF TypeInv, TypeOK
<1>2. ASSUME NEW t \in Threads, EngineStep(t), ~StartNode(t) PROVE nodeRun[n] = "running"
  <2>1. \/ UNCHANGED nodeRun
        \/ \E m, s : s # "running" /\ nodeRun' = [nodeRun EXCEPT ![m] = s]
    BY <1>2 DEF EngineStep, Begin, SkipNode, UnknownNode, FinishNode, FailNode, PanicNode, Die,
                FinishOrder, SaveCheckpoint, Insert, Suspend, Complete, Record
  <2> QED BY <1>0, <2>1 DEF TypeInv, TypeOK
<1>3. ASSUME NEW r \in Requests, HandlerStep(r) PROVE nodeRun[n] = "running"
  BY <1>3 DEF HandlerStep, CheckStatus, Check, TryLock, Load, LoadFailed, Wake, Unlock,
              WriteStatus, Write
<1>4. CASE \/ \E o \in {"execute", "debug"} : Create(o)
           \/ \E r \in Requests, o \in Ops, p \in Pins \cup {0} : Call(r, o, p)
           \/ TimeoutScan \/ ExpireLock \/ Crash
           \/ \E d \in Definitions : UpdateWorkflow(d)
           \/ DeleteWorkflow \/ UNCHANGED vars
  BY <1>4 DEF Create, Call, TimeoutScan, ExpireLock, Crash, Die, UpdateWorkflow, DeleteWorkflow, vars
<1> QED BY <1>1, <1>2, <1>3, <1>4 DEF Next

(* With locks that outlive their holders and resumes from the latest          *)
(* checkpoint, a node that has succeeded is never started again.              *)
THEOREM NoRerunHolds ==
  ASSUME MaxOverruns = 0, Pins = {}
  PROVE  Spec => NoRerun
<1>1. Init => LatestInv
  BY LatestInit
<1>2. WorkInv /\ LatestInv /\ [Next]_vars => LatestInv'
  BY LatestStep
<1>3. WorkInv /\ LatestInv /\ [Next]_vars
        => [\A n \in everDone : nodeRun'[n] = "running" => nodeRun[n] = "running"]_vars
  BY NoRerunStep
<1> QED BY <1>1, <1>2, <1>3, WorkCorrect, PTL DEF Spec, NoRerun

-----------------------------------------------------------------------------
(* Refinement.  A node's success is the abstract Do, a resume's write of the  *)
(* running status is Pass, and every other step stutters.                     *)

Unedited == updates = 0

LEMMA GatesInit == Init => Gates!Init
BY GraphAssumption DEF Init, Gates!Init

LEMMA GatesStep ==
  ASSUME MaxUpdates = 0, CoreInv, GraphInv, Unedited, [Next]_vars
  PROVE  [Gates!Next]_Gates!vars /\ Unedited'
<1> USE DEF Unedited, row, stored, author, asked, local, bounds, SetStatus
<1>1. ASSUME NEW t \in Threads, FinishNode(t)
      PROVE  Gates!Next /\ updates' = updates
  <2> DEFINE n == order[t][pos[t]]
  <2>1. n \in Node
    BY <1>1 DEF FinishNode, CoreInv, TypeInv, TypeOK, PositionOK
  <2>2. def[t] = workflow
    BY DEF GraphInv
  <2>3. \A m \in Node : <<m, n>> \in Edges[workflow] =>
                          m \in everDone /\ (m \in WaitNodes => m \in approved)
    BY <1>1, <2>2, DependenciesMet DEF FinishNode
  <2>4. Gates!Do(n)
    BY <1>1, <2>3 DEF FinishNode, Gates!Do
  <2> QED BY <1>1, <2>1, <2>4 DEF FinishNode, Gates!Next
<1>2. ASSUME NEW t \in Threads, EngineStep(t), ~FinishNode(t)
      PROVE  UNCHANGED <<workflow, updates, everDone, approved>>
  BY <1>2 DEF EngineStep, Begin, SkipNode, StartNode, UnknownNode, FailNode, PanicNode, Die,
              FinishOrder, SaveCheckpoint, Insert, Suspend, Complete
<1>3. ASSUME NEW r \in Requests, Wake(r)
      PROVE  Gates!Next /\ updates' = updates
  <2> DEFINE W == skip[r] \cap WaitNodes
  <2>1. skip[r] \subseteq everDone
    BY DEF CoreInv, ProgressInv, ThreadOK, Completed, Threads
  <2>2. Gates!Pass(W)
    BY <1>3, <2>1 DEF Wake, Gates!Pass
  <2> QED BY <1>3, <2>2 DEF Wake, Gates!Next
<1>4. ASSUME NEW r \in Requests, HandlerStep(r), ~Wake(r)
      PROVE  UNCHANGED <<workflow, updates, everDone, approved>>
  BY <1>4 DEF HandlerStep, CheckStatus, Check, TryLock, Load, LoadFailed, Unlock,
              WriteStatus, Write
<1>5. ~ \E d \in Definitions : UpdateWorkflow(d)
  BY DEF UpdateWorkflow
<1>6. ASSUME \/ \E o \in {"execute", "debug"} : Create(o)
             \/ \E r \in Requests, o \in Ops, p \in Pins \cup {0} : Call(r, o, p)
             \/ TimeoutScan \/ ExpireLock \/ Crash \/ DeleteWorkflow \/ UNCHANGED vars
      PROVE  UNCHANGED <<workflow, updates, everDone, approved>>
  BY <1>6 DEF Create, Call, TimeoutScan, ExpireLock, Crash, Die, DeleteWorkflow, vars
<1>7. workflow' = workflow /\ everDone' = everDone /\ approved' = approved
        => UNCHANGED Gates!vars
  BY DEF Gates!vars
<1>8. (Gates!Next \/ UNCHANGED Gates!vars) /\ updates' = 0
  BY <1>1, <1>2, <1>3, <1>4, <1>5, <1>6, <1>7 DEF Next
<1> QED BY <1>8

(* An execution whose definition is not edited implements the abstract        *)
(* machine: nodes get done in dependency order, and waits are passed by       *)
(* approval only, however requests race, locks expire and the process dies.   *)
THEOREM ImplementsGatesHolds ==
  ASSUME MaxUpdates = 0
  PROVE  Spec => ImplementsGates
<1>1. Init => Gates!Init /\ Unedited
  BY GatesInit DEF Init, Unedited
<1>2. CoreInv /\ GraphInv /\ Unedited /\ [Next]_vars => [Gates!Next]_Gates!vars /\ Unedited'
  BY GatesStep
<1> QED
  BY <1>1, <1>2, CoreCorrect, GraphCorrect, PTL DEF Spec, ImplementsGates, Gates!Spec
=============================================================================
