--------------------------- MODULE WorkflowExecution ---------------------------
(***************************************************************************)
(* One workflow execution: its row, its checkpoints and its node runs, the *)
(* goroutines that drive it through the engine, the request handlers that  *)
(* act on it at the same time, the resume lock, the timeout scanner and a  *)
(* server crash.  internal/engine/core/workflow_engine.go,                 *)
(* internal/workflow/{service,lock,timeout}.go.                            *)
(*                                                                         *)
(* A thread is the goroutine that started the execution (Starter) or the   *)
(* goroutine of one request.  Every database call of a thread is an action *)
(* of its own whenever another thread's call between two of them could be  *)
(* told apart; the engine ignores the errors of its writes and so does the *)
(* model.  Node inputs and outputs, variables, messages and current_node   *)
(* (written, never read back by any decision) are left out.                *)
(***************************************************************************)
EXTENDS Naturals, Sequences, FiniteSets

CONSTANTS
  Node,         \* node identifiers
  WaitNodes,    \* nodes of type "wait": they suspend the execution
  TimedWaits,   \* wait nodes with timeout_sec > 0
  Untyped,      \* nodes whose type has no registered executor
  Definitions,  \* workflow definitions an author may save
  Unparsable,   \* definitions ParseDefinition rejects
  NodesOf,      \* definition -> its nodes
  Edges,        \* definition -> its edges, pairs <<source, target>>
  Starter,      \* the goroutine of ExecuteWorkflow or DebugWorkflow
  Requests,     \* requests made on the execution once it exists
  Ops,          \* what those requests may ask for
  Pins,         \* checkpoint numbers a resume may ask for by "seq"
  MaxCrashes,   \* bound: server crashes
  MaxOverruns,  \* bound: resume locks that expire under their holder
  MaxUpdates    \* bound: edits of the definition while the execution lives

Threads == Requests \cup {Starter}

Resumes == {"resume", "approve"}

(* Names ending in _Bug are variants of the definition that follows them, each *)
(* with a mistake the code could have; the properties are tried against them.  *)

(* What TopologicalSort may return for d: each node once, every edge's source *)
(* before its target; nothing when the graph has a cycle.  Module             *)
(* TopologicalSort is the algorithm that finds one of them.                   *)
Respects_Bug(s, edges) ==    \* in-degrees counted at the source
  \A j \in DOMAIN s : \A m \in Node :
    <<s[j], m>> \in edges => \E i \in DOMAIN s : i < j /\ s[i] = m

Respects(s, edges) ==
  \A j \in DOMAIN s : \A m \in Node :
    <<m, s[j]>> \in edges => \E i \in DOMAIN s : i < j /\ s[i] = m

Orders(d) ==
  {s \in [1 .. Cardinality(NodesOf[d]) -> NodesOf[d]] :
     /\ NodesOf[d] \subseteq {s[i] : i \in DOMAIN s}
     /\ Respects(s, Edges[d])}

ASSUME GraphAssumption ==
  /\ WaitNodes \subseteq Node
  /\ TimedWaits \subseteq WaitNodes
  /\ IsFiniteSet(Node)
  /\ NodesOf \in [Definitions -> SUBSET Node]
  /\ Edges \in [Definitions -> SUBSET (Node \X Node)]
  /\ \A d \in Definitions : Edges[d] \subseteq NodesOf[d] \X NodesOf[d]

ASSUME ThreadAssumption ==
  /\ Starter \notin Requests
  /\ Ops \subseteq Resumes \cup {"reject", "cancel"}
  /\ Pins \subseteq Nat \ {0}
  /\ MaxCrashes \in Nat
  /\ MaxOverruns \in Nat
  /\ MaxUpdates \in Nat

VARIABLES
  (* the database *)
  status,       \* workflow_executions.status, "none" before the row exists
  waitUntil,    \* workflow_executions.wait_until: "null" or "set"
  nodeRun,      \* workflow_node_runs.status of attempt 1, by node
  checkpoints,  \* workflow_checkpoints in seq order: seq i is element i
  workflow,     \* the definition saved in the workflow's row
  wfRow,        \* that row: "live" or "deleted"
  lock,         \* the execution's lock key: "free" or "held"
  (* the threads *)
  pc,           \* what each thread does next
  op,           \* what its request asked for
  pin,          \* the seq its resume asked for, 0 for the latest
  def,          \* the definition it loaded
  skip,         \* the nodes its checkpoint marks completed
  order,        \* the node order it executes
  pos,          \* its position in that order
  seq,          \* the checkpoint number it read and is about to insert
  (* bounds and history *)
  crashes, overruns, updates,
  everDone,     \* nodes that have ever succeeded
  approved      \* wait nodes that some accepted resume continued past

row     == <<status, waitUntil>>
stored  == <<nodeRun, checkpoints, everDone>>
author  == <<workflow, wfRow, updates>>
asked   == <<op, pin>>
local   == <<skip, order, pos, seq>>
bounds  == <<crashes, overruns>>
vars    == <<row, stored, author, lock, pc, asked, def, local, bounds, approved>>

Statuses  == {"none", "pending", "debugging", "running", "waiting",
              "completed", "failed", "cancelled"}
Terminal  == {"completed", "failed", "cancelled"}
RunStates == {"none", "running", "succeeded", "failed", "skipped"}
Reasons   == {"node_ok", "enter_waiting", "final"}

(* Where a thread is inside Execute. *)
EnginePcs  == {"begin", "node", "exec", "save_node", "save_wait", "save_final",
               "suspend", "complete"}
HandlerPcs == {"approve", "resume", "lock", "load", "wake", "unlock",
               "reject", "reject_write", "cancel", "cancel_write"}

Driving(t) == pc[t] \in EnginePcs
Holding(t) == t \in Requests /\ (Driving(t) \/ pc[t] \in {"load", "wake", "unlock"})

Goto(t, p) == pc' = [pc EXCEPT ![t] = p]

(* The thread's goroutine leaves Execute; a resume still has to unlock. *)
Leave(t) ==
  /\ Goto(t, IF t = Starter THEN "end" ELSE "unlock")
  /\ skip'  = [skip EXCEPT ![t] = {}]
  /\ order' = [order EXCEPT ![t] = <<>>]
  /\ pos'   = [pos EXCEPT ![t] = 1]
  /\ seq'   = [seq EXCEPT ![t] = 0]

(* The unconditional status write of updateExecutionStatus and setWaiting. *)
SetStatus_Bug(s, until) ==   \* Reject's check moved into the shared write
  IF s = "failed" /\ status # "waiting" THEN UNCHANGED <<status, waitUntil>>
                                        ELSE status' = s /\ waitUntil' = until

SetStatus(s, until) == status' = s /\ waitUntil' = until

(* persistNodeRun: the one row of the node's attempt 1 takes the new status. *)
Record_Bug(n, s) ==          \* the value OnNodeEnd reports
  nodeRun' = [nodeRun EXCEPT ![n] = IF s = "succeeded" THEN "completed" ELSE s]
RecordOnce_Bug(n, s) ==      \* an existing row is left as it is
  nodeRun' = [nodeRun EXCEPT ![n] = IF @ = "none" THEN s ELSE @]

Record(n, s) == nodeRun' = [nodeRun EXCEPT ![n] = s]

-----------------------------------------------------------------------------
(* The engine *)

(* completed_node_ids: what the checkpoint skipped and what this thread has  *)
(* finished since.                                                           *)
Completed_Bug(t) ==          \* the list is copied before the node is appended
  skip[t] \cup {order[t][i] : i \in 1 .. (pos[t] - 2)}

Completed(t) == skip[t] \cup {order[t][i] : i \in 1 .. (pos[t] - 1)}

LoopDone_Bug(t) == pos[t] >= Len(order[t])   \* off by one

LoopDone(t) == pos[t] > Len(order[t])

AtNode(t) == pc[t] = "node" /\ ~LoopDone(t)

(* Execute up to its loop: the definition is parsed, the row is set running  *)
(* and the nodes are sorted.                                                 *)
Begin(t) ==
  /\ pc[t] = "begin"
  /\ \/ /\ def[t] \in Unparsable
        /\ SetStatus("failed", waitUntil)
        /\ Leave(t)
     \/ /\ def[t] \notin Unparsable
        /\ Orders(def[t]) = {}
        /\ SetStatus("failed", "null")
        /\ Leave(t)
     \/ /\ def[t] \notin Unparsable
        /\ \E s \in Orders(def[t]) : order' = [order EXCEPT ![t] = s]
        /\ SetStatus("running", "null")
        /\ Goto(t, "node")
        /\ UNCHANGED <<skip, pos, seq>>
  /\ UNCHANGED <<stored, author, lock, asked, def, bounds, approved>>

(* A node the checkpoint marks completed is only recorded as skipped. *)
SkipNode(t) ==
  /\ AtNode(t)
  /\ order[t][pos[t]] \in skip[t]
  /\ Record(order[t][pos[t]], "skipped")
  /\ pos' = [pos EXCEPT ![t] = @ + 1]
  /\ UNCHANGED <<row, checkpoints, everDone, author, lock, pc, asked, def,
                 skip, order, seq, bounds, approved>>

(* A debug session's OnNodeStart writes status running before every node. *)
StartNode(t) ==
  /\ AtNode(t)
  /\ order[t][pos[t]] \notin skip[t] \cup Untyped
  /\ Record(order[t][pos[t]], "running")
  /\ status' = IF op[t] = "debug" THEN "running" ELSE status
  /\ Goto(t, "exec")
  /\ UNCHANGED <<waitUntil, checkpoints, everDone, author, lock, asked, def,
                 local, bounds, approved>>

(* A node whose type has no executor fails the execution. *)
UnknownNode(t) ==
  /\ AtNode(t)
  /\ order[t][pos[t]] \in Untyped \ skip[t]
  /\ Record(order[t][pos[t]], "failed")
  /\ SetStatus("failed", "null")
  /\ Leave(t)
  /\ UNCHANGED <<checkpoints, everDone, author, lock, asked, def, bounds, approved>>

(* The executor returns; the run row is written and saveCheckpoint reads the *)
(* number it will use.                                                       *)
FinishNode(t) ==
  /\ pc[t] = "exec"
  /\ LET n == order[t][pos[t]] IN
       /\ Record(n, "succeeded")
       /\ everDone' = everDone \cup {n}
       /\ Goto(t, IF n \in WaitNodes THEN "save_wait" ELSE "save_node")
  /\ pos' = [pos EXCEPT ![t] = @ + 1]
  /\ seq' = [seq EXCEPT ![t] = Len(checkpoints) + 1]
  /\ UNCHANGED <<row, checkpoints, author, lock, asked, def, skip, order,
                 bounds, approved>>

FailNode(t) ==
  /\ pc[t] = "exec"
  /\ order[t][pos[t]] \notin WaitNodes
  /\ Record(order[t][pos[t]], "failed")
  /\ SetStatus("failed", "null")
  /\ Leave(t)
  /\ UNCHANGED <<checkpoints, everDone, author, lock, asked, def, bounds, approved>>

(* Every node of the order is behind: the final checkpoint is numbered. *)
FinishOrder(t) ==
  /\ pc[t] = "node"
  /\ LoopDone(t)
  /\ seq' = [seq EXCEPT ![t] = Len(checkpoints) + 1]
  /\ Goto(t, "save_final")
  /\ UNCHANGED <<row, stored, author, lock, asked, def, skip, order, pos,
                 bounds, approved>>

(* The insert of saveCheckpoint: it fails on the unique (execution_id, seq)  *)
(* index when another thread used the number first, and is then only logged. *)
Insert(t, why, from, to) ==
  /\ pc[t] = from
  /\ checkpoints' = IF seq[t] = Len(checkpoints) + 1
                    THEN Append(checkpoints, [done |-> Completed(t), reason |-> why])
                    ELSE checkpoints
  /\ seq' = [seq EXCEPT ![t] = 0]
  /\ Goto(t, to)
  /\ UNCHANGED <<row, nodeRun, everDone, author, lock, asked, def, skip, order,
                 pos, bounds, approved>>

SaveCheckpoint_Bug(t) ==     \* the return after setWaiting is missing
  \/ Insert(t, "node_ok", "save_node", "node")
  \/ Insert(t, "enter_waiting", "save_wait", "node")
  \/ Insert(t, "final", "save_final", "complete")

SaveCheckpoint(t) ==
  \/ Insert(t, "node_ok", "save_node", "node")
  \/ Insert(t, "enter_waiting", "save_wait", "suspend")
  \/ Insert(t, "final", "save_final", "complete")

(* setWaiting, after which Execute returns. *)
Suspend(t) ==
  /\ pc[t] = "suspend"
  /\ SetStatus("waiting", IF order[t][pos[t] - 1] \in TimedWaits THEN "set" ELSE "null")
  /\ Leave(t)
  /\ UNCHANGED <<stored, author, lock, asked, def, bounds, approved>>

Complete(t) ==
  /\ pc[t] = "complete"
  /\ SetStatus("completed", "null")
  /\ Leave(t)
  /\ UNCHANGED <<stored, author, lock, asked, def, bounds, approved>>

-----------------------------------------------------------------------------
(* The service's handlers *)

(* ExecuteWorkflow creates the row pending, DebugWorkflow debugging; both   *)
(* start the goroutine with the definition they have just read.             *)
Create(o) ==
  /\ status = "none"
  /\ wfRow = "live"
  /\ SetStatus(IF o = "debug" THEN "debugging" ELSE "pending", "null")
  /\ Goto(Starter, "begin")
  /\ op' = [op EXCEPT ![Starter] = o]
  /\ def' = [def EXCEPT ![Starter] = workflow]
  /\ UNCHANGED <<stored, author, lock, pin, local, bounds, approved>>

(* A request arrives.  CallbackExecution is one of approve and reject. *)
Call(r, o, p) ==
  /\ pc[r] = "idle"
  /\ status # "none"
  /\ o \notin Resumes => p = 0
  /\ Goto(r, o)
  /\ op' = [op EXCEPT ![r] = o]
  /\ pin' = [pin EXCEPT ![r] = p]
  /\ UNCHANGED <<row, stored, author, lock, def, local, bounds, approved>>

(* A handler reads the status and goes on only from the statuses it accepts; *)
(* Approve checks once itself and once more in resumeWithExtras.             *)
Check(r, at, accepted, to) ==
  /\ pc[r] = at
  /\ Goto(r, IF status \in accepted THEN to ELSE "end")
  /\ UNCHANGED <<row, stored, author, lock, asked, def, local, bounds, approved>>

CheckStatus(r) ==
  \/ Check(r, "approve", {"waiting"}, "resume")
  \/ Check(r, "resume",  {"waiting"}, "lock")
  \/ Check(r, "reject",  {"waiting"}, "reject_write")
  \/ Check(r, "cancel",  {"pending", "running", "waiting", "debugging"}, "cancel_write")

LockFree_Bug == TRUE         \* SETNX's answer is ignored

LockFree == lock = "free"

(* TryLock refuses while the key is present, and when Redis fails. *)
TryLock(r) ==
  /\ pc[r] = "lock"
  /\ \/ LockFree /\ lock' = "held" /\ Goto(r, "load")
     \/ UNCHANGED lock /\ Goto(r, "end")
  /\ UNCHANGED <<row, stored, author, asked, def, local, bounds, approved>>

(* The checkpoint a resume starts from: the one pinned, or the latest. *)
Target_Bug(r) == IF pin[r] = 0 THEN 1 ELSE pin[r]   \* ordered by seq ascending

Target(r) == IF pin[r] = 0 THEN Len(checkpoints) ELSE pin[r]

Loadable(r) == wfRow = "live" /\ Target(r) \in DOMAIN checkpoints

Load(r) ==
  /\ pc[r] = "load"
  /\ Loadable(r)
  /\ skip' = [skip EXCEPT ![r] = checkpoints[Target(r)].done]
  /\ def' = [def EXCEPT ![r] = workflow]
  /\ Goto(r, "wake")
  /\ UNCHANGED <<row, stored, author, lock, asked, order, pos, seq, bounds, approved>>

LoadFailed_Bug(r) ==         \* an error return without the unlock
  /\ pc[r] = "load"
  /\ ~Loadable(r)
  /\ Goto(r, "end")
  /\ UNCHANGED <<row, stored, author, lock, asked, def, local, bounds, approved>>

(* The workflow is gone or there is no such checkpoint: unlock and give up. *)
LoadFailed(r) ==
  /\ pc[r] = "load"
  /\ ~Loadable(r)
  /\ lock' = "free"
  /\ Goto(r, "end")
  /\ UNCHANGED <<row, stored, author, asked, def, local, bounds, approved>>

(* The row is set running without another look at it, and the goroutine that *)
(* calls Execute is started.                                                 *)
Wake(r) ==
  /\ pc[r] = "wake"
  /\ SetStatus("running", "null")
  /\ approved' = approved \cup (skip[r] \cap WaitNodes)
  /\ Goto(r, "begin")
  /\ UNCHANGED <<stored, author, lock, asked, def, local, bounds>>

(* The deferred unlock deletes the key, whoever set it. *)
Unlock(r) ==
  /\ pc[r] = "unlock"
  /\ lock' = "free"
  /\ Goto(r, "end")
  /\ UNCHANGED <<row, stored, author, asked, def, local, bounds, approved>>

(* Reject and cancel write without looking at the row again. *)
Write(r, at, s) ==
  /\ pc[r] = at
  /\ SetStatus(s, "null")
  /\ Goto(r, "end")
  /\ UNCHANGED <<stored, author, lock, asked, def, local, bounds, approved>>

WriteStatus(r) ==
  \/ Write(r, "reject_write", "failed")
  \/ Write(r, "cancel_write", "cancelled")

-----------------------------------------------------------------------------
(* The surroundings *)

(* FailTimedOutWaiting: one conditional update, some time after wait_until. *)
TimeoutScan_Bug ==           \* wait_until IS NULL
  /\ status = "waiting"
  /\ waitUntil = "null"
  /\ SetStatus("failed", "null")
  /\ UNCHANGED <<stored, author, lock, pc, asked, def, local, bounds, approved>>

TimeoutScan ==
  /\ status = "waiting"
  /\ waitUntil = "set"
  /\ SetStatus("failed", "null")
  /\ UNCHANGED <<stored, author, lock, pc, asked, def, local, bounds, approved>>

(* The lock's 90 s pass.  A lock nobody holds any more always gets there. *)
ExpireLock ==
  /\ lock = "held"
  /\ lock' = "free"
  /\ IF \E t \in Threads : Holding(t)
     THEN overruns < MaxOverruns /\ overruns' = overruns + 1
     ELSE UNCHANGED overruns
  /\ UNCHANGED <<row, stored, author, pc, asked, def, local, crashes, approved>>

(* The process dies with every goroutine in it.  A key in Redis outlives it, *)
(* an in-process lock does not.                                              *)
Die ==
  /\ crashes < MaxCrashes
  /\ crashes' = crashes + 1
  /\ pc' = [t \in Threads |-> IF pc[t] = "idle" THEN "idle" ELSE "end"]
  /\ skip' = [t \in Threads |-> {}]
  /\ order' = [t \in Threads |-> <<>>]
  /\ pos' = [t \in Threads |-> 1]
  /\ seq' = [t \in Threads |-> 0]
  /\ lock' \in {"free", lock}
  /\ UNCHANGED <<row, stored, author, asked, def, overruns, approved>>

Crash == status # "none" /\ Die

(* An executor panics.  ExecuteAsync and resume recover and fail the          *)
(* execution; DebugWorkflow's goroutine does not, and the process dies.       *)
PanicNode(t) ==
  /\ pc[t] = "exec"
  /\ order[t][pos[t]] \notin WaitNodes
  /\ \/ /\ op[t] # "debug"
        /\ SetStatus("failed", waitUntil)
        /\ Leave(t)
        /\ UNCHANGED <<stored, author, lock, asked, def, bounds, approved>>
     \/ op[t] = "debug" /\ Die

(* The author edits or deletes the workflow; executions are left alone. *)
UpdateWorkflow(d) ==
  /\ updates < MaxUpdates
  /\ wfRow = "live"
  /\ d # workflow
  /\ workflow' = d
  /\ updates' = updates + 1
  /\ UNCHANGED <<row, stored, wfRow, lock, pc, asked, def, local, bounds, approved>>

DeleteWorkflow ==
  /\ wfRow = "live"
  /\ wfRow' = "deleted"
  /\ UNCHANGED <<row, stored, workflow, updates, lock, pc, asked, def, local, bounds, approved>>

-----------------------------------------------------------------------------
Init ==
  /\ status = "none"
  /\ waitUntil = "null"
  /\ nodeRun = [n \in Node |-> "none"]
  /\ checkpoints = <<>>
  /\ workflow \in Definitions
  /\ wfRow = "live"
  /\ lock = "free"
  /\ pc = [t \in Threads |-> "idle"]
  /\ op = [t \in Threads |-> "none"]
  /\ pin = [t \in Threads |-> 0]
  /\ def = [t \in Threads |-> workflow]
  /\ skip = [t \in Threads |-> {}]
  /\ order = [t \in Threads |-> <<>>]
  /\ pos = [t \in Threads |-> 1]
  /\ seq = [t \in Threads |-> 0]
  /\ crashes = 0
  /\ overruns = 0
  /\ updates = 0
  /\ everDone = {}
  /\ approved = {}

EngineStep(t) ==
  \/ Begin(t) \/ SkipNode(t) \/ StartNode(t) \/ UnknownNode(t)
  \/ FinishNode(t) \/ FailNode(t) \/ PanicNode(t) \/ FinishOrder(t)
  \/ SaveCheckpoint(t) \/ Suspend(t) \/ Complete(t)

HandlerStep(r) ==
  \/ CheckStatus(r) \/ TryLock(r) \/ Load(r) \/ LoadFailed(r) \/ Wake(r) \/ Unlock(r) \/ WriteStatus(r)

Next ==
  \/ \E o \in {"execute", "debug"} : Create(o)
  \/ \E r \in Requests, o \in Ops, p \in Pins \cup {0} : Call(r, o, p)
  \/ \E t \in Threads : EngineStep(t)
  \/ \E r \in Requests : HandlerStep(r)
  \/ TimeoutScan
  \/ ExpireLock
  \/ Crash
  \/ \E d \in Definitions : UpdateWorkflow(d)
  \/ DeleteWorkflow

Spec == Init /\ [][Next]_vars

(* Goroutines and handlers are scheduled, executors return, and the scanner  *)
(* ticks every 30 s; nobody has to make a request.                           *)
Fairness ==
  /\ \A t \in Threads : WF_vars(EngineStep(t))
  /\ \A r \in Requests : WF_vars(HandlerStep(r))
  /\ WF_vars(TimeoutScan)

FairSpec == Spec /\ Fairness
-----------------------------------------------------------------------------
(* Properties *)

Checkpoint == [done : SUBSET Node, reason : Reasons]

(* The values every variable ranges over. *)
TypeOK ==
  /\ status \in Statuses
  /\ waitUntil \in {"null", "set"}
  /\ nodeRun \in [Node -> RunStates]
  /\ checkpoints \in Seq(Checkpoint)
  /\ workflow \in Definitions
  /\ wfRow \in {"live", "deleted"}
  /\ lock \in {"free", "held"}
  /\ pc \in [Threads -> {"idle", "end"} \cup EnginePcs \cup HandlerPcs]
  /\ op \in [Threads -> {"none", "execute", "debug"} \cup Ops]
  /\ pin \in [Threads -> Nat]
  /\ def \in [Threads -> Definitions]
  /\ skip \in [Threads -> SUBSET Node]
  /\ order \in [Threads -> Seq(Node)]
  /\ pos \in [Threads -> Nat \ {0}]
  /\ seq \in [Threads -> Nat]
  /\ crashes \in Nat
  /\ overruns \in Nat
  /\ updates \in Nat
  /\ everDone \subseteq Node
  /\ approved \subseteq Node

(* A set of nodes that contains everything its members depend on. *)
Closed(S) == \A n \in S, m \in Node : <<m, n>> \in Edges[workflow] => m \in S

(* Every stored checkpoint, whichever goroutine wrote it and however many     *)
(* resumes from whichever checkpoint ran at once, is a prefix of the graph: a *)
(* resume from it never skips a node whose dependencies it would then run.    *)
CheckpointsClosed ==
  updates = 0 => \A i \in DOMAIN checkpoints : Closed(checkpoints[i].done)

(* The engine enters an executor only when everything the node depends on has *)
(* succeeded, in this goroutine or before the checkpoint it resumed from.     *)
PredecessorsFirst ==
  \A t \in Threads : \A m \in Node :
    /\ pc[t] = "exec"
    /\ <<m, order[t][pos[t]]>> \in Edges[def[t]]
    => m \in everDone

(* Nothing behind a wait node runs until a resume (or an approval) has        *)
(* continued past that wait: no race of requests opens the gate by itself.    *)
ApprovalGate ==
  \A t \in Threads : \A w \in WaitNodes :
    /\ pc[t] = "exec"
    /\ <<w, order[t][pos[t]]>> \in Edges[def[t]]
    => w \in approved

(* An execution is reported completed only after every node has succeeded and *)
(* every wait node has been continued past.                                   *)
CompletedMeansAllDone ==
  updates = 0 /\ status = "completed" =>
    /\ NodesOf[workflow] \subseteq everDone
    /\ NodesOf[workflow] \cap WaitNodes \subseteq approved

(* At most one goroutine drives the execution, when no lock expires early.    *)
SingleDriver ==
  \A t, u \in Threads : Driving(t) /\ Driving(u) => t = u

(* No checkpoint is lost to the unique index: the number a goroutine read is  *)
(* still free when it inserts.                                                *)
CheckpointNumberFree ==
  \A t \in Threads :
    pc[t] \in {"save_node", "save_wait", "save_final"} => seq[t] = Len(checkpoints) + 1

(* A waiting execution can be continued where it stopped: its latest          *)
(* checkpoint is the one written on entering the wait.                        *)
WaitingIsResumable ==
  status = "waiting" =>
    /\ checkpoints # <<>>
    /\ checkpoints[Len(checkpoints)].reason = "enter_waiting"
    /\ checkpoints[Len(checkpoints)].done = everDone

(* A completed execution shows every node run succeeded or skipped. *)
NodeRunsSettled ==
  updates = 0 /\ status = "completed" =>
    \A n \in NodesOf[workflow] : nodeRun[n] \in {"succeeded", "skipped"}

(* A node that has succeeded is never started again by a resume from the      *)
(* latest checkpoint.                                                         *)
NoRerun ==
  [][\A n \in everDone : nodeRun'[n] = "running" => nodeRun[n] = "running"]_vars

(* Once no more requests come, the execution comes to rest: it is not left    *)
(* running, unless the process died under it.                                 *)
Settles == <>[](status \in Terminal \cup {"waiting", "none"})

(* The resume lock is given back by whoever took it. *)
LockReleased == lock = "held" ~> lock = "free"

(* A wait with a deadline ends, by a request or by the scanner. *)
TimedWaitEnds == status = "waiting" /\ waitUntil = "set" ~> status # "waiting"

(* The abstract machine the execution implements: nodes of one graph get done *)
(* in dependency order and waits are passed by approval only.                 *)
Gates == INSTANCE ApprovalGates
           WITH Node <- Node, Wait <- WaitNodes,
                graph <- Edges[workflow], done <- everDone, passed <- approved

ImplementsGates == Gates!Spec

(* The statuses of the design: a terminal status is never left. *)
TerminalIsFinal == [][(status \in Terminal) => status' = status]_vars

(* A resume sets the row running only from waiting. *)
ResumeOnlyFromWaiting ==
  [][\A r \in Requests : pc[r] = "wake" /\ pc'[r] = "begin" => status = "waiting"]_vars
=============================================================================
