---------------------------- MODULE TopologicalSort ----------------------------
(***************************************************************************)
(* The order in which an execution visits the nodes of its definition:     *)
(* Kahn's algorithm as WorkflowEngine.TopologicalSort runs it, over a list *)
(* of node ids and a list of edges that nothing has validated: ids and     *)
(* edges may repeat, and an edge may name an id that is no node's.         *)
(*                                                                         *)
(* WorkflowExecution uses its result as the set Orders(d).                 *)
(***************************************************************************)
EXTENDS Naturals, Sequences, FiniteSets, Functions

CONSTANTS
  Id,         \* the ids an author may write
  MaxNodes,   \* bound: nodes of a definition
  MaxEdges    \* bound: edges of a definition

ASSUME IdAssumption == IsFiniteSet(Id) /\ "none" \notin Id

ASSUME BoundAssumption == MaxNodes \in Nat /\ MaxEdges \in Nat

VARIABLES
  nodes,      \* def.Nodes, their ids in the order written
  edges,      \* def.Edges, pairs <<Source, Target>>
  inDegree,   \* id -> its count, for the ids the map holds
  queue,
  result,     \* ids of the nodes appended so far
  current,    \* the id popped last, while its edges are relaxed
  cursor,     \* the index of the next edge to look at
  popped,     \* history: every id popped so far
  outcome     \* "running", "sorted" or "cycle"

(* Names ending in _Bug: see WorkflowExecution. *)

input == <<nodes, edges>>
vars  == <<input, inDegree, queue, result, popped, current, cursor, outcome>>

Source(e) == e[1]
Target(e) == e[2]
UpTo(n, S) == UNION {[1 .. m -> S] : m \in 0 .. n}

(* The keys of the inDegree map: every node, and every target of an edge. *)
Keys == Range(nodes) \cup {Target(e) : e \in Range(edges)}

(* How many edges point at id. *)
EdgesInto(id) == Cardinality({i \in DOMAIN edges : Target(edges[i]) = id})

(* The queue starts with the ids of degree zero, in the map's own order. *)
Init ==
  /\ nodes \in UpTo(MaxNodes, Id)
  /\ edges \in UpTo(MaxEdges, Id \X Id)
  /\ inDegree = [id \in Keys |-> EdgesInto(id)]
  /\ LET free == {id \in Keys : inDegree[id] = 0} IN
       queue \in {q \in [1 .. Cardinality(free) -> free] : Range(q) = free}
  /\ result = <<>>
  /\ popped = {}
  /\ current = "none"
  /\ cursor = 1
  /\ outcome = "running"

(* The head of the queue is appended when it is the id of a node. *)
Pop ==
  /\ outcome = "running"
  /\ current = "none"
  /\ queue # <<>>
  /\ current' = Head(queue)
  /\ queue' = Tail(queue)
  /\ result' = IF Head(queue) \in Range(nodes) THEN Append(result, Head(queue)) ELSE result
  /\ popped' = popped \cup {Head(queue)}
  /\ cursor' = 1
  /\ UNCHANGED <<input, inDegree, outcome>>

(* The next edge, if it leaves the popped id, frees its target by one. *)
Relax_Bug ==                 \* compared before the decrement
  /\ current # "none"
  /\ cursor <= Len(edges)
  /\ LET t == Target(edges[cursor]) IN
       IF Source(edges[cursor]) = current
       THEN /\ inDegree' = [inDegree EXCEPT ![t] = @ - 1]
            /\ queue' = IF inDegree[t] = 0 THEN Append(queue, t) ELSE queue
       ELSE UNCHANGED <<inDegree, queue>>
  /\ cursor' = cursor + 1
  /\ UNCHANGED <<input, result, popped, current, outcome>>

Relax ==
  /\ current # "none"
  /\ cursor <= Len(edges)
  /\ LET t == Target(edges[cursor]) IN
       IF Source(edges[cursor]) = current
       THEN /\ inDegree' = [inDegree EXCEPT ![t] = @ - 1]
            /\ queue' = IF inDegree[t] = 1 THEN Append(queue, t) ELSE queue
       ELSE UNCHANGED <<inDegree, queue>>
  /\ cursor' = cursor + 1
  /\ UNCHANGED <<input, result, popped, current, outcome>>

(* Every edge was looked at: back to the head of the loop. *)
Loop ==
  /\ current # "none"
  /\ cursor > Len(edges)
  /\ current' = "none"
  /\ UNCHANGED <<input, inDegree, queue, result, popped, cursor, outcome>>

(* The queue is empty: an order of all the nodes, or the error. *)
Return_Bug ==                \* without the test for a cycle
  /\ outcome = "running"
  /\ current = "none"
  /\ queue = <<>>
  /\ outcome' = "sorted"
  /\ UNCHANGED <<input, inDegree, queue, result, popped, current, cursor>>

Return ==
  /\ outcome = "running"
  /\ current = "none"
  /\ queue = <<>>
  /\ outcome' = IF Len(result) = Len(nodes) THEN "sorted" ELSE "cycle"
  /\ UNCHANGED <<input, inDegree, queue, result, popped, current, cursor>>

Next == Pop \/ Relax \/ Loop \/ Return

Spec == Init /\ [][Next]_vars
-----------------------------------------------------------------------------
(* Properties *)

(* The values every variable ranges over; a degree never goes below zero. *)
TypeOK ==
  /\ nodes \in Seq(Id)
  /\ edges \in Seq(Id \X Id)
  /\ inDegree \in [Keys -> Nat]
  /\ queue \in Seq(Keys)
  /\ result \in Seq(Range(nodes))
  /\ popped \subseteq Keys
  /\ current \in Keys \cup {"none"}
  /\ cursor \in 1 .. (Len(edges) + 1)
  /\ outcome \in {"running", "sorted", "cycle"}

Before(id, n) == \E i, j \in DOMAIN result : i < j /\ result[i] = id /\ result[j] = n

(* What an execution relies on: each node once, and every edge between two    *)
(* nodes with its source first.                                               *)
SortedIsAnOrder ==
  outcome = "sorted" =>
    /\ Range(result) = Range(nodes)
    /\ IsInjective(result)
    /\ \A e \in Range(edges) :
         {Source(e), Target(e)} \subseteq Range(nodes) => Before(Source(e), Target(e))

(* The reference: node ids are distinct, and no node depends, directly or     *)
(* through others, on a cycle or on an id that is neither a node nor a target.*)
(* That is, however ids are put together around a node, one of them is known  *)
(* and waits for none of the others or itself.                                *)
Founded(S) ==
  \E m \in S \cap Keys : \A e \in Range(edges) : Target(e) = m => Source(e) \notin S

Sortable ==
  /\ Cardinality(Range(nodes)) = Len(nodes)
  /\ \A S \in SUBSET Id : S \cap Range(nodes) # {} => Founded(S)

(* "cycle detected" is reported for exactly the definitions with no order:    *)
(* whichever way the map is iterated, a definition that can run does run.     *)
CycleMeansUnsortable ==
  /\ outcome = "cycle" => ~Sortable
  /\ outcome = "sorted" => Sortable
================================================================================
