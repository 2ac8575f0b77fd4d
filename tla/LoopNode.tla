------------------------------- MODULE LoopNode -------------------------------
(***************************************************************************)
(* The loop nodes of a workflow: how often they go round, over what, and    *)
(* what the condition in their configuration means.                        *)
(* internal/engine/nodes/loop.go.                                          *)
(*                                                                         *)
(* One goroutine runs an execution's nodes one after the other; the        *)
(* variables are the execution's and stay behind for the next node.  A     *)
(* condition of a loop is a list of comparisons with a connector between   *)
(* each two; its text is left out.                                         *)
(***************************************************************************)
EXTENDS Integers, Sequences

CONSTANTS
  Number, Word, NoValue,   \* values: numbers, others, none
  Variable, Index,         \* variables; "loop.index"
  Value,                   \* values in the configuration
  Terms,                   \* comparisons a condition may be made of
  Limit, Count,            \* max_iter and count a configuration may have
  DefaultMaxIter,          \* 100 in the code
  MaxTerms,                \* bound: comparisons in a condition, items of an array
  MaxNodes                 \* bound: nodes run

ASSUME LoopAssumption ==
  /\ Number \subseteq Int /\ Limit \subseteq Int /\ Count \subseteq Int
  /\ Index \in Variable /\ NoValue \notin Variable /\ Value \subseteq Number \cup Word
  /\ Terms \subseteq [field : Variable, value : Value,
                      op : {"==", "!=", ">", ">=", "<", "<="}]
  /\ DefaultMaxIter \in Nat /\ MaxTerms \in Nat /\ MaxNodes \in Nat
  /\ \A max \in Limit \cup {DefaultMaxIter} : 0..max \subseteq Number

VARIABLES
  vars,       \* the execution's variables
  node,       \* the node at work
  nodesRun

loopVars == <<vars, node, nodesRun>>

Condition == [terms : Seq(Terms), or : Seq(BOOLEAN)]
Item  == Number \cup Word \cup {NoValue}
Kind  == {"none", "times", "while", "for_each"}
Node  == [kind : Kind, over : BOOLEAN, max : Int, count : Int,
          while : Condition, items : Seq(Item), found : [Variable -> Item], done : Seq(Item)]
NoCondition == [terms |-> <<>>, or |-> <<>>]
NoNode == [kind |-> "none", over |-> FALSE, max |-> 0, count |-> 0, while |-> NoCondition, items |-> <<>>,
           found |-> [v \in Variable |-> NoValue], done |-> <<>>]

Conditions ==
  UNION {[terms : [1..k -> Terms], or : [1..(k - 1) -> BOOLEAN]] : k \in 1..MaxTerms}

(* evaluateSingleCondition, compareNumeric: equality is that of the texts, and *)
(* what is no number is neither more nor less.                                 *)
Holds(t, env) ==
  LET v == env[t.field] IN
  \/ t.op = "==" /\ v = t.value
  \/ t.op = "!=" /\ v # t.value
  \/ /\ {v, t.value} \subseteq Number
     /\ \/ t.op = ">"  /\ v >  t.value
        \/ t.op = ">=" /\ v >= t.value
        \/ t.op = "<"  /\ v <  t.value
        \/ t.op = "<=" /\ v <= t.value

(* Names ending in _Bug are variants of the definition that follows them, each *)
(* with a mistake the code could have; the properties are tried against them.  *)

(* evaluateCondition: with an "or" anywhere one comparison suffices, else all  *)
(* are needed.                                                                 *)
Evaluate_Bug(c, env) ==      \* the last connector decides
  IF c.or # <<>> /\ c.or[Len(c.or)]
  THEN \E i \in DOMAIN c.terms : Holds(c.terms[i], env)
  ELSE \A i \in DOMAIN c.terms : Holds(c.terms[i], env)

Evaluate(c, env) ==
  IF \E i \in DOMAIN c.or : c.or[i]
  THEN \E i \in DOMAIN c.terms : Holds(c.terms[i], env)
  ELSE \A i \in DOMAIN c.terms : Holds(c.terms[i], env)

-----------------------------------------------------------------------------
(* Execute reads the configuration; a max_iter of 0 is the default.             *)
BeginNode(kind, configured) ==
  /\ node.kind = "none" /\ nodesRun < MaxNodes /\ nodesRun' = nodesRun + 1
  /\ \E max \in Limit :
       node' = [configured EXCEPT !.kind = kind, !.found = vars,
                                  !.max = IF max = 0 THEN DefaultMaxIter ELSE max]
  /\ UNCHANGED vars

Execute ==
  \/ \E n \in Count : BeginNode("times", [NoNode EXCEPT !.count = n])
  \/ \E c \in Conditions : BeginNode("while", [NoNode EXCEPT !.while = c])
  \/ \E k \in 0..MaxTerms : \E items \in [1..k -> Value] :
        BeginNode("for_each", [NoNode EXCEPT !.items = items])

Runs(kind) == node.kind = kind /\ ~node.over
Rounds     == Len(node.done)
EndNode    == node' = [node EXCEPT !.over = TRUE] /\ UNCHANGED <<vars, nodesRun>>

(* "count", "times": at most max_iter rounds.                                  *)
Times ==
  /\ Runs("times")
  /\ IF Rounds < node.count /\ Rounds < node.max
     THEN /\ vars' = [vars EXCEPT ![Index] = Rounds]
          /\ node' = [node EXCEPT !.done = Append(@, Rounds)]
          /\ UNCHANGED nodesRun
     ELSE EndNode

(* "while": the index is set before the condition is asked.                    *)
While ==
  /\ Runs("while")
  /\ IF Rounds < node.max
     THEN /\ vars' = [vars EXCEPT ![Index] = Rounds]
          /\ node' = IF Evaluate(node.while, vars') THEN [node EXCEPT !.done = Append(@, Rounds)]
                                                    ELSE [node EXCEPT !.over = TRUE]
          /\ UNCHANGED nodesRun
     ELSE EndNode

(* "for_each": item and key go into variables the configuration may name.      *)
ForEach ==
  /\ Runs("for_each")
  /\ IF Rounds < Len(node.items) /\ Rounds < node.max
     THEN LET item == node.items[Rounds + 1] IN
          /\ \E itemVar, keyVar \in Variable \cup {NoValue} :
               vars' = [v \in Variable |-> IF v = keyVar THEN Rounds
                                           ELSE IF v = itemVar THEN item
                                           ELSE IF v = Index THEN Rounds ELSE vars[v]]
          /\ node' = [node EXCEPT !.done = Append(@, item)]
          /\ UNCHANGED nodesRun
     ELSE EndNode

NextNode == node.over /\ node' = NoNode /\ UNCHANGED <<vars, nodesRun>>

LoopInit ==
  /\ vars = [v \in Variable |-> NoValue] /\ node = NoNode /\ nodesRun = 0

LoopNext == Execute \/ Times \/ While \/ ForEach \/ NextNode
LoopSpec == LoopInit /\ [][LoopNext]_loopVars

-----------------------------------------------------------------------------
(* Every variable keeps its type. *)
LoopTypeOK ==
  /\ vars \in [Variable -> Item] /\ node \in Node /\ nodesRun \in Nat

(* What the configuration's author means: "and" binds before "or".             *)
Means(c, env) ==
  \E from \in DOMAIN c.terms, to \in DOMAIN c.terms :
    /\ from <= to
    /\ from = 1 \/ c.or[from - 1]
    /\ to = Len(c.terms) \/ c.or[to]
    /\ \A i \in from..to : Holds(c.terms[i], env)
Mixed(c) == {c.or[i] : i \in DOMAIN c.or} = BOOLEAN

(* A loop runs a round exactly as often as its configuration says and its      *)
(* limit allows: the items in their order, and while the condition holds as    *)
(* its author means it.  With both connectors in it a condition is looser than *)
(* meant, so that the loop may go on too long (loop.go:157), never stop short. *)
LoopsMean ==
  LET least(a, b) == IF a < b THEN a ELSE b
      atLeast0(n) == IF n < 0 THEN 0 ELSE n
      at(k)       == [node.found EXCEPT ![Index] = k]
  IN node.over =>
       /\ node.kind = "times" => Rounds = atLeast0(least(node.count, node.max))
       /\ node.kind = "for_each" =>
            node.done = SubSeq(node.items, 1, least(Len(node.items), node.max))
       /\ node.kind = "while" =>
            /\ \A k \in 0..(Rounds - 1) : Means(node.while, at(k)) \/ Mixed(node.while)
            /\ Rounds < node.max => ~Means(node.while, at(Rounds))
=============================================================================
