------------------------- MODULE TopologicalSort_proofs -------------------------
(***************************************************************************)
(* Theorems about TopologicalSort, for every definition of any size.       *)
(***************************************************************************)
EXTENDS TopologicalSort, FiniteSetTheorems, FunctionTheorems, TLAPS

(* The edges that have been relaxed: they leave an id popped before, or the   *)
(* current one at an index behind the cursor.                                 *)
Relaxed(i) ==
  /\ Source(edges[i]) \in popped
  /\ Source(edges[i]) = current => i < cursor

Pending(id) == {i \in 1 .. Len(edges) : Target(edges[i]) = id /\ ~Relaxed(i)}

(* The shape of the data: everything TypeOK says but the degrees. *)
Shape ==
  /\ nodes \in Seq(Id)
  /\ edges \in Seq(Id \X Id)
  /\ queue \in Seq(Keys)
  /\ result \in Seq(Range(nodes))
  /\ popped \subseteq Keys
  /\ current \in popped \cup {"none"}
  /\ cursor \in 1 .. (Len(edges) + 1)
  /\ outcome \in {"running", "sorted", "cycle"}

(* A degree counts the pending edges, so it reaches zero with the last of     *)
(* them, once, and that is when the id is queued.                             *)
Counted ==
  /\ inDegree = [id \in Keys |-> inDegree[id]]
  /\ \A id \in Keys : inDegree[id] = Cardinality(Pending(id))
  /\ \A id \in Keys : id \in Range(queue) \cup popped <=> Pending(id) = {}

Distinct ==
  /\ IsInjective(queue)
  /\ Range(queue) \cap popped = {}
  /\ IsInjective(result)
  /\ Range(result) = popped \cap Range(nodes)

(* The part of the result that exists is in order. *)
Ordered ==
  \A i \in 1 .. Len(edges) : \A j \in 1 .. Len(result) :
    /\ Target(edges[i]) = result[j]
    /\ Source(edges[i]) \in Range(nodes)
    => \E k \in 1 .. Len(result) : k < j /\ result[k] = Source(edges[i])

Full == outcome = "sorted" => Len(result) = Len(nodes)

Inv == Shape /\ Counted /\ Distinct /\ Ordered /\ Full

-----------------------------------------------------------------------------
(* Sequences without repetition. *)

LEMMA FunctionIsSeq ==
  ASSUME NEW S, NEW n \in Nat, NEW f \in [1 .. n -> S]
  PROVE  f \in Seq(S)
OBVIOUS

LEMMA UpToIsSeq ==
  ASSUME NEW S, NEW n \in Nat, NEW s \in UpTo(n, S)
  PROVE  s \in Seq(S)
<1>1. PICK m \in 0 .. n : s \in [1 .. m -> S]
  BY DEF UpTo
<1> QED BY <1>1, FunctionIsSeq

LEMMA SeqElement ==
  ASSUME NEW S, NEW s \in Seq(S), NEW x \in Range(s)
  PROVE  \E k \in 1 .. Len(s) : s[k] = x
<1>1. DOMAIN s = 1 .. Len(s)
  OBVIOUS
<1> QED BY <1>1 DEF Range

LEMMA TailFacts ==
  ASSUME NEW S, NEW q \in Seq(S), q # <<>>, IsInjective(q)
  PROVE  /\ IsInjective(Tail(q))
         /\ Range(q) = Range(Tail(q)) \cup {Head(q)}
         /\ Head(q) \notin Range(Tail(q))
<1>1. /\ Tail(q) \in Seq(S) /\ Head(q) = q[1] /\ Len(q) \in Nat \ {0}
      /\ Len(Tail(q)) = Len(q) - 1
      /\ \A i \in 1 .. Len(Tail(q)) : Tail(q)[i] = q[i + 1]
  OBVIOUS
<1>2. DOMAIN q = 1 .. Len(q) /\ DOMAIN Tail(q) = 1 .. Len(Tail(q))
  BY <1>1
<1>3. \A i \in 2 .. Len(q) : i - 1 \in 1 .. Len(Tail(q)) /\ q[i] = Tail(q)[i - 1]
  BY <1>1
<1>4. \A i \in 1 .. Len(Tail(q)) : i + 1 \in 1 .. Len(q) /\ i + 1 # 1
  BY <1>1
<1>5. IsInjective(Tail(q))
  <2> SUFFICES ASSUME NEW i \in 1 .. Len(Tail(q)), NEW j \in 1 .. Len(Tail(q)),
                      Tail(q)[i] = Tail(q)[j]
               PROVE  i = j
    BY <1>2 DEF IsInjective
  <2>1. i + 1 = j + 1
    BY <1>1, <1>2, <1>4 DEF IsInjective
  <2> QED BY <2>1
<1>6. Range(q) = Range(Tail(q)) \cup {Head(q)}
  <2>1. \A x : x \in Range(q) <=> \E i \in 1 .. Len(q) : x = q[i]
    BY <1>2 DEF Range
  <2>2. \A x : x \in Range(Tail(q)) <=> \E i \in 1 .. Len(Tail(q)) : x = Tail(q)[i]
    BY <1>2 DEF Range
  <2>3. \A i \in 1 .. Len(q) : i = 1 \/ i \in 2 .. Len(q)
    BY <1>1
  <2>4. ASSUME NEW x \in Range(q) PROVE x \in Range(Tail(q)) \cup {Head(q)}
    <3>1. PICK i \in 1 .. Len(q) : x = q[i]
      BY <2>1
    <3>2. CASE i = 1
      BY <1>1, <3>1, <3>2
    <3>3. CASE i # 1
      BY <1>3, <2>2, <2>3, <3>1, <3>3
    <3> QED BY <3>2, <3>3
  <2>5. ASSUME NEW x \in Range(Tail(q)) PROVE x \in Range(q)
    BY <1>1, <1>4, <2>1, <2>2
  <2>6. Head(q) \in Range(q)
    BY <1>1, <2>1
  <2> QED BY <2>4, <2>5, <2>6
<1>7. Head(q) \notin Range(Tail(q))
  BY <1>1, <1>2, <1>4 DEF IsInjective, Range
<1> QED BY <1>5, <1>6, <1>7

LEMMA AppendFacts ==
  ASSUME NEW S, NEW q \in Seq(S), NEW x \in S, IsInjective(q), x \notin Range(q)
  PROVE  /\ IsInjective(Append(q, x))
         /\ Range(Append(q, x)) = Range(q) \cup {x}
<1> DEFINE r == Append(q, x)
<1>1. /\ r \in Seq(S) /\ Len(q) \in Nat /\ Len(r) = Len(q) + 1
      /\ r[Len(q) + 1] = x
      /\ \A i \in 1 .. Len(q) : r[i] = q[i]
  OBVIOUS
<1>2. DOMAIN q = 1 .. Len(q) /\ DOMAIN r = 1 .. (Len(q) + 1)
  BY <1>1
<1>3. 1 .. (Len(q) + 1) = (1 .. Len(q)) \cup {Len(q) + 1}
  BY <1>1
<1>4. \A i \in 1 .. Len(q) : q[i] # x
  BY <1>2 DEF Range
<1> HIDE DEF r
<1>5. IsInjective(r)
  BY <1>1, <1>2, <1>3, <1>4 DEF IsInjective
<1>6. Range(r) = Range(q) \cup {x}
  BY <1>1, <1>2, <1>3 DEF Range
<1> QED BY <1>5, <1>6 DEF r

-----------------------------------------------------------------------------
(* The input as the algorithm sees it. *)
LEMMA InputFacts ==
  ASSUME Shape
  PROVE  /\ DOMAIN edges = 1 .. Len(edges) /\ Len(edges) \in Nat
         /\ \A i \in 1 .. Len(edges) : /\ Source(edges[i]) \in Id
                                       /\ Target(edges[i]) \in Keys
         /\ Range(nodes) \subseteq Keys
         /\ Keys \subseteq Id
         /\ "none" \notin Keys
         /\ \A id : IsFiniteSet(Pending(id))
<1>1. DOMAIN edges = 1 .. Len(edges) /\ Len(edges) \in Nat
  BY DEF Shape
<1>2. \A i \in 1 .. Len(edges) : edges[i] \in Id \X Id /\ edges[i] \in Range(edges)
  BY <1>1 DEF Shape, Range
<1>3. \A i \in 1 .. Len(edges) : Source(edges[i]) \in Id /\ Target(edges[i]) \in Id
  BY <1>2 DEF Source, Target
<1>4. \A e \in Range(edges) : Target(e) \in Id
  BY <1>1, <1>3 DEF Range
<1>5. Range(nodes) \subseteq Id
  BY DEF Shape, Range
<1>6. \A id : IsFiniteSet(Pending(id))
  <2>1. IsFiniteSet(1 .. Len(edges))
    BY <1>1, FS_Interval
  <2>2. \A id : Pending(id) \in SUBSET (1 .. Len(edges))
    BY DEF Pending
  <2> QED BY <2>1, <2>2, FS_Subset
<1>7. \A i \in 1 .. Len(edges) : Target(edges[i]) \in Keys
  BY <1>2 DEF Keys
<1>8. Keys \subseteq Id
  BY <1>4, <1>5 DEF Keys
<1> QED BY <1>1, <1>3, <1>5, <1>6, <1>7, <1>8, IdAssumption DEF Keys

LEMMA SortInit == Init => Inv
<1> SUFFICES ASSUME Init PROVE Inv
  OBVIOUS
<1> DEFINE free == {id \in Keys : inDegree[id] = 0}
<1>1. nodes \in Seq(Id) /\ edges \in Seq(Id \X Id)
  BY BoundAssumption, UpToIsSeq DEF Init
<1>2. queue \in [1 .. Cardinality(free) -> free] /\ Range(queue) = free
  BY DEF Init
<1>3. IsFiniteSet(free)
  <2>1. Range(nodes) \subseteq Id
    BY <1>1 DEF Range
  <2>2. \A e \in Range(edges) : Target(e) \in Id
    BY <1>1 DEF Range, Target
  <2>3. Keys \subseteq Id
    BY <2>1, <2>2 DEF Keys
  <2> QED BY <2>3, IdAssumption, FS_Subset
<1>4. Cardinality(free) \in Nat
  BY <1>3, FS_CardinalityType
<1>5. queue \in Seq(Keys)
  <2>1. queue \in Seq(free)
    BY <1>2, <1>4, FunctionIsSeq
  <2> QED BY <2>1
<1>6. Shape
  BY <1>1, <1>5 DEF Init, Shape
<1>7. \A id \in Keys : inDegree[id] = Cardinality(Pending(id))
  <2>1. \A i : ~Relaxed(i)
    BY DEF Init, Relaxed
  <2>2. \A id : Pending(id) = {i \in DOMAIN edges : Target(edges[i]) = id}
    BY <1>6, <2>1, InputFacts DEF Pending
  <2> QED BY <2>2 DEF Init, EdgesInto
<1>8. Counted
  <2>1. \A id \in Keys : inDegree[id] = 0 <=> Pending(id) = {}
    BY <1>6, <1>7, InputFacts, FS_EmptySet
  <2>2. \A id \in Keys : id \in Range(queue) \cup popped <=> Pending(id) = {}
    BY <1>2, <2>1 DEF Init
  <2> QED BY <1>7, <2>2 DEF Counted, Init
<1>9. Distinct
  <2>1. queue \in Surjection(1 .. Cardinality(free), free)
    BY <1>2 DEF Surjection, Range
  <2>2. IsFiniteSet(1 .. Cardinality(free)) /\ Cardinality(1 .. Cardinality(free)) = Cardinality(free)
    BY <1>4, FS_Interval
  <2>3. queue \in Injection(1 .. Cardinality(free), free)
    BY <2>1, <2>2, FS_SurjSameCardinalityImpliesInj
  <2>4. IsInjective(queue)
    BY <2>3 DEF Injection
  <2> QED BY <2>4 DEF Init, Distinct, IsInjective, Range
<1> QED BY <1>6, <1>8, <1>9 DEF Init, Inv, Ordered, Full

LEMMA SortPop == Inv /\ Pop => Inv'
<1> SUFFICES ASSUME Inv, Pop PROVE Inv'
  OBVIOUS
<1> DEFINE h == Head(queue)
<1>0. Shape /\ Counted /\ Distinct /\ Ordered
  BY DEF Inv
<1>1. /\ UNCHANGED <<nodes, edges, inDegree, outcome>>
      /\ current = "none" /\ current' = h /\ cursor' = 1 /\ queue # <<>>
      /\ queue' = Tail(queue) /\ popped' = popped \cup {h} /\ outcome = "running"
      /\ result' = IF h \in Range(nodes) THEN Append(result, h) ELSE result
  BY DEF Pop, input
<1>2. Keys' = Keys /\ Range(nodes)' = Range(nodes)
  BY <1>1 DEF Keys, Range
<1>3. /\ Range(queue) = Range(queue') \cup {h} /\ h \notin Range(queue')
      /\ IsInjective(queue') /\ h \in Keys /\ queue' \in Seq(Keys)
  BY <1>0, <1>1, TailFacts DEF Shape, Distinct
<1>4. h \notin popped /\ Pending(h) = {}
  BY <1>0, <1>3 DEF Counted, Distinct
<1>5. \A id : Pending(id)' = Pending(id)
  <2>1. \A i \in 1 .. Len(edges) : Relaxed(i)' <=> Relaxed(i)
    BY <1>0, <1>1, <1>4, InputFacts, IdAssumption DEF Relaxed
  <2> QED BY <1>1, <2>1 DEF Pending
<1>6. Range(queue') \cup popped' = Range(queue) \cup popped
  BY <1>1, <1>3
<1>7. Range(queue)' = Range(queue')
  OBVIOUS
<1>8. Counted'
  BY <1>0, <1>1, <1>2, <1>5, <1>6, <1>7 DEF Counted
<1>9. /\ IsInjective(result')
      /\ Range(result') = popped' \cap Range(nodes)
      /\ result' \in Seq(Range(nodes))
  <2>1. CASE h \in Range(nodes)
    BY <1>0, <1>1, <1>4, <2>1, AppendFacts DEF Shape, Distinct
  <2>2. CASE h \notin Range(nodes)
    BY <1>0, <1>1, <2>2 DEF Shape, Distinct
  <2> QED BY <2>1, <2>2
<1>10. Shape'
  <2>1. popped' \subseteq Keys' /\ queue' \in Seq(Keys') /\ result' \in Seq(Range(nodes)')
    BY <1>0, <1>1, <1>2, <1>3, <1>9 DEF Shape
  <2>2. cursor' \in 1 .. (Len(edges') + 1)
    BY <1>0, <1>1, InputFacts
  <2> QED BY <1>0, <1>1, <2>1, <2>2 DEF Shape
<1>11. Distinct'
  <2>1. Range(queue') \cap popped' = {}
    BY <1>0, <1>1, <1>3 DEF Distinct
  <2>2. /\ IsInjective(queue)' = IsInjective(queue') /\ IsInjective(result)' = IsInjective(result')
        /\ Range(result)' = Range(result')
    BY DEF IsInjective, Range
  <2> QED BY <1>2, <1>3, <1>7, <1>9, <2>1, <2>2 DEF Distinct
<1>12. Ordered'
  <2>1. CASE h \in Range(nodes)
    <3>1. /\ Len(result) \in Nat /\ Len(result') = Len(result) + 1
          /\ result'[Len(result) + 1] = h
          /\ \A k \in 1 .. Len(result) : result'[k] = result[k]
      BY <1>0, <1>1, <2>1 DEF Shape
    <3>2. SUFFICES ASSUME NEW i \in 1 .. Len(edges), NEW j \in 1 .. Len(result'),
                          Target(edges[i]) = result'[j], Source(edges[i]) \in Range(nodes)
                   PROVE  \E k \in 1 .. Len(result') :
                             k < j /\ result'[k] = Source(edges[i])
      BY <1>1, <1>2 DEF Ordered
    <3>3. CASE j \in 1 .. Len(result)
      BY <1>0, <3>1, <3>2, <3>3 DEF Ordered
    <3>4. CASE j = Len(result) + 1
      <4>1. Relaxed(i)
        BY <1>4, <3>1, <3>2, <3>4 DEF Pending
      <4>2. Source(edges[i]) \in Range(result)
        BY <1>0, <3>2, <4>1 DEF Relaxed, Distinct
      <4>3. PICK k \in 1 .. Len(result) : result[k] = Source(edges[i])
        <5>1. result \in Seq(Range(nodes))
          BY <1>0 DEF Shape
        <5> QED BY <4>2, <5>1, SeqElement
      <4> QED BY <3>1, <3>4, <4>3
    <3> QED BY <3>1, <3>3, <3>4
  <2>2. CASE h \notin Range(nodes)
    BY <1>0, <1>1, <1>2, <2>2 DEF Ordered
  <2> QED BY <2>1, <2>2
<1> QED BY <1>1, <1>8, <1>10, <1>11, <1>12 DEF Inv, Full

LEMMA SortRelax == Inv /\ Relax => Inv'
<1> SUFFICES ASSUME Inv, Relax PROVE Inv'
  OBVIOUS
<1> DEFINE freed == Source(edges[cursor]) = current
<1>0. Shape /\ Counted /\ Distinct /\ Ordered /\ Full
  BY DEF Inv
<1>t. PICK t \in Keys : t = Target(edges[cursor])
  BY <1>0, InputFacts DEF Relax, Shape
<1>1. /\ UNCHANGED <<nodes, edges, result, popped, current, outcome>>
      /\ cursor' = cursor + 1 /\ cursor \in 1 .. Len(edges) /\ Len(edges) \in Nat
      /\ current \in popped
  BY <1>0, InputFacts DEF Relax, input, Shape
<1>2. Keys' = Keys /\ Range(nodes)' = Range(nodes) /\ t \in Keys
  BY <1>1 DEF Keys, Range
<1>3. \A i \in 1 .. Len(edges) : Relaxed(i)' <=> Relaxed(i) \/ (freed /\ i = cursor)
  BY <1>1 DEF Relaxed
<1>4. ~(Relaxed(cursor) /\ freed)
  BY <1>1 DEF Relaxed
<1>5. Ordered' /\ Full'
  BY <1>0, <1>1, <1>2 DEF Ordered, Full
<1>6. /\ IsInjective(queue)' = IsInjective(queue') /\ IsInjective(result)' = IsInjective(result)
      /\ Range(result)' = Range(result) /\ Range(queue)' = Range(queue')
  BY <1>1 DEF IsInjective, Range
<1>7. CASE ~freed
  <2>1. UNCHANGED <<inDegree, queue>>
    BY <1>7 DEF Relax
  <2>2. \A id : Pending(id)' = Pending(id)
    BY <1>1, <1>3, <1>7 DEF Pending
  <2>3. Shape' /\ Counted' /\ Distinct'
    BY <1>0, <1>1, <1>2, <1>6, <2>1, <2>2 DEF Shape, Counted, Distinct
  <2> QED BY <1>5, <2>3 DEF Inv
<1>8. CASE freed
  <2>1. /\ inDegree' = [inDegree EXCEPT ![t] = @ - 1]
        /\ queue' = IF inDegree[t] = 1 THEN Append(queue, t) ELSE queue
    BY <1>8, <1>t DEF Relax
  <2>2. cursor \in Pending(t) /\ Pending(t)' = Pending(t) \ {cursor}
    BY <1>1, <1>3, <1>4, <1>8, <1>t DEF Pending
  <2>3. \A id : id # t => Pending(id)' = Pending(id)
    BY <1>1, <1>3, <1>t DEF Pending
  <2>4. /\ IsFiniteSet(Pending(t)) /\ Cardinality(Pending(t)) \in Nat
        /\ Cardinality(Pending(t)') = Cardinality(Pending(t)) - 1
        /\ Cardinality(Pending(t)') = 0 <=> Pending(t)' = {}
    <3>1. IsFiniteSet(Pending(t))
      BY <1>0, InputFacts
    <3>2. IsFiniteSet(Pending(t) \ {cursor})
      BY <3>1, FS_RemoveElement
    <3>3. Cardinality(Pending(t) \ {cursor}) = Cardinality(Pending(t)) - 1
      BY <2>2, <3>1, FS_RemoveElement
    <3>4. Cardinality(Pending(t) \ {cursor}) = 0 <=> Pending(t) \ {cursor} = {}
      BY <3>2, FS_EmptySet
    <3> QED BY <2>2, <3>1, <3>3, <3>4, FS_CardinalityType
  <2>5. inDegree[t] = Cardinality(Pending(t))
    BY <1>0, <1>2 DEF Counted
  <2>6. inDegree[t] = 1 <=> Pending(t)' = {}
    BY <2>4, <2>5
  <2>7. t \notin Range(queue) \cup popped
    BY <1>0, <1>2, <2>2 DEF Counted
  <2>8. /\ queue' \in Seq(Keys) /\ IsInjective(queue')
        /\ Range(queue') = IF inDegree[t] = 1 THEN Range(queue) \cup {t} ELSE Range(queue)
    <3>1. CASE inDegree[t] = 1
      BY <1>0, <1>2, <2>1, <2>7, <3>1, AppendFacts DEF Shape, Distinct
    <3>2. CASE inDegree[t] # 1
      BY <1>0, <2>1, <3>2 DEF Shape, Distinct
    <3> QED BY <3>1, <3>2
  <2>9. Counted'
    <3>1. inDegree' = [id \in Keys |-> inDegree'[id]]
      BY <1>0, <2>1 DEF Counted
    <3>2. \A id \in Keys : inDegree'[id] = Cardinality(Pending(id)')
      BY <1>0, <2>1, <2>3, <2>4, <2>5 DEF Counted
    <3>3. \A id \in Keys : id \in Range(queue') \cup popped <=> Pending(id)' = {}
      BY <1>0, <2>3, <2>6, <2>7, <2>8 DEF Counted
    <3> QED BY <1>1, <1>2, <1>6, <3>1, <3>2, <3>3 DEF Counted
  <2>10. Distinct'
    BY <1>0, <1>1, <1>2, <1>6, <2>7, <2>8 DEF Distinct
  <2>11. Shape'
    BY <1>0, <1>1, <1>2, <2>8 DEF Shape
  <2> QED BY <1>5, <2>9, <2>10, <2>11 DEF Inv
<1> QED BY <1>7, <1>8

LEMMA SortLoop == Inv /\ Loop => Inv'
<1> SUFFICES ASSUME Inv, Loop PROVE Inv'
  OBVIOUS
<1>0. Shape /\ Counted /\ Distinct /\ Ordered /\ Full
  BY DEF Inv
<1>1. /\ UNCHANGED <<nodes, edges, inDegree, queue, result, popped, cursor, outcome>>
      /\ current' = "none" /\ cursor > Len(edges)
  BY DEF Loop, input
<1>2. \A i \in 1 .. Len(edges) : Relaxed(i)' <=> Relaxed(i)
  BY <1>0, <1>1, InputFacts, IdAssumption DEF Relaxed, Shape
<1>3. /\ Keys' = Keys /\ Range(nodes)' = Range(nodes) /\ Range(queue)' = Range(queue)
      /\ Range(result)' = Range(result) /\ IsInjective(queue)' = IsInjective(queue)
      /\ IsInjective(result)' = IsInjective(result)
  BY <1>1 DEF Keys, Range, IsInjective
<1>4. \A id : Pending(id)' = Pending(id)
  BY <1>1, <1>2 DEF Pending
<1> QED
  BY <1>0, <1>1, <1>3, <1>4 DEF Inv, Shape, Counted, Distinct, Ordered, Full

LEMMA SortReturn == Inv /\ Return => Inv'
<1> SUFFICES ASSUME Inv, Return PROVE Inv'
  OBVIOUS
<1>0. Shape /\ Counted /\ Distinct /\ Ordered
  BY DEF Inv
<1>1. /\ UNCHANGED <<nodes, edges, inDegree, queue, result, popped, current, cursor>>
      /\ outcome' = IF Len(result) = Len(nodes) THEN "sorted" ELSE "cycle"
  BY DEF Return, input
<1>2. /\ Keys' = Keys /\ Range(nodes)' = Range(nodes) /\ Range(queue)' = Range(queue)
      /\ Range(result)' = Range(result) /\ IsInjective(queue)' = IsInjective(queue)
      /\ IsInjective(result)' = IsInjective(result)
  BY <1>1 DEF Keys, Range, IsInjective
<1>3. \A id : Pending(id)' = Pending(id)
  BY <1>1 DEF Pending, Relaxed
<1> QED
  BY <1>0, <1>1, <1>2, <1>3 DEF Inv, Shape, Counted, Distinct, Ordered, Full

LEMMA SortCorrect == Spec => []Inv
<1>1. Inv /\ UNCHANGED vars => Inv'
  <2> SUFFICES ASSUME Inv, UNCHANGED vars PROVE Inv'
    OBVIOUS
  <2>1. UNCHANGED <<nodes, edges, inDegree, queue, result, popped, current, cursor, outcome>>
    BY DEF vars, input
  <2>2. /\ Keys' = Keys /\ Range(nodes)' = Range(nodes) /\ Range(queue)' = Range(queue)
        /\ Range(result)' = Range(result) /\ IsInjective(queue)' = IsInjective(queue)
        /\ IsInjective(result)' = IsInjective(result)
    BY <2>1 DEF Keys, Range, IsInjective
  <2>3. \A id : Pending(id)' = Pending(id)
    BY <2>1 DEF Pending, Relaxed
  <2> QED
    BY <2>1, <2>2, <2>3 DEF Inv, Shape, Counted, Distinct, Ordered, Full
<1>2. Inv /\ [Next]_vars => Inv'
  BY <1>1, SortPop, SortRelax, SortLoop, SortReturn DEF Next
<1> QED BY <1>2, SortInit, PTL DEF Spec

(* A degree is a natural number however edges repeat: the count never         *)
(* passes zero.                                                               *)
THEOREM SortTypeCorrect == Spec => []TypeOK
<1>1. Inv => TypeOK
  <2> SUFFICES ASSUME Inv PROVE TypeOK
    OBVIOUS
  <2>1. \A id \in Keys : inDegree[id] \in Nat
    BY InputFacts, FS_CardinalityType DEF Inv, Counted
  <2>2. inDegree \in [Keys -> Nat]
    <3>1. inDegree = [id \in Keys |-> inDegree[id]]
      BY DEF Inv, Counted
    <3> QED BY <2>1, <3>1
  <2> QED BY <2>2 DEF TypeOK, Inv, Shape
<1> QED BY <1>1, SortCorrect, PTL

(* What the sort returns visits each node of the definition once and every    *)
(* edge's source before its target, whatever ids and edges the author wrote   *)
(* and whichever way the map was iterated.                                    *)
THEOREM SortedIsAnOrderHolds == Spec => []SortedIsAnOrder
<1>1. Inv => SortedIsAnOrder
  <2> SUFFICES ASSUME Inv, outcome = "sorted"
               PROVE  /\ Range(result) = Range(nodes)
                      /\ IsInjective(result)
                      /\ \A e \in Range(edges) :
                           {Source(e), Target(e)} \subseteq Range(nodes) =>
                             Before(Source(e), Target(e))
    BY DEF SortedIsAnOrder
  <2>0. Shape /\ Distinct /\ Ordered /\ Len(result) = Len(nodes)
    BY DEF Inv, Full
  <2> DEFINE n == Len(nodes)
  <2>1. /\ n \in Nat /\ nodes \in [1 .. n -> Range(nodes)] /\ DOMAIN nodes = 1 .. n
        /\ DOMAIN result = 1 .. n /\ result \in [1 .. n -> Range(nodes)]
    <3>1. nodes \in Seq(Id) /\ result \in Seq(Range(nodes))
      BY <2>0 DEF Shape
    <3>2. n \in Nat /\ DOMAIN nodes = 1 .. n /\ DOMAIN result = 1 .. n
      BY <2>0, <3>1
    <3>3. result \in [1 .. n -> Range(nodes)]
      BY <2>0, <3>1, <3>2
    <3>4. nodes \in [1 .. n -> Id]
      BY <3>1
    <3>5. nodes \in [1 .. n -> Range(nodes)]
      BY <3>2, <3>4 DEF Range
    <3> QED BY <3>2, <3>3, <3>5
  <2>2. IsFiniteSet(1 .. n) /\ Cardinality(1 .. n) = n
    BY <2>1, FS_Interval
  <2>3. IsFiniteSet(Range(nodes)) /\ Cardinality(Range(nodes)) <= n
    <3>1. nodes \in Surjection(1 .. n, Range(nodes))
      BY <2>1 DEF Surjection, Range
    <3> QED BY <2>2, <3>1, FS_Surjection
  <2>4. result \in Injection(1 .. n, Range(nodes))
    BY <2>0, <2>1 DEF Injection, Distinct
  <2>5. Cardinality(Range(nodes)) = n
    BY <2>1, <2>2, <2>3, <2>4, FS_Injection, FS_CardinalityType
  <2>6. result \in Surjection(1 .. n, Range(nodes))
    BY <2>2, <2>3, <2>4, <2>5, FS_Injection
  <2>7. Range(result) = Range(nodes)
    BY <2>1, <2>6 DEF Surjection, Range
  <2>8. ASSUME NEW e \in Range(edges), {Source(e), Target(e)} \subseteq Range(nodes)
        PROVE  Before(Source(e), Target(e))
    <3>1. PICK i \in 1 .. Len(edges) : edges[i] = e
      BY <2>0, SeqElement DEF Shape
    <3>2. PICK j \in 1 .. n : result[j] = Target(e)
      BY <2>1, <2>7, <2>8 DEF Range
    <3>3. PICK k \in 1 .. n : k < j /\ result[k] = Source(e)
      BY <2>0, <2>8, <3>1, <3>2 DEF Ordered
    <3> QED BY <2>1, <3>2, <3>3 DEF Before
  <2> QED BY <2>0, <2>7, <2>8 DEF Distinct
<1> QED BY <1>1, SortCorrect, PTL

-----------------------------------------------------------------------------
(* An order exactly when there is one.                                        *)

(* Whatever was popped waited for nothing but what was popped before it.      *)
PoppedFounded == \A S \in SUBSET popped : S # {} => Founded(S)

(* The sort ends when there is nothing left to pop. *)
Ended ==
  /\ outcome # "running" => queue = <<>> /\ current = "none"
  /\ outcome = "cycle" => Len(result) # Len(nodes)

EndInv == PoppedFounded /\ Ended

LEMMA EdgeFacts ==
  ASSUME Inv, NEW e \in Range(edges)
  PROVE  /\ Source(e) \in Id /\ Target(e) \in Keys
         /\ \E i \in 1 .. Len(edges) : edges[i] = e
<1>1. PICK i \in 1 .. Len(edges) : edges[i] = e
  BY SeqElement DEF Inv, Shape
<1>2. e \in Id \X Id
  BY <1>1 DEF Inv, Shape
<1> QED BY <1>1, <1>2 DEF Source, Keys

(* Every edge into an id that is queued or popped leaves a popped one. *)
LEMMA Supplied ==
  ASSUME Inv, NEW m \in Range(queue) \cup popped, NEW e \in Range(edges), Target(e) = m
  PROVE  Source(e) \in popped
<1>1. PICK i \in 1 .. Len(edges) : edges[i] = e
  BY EdgeFacts
<1>2. m \in Keys
  BY EdgeFacts
<1>3. Pending(m) = {}
  BY <1>2 DEF Inv, Counted
<1> QED BY <1>1, <1>3 DEF Pending, Relaxed

(* Every id that is neither queued nor popped waits for one that is not popped,*)
(* when no popped id has edges left to relax.                                  *)
LEMMA Waiting ==
  ASSUME Inv, current = "none", NEW m \in Keys, m \notin Range(queue) \cup popped
  PROVE  \E e \in Range(edges) : Target(e) = m /\ Source(e) \in Id \ popped
<1>1. Pending(m) # {}
  BY DEF Inv, Counted
<1>2. PICK i \in 1 .. Len(edges) : Target(edges[i]) = m /\ ~Relaxed(i)
  BY <1>1 DEF Pending
<1>3. edges[i] \in Range(edges)
  BY <1>2 DEF Inv, Shape, Range
<1>4. Source(edges[i]) \in Id
  BY <1>3, EdgeFacts
<1>5. Source(edges[i]) # current
  BY <1>4, IdAssumption
<1> QED BY <1>2, <1>3, <1>4, <1>5 DEF Relaxed

LEMMA EndPop ==
  ASSUME Inv, EndInv, Pop
  PROVE  EndInv'
<1> DEFINE h == Head(queue)
<1>1. /\ h \in Range(queue) /\ h \in Keys
      /\ popped' = popped \cup {h} /\ UNCHANGED <<nodes, edges, outcome>>
      /\ outcome = "running"
  <2>1. queue \in Seq(Keys) /\ queue # <<>>
    BY DEF Inv, Shape, Pop
  <2>2. 1 \in DOMAIN queue /\ h = queue[1]
    BY <2>1
  <2>3. h \in Range(queue) /\ h \in Keys
    BY <2>1, <2>2 DEF Range
  <2> QED BY <2>3 DEF Pop, input
<1> HIDE DEF h
<1>2. h \notin popped
  BY <1>1 DEF Inv, Distinct
<1>3. ASSUME NEW S \in SUBSET (popped \cup {h}), S # {}
      PROVE  Founded(S)
  <2>1. CASE S \cap popped = {}
    <3>1. h \in S
      BY <1>3, <2>1
    <3>2. \A e \in Range(edges) : Target(e) = h => Source(e) \notin S
      BY <1>1, <2>1, Supplied
    <3> QED BY <1>1, <3>1, <3>2 DEF Founded
  <2>2. CASE S \cap popped # {}
    <3>1. Founded(S \cap popped)
      BY <2>2 DEF EndInv, PoppedFounded
    <3>2. PICK m \in S \cap popped \cap Keys :
            \A e \in Range(edges) : Target(e) = m => Source(e) \notin S \cap popped
      BY <3>1 DEF Founded
    <3>3. \A e \in Range(edges) : Target(e) = m => Source(e) \in popped
      BY <3>2, Supplied
    <3> QED BY <3>2, <3>3 DEF Founded
  <2> QED BY <2>1, <2>2
<1>4. \A S : Founded(S)' <=> Founded(S)
  BY <1>1 DEF Founded, Keys
<1>5. PoppedFounded'
  BY <1>1, <1>3, <1>4 DEF PoppedFounded
<1> QED BY <1>1, <1>5 DEF EndInv, Ended

LEMMA EndOthers ==
  ASSUME Inv, EndInv, Relax \/ Loop \/ Return \/ UNCHANGED vars
  PROVE  EndInv'
<1>1. UNCHANGED <<nodes, edges, popped>>
  BY DEF Relax, Loop, Return, vars, input
<1>2. PoppedFounded'
  BY <1>1 DEF PoppedFounded, Founded, Keys, EndInv
<1>3. Ended'
  <2>1. CASE Relax
    <3>1. current # "none" /\ outcome' = outcome
      BY <2>1 DEF Relax
    <3> QED BY <3>1 DEF EndInv, Ended, Inv, Shape
  <2>2. CASE Loop
    BY <2>2 DEF Loop, EndInv, Ended, input
  <2>3. CASE Return
    BY <2>3 DEF Return, EndInv, Ended, input
  <2>4. CASE UNCHANGED vars
    BY <2>4 DEF vars, EndInv, Ended, input
  <2> QED BY <2>1, <2>2, <2>3, <2>4
<1> QED BY <1>2, <1>3 DEF EndInv

LEMMA EndCorrect == Spec => []EndInv
<1>1. Init => EndInv
  BY DEF Init, EndInv, PoppedFounded, Ended
<1>2. Inv /\ EndInv /\ [Next]_vars => EndInv'
  BY EndPop, EndOthers DEF Next
<1> QED BY <1>1, <1>2, SortCorrect, PTL DEF Spec

(* A result without repetition, of nodes, that is as long as the list of nodes *)
(* holds them all, and then they are distinct.                                 *)
LEMMA FullResult ==
  ASSUME Inv
  PROVE  /\ Len(result) = Len(nodes) => /\ Cardinality(Range(nodes)) = Len(nodes)
                                        /\ Range(nodes) \subseteq popped
         /\ Range(nodes) \subseteq popped /\ Cardinality(Range(nodes)) = Len(nodes)
              => Len(result) = Len(nodes)
<1> DEFINE n == Len(nodes)
           r == Len(result)
<1>1. /\ n \in Nat /\ DOMAIN nodes = 1 .. n /\ nodes \in [1 .. n -> Range(nodes)]
      /\ r \in Nat /\ DOMAIN result = 1 .. r /\ result \in [1 .. r -> Range(nodes)]
  <2>1. nodes \in Seq(Id) /\ result \in Seq(Range(nodes))
    BY DEF Inv, Shape
  <2>2. n \in Nat /\ DOMAIN nodes = 1 .. n /\ r \in Nat /\ DOMAIN result = 1 .. r
    BY <2>1
  <2>3. nodes \in [1 .. n -> Id] /\ result \in [1 .. r -> Range(nodes)]
    BY <2>1
  <2> QED BY <2>2, <2>3 DEF Range
<1>2. /\ IsFiniteSet(1 .. n) /\ Cardinality(1 .. n) = n
      /\ IsFiniteSet(1 .. r) /\ Cardinality(1 .. r) = r
  <2>1. n \in Nat /\ r \in Nat
    BY <1>1
  <2> HIDE DEF n, r
  <2>2. \A k \in Nat : IsFiniteSet(1 .. k) /\ Cardinality(1 .. k) = k
    <3> SUFFICES ASSUME NEW k \in Nat
                 PROVE  IsFiniteSet(1 .. k) /\ Cardinality(1 .. k) = k
      OBVIOUS
    <3> QED BY FS_Interval
  <2> QED BY <2>1, <2>2
<1>3. IsFiniteSet(Range(nodes)) /\ Cardinality(Range(nodes)) <= n
  <2>1. nodes \in Surjection(1 .. n, Range(nodes))
    BY <1>1 DEF Surjection, Range
  <2> QED BY <1>2, <2>1, FS_Surjection
<1>4. result \in Injection(1 .. r, Range(nodes)) /\ Range(result) = popped \cap Range(nodes)
  BY <1>1 DEF Injection, Inv, Distinct, IsInjective
<1>5. /\ r <= Cardinality(Range(nodes))
      /\ r = Cardinality(Range(nodes)) <=> result \in Surjection(1 .. r, Range(nodes))
  BY <1>2, <1>3, <1>4, FS_Injection
<1>6. Cardinality(Range(nodes)) \in Nat
  BY <1>3, FS_CardinalityType
<1>7. ASSUME r = n
      PROVE  Cardinality(Range(nodes)) = n /\ Range(nodes) \subseteq popped
  <2>1. Cardinality(Range(nodes)) = n
    BY <1>1, <1>3, <1>5, <1>6, <1>7
  <2>2. Range(result) = Range(nodes)
    BY <1>1, <1>5, <1>7, <2>1 DEF Surjection, Range
  <2> QED BY <1>4, <2>1, <2>2
<1>8. ASSUME Range(nodes) \subseteq popped, Cardinality(Range(nodes)) = n
      PROVE  r = n
  <2>1. Range(result) = Range(nodes)
    BY <1>4, <1>8
  <2>2. result \in Surjection(1 .. r, Range(nodes))
    BY <1>1, <2>1 DEF Surjection, Range
  <2> QED BY <1>5, <1>8, <2>2
<1> QED BY <1>7, <1>8

(* The sort finds an order for every definition that has one, and reports a    *)
(* cycle for every other: nodes that repeat, and nodes that depend on a cycle  *)
(* or on an id that nothing defines.                                           *)
THEOREM CycleMeansUnsortableHolds == Spec => []CycleMeansUnsortable
<1>1. ASSUME Inv, EndInv, outcome = "sorted"
      PROVE  Sortable
  <2>1. Cardinality(Range(nodes)) = Len(nodes) /\ Range(nodes) \subseteq popped
    BY <1>1, FullResult DEF Inv, Full
  <2>2. ASSUME NEW S \in SUBSET Id, S \cap Range(nodes) # {}
        PROVE  Founded(S)
    <3>1. Founded(S \cap popped)
      BY <1>1, <2>1, <2>2 DEF EndInv, PoppedFounded
    <3>2. PICK m \in S \cap popped \cap Keys :
            \A e \in Range(edges) : Target(e) = m => Source(e) \notin S \cap popped
      BY <3>1 DEF Founded
    <3>3. \A e \in Range(edges) : Target(e) = m => Source(e) \in popped
      BY <1>1, <3>2, Supplied
    <3> QED BY <3>2, <3>3 DEF Founded
  <2> QED BY <2>1, <2>2 DEF Sortable
<1>2. ASSUME Inv, EndInv, outcome = "cycle", Sortable
      PROVE  FALSE
  <2>1. /\ queue = <<>> /\ current = "none" /\ Len(result) # Len(nodes)
        /\ Cardinality(Range(nodes)) = Len(nodes)
    BY <1>2 DEF EndInv, Ended, Sortable
  <2>2. Range(queue) = {}
    BY <2>1 DEF Range
  <2> DEFINE S == Id \ popped
  <2>3. S \cap Range(nodes) # {}
    <3>1. ~(Range(nodes) \subseteq popped)
      BY <1>2, <2>1, FullResult
    <3>2. Range(nodes) \subseteq Id
      BY <1>2 DEF Inv, Shape, Range
    <3> QED BY <3>1, <3>2
  <2>4. Founded(S)
    BY <1>2, <2>3 DEF Sortable
  <2>5. PICK m \in S \cap Keys : \A e \in Range(edges) : Target(e) = m => Source(e) \notin S
    BY <2>4 DEF Founded
  <2>6. m \notin Range(queue) \cup popped
    BY <2>2, <2>5
  <2> QED BY <1>2, <2>1, <2>5, <2>6, Waiting
<1>3. Inv /\ EndInv => CycleMeansUnsortable
  BY <1>1, <1>2 DEF CycleMeansUnsortable
<1> QED BY <1>3, SortCorrect, EndCorrect, PTL
================================================================================
