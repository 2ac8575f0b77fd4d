--------------------------- MODULE Platform_proofs ---------------------------
(*****************************************************************************)
(* Theorems about ProviderRows, McpRegistry, LoopNode and Conversation with  *)
(* its MemoryWindow, for any providers, tools, loops, lists of messages and  *)
(* concurrent requests; and about MCPlatform, which has them all.            *)
(*****************************************************************************)
EXTENDS MCPlatform, Access_proofs, Agents_proofs, SequenceTheorems

-----------------------------------------------------------------------------
(* Provider rows.                                                            *)

USE ProviderAssumption

LEMMA ProviderSteps ==
  ASSUME ProviderNext
  PROVE  \/ InitDefaultProviders /\ orders' = orders
         \/ \E t \in Operator :
              /\ orders' \in {orders, orders + 1}
              /\ \/ CreateProvider(t) \/ ReadForUpdate(t) \/ DeleteProvider(t) \/ ReadForDefault(t)
                 \/ UpdateProvider(t) \/ FindDefaults(t) \/ SetDefault(t) \/ Drop(t)
BY DEF ProviderNext, Takeup, Carry, InitDefaultProviders

(* What a request holds: the id of a row there is or was, a row as it is when  *)
(* it is there, and one purpose.                                               *)
AskedFor(t) ==
  order[t].at # "idle" =>
    /\ order[t].id \in Provider /\ rows[order[t].id].is # "none"
    /\ order[t].at = "save" => order[t].row.is = "live"
    /\ \A p, q \in order[t].for : p = q

(* A provider is made default after it was created. *)
ChosenExists(q) == chosen[q] # NoProvider => rows[chosen[q]].is # "none"

RowCommits(t, q) == order[t].at = "commit" /\ q \in order[t].for

(* The one SetDefault at its second statement has found all defaults there are.*)
Clear(q) ==
  /\ Defaults(q) = {chosen[q]} \cap Present
  /\ \A t \in Operator : RowCommits(t, q) => Defaults(q) \subseteq order[t].found
  /\ \A t, u \in Operator : RowCommits(t, q) /\ RowCommits(u, q) => t = u

DefaultsInv ==
  /\ ProviderTypeOK
  /\ \A t \in Operator : AskedFor(t)
  /\ \A q \in Purpose : ChosenExists(q)
  /\ \A q \in Purpose \ blurred : Clear(q)

-----------------------------------------------------------------------------
(* A request's record is replaced by another. *)
LEMMA TakesType ==
  ASSUME ProviderTypeOK, NEW t \in Operator, NEW r \in Order, Takes(t, r)
  PROVE  order' \in [Operator -> Order]
BY DEF ProviderTypeOK, Takes

LEMMA ClosesType ==
  ASSUME ProviderTypeOK, NEW t \in Operator, Closes(t)
  PROVE  order' \in [Operator -> Order]
<1>1. NoOrder \in Order
  BY DEF NoOrder, Order, NoProviderRow, ProviderRow
<1>2. QED BY <1>1 DEF ProviderTypeOK, Closes

LEMMA ProviderTypeStep ==
  ASSUME ProviderTypeOK, \A t \in Operator : AskedFor(t), [ProviderNext]_providerVars
  PROVE  ProviderTypeOK'
<1>1. CASE InitDefaultProviders /\ orders' = orders
  <2>1. PICK Reached \in SUBSET Provider : \E able \in [Reached \ Present -> SUBSET Purpose \ {{}}] :
           rows' = [p \in Provider |-> IF p \in Reached \ Present
                                       THEN BuiltInRow(able[p]) ELSE rows[p]]
    BY <1>1 DEF InitDefaultProviders
  <2>2. \A can \in SUBSET Purpose : BuiltInRow(can) \in ProviderRow
    BY DEF BuiltInRow, NoProviderRow, ProviderRow
  <2>3. rows' \in [Provider -> ProviderRow]
    BY <2>1, <2>2 DEF ProviderTypeOK
  <2>4. QED BY <1>1, <2>3 DEF InitDefaultProviders, ProviderTypeOK
<1>2. ASSUME NEW t \in Operator, orders' \in {orders, orders + 1}, CreateProvider(t)
      PROVE  ProviderTypeOK'
  BY <1>2 DEF CreateProvider, ProviderTypeOK, ProviderRow
<1>3. ASSUME NEW t \in Operator, orders' \in {orders, orders + 1}, ReadForUpdate(t)
      PROVE  ProviderTypeOK'
  <2>1. PICK p \in Present, on \in BOOLEAN, can \in SUBSET Purpose \ {{}} :
          Takes(t, [NoOrder EXCEPT !.at = "save", !.id = p,
                                   !.row = [rows[p] EXCEPT !.on = on, !.can = can]])
    BY <1>3 DEF ReadForUpdate
  <2>2. [NoOrder EXCEPT !.at = "save", !.id = p,
                        !.row = [rows[p] EXCEPT !.on = on, !.can = can]] \in Order
    <3>1. p \in Provider /\ rows[p] \in ProviderRow
      BY DEF Present, ProviderTypeOK
    <3>2. [rows[p] EXCEPT !.on = on, !.can = can] \in ProviderRow
      BY <3>1 DEF ProviderRow
    <3>3. QED BY <3>1, <3>2 DEF NoOrder, Order
  <2>3. order' \in [Operator -> Order]
    BY <2>1, <2>2, TakesType
  <2>4. QED BY <1>3, <2>3 DEF ReadForUpdate, ProviderTypeOK
<1>4. ASSUME NEW t \in Operator, orders' \in {orders, orders + 1}, DeleteProvider(t)
      PROVE  ProviderTypeOK'
  BY <1>4 DEF DeleteProvider, ProviderTypeOK, ProviderRow, Present
<1>5. ASSUME NEW t \in Operator, orders' \in {orders, orders + 1}, ReadForDefault(t)
      PROVE  ProviderTypeOK'
  <2>1. PICK p \in Present : \E q \in rows[p].can :
          Takes(t, [NoOrder EXCEPT !.at = "begin", !.id = p, !.for = {q}])
    BY <1>5 DEF ReadForDefault
  <2>2. p \in Provider /\ rows[p].can \subseteq Purpose
    BY DEF Present, ProviderTypeOK, ProviderRow
  <2>3. \A q \in Purpose : [NoOrder EXCEPT !.at = "begin", !.id = p, !.for = {q}] \in Order
    BY <2>2 DEF NoOrder, Order, ProviderRow, NoProviderRow
  <2>4. order' \in [Operator -> Order]
    BY <2>1, <2>2, <2>3, TakesType
  <2>5. QED BY <1>5, <2>4 DEF ReadForDefault, ProviderTypeOK
<1>6. ASSUME NEW t \in Operator, orders' \in {orders, orders + 1}, UpdateProvider(t)
      PROVE  ProviderTypeOK'
  <2>1. order[t].row \in ProviderRow
    BY DEF ProviderTypeOK, Order
  <2>2. rows' \in [Provider -> ProviderRow]
    BY <1>6, <2>1 DEF UpdateProvider, ProviderTypeOK
  <2>3. order[t].id \in Provider
    BY <1>6 DEF UpdateProvider, AskedFor
  <2>4. blurred' \subseteq Purpose
    BY <1>6, <2>1, <2>3 DEF UpdateProvider, ProviderTypeOK, ProviderRow
  <2>5. QED BY <1>6, <2>2, <2>4, ClosesType DEF UpdateProvider, ProviderTypeOK
<1>7. ASSUME NEW t \in Operator, orders' \in {orders, orders + 1}, FindDefaults(t)
      PROVE  ProviderTypeOK'
  <2>1. order[t] \in Order
    BY DEF ProviderTypeOK
  <2>2. UNION {Defaults(q) : q \in order[t].for} \subseteq Provider
    BY DEF Defaults, Present
  <2>3. [order[t] EXCEPT !.at = "commit", !.found = UNION {Defaults(q) : q \in order[t].for}] \in Order
    BY <2>1, <2>2 DEF Order
  <2>4. order' \in [Operator -> Order]
    BY <1>7, <2>3 DEF FindDefaults, ProviderTypeOK
  <2>5. blurred' \subseteq Purpose
    BY <1>7, <2>1 DEF FindDefaults, ProviderTypeOK, Order
  <2>6. QED BY <1>7, <2>4, <2>5 DEF FindDefaults, ProviderTypeOK
<1>8. ASSUME NEW t \in Operator, orders' \in {orders, orders + 1}, SetDefault(t)
      PROVE  ProviderTypeOK'
  <2>1. order[t].for \subseteq Purpose /\ order[t].id \in Provider
    BY <1>8 DEF ProviderTypeOK, Order, SetDefault, AskedFor
  <2>2. rows' \in [Provider -> ProviderRow]
    <3> DEFINE set(p)   == IF p = order[t].id /\ p \in Present THEN order[t].for ELSE {}
               unset(p) == IF p \in order[t].found \cap Present THEN order[t].for ELSE {}
               row(p)   == [rows[p] EXCEPT !.default = (@ \ unset(p)) \cup set(p)]
    <3>1. rows' = [p \in Provider |-> row(p)]
      BY <1>8 DEF SetDefault
    <3>2. ASSUME NEW p \in Provider PROVE row(p) \in ProviderRow
      <4>1. rows[p] \in ProviderRow
        BY <1>8 DEF ProviderTypeOK
      <4>2. (rows[p].default \ unset(p)) \cup set(p) \subseteq Purpose
        BY <2>1, <4>1 DEF ProviderRow
      <4> HIDE DEF set, unset
      <4>3. QED BY <4>1, <4>2 DEF ProviderRow
    <3> HIDE DEF row
    <3>3. QED BY <3>1, <3>2
  <2>3. chosen' \in [Purpose -> Provider \cup {NoProvider}]
    BY <1>8, <2>1 DEF SetDefault, ProviderTypeOK
  <2>4. QED BY <1>8, <2>2, <2>3, ClosesType DEF SetDefault, ProviderTypeOK
<1>9. ASSUME NEW t \in Operator, orders' \in {orders, orders + 1}, Drop(t)
      PROVE  ProviderTypeOK'
  BY <1>9, ClosesType DEF Drop, ProviderTypeOK
<1>10. CASE UNCHANGED providerVars
  BY <1>10 DEF providerVars, ProviderTypeOK
<1>11. QED
  BY <1>1, <1>2, <1>3, <1>4, <1>5, <1>6, <1>7, <1>8, <1>9, <1>10, ProviderSteps

(* No row is ever as if it had not been. *)
LEMMA RowsRemain ==
  ASSUME ProviderTypeOK, \A t \in Operator : AskedFor(t), ProviderNext
  PROVE  \A p \in Provider : rows[p].is # "none" => rows'[p].is # "none"
<1> SUFFICES ASSUME NEW p \in Provider, rows[p].is # "none" PROVE rows'[p].is # "none"
  OBVIOUS
<1>1. CASE InitDefaultProviders
  <2>1. PICK Reached \in SUBSET Provider : \E able \in [Reached \ Present -> SUBSET Purpose \ {{}}] :
           rows' = [o \in Provider |-> IF o \in Reached \ Present
                                       THEN BuiltInRow(able[o]) ELSE rows[o]]
    BY <1>1 DEF InitDefaultProviders
  <2>2. \A can : BuiltInRow(can).is = "live"
    BY DEF BuiltInRow, NoProviderRow
  <2>3. QED BY <2>1, <2>2
<1>2. ASSUME NEW t \in Operator, UpdateProvider(t) PROVE rows'[p].is # "none"
  BY <1>2 DEF UpdateProvider, AskedFor, ProviderTypeOK
<1>3. ASSUME NEW t \in Operator, SetDefault(t) PROVE rows'[p].is # "none"
  BY <1>3 DEF SetDefault, ProviderTypeOK, ProviderRow
<1>4. ASSUME NEW t \in Operator, CreateProvider(t) \/ DeleteProvider(t) PROVE rows'[p].is # "none"
  BY <1>4 DEF CreateProvider, DeleteProvider, ProviderTypeOK, ProviderRow, Present
<1>5. QED
  BY <1>1, <1>2, <1>3, <1>4, ProviderSteps DEF ReadForUpdate, ReadForDefault, FindDefaults, Drop

LEMMA AskedForStep ==
  ASSUME ProviderTypeOK, \A t \in Operator : AskedFor(t), ProviderNext
  PROVE  \A t \in Operator : AskedFor(t)'
<1> SUFFICES ASSUME NEW s \in Operator PROVE AskedFor(s)'
  OBVIOUS
<1>1. \A p \in Provider : rows[p].is # "none" => rows'[p].is # "none"
  BY RowsRemain
<1>2. CASE order'[s] = order[s]
  BY <1>1, <1>2 DEF AskedFor
<1>3. ASSUME order'[s] # order[s], NEW t \in Operator, ReadForUpdate(t) PROVE AskedFor(s)'
  <2>1. PICK p \in Present, on \in BOOLEAN, can \in SUBSET Purpose \ {{}} :
          Takes(t, [NoOrder EXCEPT !.at = "save", !.id = p,
                                   !.row = [rows[p] EXCEPT !.on = on, !.can = can]])
    BY <1>3 DEF ReadForUpdate
  <2>2. /\ order'[s].id = p /\ order'[s].row.is = rows[p].is /\ order'[s].for = {}
        /\ p \in Provider /\ rows[p].is = "live"
    BY <1>3, <2>1 DEF Takes, ProviderTypeOK, Present, NoOrder, ProviderRow
  <2>3. QED BY <1>1, <2>2 DEF AskedFor
<1>4. ASSUME order'[s] # order[s], NEW t \in Operator, ReadForDefault(t) PROVE AskedFor(s)'
  <2>1. PICK p \in Present : \E q \in rows[p].can :
          Takes(t, [NoOrder EXCEPT !.at = "begin", !.id = p, !.for = {q}])
    BY <1>4 DEF ReadForDefault
  <2>2. /\ order'[s].at = "begin" /\ order'[s].id = p /\ \E q : order'[s].for = {q}
        /\ p \in Provider /\ rows[p].is = "live"
    <3>1. PICK q \in rows[p].can : Takes(t, [NoOrder EXCEPT !.at = "begin", !.id = p, !.for = {q}])
      BY <2>1
    <3>2. s = t /\ order'[s] = [NoOrder EXCEPT !.at = "begin", !.id = p, !.for = {q}]
      BY <1>4, <3>1 DEF Takes, ProviderTypeOK
    <3>3. QED BY <3>2 DEF NoOrder, Present
  <2>3. QED BY <1>1, <2>2 DEF AskedFor
<1>5. ASSUME order'[s] # order[s], NEW t \in Operator, FindDefaults(t) PROVE AskedFor(s)'
  <2>1. /\ s = t /\ order[s].at = "begin" /\ order'[s].at = "commit"
        /\ order'[s].id = order[s].id /\ order'[s].for = order[s].for
    BY <1>5 DEF FindDefaults, ProviderTypeOK, Order
  <2>2. QED BY <1>1, <2>1 DEF AskedFor
<1>6. ASSUME order'[s] # order[s], NEW t \in Operator, Closes(t) PROVE AskedFor(s)'
  <2>1. order'[s].at = "idle"
    BY <1>6 DEF Closes, ProviderTypeOK, NoOrder
  <2>2. QED BY <2>1 DEF AskedFor
<1>7. QED
  BY <1>2, <1>3, <1>4, <1>5, <1>6, ProviderSteps
  DEF InitDefaultProviders, CreateProvider, DeleteProvider, UpdateProvider, SetDefault, Drop

LEMMA ChosenExistsStep ==
  ASSUME ProviderTypeOK, \A t \in Operator : AskedFor(t), \A q \in Purpose : ChosenExists(q),
         ProviderNext
  PROVE  \A q \in Purpose : ChosenExists(q)'
<1> SUFFICES ASSUME NEW q \in Purpose PROVE ChosenExists(q)'
  OBVIOUS
<1>1. \A p \in Provider : rows[p].is # "none" => rows'[p].is # "none"
  BY RowsRemain
<1>2. chosen[q] \in Provider \cup {NoProvider}
  BY DEF ProviderTypeOK
<1>3. CASE chosen'[q] = chosen[q]
  BY <1>1, <1>2, <1>3 DEF ChosenExists
<1>4. ASSUME chosen'[q] # chosen[q], NEW t \in Operator, SetDefault(t) PROVE ChosenExists(q)'
  <2>1. chosen'[q] = order[t].id /\ order[t].id \in Provider /\ rows[order[t].id].is # "none"
    BY <1>4 DEF SetDefault, AskedFor
  <2>2. QED BY <1>1, <2>1 DEF ChosenExists
<1>5. QED
  BY <1>3, <1>4, ProviderSteps
  DEF InitDefaultProviders, CreateProvider, ReadForUpdate, DeleteProvider, ReadForDefault,
      UpdateProvider, FindDefaults, Drop

-----------------------------------------------------------------------------
(* A step after which the same rows are default, of those that are there, and  *)
(* the same SetDefaults at their second statement.                             *)
LEMMA ClearKept ==
  ASSUME NEW q \in Purpose, Clear(q),
         Defaults(q)' \subseteq Defaults(q), Defaults(q)' = {chosen[q]} \cap Present',
         chosen'[q] = chosen[q],
         \A s \in Operator : RowCommits(s, q)' => order'[s] = order[s]
  PROVE  Clear(q)'
<1>1. \A s \in Operator : RowCommits(s, q)' => RowCommits(s, q) /\ order'[s].found = order[s].found
  BY DEF RowCommits
<1>2. QED BY <1>1 DEF Clear

LEMMA ClearStep ==
  ASSUME DefaultsInv, ProviderNext
  PROVE  \A q \in Purpose \ blurred' : Clear(q)'
<1> SUFFICES ASSUME NEW q \in Purpose, q \notin blurred' PROVE Clear(q)'
  OBVIOUS
<1>t. ProviderTypeOK
  BY DEF DefaultsInv
<1>0. /\ q \notin blurred /\ Clear(q) /\ ChosenExists(q)
      /\ \A t \in Operator : AskedFor(t)
  <2>1. q \notin blurred
    BY ProviderSteps DEF InitDefaultProviders, CreateProvider, ReadForUpdate, DeleteProvider,
       ReadForDefault, UpdateProvider, FindDefaults, SetDefault, Drop
  <2>2. QED BY <2>1 DEF DefaultsInv
<1>d. Defaults(q) = {chosen[q]} \cap Present
  BY <1>0 DEF Clear
<1>p. chosen[q] \in Provider => rows[chosen[q]].is # "none"
  BY <1>0 DEF ChosenExists
<1>1. CASE InitDefaultProviders
  <2>1. PICK Reached \in SUBSET Provider : \E able \in [Reached \ Present -> SUBSET Purpose \ {{}}] :
           /\ rows' = [p \in Provider |-> IF p \in Reached \ Present
                                       THEN BuiltInRow(able[p]) ELSE rows[p]]
           /\ \A p \in Reached : rows[p].is # "deleted"
    <3> DEFINE Reached == {p \in Provider : \E i \in 1..Len(BuiltIn) :
                    p = BuiltIn[i] /\ \A j \in 1..i : rows[BuiltIn[j]].is # "deleted"}
    <3>1. ASSUME NEW p \in Reached PROVE rows[p].is # "deleted"
      <4>1. PICK i \in 1..Len(BuiltIn) : p = BuiltIn[i] /\ \A j \in 1..i : rows[BuiltIn[j]].is # "deleted"
        OBVIOUS
      <4>2. i \in 1..i
        OBVIOUS
      <4>3. QED BY <4>1, <4>2
    <3>2. \E able \in [Reached \ Present -> SUBSET Purpose \ {{}}] :
           rows' = [p \in Provider |-> IF p \in Reached \ Present
                                       THEN BuiltInRow(able[p]) ELSE rows[p]]
      BY <1>1 DEF InitDefaultProviders
    <3>3. Reached \in SUBSET Provider
      OBVIOUS
    <3> HIDE DEF Reached
    <3>4. QED BY <3>1, <3>2, <3>3
  <2>2. \A can : BuiltInRow(can).default = {} /\ BuiltInRow(can).is = "live"
    BY DEF BuiltInRow, NoProviderRow
  <2>3. \A p \in Reached \ Present : rows[p].is = "none"
    BY <1>t, <2>1 DEF ProviderTypeOK, ProviderRow, Present
  <2>4. Defaults(q)' = Defaults(q)
    BY <2>1, <2>2 DEF Defaults, Present
  <2>5. chosen[q] \notin Reached \ Present
    BY <1>p, <2>3
  <2>6. {chosen[q]} \cap Present' = {chosen[q]} \cap Present
    BY <2>1, <2>2, <2>5 DEF Present
  <2>7. QED BY <1>0, <1>1, <1>d, <2>4, <2>6, ClearKept DEF InitDefaultProviders
<1>2. ASSUME NEW t \in Operator, CreateProvider(t) PROVE Clear(q)'
  <2>1. PICK p \in Provider : /\ rows[p].is = "none"
                              /\ rows'[p].is = "live" /\ rows'[p].default = {}
                              /\ \A o \in Provider \ {p} : rows'[o] = rows[o]
    BY <1>2, <1>t DEF CreateProvider, ProviderTypeOK
  <2>2. Defaults(q)' = Defaults(q)
    BY <2>1 DEF Defaults, Present
  <2>3. {chosen[q]} \cap Present' = {chosen[q]} \cap Present
    BY <1>p, <2>1 DEF Present
  <2>4. QED BY <1>0, <1>2, <1>d, <2>2, <2>3, ClearKept DEF CreateProvider
<1>3. ASSUME NEW t \in Operator, DeleteProvider(t) PROVE Clear(q)'
  <2>1. PICK p \in Present : rows' = [rows EXCEPT ![p].is = "deleted"]
    BY <1>3 DEF DeleteProvider
  <2>2. p \in Provider /\ Present' = Present \ {p}
    BY <1>t, <2>1 DEF Present, ProviderTypeOK, ProviderRow
  <2>3. \A o \in Provider : rows'[o].default = rows[o].default
    BY <1>t, <2>1 DEF ProviderTypeOK, ProviderRow
  <2>4. Defaults(q)' = Defaults(q) \ {p}
    BY <2>2, <2>3 DEF Defaults, Present
  <2>5. QED BY <1>0, <1>3, <1>d, <2>2, <2>4, ClearKept DEF DeleteProvider
<1>4. ASSUME NEW t \in Operator, ReadForUpdate(t) \/ ReadForDefault(t) \/ Drop(t) PROVE Clear(q)'
  <2>1. /\ rows' = rows /\ chosen' = chosen
        /\ \A s \in Operator : order'[s] = order[s] \/ order'[s].at # "commit"
    <3>1. CASE ReadForUpdate(t)
      BY <3>1, <1>t DEF ReadForUpdate, Takes, ProviderTypeOK, NoOrder
    <3>2. CASE ReadForDefault(t)
      BY <3>2, <1>t DEF ReadForDefault, Takes, ProviderTypeOK, NoOrder
    <3>3. CASE Drop(t)
      BY <3>3, <1>t DEF Drop, Closes, ProviderTypeOK, NoOrder
    <3>4. QED BY <1>4, <3>1, <3>2, <3>3
  <2>2. Defaults(q)' = Defaults(q) /\ Present' = Present
    BY <2>1 DEF Defaults, Present
  <2>3. QED BY <1>0, <1>d, <2>1, <2>2, ClearKept DEF RowCommits
<1>5. ASSUME NEW t \in Operator, UpdateProvider(t) PROVE Clear(q)'
  <2> DEFINE p == order[t].id
  <2>1. /\ p \in Provider /\ rows[p].is # "none" /\ order[t].row.is = "live"
    BY <1>0, <1>5 DEF UpdateProvider, AskedFor
  <2>2. /\ rows'[p] = order[t].row
        /\ \A o \in Provider \ {p} : rows'[o] = rows[o]
    BY <1>5, <1>t, <2>1 DEF UpdateProvider, ProviderTypeOK
  <2>3. /\ q \in rows[p].default <=> q \in order[t].row.default
        /\ p \notin Present => q \notin order[t].row.default /\ chosen[q] # p
    BY <1>5 DEF UpdateProvider
  <2>4. Defaults(q)' = Defaults(q)
    BY <2>1, <2>2, <2>3 DEF Defaults, Present
  <2>5. {chosen[q]} \cap Present' = {chosen[q]} \cap Present
    BY <2>1, <2>2, <2>3 DEF Present
  <2>6. chosen' = chosen /\ \A s \in Operator : RowCommits(s, q)' => order'[s] = order[s]
    BY <1>5, <1>t DEF UpdateProvider, Closes, ProviderTypeOK, RowCommits, NoOrder
  <2>7. QED BY <1>0, <1>d, <2>4, <2>5, <2>6, ClearKept
<1>6. ASSUME NEW t \in Operator, FindDefaults(t) PROVE Clear(q)'
  <2>1. /\ order[t].at = "begin" /\ rows' = rows /\ chosen' = chosen
        /\ order'[t].for = order[t].for
        /\ order'[t].found = UNION {Defaults(o) : o \in order[t].for}
        /\ \A s \in Operator \ {t} : order'[s] = order[s]
    BY <1>6, <1>t DEF FindDefaults, ProviderTypeOK, Order
  <2>2. Defaults(q)' = Defaults(q) /\ Present' = Present
    BY <2>1 DEF Defaults, Present
  <2>3. q \in order[t].for => Defaults(q) \subseteq order'[t].found
    BY <2>1
  <2>4. ASSUME NEW s \in Operator, s # t, q \in order[t].for PROVE ~RowCommits(s, q)
    <3>1. SUFFICES ASSUME order[s].at = "commit", q \in order[s].for PROVE FALSE
      BY DEF RowCommits
    <3>2. order[s].for = order[t].for
      <4>1. order[s].for = {q}
        BY <1>0, <3>1 DEF AskedFor
      <4>2. order[t].for = {q}
        BY <1>0, <2>1, <2>4 DEF AskedFor
      <4>3. QED BY <4>1, <4>2
    <3>3. QED BY <1>6, <2>4, <3>1, <3>2 DEF FindDefaults
  <2>5. \A s \in Operator \ {t} : RowCommits(s, q)' <=> RowCommits(s, q)
    BY <2>1 DEF RowCommits
  <2>6. RowCommits(t, q)' => q \in order[t].for
    BY <2>1 DEF RowCommits
  <2>7. QED BY <1>0, <2>1, <2>2, <2>3, <2>4, <2>5, <2>6 DEF Clear
<1>7. ASSUME NEW t \in Operator, SetDefault(t) PROVE Clear(q)'
  <2> DEFINE set(p) == IF p = order[t].id /\ p \in Present THEN order[t].for ELSE {}
             unset(p) == IF p \in order[t].found \cap Present THEN order[t].for ELSE {}
  <2>1. /\ order[t].at = "commit" /\ order[t].id \in Provider
        /\ \A p \in Provider : /\ rows'[p].is = rows[p].is
                               /\ rows'[p].default = (rows[p].default \ unset(p)) \cup set(p)
    <3>1. \A p \in Provider : rows[p] \in ProviderRow
      BY <1>t DEF ProviderTypeOK
    <3>2. \A p \in Provider : rows'[p] = [rows[p] EXCEPT !.default = (@ \ unset(p)) \cup set(p)]
      BY <1>7 DEF SetDefault
    <3>3. QED BY <1>0, <1>7, <3>1, <3>2 DEF ProviderRow, SetDefault, AskedFor
  <2>2. Present' = Present
    BY <2>1 DEF Present
  <2>3. /\ \A s \in Operator \ {t} : order'[s] = order[s]
        /\ ~RowCommits(t, q)'
    BY <1>7, <1>t DEF SetDefault, Closes, ProviderTypeOK, RowCommits, NoOrder
  <2>4. CASE q \notin order[t].for
    <3>1. chosen'[q] = chosen[q]
      BY <1>7, <2>4 DEF SetDefault
    <3>2. Defaults(q)' = Defaults(q)
      BY <2>1, <2>2, <2>4 DEF Defaults, Present
    <3>3. QED BY <1>0, <1>d, <2>2, <2>3, <3>1, <3>2, ClearKept
  <2>5. CASE q \in order[t].for
    <3>1. chosen'[q] = order[t].id
      BY <1>7, <2>5 DEF SetDefault
    <3>2. Defaults(q) \subseteq order[t].found
      BY <1>0, <2>1, <2>5 DEF Clear, RowCommits
    <3>3. Defaults(q)' = {order[t].id} \cap Present
      BY <2>1, <2>2, <2>5, <3>2 DEF Defaults, Present
    <3>4. \A s \in Operator : ~RowCommits(s, q)'
      BY <1>0, <2>1, <2>3, <2>5 DEF Clear, RowCommits
    <3>5. QED BY <2>2, <3>1, <3>3, <3>4 DEF Clear
  <2>6. QED BY <2>4, <2>5
<1>8. QED
  BY <1>1, <1>2, <1>3, <1>4, <1>5, <1>6, <1>7, ProviderSteps

LEMMA DefaultsInvariant == ProviderSpec => []DefaultsInv
<1>1. ProviderInit => DefaultsInv
  <2> SUFFICES ASSUME ProviderInit PROVE DefaultsInv
    OBVIOUS
  <2>1. ProviderTypeOK
    BY DEF ProviderInit, ProviderTypeOK, NoProviderRow, ProviderRow, NoOrder, Order
  <2>2. Present = {} /\ \A q \in Purpose : Defaults(q) = {}
    BY DEF ProviderInit, Present, Defaults, NoProviderRow
  <2>3. \A t \in Operator : order[t].at = "idle"
    BY DEF ProviderInit, NoOrder
  <2>4. QED BY <2>1, <2>2, <2>3 DEF ProviderInit, DefaultsInv, AskedFor, ChosenExists, Clear, RowCommits
<1>2. DefaultsInv /\ [ProviderNext]_providerVars => DefaultsInv'
  <2> SUFFICES ASSUME DefaultsInv, [ProviderNext]_providerVars PROVE DefaultsInv'
    OBVIOUS
  <2>1. CASE ProviderNext
    BY <2>1, ProviderTypeStep, AskedForStep, ChosenExistsStep, ClearStep DEF DefaultsInv
  <2>2. CASE UNCHANGED providerVars
    BY <2>2 DEF providerVars, DefaultsInv, ProviderTypeOK, AskedFor, ChosenExists, Clear, RowCommits,
       Defaults, Present
  <2>3. QED BY <2>1, <2>2
<1>3. QED BY <1>1, <1>2, PTL DEF ProviderSpec

(* Every variable of the providers' tables keeps its type. *)
THEOREM ProviderTypeCorrect == ProviderSpec => []ProviderTypeOK
<1>1. DefaultsInv => ProviderTypeOK
  BY DEF DefaultsInv
<1>2. QED BY <1>1, DefaultsInvariant, PTL

(* The provider made default last is the only default for its purpose while it *)
(* is there, and in use while it is enabled and able, whatever number of       *)
(* updates, deletions and SetDefaults interleave; those the history calls      *)
(* blurred excepted (provider/service.go:211, repository.go:98).               *)
THEOREM DefaultIsChosenHolds == ProviderSpec => []DefaultIsChosen
<1>1. DefaultsInv => DefaultIsChosen
  <2> SUFFICES ASSUME DefaultsInv, NEW q \in Purpose \ blurred
               PROVE  /\ Defaults(q) = {chosen[q]} \cap Present
                      /\ chosen[q] \in Present /\ Able(chosen[q], q) => Active(q) = {chosen[q]}
    BY DEF DefaultIsChosen
  <2>1. Defaults(q) = {chosen[q]} \cap Present
    BY DEF DefaultsInv, Clear
  <2>2. chosen[q] \in Present /\ Able(chosen[q], q) => Active(q) = {chosen[q]}
    BY <2>1 DEF Active
  <2>3. QED BY <2>1, <2>2
<1>2. QED BY <1>1, DefaultsInvariant, PTL

HIDE ProviderAssumption

-----------------------------------------------------------------------------
(* MCP registry.                                                             *)

USE RegistryAssumption, NoCopyAssumption

(* A job that is to change rows changes those of its user.                     *)
JobHolds(t) ==
  /\ job[t].at = "save" =>
       \A s \in Todo(t) : mcpRows[s].is # "none" /\ mcpRows[s].user = job[t].user
  /\ job[t].at = "drop" =>
       \A s \in job[t].ids : mcpRows[s].is # "none" /\ mcpRows[s].user = job[t].user

(* A refresh of the servers of s's user is to come. *)
ToBeRefreshed(s) ==
  \E t \in Worker : job[t].at \in {"list", "refresh"} /\ job[t].user = mcpRows[s].user

(* The registry's entry and tools agree with one another whatever the row says,*)
(* and with the row unless a refresh is to come.                               *)
Follows(s) ==
  /\ servers[s] = NoCopy => ToolsOf(s) = {}
  /\ servers[s] # NoCopy =>
       /\ \A x \in ToolsOf(s) : x.url = servers[s].url
       /\ (IsLive(s) /\ servers[s] = mcpRows[s].copy) \/ ToBeRefreshed(s)

RegistryInv ==
  /\ RegistryTypeOK
  /\ \A t \in Worker : JobHolds(t)
  /\ \A s \in Server \ astray : Follows(s)

-----------------------------------------------------------------------------
LEMMA NoJobType == NoJob \in Job /\ NoTodo \in [Server -> Copy \cup {NoCopy}]
BY DEF NoJob, Job, NoTodo

LEMMA OneFacts ==
  ASSUME NEW s \in Server, NEW c \in Copy \cup {NoCopy}
  PROVE  /\ One(s, c) \in [Server -> Copy \cup {NoCopy}]
         /\ \A o \in Server : One(s, c)[o] # NoCopy => o = s
BY DEF One, NoTodo

LEMMA StartsFacts ==
  ASSUME RegistryTypeOK, NEW t \in Worker, NEW r \in Job, StartsJob(t, r)
  PROVE  /\ job' \in [Worker -> Job] /\ job[t].at = "idle" /\ job'[t] = r
         /\ \A u \in Worker \ {t} : job'[u] = job[u]
BY DEF RegistryTypeOK, StartsJob

LEMMA EndsFacts ==
  ASSUME RegistryTypeOK, NEW t \in Worker, EndsJob(t)
  PROVE  /\ job' \in [Worker -> Job] /\ job'[t] = NoJob
         /\ \A u \in Worker \ {t} : job'[u] = job[u]
BY NoJobType DEF RegistryTypeOK, EndsJob

(* The steps in four groups: those that start a request or go on with one that *)
(* neither changes rows nor the registry; those of the table; those of the     *)
(* registry; and the two losses.                                               *)
Quiet(t) ==
  \/ BeginUpdateServer(t) \/ BeginDeleteServer(t) \/ BeginListTools(t) \/ BeginTurn(t)
  \/ ListServers(t) \/ Discovered(t) \/ CheckTools(t) \/ LookUp(t)
  \/ OfferTools(t) \/ AskModel(t) \/ CallTool(t) \/ Fails(t)

LEMMA RegistrySteps ==
  ASSUME RegistryNext
  PROVE  /\ jobs' \in {jobs, jobs + 1} /\ stops' \in {stops, stops + 1}
         /\ \/ \E t \in Worker : \/ Quiet(t) \/ CreateServer(t) \/ UpdateServer(t) \/ DeleteServer(t)
                                 \/ Refresh(t) \/ Discover(t) \/ EnterServer(t) \/ ClearTools(t)
                                 \/ ListFails(t)
            \/ RegistryLost
BY DEF RegistryNext, TakesJob, DoesJob, Quiet, ListFails, RegistryLost

(* A quiet step makes a job of one goroutine into another: it does not forget  *)
(* a refresh that is to come, and what it is to change are rows of its user.   *)
LEMMA QuietFacts ==
  ASSUME RegistryInv, NEW t \in Worker, Quiet(t)
  PROVE  /\ job' \in [Worker -> Job]
         /\ \A u \in Worker \ {t} : job'[u] = job[u]
         /\ job[t].at \in {"list", "refresh"} =>
              job'[t].at \in {"list", "refresh"} /\ job'[t].user = job[t].user
         /\ job'[t] # job[t] => JobHolds(t)'
         /\ UNCHANGED <<mcpRows, registry, astray>>
<1>t. RegistryTypeOK /\ job[t] \in Job
  BY DEF RegistryInv, RegistryTypeOK
<1>n. NoJob \in Job /\ NoJob.at = "idle"
  BY NoJobType DEF NoJob
<1>u. UNCHANGED <<mcpRows, registry, astray>>
  BY DEF Quiet, BeginUpdateServer, BeginDeleteServer, BeginListTools, BeginTurn, ListServers,
         Discovered, CheckTools, LookUp, OfferTools, AskModel, CallTool, Fails
<1>e. ASSUME EndsJob(t), job[t].at \notin {"list", "refresh"}
      PROVE  /\ job' \in [Worker -> Job]
             /\ \A u \in Worker \ {t} : job'[u] = job[u]
             /\ JobHolds(t)'
  BY <1>e, <1>n, <1>t, EndsFacts DEF JobHolds
<1>g. ASSUME NEW r \in Job, job' = [job EXCEPT ![t] = r], r.at \notin {"save", "drop"}
      PROVE  /\ job' \in [Worker -> Job]
             /\ \A u \in Worker \ {t} : job'[u] = job[u]
             /\ job'[t] = r
             /\ JobHolds(t)'
  BY <1>g, <1>t DEF RegistryTypeOK, JobHolds
<1>1. CASE BeginUpdateServer(t)
  <2>1. PICK s \in Server, c \in Copy :
          /\ IsLive(s)
          /\ StartsJob(t, [NoJob EXCEPT !.at = "save", !.user = mcpRows[s].user, !.todo = One(s, c)])
    BY <1>1 DEF BeginUpdateServer
  <2> DEFINE r == [NoJob EXCEPT !.at = "save", !.user = mcpRows[s].user, !.todo = One(s, c)]
  <2>2. mcpRows[s].user \in Owner \cup {NoUser}
    BY <1>t DEF RegistryTypeOK, McpRow
  <2>3. r \in Job /\ r.at = "save" /\ r.user = mcpRows[s].user /\ r.todo = One(s, c)
    BY <1>n, <2>2, OneFacts DEF Job
  <2> HIDE DEF r
  <2>4. /\ job' \in [Worker -> Job] /\ job[t].at = "idle" /\ job'[t] = r
        /\ \A u \in Worker \ {t} : job'[u] = job[u]
    BY <1>t, <2>1, <2>3, StartsFacts DEF r
  <2>5. Todo(t)' \subseteq {s}
    BY <2>3, <2>4, OneFacts DEF Todo
  <2>6. QED BY <1>u, <2>1, <2>3, <2>4, <2>5 DEF JobHolds, IsLive
<1>2. CASE BeginDeleteServer(t)
  <2>1. PICK s \in Server :
          /\ IsLive(s)
          /\ StartsJob(t, [NoJob EXCEPT !.at = "drop", !.user = mcpRows[s].user, !.ids = {s}])
    BY <1>2 DEF BeginDeleteServer
  <2> DEFINE r == [NoJob EXCEPT !.at = "drop", !.user = mcpRows[s].user, !.ids = {s}]
  <2>2. mcpRows[s].user \in Owner \cup {NoUser}
    BY <1>t DEF RegistryTypeOK, McpRow
  <2>3. r \in Job /\ r.at = "drop" /\ r.user = mcpRows[s].user /\ r.ids = {s}
    BY <1>n, <2>2 DEF Job
  <2> HIDE DEF r
  <2>4. /\ job' \in [Worker -> Job] /\ job[t].at = "idle" /\ job'[t] = r
        /\ \A u \in Worker \ {t} : job'[u] = job[u]
    BY <1>t, <2>1, <2>3, StartsFacts DEF r
  <2>5. QED BY <1>u, <2>1, <2>3, <2>4 DEF JobHolds, IsLive
<1>3. CASE BeginListTools(t)
  <2>1. PICK s \in Server, next \in {"check", "clear"} :
          /\ IsLive(s)
          /\ StartsJob(t, [NoJob EXCEPT !.at = next, !.todo = One(s, mcpRows[s].copy)])
    BY <1>3 DEF BeginListTools
  <2> DEFINE r == [NoJob EXCEPT !.at = next, !.todo = One(s, mcpRows[s].copy)]
  <2>2. mcpRows[s].copy \in Copy \cup {NoCopy}
    BY <1>t DEF RegistryTypeOK, McpRow
  <2>3. r \in Job /\ r.at = next
    BY <1>n, <2>2, OneFacts DEF Job
  <2> HIDE DEF r
  <2>4. /\ job' \in [Worker -> Job] /\ job[t].at = "idle" /\ job'[t] = r
        /\ \A u \in Worker \ {t} : job'[u] = job[u]
    BY <1>t, <2>1, <2>3, StartsFacts DEF r
  <2>5. QED BY <1>u, <2>3, <2>4 DEF JobHolds
<1>4. CASE BeginTurn(t)
  <2>1. PICK u \in Owner \cup {NoUser}, ids \in SUBSET Server \ {{}} :
          StartsJob(t, [NoJob EXCEPT !.at = "lookup", !.user = u, !.ids = ids,
                                     !.left = IF u = NoUser THEN {} ELSE ids])
    BY <1>4 DEF BeginTurn
  <2> DEFINE r == [NoJob EXCEPT !.at = "lookup", !.user = u, !.ids = ids,
                                !.left = IF u = NoUser THEN {} ELSE ids]
  <2>2. r \in Job /\ r.at = "lookup"
    BY <1>n DEF Job
  <2> HIDE DEF r
  <2>3. /\ job' \in [Worker -> Job] /\ job[t].at = "idle" /\ job'[t] = r
        /\ \A w \in Worker \ {t} : job'[w] = job[w]
    BY <1>t, <2>1, <2>2, StartsFacts DEF r
  <2>4. QED BY <1>u, <2>2, <2>3 DEF JobHolds
<1>5. CASE ListServers(t)
  <2> DEFINE todo == [s \in Server |-> IF s \in OwnedBy(job[t].user) THEN mcpRows[s].copy ELSE NoCopy]
             r == [job[t] EXCEPT !.at = "refresh", !.todo = todo]
  <2>1. todo \in [Server -> Copy \cup {NoCopy}]
    BY <1>t DEF RegistryTypeOK, McpRow
  <2> HIDE DEF todo
  <2>2. r \in Job /\ r.at = "refresh" /\ r.user = job[t].user
    BY <1>t, <2>1 DEF Job
  <2>3. job' = [job EXCEPT ![t] = r] /\ job[t].at = "list"
    BY <1>5 DEF ListServers, todo
  <2> HIDE DEF r
  <2>4. QED BY <1>u, <1>g, <2>2, <2>3
<1>6. CASE Discovered(t)
  <2>1. CASE EndsJob(t)
    BY <1>6, <1>e, <1>u, <2>1 DEF Discovered
  <2>2. CASE NextAt(t, "lookup")
    <3>1. [job[t] EXCEPT !.at = "lookup"] \in Job /\ [job[t] EXCEPT !.at = "lookup"].at = "lookup"
      BY <1>t DEF Job
    <3>2. QED BY <1>6, <1>g, <1>u, <2>2, <3>1 DEF NextAt, Discovered
  <2>3. QED BY <1>6, <2>1, <2>2 DEF Discovered
<1>7. CASE CheckTools(t)
  <2>1. PICK at \in {"swap", "enter"} : NextAt(t, at)
    <3>1. CASE \E s \in Todo(t) : ToolsOf(s) # {}
      BY <1>7, <3>1 DEF CheckTools
    <3>2. CASE ~\E s \in Todo(t) : ToolsOf(s) # {}
      BY <1>7, <3>2 DEF CheckTools
    <3>3. QED BY <3>1, <3>2
  <2>2. [job[t] EXCEPT !.at = at] \in Job /\ [job[t] EXCEPT !.at = at].at = at
    BY <1>t DEF Job
  <2>3. QED BY <1>7, <1>g, <1>u, <2>1, <2>2 DEF NextAt, CheckTools
<1>8. CASE LookUp(t)
  <2>1. PICK s \in job[t].left :
          \/ job' = [job EXCEPT ![t].left = @ \ {s}, ![t].at = "check",
                                ![t].todo = One(s, mcpRows[s].copy)]
          \/ job' = [job EXCEPT ![t].left = @ \ {s}]
    BY <1>8 DEF LookUp
  <2>2. s \in Server /\ mcpRows[s].copy \in Copy \cup {NoCopy} /\ job[t].at = "lookup"
    BY <1>8, <1>t DEF RegistryTypeOK, McpRow, Job, LookUp
  <2> DEFINE r1 == [job[t] EXCEPT !.left = @ \ {s}, !.at = "check", !.todo = One(s, mcpRows[s].copy)]
             r2 == [job[t] EXCEPT !.left = @ \ {s}]
  <2>3. r1 \in Job /\ r1.at = "check"
    BY <1>t, <2>2, OneFacts DEF Job
  <2>4. r2 \in Job /\ r2.at = "lookup"
    BY <1>t, <2>2 DEF Job
  <2>5. job' = [job EXCEPT ![t] = r1] \/ job' = [job EXCEPT ![t] = r2]
    BY <2>1
  <2> HIDE DEF r1, r2
  <2>6. QED BY <1>g, <1>u, <2>2, <2>3, <2>4, <2>5
<1>9. CASE OfferTools(t)
  <2> DEFINE names == {x.name : x \in Offered(job[t].ids)}
             r == [job[t] EXCEPT !.at = "ask", !.names = names]
  <2>1. names \subseteq ToolName
    BY <1>t DEF Offered, RegistryTypeOK, Tool
  <2>2. EndsJob(t) \/ job' = [job EXCEPT ![t] = r]
    BY <1>9 DEF OfferTools
  <2> HIDE DEF names
  <2>3. r \in Job /\ r.at = "ask"
    BY <1>t, <2>1 DEF Job
  <2> HIDE DEF r
  <2>4. job[t].at = "lookup"
    BY <1>9 DEF OfferTools
  <2>5. QED BY <1>e, <1>g, <1>u, <2>2, <2>3, <2>4
<1>10. CASE AskModel(t)
  <2>1. CASE EndsJob(t)
    BY <1>10, <1>e, <1>u, <2>1 DEF AskModel
  <2>2. ASSUME NEW calls \in SUBSET job[t].names,
               job' = [job EXCEPT ![t].at = "call", ![t].round = @ + 1, ![t].calls = calls]
        PROVE  /\ job' \in [Worker -> Job]
               /\ \A u \in Worker \ {t} : job'[u] = job[u]
               /\ JobHolds(t)'
    <3> DEFINE r == [job[t] EXCEPT !.at = "call", !.round = @ + 1, !.calls = calls]
    <3>0. job[t].round + 1 \in Nat /\ calls \in SUBSET ToolName
      BY <1>t DEF Job
    <3>1. r \in Job /\ r.at = "call"
      BY <1>t, <3>0 DEF Job
    <3>2. job' = [job EXCEPT ![t] = r]
      BY <2>2
    <3> HIDE DEF r
    <3>3. QED BY <1>g, <3>1, <3>2
  <2>3. job[t].at = "ask"
    BY <1>10 DEF AskModel
  <2>4. QED BY <1>10, <1>u, <2>1, <2>2, <2>3 DEF AskModel
<1>11. CASE CallTool(t)
  <2>1. PICK r \in {[job[t] EXCEPT !.at = "ask"]} \cup {[job[t] EXCEPT !.calls = @ \ {n}] : n \in ToolName} :
          job' = [job EXCEPT ![t] = r]
    <3>1. job[t].calls \subseteq ToolName
      BY <1>t DEF Job
    <3>2. CASE job[t].calls = {}
      BY <1>11, <3>2 DEF CallTool, NextAt
    <3>3. CASE job[t].calls # {}
      BY <1>11, <3>1, <3>3 DEF CallTool
    <3>4. QED BY <3>2, <3>3
  <2>2. job[t].at = "call"
    BY <1>11 DEF CallTool
  <2>3. r \in Job /\ r.at \in {"ask", "call"}
    BY <1>t, <2>1, <2>2 DEF Job
  <2>4. QED BY <1>g, <1>u, <2>1, <2>2, <2>3
<1>12. CASE Fails(t)
  BY <1>12, <1>e, <1>u DEF Fails
<1>13. QED
  BY <1>1, <1>2, <1>3, <1>4, <1>5, <1>6, <1>7, <1>8, <1>9, <1>10, <1>11, <1>12 DEF Quiet

LEMMA RegistryTypeStep ==
  ASSUME RegistryInv, [RegistryNext]_registryVars
  PROVE  RegistryTypeOK'
<1>t. RegistryTypeOK
  BY DEF RegistryInv
<1>c. jobs' \in Nat /\ stops' \in Nat
  BY <1>t, RegistrySteps DEF RegistryTypeOK, registryVars
<1>j. \A t \in Worker : job[t] \in Job /\ job[t].todo \in [Server -> Copy \cup {NoCopy}]
  BY <1>t DEF RegistryTypeOK, Job
<1>e. \A todo \in [Server -> Copy \cup {NoCopy}] : Enabled(todo) \in [Server -> Copy \cup {NoCopy}]
  BY DEF Enabled
<1>1. ASSUME NEW t \in Worker, Quiet(t) PROVE RegistryTypeOK'
  BY <1>1, <1>c, <1>t, QuietFacts DEF RegistryTypeOK, registry
<1>2. ASSUME NEW t \in Worker, CreateServer(t) PROVE RegistryTypeOK'
  <2>1. PICK s \in Server, u \in Owner, url \in Url :
          /\ mcpRows' = [mcpRows EXCEPT ![s] =
                           [is |-> "live", user |-> u, copy |-> [on |-> TRUE, url |-> url]]]
          /\ StartsJob(t, [NoJob EXCEPT !.at = "list", !.user = u])
    BY <1>2 DEF CreateServer
  <2>2. [NoJob EXCEPT !.at = "list", !.user = u] \in Job
    BY NoJobType DEF Job
  <2>3. [is |-> "live", user |-> u, copy |-> [on |-> TRUE, url |-> url]] \in McpRow
    BY DEF McpRow, Copy
  <2>4. job' \in [Worker -> Job] /\ mcpRows' \in [Server -> McpRow]
    BY <1>t, <2>1, <2>2, <2>3, StartsFacts DEF RegistryTypeOK
  <2>5. QED BY <1>2, <1>c, <1>t, <2>4 DEF CreateServer, RegistryTypeOK, registry
<1>3. ASSUME NEW t \in Worker, UpdateServer(t) \/ DeleteServer(t) PROVE RegistryTypeOK'
  <2>1. [NoJob EXCEPT !.at = "list", !.user = job[t].user] \in Job
    BY <1>j, NoJobType DEF Job
  <2>2. job' = [job EXCEPT ![t] = [NoJob EXCEPT !.at = "list", !.user = job[t].user]]
    BY <1>3 DEF UpdateServer, DeleteServer
  <2>3. job' \in [Worker -> Job]
    BY <1>t, <2>1, <2>2 DEF RegistryTypeOK
  <2>4. \A s \in Server : mcpRows'[s] \in McpRow /\ mcpRows' = [o \in Server |-> mcpRows'[o]]
    <3>1. CASE UpdateServer(t)
      BY <1>j, <1>t, <3>1 DEF UpdateServer, RegistryTypeOK, McpRow
    <3>2. CASE DeleteServer(t)
      BY <1>t, <3>2 DEF DeleteServer, RegistryTypeOK, McpRow
    <3>3. QED BY <1>3, <3>1, <3>2
  <2>5. mcpRows' \in [Server -> McpRow]
    <3>1. mcpRows' = [o \in Server |-> mcpRows'[o]]
      BY <1>3 DEF UpdateServer, DeleteServer
    <3>2. QED BY <2>4, <3>1
  <2>6. QED BY <1>3, <1>c, <1>t, <2>3, <2>5 DEF UpdateServer, DeleteServer, RegistryTypeOK, registry
<1>4. ASSUME NEW t \in Worker, Refresh(t) PROVE RegistryTypeOK'
  <2> DEFINE todo == Enabled(job[t].todo)
  <2>1. todo \in [Server -> Copy \cup {NoCopy}]
    BY <1>e, <1>j
  <2> HIDE DEF todo
  <2>2. [job[t] EXCEPT !.at = "discover", !.todo = todo] \in Job
    BY <1>j, <2>1 DEF Job
  <2>3. job' \in [Worker -> Job]
    BY <1>4, <1>t, <2>2 DEF Refresh, RegistryTypeOK, todo
  <2>4. servers' \in [Server -> Copy \cup {NoCopy}] /\ tools' \subseteq Tool /\ astray' \subseteq Server
    BY <1>4, <1>t, <2>1 DEF Refresh, RegistryTypeOK, todo, Writes, Todo
  <2>5. QED BY <1>4, <1>c, <1>t, <2>3, <2>4 DEF Refresh, RegistryTypeOK
<1>5. ASSUME NEW t \in Worker, Discover(t) PROVE RegistryTypeOK'
  <2>1. PICK s \in Todo(t) :
          /\ job' = [job EXCEPT ![t].todo[s] = NoCopy]
          /\ \/ \E names \in Answers :
                  /\ tools' = (tools \ ToolsOf(s))
                        \cup {[server |-> s, name |-> n, url |-> job[t].todo[s].url] : n \in names}
                  /\ Writes({s})
             \/ UNCHANGED <<tools, astray>>
    BY <1>5 DEF Discover
  <2>2. s \in Server /\ job[t].todo[s] \in Copy /\ job[t].todo[s].url \in Url
    BY <1>j DEF Todo, Copy
  <2>3. [job[t].todo EXCEPT ![s] = NoCopy] \in [Server -> Copy \cup {NoCopy}]
    BY <1>j
  <2>4. [job[t] EXCEPT !.todo = [job[t].todo EXCEPT ![s] = NoCopy]] \in Job
    BY <1>j, <2>3 DEF Job
  <2>5. job' = [job EXCEPT ![t] = [job[t] EXCEPT !.todo = [job[t].todo EXCEPT ![s] = NoCopy]]]
    BY <2>1
  <2>6. job' \in [Worker -> Job]
    BY <1>t, <2>4, <2>5 DEF RegistryTypeOK
  <2>7. tools' \subseteq Tool /\ astray' \subseteq Server
    BY <1>t, <2>1, <2>2 DEF RegistryTypeOK, Tool, Answers, Writes
  <2>8. QED BY <1>5, <1>c, <1>t, <2>6, <2>7 DEF Discover, RegistryTypeOK
<1>6. ASSUME NEW t \in Worker, EnterServer(t) PROVE RegistryTypeOK'
  <2> DEFINE todo == IF job[t].at = "swap" THEN NoTodo ELSE job[t].todo
  <2>1. todo \in [Server -> Copy \cup {NoCopy}]
    BY <1>j, NoJobType
  <2>2. job' = [job EXCEPT ![t].at = "discover", ![t].todo = todo]
    BY <1>6 DEF EnterServer
  <2> HIDE DEF todo
  <2>3. [job[t] EXCEPT !.at = "discover", !.todo = todo] \in Job
    BY <1>j, <2>1 DEF Job
  <2>4. job' \in [Worker -> Job]
    BY <1>t, <2>2, <2>3 DEF RegistryTypeOK
  <2>5. servers' \in [Server -> Copy \cup {NoCopy}] /\ astray' \subseteq Server
    BY <1>6, <1>j, <1>t DEF EnterServer, RegistryTypeOK, Writes, Todo
  <2>6. QED BY <1>6, <1>c, <1>t, <2>4, <2>5 DEF EnterServer, RegistryTypeOK
<1>7. ASSUME NEW t \in Worker, ClearTools(t) PROVE RegistryTypeOK'
  <2>1. [job[t] EXCEPT !.at = "discover"] \in Job
    BY <1>j DEF Job
  <2>2. job' \in [Worker -> Job]
    BY <1>7, <1>t, <2>1 DEF ClearTools, NextAt, RegistryTypeOK
  <2>3. servers' \in [Server -> Copy \cup {NoCopy}] /\ astray' \subseteq Server /\ tools' \subseteq Tool
    BY <1>7, <1>j, <1>t DEF ClearTools, RegistryTypeOK, Writes, Todo
  <2>4. QED BY <1>7, <1>c, <1>t, <2>2, <2>3 DEF ClearTools, RegistryTypeOK
<1>8. ASSUME NEW t \in Worker, ListFails(t) PROVE RegistryTypeOK'
  BY <1>8, <1>c, <1>t, EndsFacts DEF ListFails, RegistryTypeOK, registry
<1>9. CASE RegistryLost
  BY <1>9, <1>c, <1>t, NoJobType DEF RegistryLost, RegistryTypeOK
<1>10. CASE UNCHANGED registryVars
  BY <1>10, <1>t DEF registryVars, registry, RegistryTypeOK
<1>11. QED
  BY <1>1, <1>2, <1>3, <1>4, <1>5, <1>6, <1>7, <1>8, <1>9, <1>10, RegistrySteps

-----------------------------------------------------------------------------
(* What a refresh is to come for stays so while the rows' users do not change. *)
LEMMA RefreshKept ==
  ASSUME NEW s \in Server, ToBeRefreshed(s), mcpRows'[s].user = mcpRows[s].user,
         \A t \in Worker : job[t].at \in {"list", "refresh"} =>
           job'[t].at \in {"list", "refresh"} /\ job'[t].user = job[t].user
  PROVE  ToBeRefreshed(s)'
BY DEF ToBeRefreshed

(* A right entry follows its row. *)
LEMMA RightFollows ==
  ASSUME NEW s \in Server, Right(s)
  PROVE  Follows(s)
BY DEF Right, Follows

LEMMA RightFollowsNext ==
  ASSUME NEW s \in Server, Right(s)'
  PROVE  Follows(s)'
BY DEF Right, Follows

LEMMA FollowsKept ==
  ASSUME NEW s \in Server, Follows(s), servers'[s] = servers[s], ToolsOf(s)' = ToolsOf(s),
         \/ ToBeRefreshed(s)'
         \/ mcpRows'[s] = mcpRows[s] /\ (ToBeRefreshed(s) => ToBeRefreshed(s)')
  PROVE  Follows(s)'
BY DEF Follows, IsLive

(* A job that neither is to change rows nor changes. *)
LEMMA JobHoldsKept ==
  ASSUME NEW u \in Worker, JobHolds(u), job'[u] = job[u],
         \A s \in Server : mcpRows[s].is # "none" =>
           mcpRows'[s].is # "none" /\ mcpRows'[s].user = mcpRows[s].user,
         job[u].ids \subseteq Server
  PROVE  JobHolds(u)'
BY DEF JobHolds, Todo

LEMMA QuietStep ==
  ASSUME RegistryInv, NEW t \in Worker, Quiet(t)
  PROVE  /\ \A u \in Worker : JobHolds(u)'
         /\ \A s \in Server \ astray' : Follows(s)'
<1>1. /\ \A u \in Worker \ {t} : job'[u] = job[u]
      /\ job[t].at \in {"list", "refresh"} =>
           job'[t].at \in {"list", "refresh"} /\ job'[t].user = job[t].user
      /\ job'[t] # job[t] => JobHolds(t)'
      /\ UNCHANGED <<mcpRows, servers, tools, astray>>
  BY QuietFacts DEF registry
<1>2. ASSUME NEW u \in Worker PROVE JobHolds(u)'
  <2>1. JobHolds(u) /\ job[u].ids \subseteq Server
    BY DEF RegistryInv, RegistryTypeOK, Job
  <2>2. QED BY <1>1, <2>1, JobHoldsKept
<1>3. ASSUME NEW s \in Server, s \notin astray' PROVE Follows(s)'
  <2>1. ToBeRefreshed(s) => ToBeRefreshed(s)'
    BY <1>1, RefreshKept
  <2>2. ToolsOf(s)' = ToolsOf(s) /\ Follows(s)
    BY <1>1, <1>3 DEF ToolsOf, RegistryInv
  <2>3. QED BY <1>1, <2>1, <2>2, FollowsKept
<1>4. QED BY <1>2, <1>3

(* A change of rows is followed by a refresh for their user. *)
LEMMA RowsStep ==
  ASSUME RegistryInv, NEW t \in Worker, CreateServer(t) \/ UpdateServer(t) \/ DeleteServer(t)
  PROVE  /\ \A u \in Worker : JobHolds(u)'
         /\ \A s \in Server \ astray' : Follows(s)'
<1>t. RegistryTypeOK /\ job[t] \in Job /\ JobHolds(t)
  BY DEF RegistryInv, RegistryTypeOK
<1>1. PICK u \in Owner \cup {NoUser} :
        /\ job'[t].at = "list" /\ job'[t].user = u
        /\ \A w \in Worker \ {t} : job'[w] = job[w]
        /\ job[t].at \notin {"list", "refresh"}
        /\ \A s \in Server : mcpRows[s].is # "none" =>
             mcpRows'[s].is # "none" /\ mcpRows'[s].user = mcpRows[s].user
        /\ \A s \in Server : mcpRows'[s] = mcpRows[s] \/ mcpRows'[s].user = u
        /\ UNCHANGED <<servers, tools, astray>>
  <2>1. CASE CreateServer(t)
    <3>1. PICK s \in Server, u \in Owner, url \in Url :
            /\ mcpRows[s].is = "none"
            /\ mcpRows' = [mcpRows EXCEPT ![s] =
                             [is |-> "live", user |-> u, copy |-> [on |-> TRUE, url |-> url]]]
            /\ StartsJob(t, [NoJob EXCEPT !.at = "list", !.user = u])
      BY <2>1 DEF CreateServer
    <3> DEFINE r == [NoJob EXCEPT !.at = "list", !.user = u]
    <3>2. r \in Job /\ r.at = "list" /\ r.user = u
      BY NoJobType DEF Job
    <3> HIDE DEF r
    <3>3. /\ job[t].at = "idle" /\ job'[t] = r
          /\ \A w \in Worker \ {t} : job'[w] = job[w]
      BY <1>t, <3>1, <3>2, StartsFacts DEF r
    <3>4. /\ mcpRows'[s].user = u
          /\ \A o \in Server \ {s} : mcpRows'[o] = mcpRows[o]
      BY <1>t, <3>1 DEF RegistryTypeOK
    <3>5. /\ job'[t].at = "list" /\ job'[t].user = u
          /\ job[t].at \notin {"list", "refresh"}
      BY <3>2, <3>3
    <3>6. \A o \in Server : mcpRows[o].is # "none" =>
             mcpRows'[o].is # "none" /\ mcpRows'[o].user = mcpRows[o].user
      BY <3>1, <3>4
    <3>7. \A o \in Server : mcpRows'[o] = mcpRows[o] \/ mcpRows'[o].user = u
      BY <3>4
    <3>8. UNCHANGED <<servers, tools, astray>>
      BY <2>1 DEF CreateServer, registry
    <3>9. QED BY <3>3, <3>5, <3>6, <3>7, <3>8
  <2>2. ASSUME UpdateServer(t) \/ DeleteServer(t)
        PROVE  /\ job'[t].at = "list" /\ job'[t].user = job[t].user
               /\ \A w \in Worker \ {t} : job'[w] = job[w]
               /\ job[t].at \in {"save", "drop"}
               /\ UNCHANGED <<servers, tools, astray>>
    BY <1>t, <2>2 DEF UpdateServer, DeleteServer, RegistryTypeOK, registry, NoJob
  <2>3. job[t].user \in Owner \cup {NoUser}
    BY <1>t DEF Job
  <2>4. CASE UpdateServer(t)
    <3>1. \A s \in Server : IF s \in Todo(t) THEN mcpRows'[s].is = "live"
             /\ mcpRows'[s].user = mcpRows[s].user
                            ELSE mcpRows'[s] = mcpRows[s]
      BY <1>t, <2>4 DEF UpdateServer, RegistryTypeOK, McpRow
    <3>2. \A s \in Todo(t) : mcpRows[s].user = job[t].user
      BY <1>t, <2>4 DEF UpdateServer, JobHolds
    <3>3. QED BY <2>2, <2>3, <2>4, <3>1, <3>2
  <2>5. CASE DeleteServer(t)
    <3>1. \A s \in Server : IF s \in job[t].ids THEN mcpRows'[s].is = "deleted"
             /\ mcpRows'[s].user = mcpRows[s].user
                            ELSE mcpRows'[s] = mcpRows[s]
      BY <1>t, <2>5 DEF DeleteServer, RegistryTypeOK, McpRow
    <3>2. \A s \in job[t].ids : mcpRows[s].user = job[t].user
      BY <1>t, <2>5 DEF DeleteServer, JobHolds
    <3>3. QED BY <2>2, <2>3, <2>5, <3>1, <3>2
  <2>6. QED BY <2>1, <2>4, <2>5
<1>2. ASSUME NEW w \in Worker PROVE JobHolds(w)'
  <2>1. CASE w = t
    BY <1>1, <2>1 DEF JobHolds
  <2>2. CASE w # t
    <3>1. JobHolds(w) /\ job[w].ids \subseteq Server /\ job'[w] = job[w]
      BY <1>1, <2>2 DEF RegistryInv, RegistryTypeOK, Job
    <3>2. QED BY <1>1, <3>1, JobHoldsKept
  <2>3. QED BY <2>1, <2>2
<1>3. ASSUME NEW s \in Server, s \notin astray' PROVE Follows(s)'
  <2>1. Follows(s) /\ ToolsOf(s)' = ToolsOf(s) /\ servers' = servers
    BY <1>1, <1>3 DEF RegistryInv, ToolsOf
  <2>2. CASE mcpRows'[s].user = u
    <3>1. ToBeRefreshed(s)'
      BY <1>1, <2>2 DEF ToBeRefreshed
    <3>2. QED BY <2>1, <3>1, FollowsKept
  <2>3. CASE mcpRows'[s] = mcpRows[s]
    <3>1. ToBeRefreshed(s) => ToBeRefreshed(s)'
      BY <1>1, <2>3, RefreshKept
    <3>2. QED BY <2>1, <2>3, <3>1, FollowsKept
  <2>4. QED BY <1>1, <2>2, <2>3
<1>4. QED BY <1>2, <1>3

(* What is written for the servers of S is right, or they are astray. *)
LEMMA WritesFollow ==
  ASSUME RegistryInv, NEW S, Writes(S), NEW s \in Server, s \notin astray'
  PROVE  \/ Follows(s)'
         \/ s \notin S /\ s \notin astray
<1>1. CASE s \in astray \cup S
  <2>1. Right(s)'
    BY <1>1 DEF Writes
  <2>2. QED BY <2>1, RightFollowsNext
<1>2. QED BY <1>1

LEMMA RefreshStep ==
  ASSUME RegistryInv, NEW t \in Worker, Refresh(t)
  PROVE  /\ \A u \in Worker : JobHolds(u)'
         /\ \A s \in Server \ astray' : Follows(s)'
<1>t. RegistryTypeOK /\ job[t] \in Job
  BY DEF RegistryInv, RegistryTypeOK
<1>1. /\ job'[t].at = "discover"
      /\ \A u \in Worker \ {t} : job'[u] = job[u]
      /\ mcpRows' = mcpRows /\ servers' = Enabled(job[t].todo)
      /\ tools' = {x \in tools : servers[x.server] = NoCopy}
      /\ Writes(Todo(t))
  BY <1>t DEF Refresh, RegistryTypeOK, Job
<1>2. ASSUME NEW u \in Worker PROVE JobHolds(u)'
  <2>1. CASE u = t
    BY <1>1, <2>1 DEF JobHolds
  <2>2. CASE u # t
    <3>1. JobHolds(u) /\ job[u].ids \subseteq Server /\ job'[u] = job[u]
      BY <1>1, <2>2 DEF RegistryInv, RegistryTypeOK, Job
    <3>2. QED BY <1>1, <3>1, JobHoldsKept
  <2>3. QED BY <2>1, <2>2
<1>3. ASSUME NEW s \in Server, s \notin astray' PROVE Follows(s)'
  <2>1. CASE s \notin Todo(t) /\ s \notin astray
    <3>1. servers'[s] = NoCopy
      BY <1>1, <2>1 DEF Enabled, Todo
    <3>2. Follows(s)
      BY <2>1 DEF RegistryInv
    <3>3. ToolsOf(s)' = {}
      BY <1>1, <3>2 DEF Follows, ToolsOf
    <3>4. QED BY <3>1, <3>3 DEF Follows
  <2>2. QED BY <1>1, <1>3, <2>1, WritesFollow
<1>4. QED BY <1>2, <1>3

(* A step of the registry that writes only what concerns the servers of S. *)
LEMMA WritesStep ==
  ASSUME RegistryInv, NEW t \in Worker, NEW S,
         job[t].at \notin {"list", "refresh"}, job'[t].at \notin {"save", "drop"},
         \A u \in Worker \ {t} : job'[u] = job[u],
         mcpRows' = mcpRows,
         Writes(S) \/ (astray' = astray /\ servers' = servers /\ tools' = tools),
         \A s \in Server \ S : servers'[s] = servers[s] /\ ToolsOf(s)' = ToolsOf(s)
  PROVE  /\ \A u \in Worker : JobHolds(u)'
         /\ \A s \in Server \ astray' : Follows(s)'
<1>2. ASSUME NEW u \in Worker PROVE JobHolds(u)'
  <2>1. CASE u = t
    BY <2>1 DEF JobHolds
  <2>2. CASE u # t
    <3>1. JobHolds(u) /\ job[u].ids \subseteq Server /\ job'[u] = job[u]
      BY <2>2 DEF RegistryInv, RegistryTypeOK, Job
    <3>2. QED BY <3>1, JobHoldsKept
  <2>3. QED BY <2>1, <2>2
<1>3. ASSUME NEW s \in Server, s \notin astray' PROVE Follows(s)'
  <2>0. ToBeRefreshed(s) => ToBeRefreshed(s)'
    BY DEF ToBeRefreshed
  <2>1. ASSUME s \notin astray, servers'[s] = servers[s], ToolsOf(s)' = ToolsOf(s) PROVE Follows(s)'
    <3>1. Follows(s)
      BY <2>1 DEF RegistryInv
    <3>2. QED BY <2>0, <2>1, <3>1, FollowsKept
  <2>2. CASE Writes(S)
    BY <1>3, <2>1, <2>2, WritesFollow
  <2>3. CASE astray' = astray /\ servers' = servers /\ tools' = tools
    BY <1>3, <2>1, <2>3 DEF ToolsOf
  <2>4. QED BY <2>2, <2>3
<1>4. QED BY <1>2, <1>3

LEMMA DiscoverStep ==
  ASSUME RegistryInv, NEW t \in Worker, Discover(t)
  PROVE  /\ \A u \in Worker : JobHolds(u)'
         /\ \A s \in Server \ astray' : Follows(s)'
<1>t. RegistryTypeOK /\ job[t] \in Job /\ job[t].at = "discover"
  BY DEF RegistryInv, RegistryTypeOK, Discover
<1>1. PICK s \in Todo(t) :
        /\ job' = [job EXCEPT ![t].todo[s] = NoCopy]
        /\ \/ \E names \in Answers :
                /\ tools' = (tools \ ToolsOf(s))
                      \cup {[server |-> s, name |-> n, url |-> job[t].todo[s].url] : n \in names}
                /\ Writes({s})
           \/ UNCHANGED <<tools, astray>>
  BY DEF Discover
<1>2. mcpRows' = mcpRows /\ servers' = servers
  BY DEF Discover
<1>3. job'[t].at = "discover" /\ \A u \in Worker \ {t} : job'[u] = job[u]
  <2>1. job' = [job EXCEPT ![t] = [job[t] EXCEPT !.todo = [job[t].todo EXCEPT ![s] = NoCopy]]]
    BY <1>1
  <2>2. QED BY <1>t, <2>1 DEF RegistryTypeOK, Job
<1>0. PICK S : S = {s}
  OBVIOUS
<1>4. \A o \in Server \ S : ToolsOf(o)' = ToolsOf(o)
  BY <1>0, <1>1 DEF ToolsOf
<1>5. Writes(S) \/ (astray' = astray /\ servers' = servers /\ tools' = tools)
  BY <1>0, <1>1, <1>2 DEF Writes
<1>6. QED BY <1>t, <1>2, <1>3, <1>4, <1>5, WritesStep

LEMMA EntersStep ==
  ASSUME RegistryInv, NEW t \in Worker, EnterServer(t) \/ ClearTools(t)
  PROVE  /\ \A u \in Worker : JobHolds(u)'
         /\ \A s \in Server \ astray' : Follows(s)'
<1>t. RegistryTypeOK /\ job[t] \in Job /\ job[t].at \in {"swap", "enter", "clear"}
  BY DEF RegistryInv, RegistryTypeOK, EnterServer, ClearTools
<1>0. PICK S : S = Todo(t)
  OBVIOUS
<1>1. /\ mcpRows' = mcpRows /\ Writes(S)
      /\ \A s \in Server \ S : servers'[s] = servers[s]
  BY <1>0, <1>t DEF EnterServer, ClearTools, RegistryTypeOK, Writes
<1>2. job'[t].at = "discover" /\ \A u \in Worker \ {t} : job'[u] = job[u]
  BY <1>t DEF EnterServer, ClearTools, NextAt, RegistryTypeOK, Job
<1>3. tools' = tools \/ tools' = {x \in tools : x.server \notin S}
  BY <1>0 DEF EnterServer, ClearTools
<1>4. \A s \in Server \ S : ToolsOf(s)' = ToolsOf(s)
  BY <1>3 DEF ToolsOf
<1>5. QED BY <1>t, <1>1, <1>2, <1>4, WritesStep

LEMMA ListFailsStep ==
  ASSUME RegistryInv, NEW t \in Worker, ListFails(t)
  PROVE  /\ \A u \in Worker : JobHolds(u)'
         /\ \A s \in Server \ astray' : Follows(s)'
<1>t. RegistryTypeOK
  BY DEF RegistryInv
<1>1. /\ job'[t].at = "idle" /\ \A u \in Worker \ {t} : job'[u] = job[u]
      /\ UNCHANGED <<mcpRows, servers, tools>>
      /\ astray' = astray \cup {s \in Server : mcpRows[s].user = job[t].user}
  BY <1>t, EndsFacts DEF ListFails, NoJob, registry
<1>2. ASSUME NEW u \in Worker PROVE JobHolds(u)'
  <2>1. CASE u = t
    BY <1>1, <2>1 DEF JobHolds
  <2>2. CASE u # t
    <3>1. JobHolds(u) /\ job[u].ids \subseteq Server /\ job'[u] = job[u]
      BY <1>1, <2>2 DEF RegistryInv, RegistryTypeOK, Job
    <3>2. QED BY <1>1, <3>1, JobHoldsKept
  <2>3. QED BY <2>1, <2>2
<1>3. ASSUME NEW s \in Server, s \notin astray' PROVE Follows(s)'
  <2>1. Follows(s) /\ ToolsOf(s)' = ToolsOf(s) /\ mcpRows[s].user # job[t].user
    BY <1>1, <1>3 DEF RegistryInv, ToolsOf
  <2>2. ToBeRefreshed(s) => ToBeRefreshed(s)'
    BY <1>1, <2>1 DEF ToBeRefreshed
  <2>3. QED BY <1>1, <2>1, <2>2, FollowsKept
<1>4. QED BY <1>2, <1>3

LEMMA RegistryInvariant == RegistrySpec => []RegistryInv
<1>1. RegistryInit => RegistryInv
  BY NoJobType DEF RegistryInit, RegistryInv, RegistryTypeOK, McpRow, JobHolds, Follows, ToolsOf,
     NoJob, NoTodo
<1>2. RegistryInv /\ [RegistryNext]_registryVars => RegistryInv'
  <2> SUFFICES ASSUME RegistryInv, [RegistryNext]_registryVars PROVE RegistryInv'
    OBVIOUS
  <2>0. RegistryTypeOK'
    BY RegistryTypeStep
  <2>1. ASSUME NEW t \in Worker,
               \/ Quiet(t) \/ CreateServer(t) \/ UpdateServer(t) \/ DeleteServer(t)
               \/ Refresh(t) \/ Discover(t) \/ EnterServer(t) \/ ClearTools(t) \/ ListFails(t)
        PROVE  RegistryInv'
    BY <2>0, <2>1, QuietStep, RowsStep, RefreshStep, DiscoverStep, EntersStep, ListFailsStep
    DEF RegistryInv
  <2>2. CASE RegistryLost
    <3>1. \A t \in Worker : job'[t].at = "idle"
      BY <2>2 DEF RegistryLost, NoJob
    <3>2. \A s \in Server : servers'[s] = NoCopy /\ ToolsOf(s)' = {}
      BY <2>2 DEF RegistryLost, NoTodo, ToolsOf
    <3>3. QED BY <2>0, <3>1, <3>2 DEF RegistryInv, JobHolds, Follows
  <2>3. CASE UNCHANGED registryVars
    BY <2>3 DEF registryVars, registry, RegistryInv, RegistryTypeOK, JobHolds, Todo, Follows,
       ToolsOf, IsLive, ToBeRefreshed
  <2>4. QED BY <2>1, <2>2, <2>3, RegistrySteps
<1>3. QED BY <1>1, <1>2, PTL DEF RegistrySpec

(* Every variable of the table, the registry and the jobs keeps its type. *)
THEOREM RegistryTypeCorrect == RegistrySpec => []RegistryTypeOK
<1>1. RegistryInv => RegistryTypeOK
  BY DEF RegistryInv
<1>2. QED BY <1>1, RegistryInvariant, PTL

(* An entry of the registry and its tools say what the row says, unless a      *)
(* refresh for its user is to come or what was written was out of date, for    *)
(* any number of users, servers and requests that refresh, discover and turn   *)
(* to tools at once (mcp/registry.go:149, 190).                                *)
THEOREM RegistryFollowsRowsHolds == RegistrySpec => []RegistryFollowsRows
<1>1. RegistryInv => RegistryFollowsRows
  BY DEF RegistryInv, Follows, Right, ToBeRefreshed, RegistryFollowsRows
<1>2. QED BY <1>1, RegistryInvariant, PTL

HIDE RegistryAssumption

-----------------------------------------------------------------------------
(* Loops.                                                                    *)

USE LoopAssumption

(* A condition as the configuration has it. *)
WellFormed(c) ==
  /\ c \in Condition /\ Len(c.terms) \in Nat \ {0}
  /\ DOMAIN c.terms = 1..Len(c.terms) /\ DOMAIN c.or = 1..(Len(c.terms) - 1)
  /\ \A i \in DOMAIN c.or : c.or[i] \in BOOLEAN

(* The variables as a round found them, but for the index. *)
AtRound(k) == [node.found EXCEPT ![Index] = k]

TimesInv ==
  node.kind = "times" =>
    /\ Rounds = 0 \/ (Rounds <= node.count /\ Rounds <= node.max)
    /\ node.over => Rounds >= node.count \/ Rounds >= node.max

ForEachInv ==
  node.kind = "for_each" =>
    /\ Rounds <= Len(node.items) /\ (Rounds = 0 \/ Rounds <= node.max)
    /\ \A i \in 1..Rounds : node.done[i] = node.items[i]
    /\ node.over => Rounds = Len(node.items) \/ Rounds >= node.max

WhileInv ==
  node.kind = "while" =>
    /\ WellFormed(node.while)
    /\ ~node.over => \A k \in Nat : [vars EXCEPT ![Index] = k] = AtRound(k)
    /\ \A k \in 0..(Rounds - 1) : Evaluate(node.while, AtRound(k))
    /\ node.over /\ Rounds < node.max => ~Evaluate(node.while, AtRound(Rounds))

LoopInv ==
  /\ LoopTypeOK /\ (node.kind # "none" => node.max \in Limit \cup {DefaultMaxIter})
  /\ TimesInv /\ ForEachInv /\ WhileInv

-----------------------------------------------------------------------------
(* One "or" makes all of them alternatives. *)
LEMMA EvaluateMeans ==
  ASSUME NEW c, WellFormed(c), NEW env, Evaluate(c, env)
  PROVE  Means(c, env) \/ Mixed(c)
<1> DEFINE n == Len(c.terms)
<1>0. n \in Nat \ {0} /\ DOMAIN c.terms = 1..n /\ DOMAIN c.or = 1..(n - 1)
  BY DEF WellFormed
<1> HIDE DEF n
<1>1. CASE \E i \in DOMAIN c.or : c.or[i]
  <2>1. PICK i \in DOMAIN c.terms : Holds(c.terms[i], env)
    BY <1>1 DEF Evaluate
  <2>2. CASE \A j \in DOMAIN c.or : c.or[j]
    <3>1. i = 1 \/ c.or[i - 1]
      BY <1>0, <2>1, <2>2
    <3>2. i = n \/ c.or[i]
      BY <1>0, <2>1, <2>2
    <3>3. \A j \in i..i : Holds(c.terms[j], env)
      BY <1>0, <2>1
    <3>4. QED BY <1>0, <2>1, <3>1, <3>2, <3>3 DEF Means, n
  <2>3. CASE \E j \in DOMAIN c.or : ~c.or[j]
    <3>1. PICK j \in DOMAIN c.or : ~c.or[j]
      BY <2>3
    <3>2. PICK k \in DOMAIN c.or : c.or[k]
      BY <1>1
    <3>3. c.or[j] = FALSE /\ c.or[k] = TRUE
      BY <3>1, <3>2 DEF WellFormed
    <3>4. QED BY <3>3 DEF Mixed, WellFormed
  <2>4. QED BY <2>2, <2>3
<1>2. CASE ~\E i \in DOMAIN c.or : c.or[i]
  <2>1. \A i \in DOMAIN c.terms : Holds(c.terms[i], env)
    BY <1>2 DEF Evaluate
  <2>2. 1 \in DOMAIN c.terms /\ n \in DOMAIN c.terms /\ 1 <= n
    BY <1>0
  <2>3. QED BY <1>0, <2>1, <2>2 DEF Means, n
<1>3. QED BY <1>1, <1>2

(* What its author means to hold is evaluated to hold, whatever connectors a *)
(* condition has.                                                            *)
LEMMA MeansEvaluate ==
  ASSUME NEW c, WellFormed(c), NEW env, Means(c, env)
  PROVE  Evaluate(c, env)
<1> DEFINE n == Len(c.terms)
<1>0. n \in Nat \ {0} /\ DOMAIN c.terms = 1..n /\ DOMAIN c.or = 1..(n - 1)
  BY DEF WellFormed
<1>1. PICK from \in DOMAIN c.terms, to \in DOMAIN c.terms :
        /\ from <= to
        /\ from = 1 \/ c.or[from - 1]
        /\ to = n \/ c.or[to]
        /\ \A i \in from..to : Holds(c.terms[i], env)
  BY DEF Means
<1> HIDE DEF n
<1>2. CASE \E i \in DOMAIN c.or : c.or[i]
  BY <1>0, <1>1, <1>2 DEF Evaluate
<1>3. CASE ~\E i \in DOMAIN c.or : c.or[i]
  <2>1. from = 1
    BY <1>0, <1>1, <1>3
  <2>2. to = n
    BY <1>0, <1>1, <1>3
  <2>3. QED BY <1>0, <1>1, <1>3, <2>1, <2>2 DEF Evaluate
<1>4. QED BY <1>2, <1>3

(* The conditions a node may have are well formed: one connector less than   *)
(* terms.                                                                    *)
LEMMA ConditionsFacts ==
  ASSUME NEW c \in Conditions
  PROVE  WellFormed(c)
<1>1. PICK k \in 1..MaxTerms : c \in [terms : [1..k -> Terms], or : [1..(k - 1) -> BOOLEAN]]
  BY DEF Conditions
<1>2. c.terms \in [1..k -> Terms] /\ c.or \in [1..(k - 1) -> BOOLEAN] /\ k \in Nat \ {0} /\ k - 1 \in Nat
  BY <1>1
<1>3. c.terms \in Seq(Terms) /\ c.or \in Seq(BOOLEAN) /\ Len(c.terms) = k
  <2>1. \A S : \A n \in Nat : \A f \in [1..n -> S] : f \in Seq(S) /\ Len(f) = n
    OBVIOUS
  <2>2. QED BY <1>2, <2>1
<1>4. c \in Condition
  BY <1>1, <1>3 DEF Condition
<1>5. QED BY <1>2, <1>3, <1>4 DEF WellFormed

-----------------------------------------------------------------------------
LEMMA NoNodeType == NoNode \in Node /\ NoNode.done = <<>> /\ NoNode.over = FALSE /\ NoNode.kind = "none"
<1>1. NoCondition \in Condition
  BY DEF NoCondition, Condition
<1>2. [v \in Variable |-> NoValue] \in [Variable -> Item] /\ <<>> \in Seq(Item)
  BY DEF Item
<1>3. QED BY <1>1, <1>2 DEF NoNode, Node, Kind

LEMMA NodeFacts ==
  ASSUME LoopTypeOK
  PROVE  /\ node \in Node /\ node.kind \in Kind /\ node.over \in BOOLEAN /\ node.max \in Int
         /\ node.count \in Int /\ node.while \in Condition /\ node.items \in Seq(Item)
         /\ node.found \in [Variable -> Item] /\ node.done \in Seq(Item) /\ Rounds \in Nat
         /\ Len(node.items) \in Nat
         /\ DOMAIN node = {"kind", "over", "max", "count", "while", "items", "found", "done"}
<1>1. node \in Node
  BY DEF LoopTypeOK
<1>2. QED BY <1>1 DEF Node, Rounds

(* The node of an execution is begun. *)
LEMMA BeginKeeps ==
  ASSUME LoopInv, NEW kind \in Kind \ {"none"}, NEW configured \in Node, configured.done = <<>>,
         configured.over = FALSE, kind = "while" => WellFormed(configured.while),
         BeginNode(kind, configured)
  PROVE  LoopInv'
<1>1. PICK max \in Limit :
        node' = [configured EXCEPT !.kind = kind, !.found = vars,
                                   !.max = IF max = 0 THEN DefaultMaxIter ELSE max]
  BY DEF BeginNode
<1>2. PICK m \in Limit \cup {DefaultMaxIter} : m = IF max = 0 THEN DefaultMaxIter ELSE max
  OBVIOUS
<1>3. m \in Int /\ vars \in [Variable -> Item] /\ UNCHANGED vars /\ nodesRun' \in Nat
  BY DEF LoopInv, LoopTypeOK, BeginNode
<1>4. node' \in Node
  <2>1. [configured EXCEPT !.kind = kind] \in Node
    BY DEF Node
  <2>2. [configured EXCEPT !.kind = kind, !.found = vars] \in Node
    BY <1>3 DEF Node
  <2>3. [configured EXCEPT !.kind = kind, !.found = vars, !.max = m] \in Node
    BY <1>3 DEF Node
  <2>4. QED BY <1>1, <1>2, <2>3
<1>5. /\ node'.kind = kind /\ node'.found = vars /\ node'.max = m /\ node'.done = <<>>
      /\ node'.over = FALSE /\ node'.while = configured.while /\ node'.items = configured.items
  BY <1>1, <1>2 DEF Node
<1>6. Rounds' = 0
  BY <1>5 DEF Rounds
<1>7. LoopTypeOK'
  BY <1>3, <1>4 DEF LoopTypeOK
<1>8. TimesInv'
  BY <1>5, <1>6 DEF TimesInv
<1>9. ForEachInv'
  <2>1. Len(node'.items) \in Nat
    BY <1>4 DEF Node
  <2>2. QED BY <1>5, <1>6, <2>1 DEF ForEachInv
<1>10. WhileInv'
  <2>1. kind = "while" => WellFormed(node.while)'
    BY <1>5 DEF WellFormed
  <2>2. \A k \in Nat : [vars EXCEPT ![Index] = k]' = AtRound(k)'
    BY <1>3, <1>5 DEF AtRound
  <2>3. QED BY <1>5, <1>6, <2>1, <2>2 DEF WhileInv
<1>11. QED BY <1>2, <1>5, <1>7, <1>8, <1>9, <1>10 DEF LoopInv

LEMMA ExecuteKeeps ==
  ASSUME LoopInv, Execute
  PROVE  LoopInv'
<1> USE NoNodeType
<1>1. ASSUME NEW n \in Count, BeginNode("times", [NoNode EXCEPT !.count = n]) PROVE LoopInv'
  <2>1. PICK c \in Node : c = [NoNode EXCEPT !.count = n]
    BY DEF Node
  <2>2. c.done = <<>> /\ c.over = FALSE
    BY <2>1 DEF NoNode
  <2>3. QED BY <1>1, <2>1, <2>2, BeginKeeps DEF Kind
<1>2. ASSUME NEW c \in Conditions, BeginNode("while", [NoNode EXCEPT !.while = c]) PROVE LoopInv'
  <2>1. WellFormed(c) /\ c \in Condition
    BY ConditionsFacts DEF WellFormed
  <2>2. PICK d \in Node : d = [NoNode EXCEPT !.while = c]
    BY <2>1 DEF Node
  <2>3. d.done = <<>> /\ d.over = FALSE /\ d.while = c
    BY <2>2 DEF NoNode
  <2>4. QED BY <1>2, <2>1, <2>2, <2>3, BeginKeeps DEF Kind
<1>3. ASSUME NEW k \in 0..MaxTerms, NEW items \in [1..k -> Value],
             BeginNode("for_each", [NoNode EXCEPT !.items = items])
      PROVE  LoopInv'
  <2>1. items \in Seq(Item)
    <3>1. k \in Nat /\ Value \subseteq Item
      BY DEF Item
    <3>2. \A i \in 1..k : items[i] \in Item
      BY <3>1
    <3>3. items \in [1..k -> Item]
      BY <3>2
    <3>4. QED BY <3>1, <3>3
  <2>2. PICK d \in Node : d = [NoNode EXCEPT !.items = items]
    BY <2>1 DEF Node
  <2>3. d.done = <<>> /\ d.over = FALSE
    BY <2>2 DEF NoNode
  <2>4. QED BY <1>3, <2>2, <2>3, BeginKeeps DEF Kind
<1>4. QED BY <1>1, <1>2, <1>3 DEF Execute

(* The node is over. *)
LEMMA EndKeeps ==
  ASSUME LoopInv, node.kind # "none", ~node.over,
         node' = [node EXCEPT !.over = TRUE], UNCHANGED nodesRun, vars' \in [Variable -> Item],
         node.kind = "times" => Rounds >= node.count \/ Rounds >= node.max,
         node.kind = "for_each" => Rounds = Len(node.items) \/ Rounds >= node.max,
         node.kind = "while" => Rounds >= node.max \/ ~Evaluate(node.while, AtRound(Rounds))
  PROVE  LoopInv'
<1>0. node \in Node /\ Rounds \in Nat /\ node.max \in Int
  BY NodeFacts DEF LoopInv
<1>1. /\ node' \in Node /\ node'.over = TRUE
      /\ node'.kind = node.kind /\ node'.max = node.max /\ node'.count = node.count
         /\ node'.while = node.while
      /\ node'.items = node.items /\ node'.found = node.found /\ node'.done = node.done
  BY <1>0 DEF Node
<1>2. Rounds' = Rounds /\ \A k : AtRound(k)' = AtRound(k)
  BY <1>1 DEF Rounds, AtRound
<1>3. LoopTypeOK'
  BY <1>1 DEF LoopInv, LoopTypeOK
<1>4. TimesInv'
  BY <1>1, <1>2 DEF LoopInv, TimesInv
<1>5. ForEachInv'
  BY <1>1, <1>2 DEF LoopInv, ForEachInv
<1>6. WhileInv'
  BY <1>0, <1>1, <1>2 DEF LoopInv, WhileInv, WellFormed
<1>7. QED BY <1>1, <1>3, <1>4, <1>5, <1>6 DEF LoopInv

(* A round is run. *)
LEMMA RoundFacts ==
  ASSUME LoopInv, NEW x \in Item, node' = [node EXCEPT !.done = Append(@, x)]
  PROVE  /\ node' \in Node /\ node'.over = node.over
         /\ node'.kind = node.kind /\ node'.max = node.max /\ node'.count = node.count
            /\ node'.while = node.while
         /\ node'.items = node.items /\ node'.found = node.found /\ node'.done = Append(node.done, x)
         /\ Rounds' = Rounds + 1 /\ \A k : AtRound(k)' = AtRound(k)
         /\ node'.done[Rounds + 1] = x /\ \A i \in 1..Rounds : node'.done[i] = node.done[i]
<1>0. node \in Node /\ node.done \in Seq(Item) /\ Rounds \in Nat
  BY NodeFacts DEF LoopInv
<1>1. Append(node.done, x) \in Seq(Item)
  BY <1>0
<1>2. /\ node' \in Node /\ node'.over = node.over
      /\ node'.kind = node.kind /\ node'.max = node.max /\ node'.count = node.count
         /\ node'.while = node.while
      /\ node'.items = node.items /\ node'.found = node.found /\ node'.done = Append(node.done, x)
  BY <1>0, <1>1 DEF Node
<1>3. Rounds' = Rounds + 1
  BY <1>0, <1>2 DEF Rounds
<1>4. node'.done[Rounds + 1] = x /\ \A i \in 1..Rounds : node'.done[i] = node.done[i]
  BY <1>0, <1>2 DEF Rounds
<1>5. \A k : AtRound(k)' = AtRound(k)
  BY <1>2 DEF AtRound
<1>6. QED BY <1>2, <1>3, <1>4, <1>5

(* The rounds of a loop are numbers its variables may have: it stops at its  *)
(* limit.                                                                    *)
LEMMA RoundIsNumber ==
  ASSUME LoopInv, node.kind # "none", Rounds < node.max
  PROVE  Rounds \in Number /\ Rounds \in Item /\ Rounds \in Nat
<1>1. Rounds \in Nat /\ node.max \in Limit \cup {DefaultMaxIter}
  BY NodeFacts DEF LoopInv
<1>2. PICK m \in Limit \cup {DefaultMaxIter} : m = node.max
  BY <1>1
<1>3. Rounds \in 0..m
  <2>1. m \in Int
    OBVIOUS
  <2>2. Rounds < m
    BY ONLY <1>2, Rounds < node.max
  <2>3. QED BY <1>1, <2>1, <2>2
<1>a. 0..m \subseteq Number
  BY <1>2
<1>4. QED BY <1>1, <1>3, <1>a DEF Item

(* Every step of a loop keeps the invariant.                                 *)
LEMMA LoopStep ==
  ASSUME LoopInv, [LoopNext]_loopVars
  PROVE  LoopInv'
<1>0. /\ node \in Node /\ Rounds \in Nat /\ node.max \in Int /\ node.count \in Int
         /\ Len(node.items) \in Nat
      /\ node.over \in BOOLEAN /\ vars \in [Variable -> Item] /\ nodesRun \in Nat /\ LoopTypeOK
      /\ node.items \in Seq(Item) /\ node.found \in [Variable -> Item]
  BY NodeFacts DEF LoopInv, LoopTypeOK
<1>1. CASE Execute
  BY <1>1, ExecuteKeeps
<1>2. CASE Times
  <2>0. node.kind = "times" /\ ~node.over /\ UNCHANGED nodesRun
    BY <1>2 DEF Times, Runs, EndNode
  <2>1. CASE Rounds < node.count /\ Rounds < node.max
    <3>1. vars' = [vars EXCEPT ![Index] = Rounds] /\ node' = [node EXCEPT !.done = Append(@, Rounds)]
      BY <1>2, <2>1 DEF Times
    <3>2. Rounds \in Item
      BY <2>0, <2>1, RoundIsNumber
    <3>3. PICK x \in Item : x = Rounds
      BY <3>2
    <3>4. node' = [node EXCEPT !.done = Append(@, x)]
      BY <3>1, <3>3
    <3>5. LoopTypeOK'
      BY <1>0, <2>0, <3>1, <3>2, <3>4, RoundFacts DEF LoopTypeOK
    <3>6. /\ node'.kind = "times" /\ Rounds' = Rounds + 1 /\ node'.over = node.over /\ node'.max = node.max
          /\ node'.count = node.count
      BY <2>0, <3>4, RoundFacts
    <3>7. TimesInv'
      BY <1>0, <2>0, <2>1, <3>6 DEF TimesInv
    <3>8. QED BY <2>0, <3>5, <3>6, <3>7 DEF LoopInv, ForEachInv, WhileInv
  <2>2. CASE ~(Rounds < node.count /\ Rounds < node.max)
    <3>1. node' = [node EXCEPT !.over = TRUE] /\ UNCHANGED vars
      BY <1>2, <2>2 DEF Times, EndNode
    <3>2. QED BY <1>0, <2>0, <2>2, <3>1, EndKeeps
  <2>3. QED BY <2>1, <2>2
<1>3. CASE While
  <2>0. node.kind = "while" /\ ~node.over /\ UNCHANGED nodesRun
    BY <1>3 DEF While, Runs, EndNode
  <2>a. WhileInv
    BY DEF LoopInv
  <2>1. CASE Rounds < node.max
    <3>1. vars' = [vars EXCEPT ![Index] = Rounds]
      BY <1>3, <2>1 DEF While
    <3>2. Rounds \in Item /\ vars' \in [Variable -> Item]
      BY <1>0, <2>0, <2>1, <3>1, RoundIsNumber
    <3>3. vars' = AtRound(Rounds)
      BY <1>0, <2>0, <2>a, <3>1 DEF WhileInv
    <3>4. CASE Evaluate(node.while, AtRound(Rounds))
      <4>1. node' = [node EXCEPT !.done = Append(@, Rounds)]
        BY <1>3, <2>1, <3>3, <3>4 DEF While
      <4>2. PICK x \in Item : x = Rounds
        BY <3>2
      <4>3. /\ node' \in Node /\ node'.kind = "while" /\ Rounds' = Rounds + 1 /\ node'.over = node.over
            /\ node'.max = node.max /\ node'.while = node.while /\ \A k : AtRound(k)' = AtRound(k)
        BY <2>0, <4>1, <4>2, RoundFacts
      <4>4. LoopTypeOK'
        BY <1>0, <2>0, <3>2, <4>3 DEF LoopTypeOK
      <4>5. \A k \in Nat : [vars' EXCEPT ![Index] = k] = AtRound(k)
        BY <1>0, <3>3 DEF AtRound
      <4>6. \A k \in 0..Rounds : Evaluate(node.while, AtRound(k))
        BY <1>0, <2>0, <2>a, <3>4 DEF WhileInv
      <4>7. WellFormed(node.while)'
        BY <2>0, <2>a, <4>3 DEF WhileInv, WellFormed
      <4>8. WhileInv'
        BY <1>0, <2>0, <4>3, <4>5, <4>6, <4>7 DEF WhileInv
      <4>9. QED BY <2>0, <4>3, <4>4, <4>8 DEF LoopInv, TimesInv, ForEachInv
    <3>5. CASE ~Evaluate(node.while, AtRound(Rounds))
      <4>1. node' = [node EXCEPT !.over = TRUE]
        BY <1>3, <2>1, <3>3, <3>5 DEF While
      <4>2. QED BY <2>0, <3>2, <3>5, <4>1, EndKeeps
    <3>6. QED BY <3>4, <3>5
  <2>2. CASE ~(Rounds < node.max)
    <3>1. node' = [node EXCEPT !.over = TRUE] /\ UNCHANGED vars
      BY <1>3, <2>2 DEF While, EndNode
    <3>2. QED BY <1>0, <2>0, <2>2, <3>1, EndKeeps
  <2>3. QED BY <2>1, <2>2
<1>4. CASE ForEach
  <2>0. node.kind = "for_each" /\ ~node.over /\ UNCHANGED nodesRun
    BY <1>4 DEF ForEach, Runs, EndNode
  <2>1. CASE Rounds < Len(node.items) /\ Rounds < node.max
    <3>1. PICK x \in Item : x = node.items[Rounds + 1]
      BY <1>0, <2>1
    <3>2. PICK itemVar \in Variable \cup {NoValue}, keyVar \in Variable \cup {NoValue} :
            vars' = [v \in Variable |-> IF v = keyVar THEN Rounds
                                       ELSE IF v = itemVar THEN x
                                       ELSE IF v = Index THEN Rounds ELSE vars[v]]
      BY <1>4, <2>1, <3>1 DEF ForEach
    <3>3. node' = [node EXCEPT !.done = Append(@, x)]
      BY <1>4, <2>1, <3>1 DEF ForEach
    <3>4. vars' \in [Variable -> Item]
      BY <1>0, <2>0, <2>1, <3>2, RoundIsNumber
    <3>5. /\ node' \in Node /\ node'.kind = "for_each" /\ Rounds' = Rounds + 1 /\ node'.over = node.over
          /\ node'.max = node.max /\ node'.items = node.items
          /\ node'.done[Rounds + 1] = x /\ \A i \in 1..Rounds : node'.done[i] = node.done[i]
      BY <2>0, <3>3, RoundFacts
    <3>6. LoopTypeOK'
      BY <1>0, <2>0, <3>4, <3>5 DEF LoopTypeOK
    <3>7. \A i \in 1..Rounds + 1 : node'.done[i] = node.items[i]
      BY <1>0, <2>0, <3>1, <3>5 DEF LoopInv, ForEachInv
    <3>8. ForEachInv'
      BY <1>0, <2>0, <2>1, <3>5, <3>7 DEF ForEachInv
    <3>9. QED BY <2>0, <3>5, <3>6, <3>8 DEF LoopInv, TimesInv, WhileInv
  <2>2. CASE ~(Rounds < Len(node.items) /\ Rounds < node.max)
    <3>1. node' = [node EXCEPT !.over = TRUE] /\ UNCHANGED vars
      BY <1>4, <2>2 DEF ForEach, EndNode
    <3>2. Rounds = Len(node.items) \/ Rounds >= node.max
      BY <1>0, <2>0, <2>2 DEF LoopInv, ForEachInv
    <3>3. QED BY <1>0, <2>0, <3>1, <3>2, EndKeeps
  <2>3. QED BY <2>1, <2>2
<1>5. CASE NextNode
  <2>1. node' = NoNode /\ UNCHANGED <<vars, nodesRun>>
    BY <1>5 DEF NextNode
  <2>2. node'.kind = "none" /\ LoopTypeOK'
    BY <1>0, <2>1, NoNodeType DEF LoopTypeOK
  <2>3. QED BY <2>2 DEF LoopInv, TimesInv, ForEachInv, WhileInv
<1>6. CASE UNCHANGED loopVars
  BY <1>6 DEF loopVars, LoopInv, LoopTypeOK, TimesInv, ForEachInv, WhileInv, Rounds, AtRound, WellFormed
<1>7. QED BY <1>1, <1>2, <1>3, <1>4, <1>5, <1>6 DEF LoopNext

LEMMA LoopInvariant == LoopSpec => []LoopInv
<1>1. LoopInit => LoopInv
  <2>1. ASSUME LoopInit PROVE LoopInv
    <3>1. vars \in [Variable -> Item] /\ node = NoNode /\ nodesRun \in Nat
      BY <2>1 DEF LoopInit, Item
    <3>2. QED BY <3>1, NoNodeType DEF LoopInv, LoopTypeOK, TimesInv, ForEachInv, WhileInv
  <2>2. QED BY <2>1
<1>2. LoopInv /\ [LoopNext]_loopVars => LoopInv'
  BY LoopStep
<1>3. QED BY <1>1, <1>2, PTL DEF LoopSpec

(* Every variable of a loop node keeps its type, for any limits, counts,     *)
(* lists, variables and conditions.                                          *)
THEOREM LoopTypeCorrect == LoopSpec => []LoopTypeOK
<1>1. LoopInv => LoopTypeOK
  BY DEF LoopInv
<1>2. QED BY <1>1, LoopInvariant, PTL

(* A loop that is over went on as often as its configuration says: a count   *)
(* or the limit, whichever is smaller; each item in turn, up to the limit;   *)
(* and while its condition holds, where a condition with both connectors may *)
(* be looser than its author means it and never stricter (loop.go:157).      *)
THEOREM LoopsMeanHolds == LoopSpec => []LoopsMean
<1>1. LoopInv => LoopsMean
  <2> DEFINE least(a, b) == IF a < b THEN a ELSE b
             atLeast0(n) == IF n < 0 THEN 0 ELSE n
  <2> SUFFICES ASSUME LoopInv, node.over
               PROVE  /\ node.kind = "times" => Rounds = atLeast0(least(node.count, node.max))
                      /\ node.kind = "for_each" =>
                           node.done = SubSeq(node.items, 1, least(Len(node.items), node.max))
                      /\ node.kind = "while" =>
                           /\ \A k \in 0..(Rounds - 1) : Means(node.while, AtRound(k)) \/ Mixed(node.while)
                           /\ Rounds < node.max => ~Means(node.while, AtRound(Rounds))
    BY DEF LoopsMean, AtRound
  <2>0. /\ Rounds \in Nat /\ node.max \in Int /\ node.count \in Int /\ Len(node.items) \in Nat
        /\ node.items \in Seq(Item) /\ node.done \in Seq(Item) /\ Rounds = Len(node.done)
    BY NodeFacts DEF LoopInv, Rounds
  <2>1. node.kind = "times" => Rounds = atLeast0(least(node.count, node.max))
    BY <2>0 DEF LoopInv, TimesInv
  <2>2. ASSUME node.kind = "for_each"
        PROVE  node.done = SubSeq(node.items, 1, least(Len(node.items), node.max))
    <3> DEFINE n == least(Len(node.items), node.max)
    <3>1. n \in Int /\ n <= Len(node.items) /\ Rounds = atLeast0(n)
      BY <2>0, <2>2 DEF LoopInv, ForEachInv
    <3> HIDE DEF n
    <3>2. \A i \in 1..n : node.items[i] \in Item
      BY <2>0, <3>1
    <3>3. /\ SubSeq(node.items, 1, n) \in Seq(Item)
          /\ Len(SubSeq(node.items, 1, n)) = Rounds
          /\ \A i \in 1..Rounds : SubSeq(node.items, 1, n)[i] = node.items[i]
      BY <3>1, <3>2, <2>0, SubSeqProperties
    <3>4. \A i \in 1..Rounds : node.done[i] = node.items[i]
      BY <2>2 DEF LoopInv, ForEachInv
    <3>5. node.done = SubSeq(node.items, 1, n)
      BY <2>0, <3>3, <3>4, SeqEqual
    <3>6. QED BY <3>5 DEF n
  <2>3. ASSUME node.kind = "while"
        PROVE  /\ \A k \in 0..(Rounds - 1) : Means(node.while, AtRound(k)) \/ Mixed(node.while)
               /\ Rounds < node.max => ~Means(node.while, AtRound(Rounds))
    <3>1. /\ WellFormed(node.while) /\ \A k \in 0..(Rounds - 1) : Evaluate(node.while, AtRound(k))
          /\ Rounds < node.max => ~Evaluate(node.while, AtRound(Rounds))
      BY <2>3 DEF LoopInv, WhileInv
    <3>2. QED BY <3>1, EvaluateMeans, MeansEvaluate
  <2>4. QED BY <2>1, <2>2, <2>3
<1>2. QED BY <1>1, LoopInvariant, PTL

HIDE LoopAssumption

-----------------------------------------------------------------------------
(* Conversations and the window of messages.                                 *)

(* Every message of a filtered list is a message of the list, with no more     *)
(* messages behind it than there were; where the list ends with an empty       *)
(* message, with fewer.                                                        *)
LEMMA FilterEmptyFacts ==
  ASSUME NEW msgs \in Seq(Message)
  PROVE  /\ FilterEmpty(msgs) \in Seq(Message)
         /\ \A k \in 1..Len(FilterEmpty(msgs)) : \E i \in 1..Len(msgs) :
              /\ FilterEmpty(msgs)[k] = msgs[i]
              /\ msgs[i].size > 0
              /\ Len(FilterEmpty(msgs)) - k <= Len(msgs) - i
              /\ msgs[Len(msgs)].size = 0 =>
                   Len(FilterEmpty(msgs)) - k <= Len(msgs) - 1 - i
         /\ Len(msgs) > 0 /\ msgs[Len(msgs)].size > 0 =>
              /\ Len(FilterEmpty(msgs)) > 0
              /\ FilterEmpty(msgs)[Len(FilterEmpty(msgs))] = msgs[Len(msgs)]
<1> DEFINE kept    == {i \in DOMAIN msgs : msgs[i].size > 0}
           upTo(i) == Cardinality({j \in kept : j <= i})
           long    == Len(msgs)
           many    == Cardinality(kept)
           Short   == FilterEmpty(msgs)
<1>1. /\ long \in Nat /\ DOMAIN msgs = 1..long
      /\ \A i \in 1..long : msgs[i] \in Message /\ msgs[i].size \in Nat
  <2>1. long \in Nat /\ DOMAIN msgs = 1..long /\ \A i \in 1..long : msgs[i] \in Message
    OBVIOUS
  <2>2. \A m \in Message : m.size \in Nat
    BY DEF Message
  <2>3. QED BY <2>1, <2>2
<1>2. /\ \A i \in kept : i \in Nat /\ i > 0 /\ i <= long
      /\ \A i \in Nat : i > 0 /\ i <= long => (i \in kept <=> msgs[i].size > 0)
  <2>1. kept = {i \in 1..long : msgs[i].size > 0}
    BY <1>1
  <2> HIDE DEF kept
  <2>2. QED BY <1>1, <2>1
<1>3. Short = [k \in 1..many |-> msgs[CHOOSE i \in kept : upTo(i) = k]]
  BY DEF FilterEmpty
<1> HIDE DEF kept, Short
<1>4. IsFiniteSet(kept) /\ many \in Nat
  <2>1. kept \in SUBSET (1..long)
    BY <1>1, <1>2
  <2>2. IsFiniteSet(kept)
    <3>1. IsFiniteSet(1..long)
      BY <1>1, FS_Interval
    <3>2. QED BY <2>1, <3>1, FS_Subset
  <2>3. QED BY <2>2, FS_CardinalityType
<1>5. \A T \in SUBSET kept : IsFiniteSet(T) /\ Cardinality(T) \in Nat /\ Cardinality(T) <= many
  BY <1>4, FS_Subset, FS_CardinalityType
<1>6. \A i \in Int : upTo(i) \in Nat /\ upTo(i) <= many
  BY <1>5
<1>7. ASSUME NEW k \in 1..many
      PROVE  \E i \in kept : upTo(i) = k
  <2> DEFINE G == {m \in Nat : upTo(m) >= k}
  <2>1. upTo(long) = many
    <3>1. {j \in kept : j <= long} = kept
      BY <1>1, <1>2
    <3>2. QED BY <3>1
  <2>2. long \in G
    BY <1>1, <1>4, <2>1
  <2>3. PICK m \in G : \A l \in G : m <= l
    <3>1. G \subseteq Nat /\ G # {}
      BY <2>2
    <3> HIDE DEF G
    <3>2. QED BY <3>1, Least
  <2>4. upTo(0) = 0
    <3>1. {j \in kept : j <= 0} = {}
      BY <1>1, <1>2
    <3>2. QED BY <3>1, FS_EmptySet
  <2>5. m \in Nat /\ m # 0 /\ upTo(m) \in Nat /\ upTo(m) >= k
    <3>1. m \in Nat /\ upTo(m) >= k
      OBVIOUS
    <3>2. upTo(m) \in Nat
      BY <1>6, <3>1
    <3>3. ASSUME m = 0
          PROVE  FALSE
      BY <2>4, <3>1, <3>3
    <3>4. QED BY <3>1, <3>2, <3>3
  <2>6. m - 1 \in Nat /\ m - 1 \notin G
    BY <2>3, <2>5
  <2>7. upTo(m - 1) \in Nat /\ upTo(m - 1) < k
    BY <1>6, <2>6
  <2>8. {j \in kept : j <= m} \subseteq {j \in kept : j <= m - 1} \cup {m}
    BY <1>2, <2>5
  <2>9. CASE m \in kept
    <3>1. {j \in kept : j <= m} = {j \in kept : j <= m - 1} \cup {m}
      <4>1. \A j \in kept : j <= m <=> j <= m - 1 \/ j = m
        BY <1>2, <2>5
      <4>2. QED BY <2>5, <2>9, <4>1
    <3>2. m \notin {j \in kept : j <= m - 1}
      BY <2>5
    <3>3. upTo(m) = upTo(m - 1) + 1
      BY <1>5, <3>1, <3>2, FS_AddElement
    <3>4. upTo(m) = k
      <4> HIDE DEF upTo, many
      <4>1. QED BY <2>5, <2>7, <3>3
    <3>5. QED BY <2>9, <3>4
  <2>10. CASE m \notin kept
    <3>1. {j \in kept : j <= m} = {j \in kept : j <= m - 1}
      <4>1. \A j \in kept : j <= m <=> j <= m - 1
        BY <1>2, <2>5, <2>10
      <4>2. QED BY <4>1
    <3>2. upTo(m) = upTo(m - 1)
      BY <3>1
    <3>3. QED BY <2>5, <2>7, <3>2
  <2>11. QED BY <2>9, <2>10
<1>8. ASSUME NEW i \in kept
      PROVE  /\ many - upTo(i) <= long - i
             /\ long \notin kept => many - upTo(i) <= long - 1 - i
             /\ long \in kept /\ upTo(i) = many => i = long
  <2> DEFINE before == {j \in kept : j <= i}
             after  == {j \in kept : j > i}
  <2>1. i \in 1..long /\ upTo(i) \in Nat
    BY <1>1, <1>2, <1>6
  <2>2. kept = before \cup after /\ before \cap after = {}
    <3>1. \A j \in kept : j <= i <=> ~(j > i)
      BY <1>2, <2>1
    <3>2. QED BY <3>1
  <2>3. many = upTo(i) + Cardinality(after) /\ Cardinality(after) \in Nat
    <3>1. IsFiniteSet(before) /\ IsFiniteSet(after) /\ Cardinality(after) \in Nat
      BY <1>5
    <3>2. Cardinality(before \cap after) = 0
      BY <2>2, FS_EmptySet
    <3>3. Cardinality(before \cup after) = Cardinality(before) + Cardinality(after) - 0
      BY <3>1, <3>2, FS_Union
    <3>4. Cardinality(kept) = Cardinality(before \cup after)
      BY <2>2
    <3>5. QED BY <2>1, <3>1, <3>3, <3>4
  <2>4. Cardinality(after) <= long - i
    <3>1. after \in SUBSET ((i + 1)..long)
      <4>1. \A j \in after : j \in (i + 1)..long
        BY <1>1, <1>2, <2>1
      <4> HIDE DEF after
      <4>2. QED BY <4>1
    <3>2. IsFiniteSet((i + 1)..long) /\ Cardinality((i + 1)..long) = long - i
      BY <1>1, <2>1, FS_Interval
    <3>3. Cardinality(after) <= Cardinality((i + 1)..long)
      BY <3>1, <3>2, FS_Subset
    <3>4. QED BY <3>2, <3>3
  <2>5. ASSUME long \notin kept
        PROVE  Cardinality(after) <= long - 1 - i
    <3>1. i <= long - 1 /\ \A j \in after : j \in Nat /\ i + 1 <= j /\ j <= long - 1
      BY <1>1, <1>2, <2>1, <2>5
    <3>2. after \in SUBSET ((i + 1)..(long - 1))
      <4>1. \A j \in after : j \in (i + 1)..(long - 1)
        BY <1>1, <2>1, <3>1
      <4> HIDE DEF after
      <4>2. QED BY <4>1
    <3>3. /\ IsFiniteSet((i + 1)..(long - 1))
          /\ Cardinality((i + 1)..(long - 1)) = long - 1 - i
      BY <1>1, <2>1, <3>1, FS_Interval
    <3>4. Cardinality(after) <= Cardinality((i + 1)..(long - 1))
      BY <3>2, <3>3, FS_Subset
    <3>5. QED BY <3>3, <3>4
  <2>6. ASSUME long \in kept, upTo(i) = many
        PROVE  i = long
    <3>1. Cardinality(after) = 0 /\ IsFiniteSet(after)
      BY <1>5, <2>1, <2>3, <2>6
    <3>2. after = {}
      BY <3>1, FS_EmptySet
    <3>3. ~(long > i)
      BY <2>6, <3>2
    <3>4. QED BY <1>1, <2>1, <3>3
  <2> HIDE DEF after, before
  <2>7. many - upTo(i) <= long - i
    BY <1>1, <2>1, <2>3, <2>4
  <2>8. long \notin kept => many - upTo(i) <= long - 1 - i
    BY <1>1, <2>1, <2>3, <2>5
  <2>9. QED BY <2>6, <2>7, <2>8
<1>9. ASSUME NEW k \in 1..many
      PROVE  \E i \in kept : upTo(i) = k /\ Short[k] = msgs[i]
  <2> DEFINE c == CHOOSE i \in kept : upTo(i) = k
  <2>1. c \in kept /\ upTo(c) = k
    BY <1>7
  <2>2. Short[k] = msgs[c]
    BY <1>3
  <2> HIDE DEF c
  <2>3. QED BY <2>1, <2>2
<1>10. Short \in Seq(Message) /\ Len(Short) = many
  <2>1. DOMAIN Short = 1..many
    BY <1>3
  <2>2. \A k \in 1..many : Short[k] \in Message
    <3>1. \A i \in kept : msgs[i] \in Message
      BY <1>1, <1>2
    <3>2. QED BY <1>9, <3>1
  <2>3. Short \in [1..many -> Message]
    BY <1>3, <2>2
  <2>4. QED BY <1>4, <2>3
<1>11. ASSUME NEW k \in 1..many
       PROVE  \E i \in 1..long :
                /\ Short[k] = msgs[i]
                /\ msgs[i].size > 0
                /\ many - k <= long - i
                /\ msgs[long].size = 0 => many - k <= long - 1 - i
  <2>1. PICK i \in kept : upTo(i) = k /\ Short[k] = msgs[i]
    BY <1>9
  <2>2. many - k <= long - i /\ (long \notin kept => many - k <= long - 1 - i)
    BY <1>8, <2>1
  <2>3. i \in 1..long /\ msgs[i].size > 0
    BY <1>2
  <2>4. msgs[long].size = 0 => long \notin kept
    BY <1>1, <1>2, <2>3
  <2>5. QED BY <2>1, <2>2, <2>3, <2>4
<1>12. ASSUME long > 0, msgs[long].size > 0
       PROVE  many > 0 /\ Short[many] = msgs[long]
  <2>1. long \in kept
    BY <1>1, <1>2, <1>12
  <2>2. many > 0
    BY <1>4, <2>1, FS_EmptySet
  <2>3. PICK i \in kept : upTo(i) = many /\ Short[many] = msgs[i]
    <3>1. many \in 1..many
      BY <1>4, <2>2
    <3>2. QED BY <1>9, <3>1
  <2>4. QED BY <1>8, <2>1, <2>2, <2>3
<1> QED BY <1>10, <1>11, <1>12 DEF Short

(* Messages s are the last ones of whole. *)
IsEndOf(s, whole) ==
  /\ Len(s) <= Len(whole)
  /\ \A i \in 1..Len(s) : s[i] = whole[Len(whole) - Len(s) + i]

(* What messages in a list have.                                             *)
LEMMA MessagesFacts ==
  ASSUME NEW s \in Seq(Message)
  PROVE  /\ Len(s) \in Nat /\ DOMAIN s = 1..Len(s)
         /\ \A i \in 1..Len(s) :
              s[i] \in Message /\ s[i].role \in MessageRoles /\ s[i].id \in Nat /\ s[i].size \in Nat
<1>1. Len(s) \in Nat /\ DOMAIN s = 1..Len(s) /\ \A i \in 1..Len(s) : s[i] \in Message
  OBVIOUS
<1>2. \A m \in Message : m.role \in MessageRoles /\ m.id \in Nat /\ m.size \in Nat
  BY DEF Message
<1>3. QED BY <1>1, <1>2

(* The last index of a set is in it.                                         *)
LEMMA LatestFacts ==
  ASSUME NEW S, NEW n \in Nat, \A i \in S : i \in 1..n
  PROVE  /\ S = {} => Latest(S) = 0
         /\ S # {} => /\ Latest(S) \in S /\ Latest(S) \in 1..n
                      /\ \A i \in S : i <= Latest(S)
<1>1. CASE S = {}
  BY <1>1 DEF Latest
<1>2. CASE S # {}
  <2>1. \E x \in S : \A y \in S : y <= x
    <3>1. S \subseteq Nat /\ \A i \in S : i <= n
      OBVIOUS
    <3>2. QED BY <1>2, <3>1, Greatest
  <2>2. Latest(S) \in S /\ \A y \in S : y <= Latest(S)
    BY <1>2, <2>1 DEF Latest
  <2>3. QED BY <1>2, <2>2
<1>3. QED BY <1>1, <1>2

(* The last message of the user is where it ends, in a list that ends with   *)
(* one.                                                                      *)
LEMMA LastUserFacts ==
  ASSUME NEW s \in Seq(Message)
  PROVE  /\ LastUser(s) \in 0..Len(s)
         /\ Len(s) > 0 /\ s[Len(s)].role = "user" => LastUser(s) = Len(s)
<1>1. Len(s) \in Nat /\ \A i \in Users(s) : i \in 1..Len(s)
  BY MessagesFacts DEF Users
<1>2. /\ Users(s) = {} => LastUser(s) = 0
      /\ Users(s) # {} => LastUser(s) \in 1..Len(s) /\ \A i \in Users(s) : i <= LastUser(s)
  BY <1>1, LatestFacts DEF LastUser
<1>3. ASSUME Len(s) > 0, s[Len(s)].role = "user"
      PROVE  LastUser(s) = Len(s)
  <2>1. Len(s) \in Users(s)
    BY <1>1, <1>3, MessagesFacts DEF Users
  <2>2. QED BY <1>1, <1>2, <2>1
<1>4. QED BY <1>1, <1>2, <1>3

(* SubSeq up to the end is an end.                                           *)
LEMMA EndFacts ==
  ASSUME NEW s \in Seq(Message), NEW b \in 1..(Len(s) + 1)
  PROVE  /\ SubSeq(s, b, Len(s)) \in Seq(Message)
         /\ Len(SubSeq(s, b, Len(s))) = Len(s) + 1 - b
         /\ \A i \in 1..(Len(s) + 1 - b) : SubSeq(s, b, Len(s))[i] = s[b + i - 1]
         /\ IsEndOf(SubSeq(s, b, Len(s)), s)
<1> DEFINE e == SubSeq(s, b, Len(s))
<1>1. Len(s) \in Nat /\ b \in Int /\ \A i \in b..Len(s) : s[i] \in Message
  BY MessagesFacts
<1>2. /\ e \in Seq(Message)
      /\ Len(e) = IF b <= Len(s) THEN Len(s) - b + 1 ELSE 0
      /\ \A i \in 1..(Len(s) - b + 1) : e[i] = s[b + i - 1]
  BY <1>1, SubSeqProperties
<1> HIDE DEF e
<1>3. Len(e) = Len(s) + 1 - b
  BY <1>1, <1>2
<1>4. \A i \in 1..(Len(s) + 1 - b) : e[i] = s[b + i - 1]
  BY <1>1, <1>2
<1>5. IsEndOf(e, s)
  <2>1. Len(e) <= Len(s)
    BY <1>1, <1>3
  <2>2. ASSUME NEW i \in 1..Len(e)
        PROVE  e[i] = s[Len(s) - Len(e) + i]
    <3>1. Len(s) - Len(e) + i = b + i - 1 /\ i \in 1..(Len(s) + 1 - b)
      BY <1>1, <1>3
    <3>2. QED BY <1>4, <3>1
  <2>3. QED BY <2>1, <2>2 DEF IsEndOf
<1>6. QED BY <1>2, <1>3, <1>4, <1>5 DEF e

LEMMA WholeIsEnd == ASSUME NEW s \in Seq(Message) PROVE IsEndOf(s, s)
<1>1. Len(s) \in Nat /\ \A i \in 1..Len(s) : Len(s) - Len(s) + i = i
  BY MessagesFacts
<1>2. QED BY <1>1 DEF IsEndOf

LEMMA EndOfEnd ==
  ASSUME NEW r \in Seq(Message), NEW s \in Seq(Message), NEW w \in Seq(Message),
         IsEndOf(r, s), IsEndOf(s, w)
  PROVE  IsEndOf(r, w)
<1>1. Len(r) \in Nat /\ Len(s) \in Nat /\ Len(w) \in Nat /\ Len(r) <= Len(s) /\ Len(s) <= Len(w)
  BY MessagesFacts DEF IsEndOf
<1>2. ASSUME NEW i \in 1..Len(r)
      PROVE  r[i] = w[Len(w) - Len(r) + i]
  <2> DEFINE j == Len(s) - Len(r) + i
  <2>1. j \in 1..Len(s) /\ Len(w) - Len(s) + j = Len(w) - Len(r) + i
    BY <1>1
  <2>2. r[i] = s[j]
    BY DEF IsEndOf
  <2>3. s[j] = w[Len(w) - Len(s) + j]
    BY <2>1 DEF IsEndOf
  <2>4. QED BY <2>1, <2>2, <2>3
<1>3. QED BY <1>1, <1>2 DEF IsEndOf

(* A positive number of turns leaves the end of the list, at least one message *)
(* of it.                                                                      *)
LEMMA TrimToTurnsFacts ==
  ASSUME NEW s \in Seq(Message), NEW turns \in Nat \ {0}
  PROVE  /\ TrimToTurns(s, turns) \in Seq(Message)
         /\ IsEndOf(TrimToTurns(s, turns), s)
         /\ Len(s) > 0 => Len(TrimToTurns(s, turns)) > 0
<1> DEFINE start  == Len(s) - 2 * turns + 1
           before == Latest({i \in Users(s) : i < start})
           T      == TrimToTurns(s, turns)
<1>1. Len(s) \in Nat /\ start \in Int /\ start <= Len(s) - 1
  BY MessagesFacts
<1>2. T = IF start <= 1 THEN s
          ELSE IF s[start].role = "assistant" /\ before > 0
          THEN SubSeq(s, before, Len(s))
          ELSE SubSeq(s, start, Len(s))
  BY DEF TrimToTurns
<1>3. before \in 0..Len(s)
  <2> DEFINE S == {i \in Users(s) : i < start}
  <2>1. \A i \in S : i \in 1..Len(s)
    BY MessagesFacts DEF Users
  <2> HIDE DEF S
  <2>2. S = {} => Latest(S) = 0
    BY <1>1, <2>1, LatestFacts
  <2>3. S # {} => Latest(S) \in 1..Len(s)
    BY <1>1, <2>1, LatestFacts
  <2>4. Latest(S) \in 0..Len(s)
    BY <1>1, <2>2, <2>3
  <2>5. QED BY <2>4 DEF S
<1> HIDE DEF start, before, T
<1>4. CASE T = s
  BY <1>4, WholeIsEnd DEF T
<1>5. ASSUME NEW b \in 1..Len(s), T = SubSeq(s, b, Len(s))
      PROVE  T \in Seq(Message) /\ IsEndOf(T, s) /\ Len(T) > 0
  <2>1. b \in 1..(Len(s) + 1) /\ Len(s) + 1 - b > 0
    BY <1>1
  <2>2. QED BY <1>5, <2>1, EndFacts
<1>6. CASE start > 1 /\ before > 0 /\ T = SubSeq(s, before, Len(s))
  <2>1. before \in 1..Len(s)
    BY <1>1, <1>3, <1>6
  <2>2. QED BY <1>5, <1>6, <2>1 DEF T
<1>7. CASE start > 1 /\ T = SubSeq(s, start, Len(s))
  <2>1. start \in 1..Len(s)
    BY <1>1, <1>7
  <2>2. QED BY <1>5, <1>7, <2>1 DEF T
<1>8. start <= 1 \/ start > 1
  BY <1>1
<1>9. \/ T = s
      \/ start > 1 /\ before > 0 /\ T = SubSeq(s, before, Len(s))
      \/ start > 1 /\ T = SubSeq(s, start, Len(s))
  BY <1>2, <1>8
<1>10. QED BY <1>4, <1>6, <1>7, <1>9

(* What is cut by tokens leaves the end of the list, before it at most one     *)
(* message; where the list ends with a question, its end.                      *)
LEMMA TrimByTokenFacts ==
  ASSUME NEW s \in Seq(Message), NEW budget \in Nat
  PROVE  /\ TrimByToken(s, budget) \in Seq(Message)
         /\ Len(TrimByToken(s, budget)) <= Len(s)
         /\ \A j \in 2..Len(TrimByToken(s, budget)) :
              TrimByToken(s, budget)[j] = s[Len(s) - Len(TrimByToken(s, budget)) + j]
         /\ Len(s) > 0 /\ s[Len(s)].role = "user" =>
              Len(TrimByToken(s, budget)) > 0 /\ IsEndOf(TrimByToken(s, budget), s)
<1> DEFINE saved    == LastUser(s)
           After(k) == SubSeq(s, k + 1, Len(s))
           Left(k)  == IF saved \in 1..k THEN <<s[saved]>> \o After(k) ELSE After(k)
           enough   == {k \in 0..Len(s) : Tokens(Left(k)) <= budget \/ k = Len(s)}
           cut      == CHOOSE k \in enough : \A j \in enough : k <= j
           R        == TrimByToken(s, budget)
<1>1. Len(s) \in Nat /\ \A i \in 1..Len(s) : s[i] \in Message
  BY MessagesFacts
<1>2. saved \in 0..Len(s) /\ (Len(s) > 0 /\ s[Len(s)].role = "user" => saved = Len(s))
  BY LastUserFacts
<1>3. R = IF budget <= 0 THEN s ELSE Left(cut)
  BY DEF TrimByToken
<1>4. cut \in 0..Len(s)
  <2>1. enough \subseteq Nat /\ Len(s) \in enough
    BY <1>1
  <2>2. enough \subseteq 0..Len(s)
    OBVIOUS
  <2> HIDE DEF enough
  <2>3. \E k \in enough : \A j \in enough : k <= j
    BY <2>1, Least
  <2>4. cut \in enough
    BY <2>3
  <2>5. QED BY <2>2, <2>4
<1> HIDE DEF saved, cut, R, enough
<1>5. CASE budget <= 0
  <2>1. R = s
    BY <1>3, <1>5
  <2>2. \A j \in 2..Len(s) : Len(s) - Len(s) + j = j
    BY <1>1
  <2>3. QED BY <1>1, <2>1, <2>2, WholeIsEnd DEF R
<1>6. ASSUME ~(budget <= 0)
      PROVE  /\ R \in Seq(Message) /\ Len(R) <= Len(s)
             /\ \A j \in 2..Len(R) : R[j] = s[Len(s) - Len(R) + j]
             /\ Len(s) > 0 /\ s[Len(s)].role = "user" => Len(R) > 0 /\ IsEndOf(R, s)
  <2> DEFINE A == After(cut)
  <2>1. /\ A \in Seq(Message) /\ Len(A) = Len(s) - cut /\ IsEndOf(A, s)
        /\ \A i \in 1..(Len(s) - cut) : A[i] = s[cut + i]
    <3>1. cut + 1 \in 1..(Len(s) + 1) /\ Len(s) + 1 - (cut + 1) = Len(s) - cut
      BY <1>1, <1>4
    <3>2. \A i \in 1..(Len(s) - cut) : cut + 1 + i - 1 = cut + i
      BY <1>1, <1>4
    <3>3. /\ A \in Seq(Message) /\ Len(A) = Len(s) + 1 - (cut + 1) /\ IsEndOf(A, s)
          /\ \A i \in 1..(Len(s) + 1 - (cut + 1)) : A[i] = s[cut + 1 + i - 1]
      BY <3>1, EndFacts
    <3> HIDE DEF A
    <3>4. QED BY <3>1, <3>2, <3>3
  <2>2. R = IF saved \in 1..cut THEN <<s[saved]>> \o A ELSE A
    BY <1>3, <1>6
  <2> HIDE DEF A
  <2>3. CASE saved \notin 1..cut
    <3>1. R = A
      BY <2>2, <2>3
    <3>2. \A j \in 2..Len(A) : A[j] = s[Len(s) - Len(A) + j]
      BY <2>1 DEF IsEndOf
    <3>3. Len(s) > 0 /\ s[Len(s)].role = "user" => Len(A) > 0
      BY <1>1, <1>2, <1>4, <2>1, <2>3
    <3>4. QED BY <2>1, <3>1, <3>2, <3>3 DEF IsEndOf
  <2>4. CASE saved \in 1..cut
    <3>1. <<s[saved]>> \in Seq(Message) /\ Len(<<s[saved]>>) = 1 /\ <<s[saved]>>[1] = s[saved]
      BY <1>1, <1>2, <1>4, <2>4
    <3>2. R = <<s[saved]>> \o A
      BY <2>2, <2>4
    <3>3. /\ R \in Seq(Message) /\ Len(R) = 1 + Len(A)
          /\ \A i \in 1..(1 + Len(A)) : R[i] = IF i <= 1 THEN <<s[saved]>>[i] ELSE A[i - 1]
      BY <2>1, <3>1, <3>2, ConcatProperties
    <3>4. Len(R) = Len(s) - cut + 1 /\ cut >= 1 /\ Len(R) <= Len(s) /\ Len(R) > 0
      BY <1>1, <1>4, <2>1, <2>4, <3>3
    <3>5. ASSUME NEW j \in 2..Len(R)
          PROVE  R[j] = s[Len(s) - Len(R) + j]
      <4>1. R[j] = A[j - 1] /\ j - 1 \in 1..(Len(s) - cut)
        BY <1>1, <1>4, <2>1, <3>3, <3>4
      <4>2. A[j - 1] = s[cut + (j - 1)]
        BY <2>1, <4>1
      <4>3. cut + (j - 1) = Len(s) - Len(R) + j
        BY <1>1, <1>4, <3>4
      <4>4. QED BY <4>1, <4>2, <4>3
    <3>6. ASSUME Len(s) > 0, s[Len(s)].role = "user"
          PROVE  IsEndOf(R, s)
      <4>1. saved = Len(s) /\ cut = Len(s)
        BY <1>1, <1>2, <1>4, <2>4, <3>6
      <4>2. Len(R) = 1 /\ R[1] = s[Len(s)]
        BY <1>1, <3>1, <3>3, <3>4, <4>1, <2>1
      <4>3. \A i \in 1..Len(R) : R[i] = s[Len(s) - Len(R) + i]
        BY <1>1, <4>2
      <4>4. QED BY <3>4, <4>3 DEF IsEndOf
    <3>7. QED BY <3>3, <3>4, <3>5, <3>6
  <2>5. QED BY <2>3, <2>4
<1>7. QED BY <1>5, <1>6 DEF R

LEMMA IdsFacts ==
  ASSUME NEW s \in Seq(Message)
  PROVE  /\ Ids(s) \subseteq Nat /\ 0 \notin Ids(s)
         /\ \A i \in 1..Len(s) : s[i].id # 0 => s[i].id \in Ids(s)
         /\ \A x \in Ids(s) : x # 0 /\ \E i \in 1..Len(s) : s[i].id = x
<1>1. DOMAIN s = 1..Len(s) /\ \A i \in 1..Len(s) : s[i].id \in Nat
  BY MessagesFacts
<1>2. QED BY <1>1 DEF Ids

LEMMA CutFacts ==
  ASSUME NEW full \in Seq(Message), NEW sent \in Seq(Message), Len(sent) <= Len(full),
         NEW i \in 1..Len(full), i <= Len(full) - Len(sent)
  PROVE  /\ CutMessages(full, sent) \in Seq(Message)
         /\ full[i].id # 0 => full[i].id \in Ids(CutMessages(full, sent))
<1> DEFINE d == Len(full) - Len(sent)
           C == CutMessages(full, sent)
<1>1. d \in Nat /\ d <= Len(full) /\ \A j \in 1..d : full[j] \in Message
  BY MessagesFacts
<1>2. C \in Seq(Message) /\ Len(C) = d /\ \A j \in 1..d : C[j] = full[j]
  <2>1. /\ SubSeq(full, 1, d) \in Seq(Message)
        /\ Len(SubSeq(full, 1, d)) = IF 1 <= d THEN d - 1 + 1 ELSE 0
        /\ \A j \in 1..(d - 1 + 1) : SubSeq(full, 1, d)[j] = full[1 + j - 1]
    BY <1>1, SubSeqProperties
  <2>2. C = SubSeq(full, 1, d)
    BY DEF CutMessages
  <2> HIDE DEF C, d
  <2>3. d - 1 + 1 = d /\ \A j \in 1..d : 1 + j - 1 = j
    BY <1>1
  <2>4. Len(C) = d
    BY <1>1, <2>1, <2>2
  <2>5. QED BY <2>1, <2>2, <2>3, <2>4
<1>3. i \in 1..d
  BY <1>1
<1> HIDE DEF C, d
<1>4. C[i] = full[i] /\ i \in 1..Len(C)
  BY <1>2, <1>3
<1>5. full[i].id # 0 => full[i].id \in Ids(C)
  BY <1>2, <1>4, IdsFacts
<1>6. QED BY <1>2, <1>5 DEF C

(* A list ends with a question of the user. *)
EndsAsking(full) ==
  Len(full) > 0 /\ full[Len(full)].role = "user" /\ full[Len(full)].id # 0

(* What a window is for: of a list that ends with a question, the question is  *)
(* sent, and each message that is not empty is sent or among the first ones,   *)
(* as many as are missing.                                                     *)
Covers(full, sent) ==
  /\ Question(full) \subseteq Ids(sent)
  /\ Len(sent) <= Len(full)
  /\ Ids(FilterEmpty(full)) \subseteq Ids(sent) \cup Ids(CutMessages(full, sent))

LEMMA QuestionFacts ==
  ASSUME NEW full \in Seq(Message), EndsAsking(full)
  PROVE  /\ full[Len(full)].size = 0 => Question(full) = {}
         /\ full[Len(full)].size # 0 => Question(full) = {full[Len(full)].id}
BY LastUserFacts DEF Question, EndsAsking

(* The three trimmings together: an end of the list without its empty        *)
(* messages, before it perhaps the last of the user. What is missing stood   *)
(* before as many messages as are missing.                                   *)
LEMMA ApplyCovers ==
  ASSUME NEW full \in Seq(Message), EndsAsking(full),
         NEW turns \in Nat \ {0}, NEW budget \in Nat
  PROVE  /\ Apply(full, turns, budget) \in Seq(Message)
         /\ Covers(full, Apply(full, turns, budget))
<1> DEFINE F    == FilterEmpty(full)
           T    == TrimToTurns(F, turns)
           sent == Apply(full, turns, budget)
           n    == Len(full)
           p    == Len(F)
           q    == Len(sent)
<1>1. /\ n \in Nat /\ n > 0 /\ full[n] \in Message /\ full[n].size \in Nat
      /\ full[n].role = "user" /\ full[n].id # 0
  <2>1. n \in Nat /\ n > 0 /\ full[n].role = "user" /\ full[n].id # 0
    BY MessagesFacts DEF EndsAsking
  <2>2. n \in 1..n
    BY <2>1
  <2>3. QED BY <2>1, <2>2, MessagesFacts
<1>2. /\ F \in Seq(Message)
      /\ \A k \in 1..p : \E i \in 1..n :
           /\ F[k] = full[i] /\ full[i].size > 0 /\ p - k <= n - i
           /\ full[n].size = 0 => p - k <= n - 1 - i
      /\ full[n].size > 0 => p > 0 /\ F[p] = full[n]
  BY <1>1, FilterEmptyFacts
<1> HIDE DEF F
<1>3. T \in Seq(Message) /\ IsEndOf(T, F) /\ (p > 0 => Len(T) > 0)
  BY <1>2, TrimToTurnsFacts
<1>4. sent = TrimByToken(T, budget)
  BY DEF Apply, F
<1> HIDE DEF T
<1>5. /\ sent \in Seq(Message) /\ q <= Len(T)
      /\ \A j \in 2..q : sent[j] = T[Len(T) - q + j]
      /\ Len(T) > 0 /\ T[Len(T)].role = "user" => q > 0 /\ IsEndOf(sent, T)
  <2> DEFINE R == TrimByToken(T, budget)
  <2>1. /\ R \in Seq(Message) /\ Len(R) <= Len(T)
        /\ \A j \in 2..Len(R) : R[j] = T[Len(T) - Len(R) + j]
        /\ Len(T) > 0 /\ T[Len(T)].role = "user" => Len(R) > 0 /\ IsEndOf(R, T)
    BY <1>3, TrimByTokenFacts
  <2>2. R = sent
    BY <1>4
  <2> HIDE DEF R, sent
  <2>3. QED BY <2>1, <2>2
<1> HIDE DEF sent
<1>6. p \in Nat /\ Len(T) \in Nat /\ q \in Nat /\ Len(T) <= p /\ q <= p
  BY <1>2, <1>3, <1>5, MessagesFacts DEF IsEndOf
<1>7. p <= n
  <2>1. CASE p = 0
    BY <1>1, <2>1
  <2>2. CASE p > 0
    <3>1. 1 \in 1..p
      BY <1>6, <2>2
    <3>2. PICK i \in 1..n : p - 1 <= n - i
      BY <1>2, <3>1
    <3>3. QED BY <1>1, <1>6, <3>2
  <2>3. QED BY <1>6, <2>1, <2>2
<1>8. q <= n
  BY <1>1, <1>6, <1>7
<1>9. ASSUME NEW j \in 2..q
      PROVE  sent[j] = F[p - q + j]
  <2> DEFINE k == Len(T) - q + j
  <2>1. k \in 1..Len(T) /\ p - Len(T) + k = p - q + j
    BY <1>5, <1>6
  <2>2. T[k] = F[p - Len(T) + k]
    BY <1>3, <2>1 DEF IsEndOf
  <2>3. QED BY <1>5, <2>1, <2>2
<1>10. ASSUME NEW k \in 1..p, k > p - q, k > p - q + 1 \/ IsEndOf(sent, F)
       PROVE  F[k].id # 0 => F[k].id \in Ids(sent)
  <2> DEFINE j == k - (p - q)
  <2>1. j \in 1..q /\ p - q + j = k
    BY <1>6, <1>10
  <2>2. sent[j] = F[k]
    <3>1. CASE IsEndOf(sent, F)
      BY <2>1, <3>1 DEF IsEndOf
    <3>2. CASE k > p - q + 1
      <4>1. j \in 2..q
        BY <1>6, <2>1, <3>2
      <4>2. QED BY <1>9, <2>1, <4>1
    <3>3. QED BY <1>10, <3>1, <3>2
  <2> HIDE DEF j
  <2>3. QED BY <1>5, <2>1, <2>2, IdsFacts
<1>11. ASSUME NEW i \in 1..n, i <= n - q
       PROVE  full[i].id # 0 => full[i].id \in Ids(CutMessages(full, sent))
  BY <1>5, <1>8, <1>11, CutFacts
<1>12. CASE full[n].size > 0
  <2>1. p > 0 /\ F[p] = full[n] /\ Len(T) > 0
    BY <1>2, <1>3, <1>12
  <2>2. T[Len(T)] = F[p]
    <3>1. Len(T) \in 1..Len(T) /\ p - Len(T) + Len(T) = p
      BY <1>6, <2>1
    <3>2. QED BY <1>3, <3>1 DEF IsEndOf
  <2>3. q > 0 /\ IsEndOf(sent, T)
    BY <1>1, <1>5, <2>1, <2>2
  <2>4. IsEndOf(sent, F)
    BY <1>2, <1>3, <1>5, <2>3, EndOfEnd
  <2>5. full[n].id \in Ids(sent)
    <3>1. p \in 1..p /\ p > p - q
      BY <1>6, <2>1, <2>3
    <3>2. QED BY <1>1, <1>10, <2>1, <2>4, <3>1
  <2>6. ASSUME NEW k \in 1..p, F[k].id # 0
        PROVE  F[k].id \in Ids(sent) \cup Ids(CutMessages(full, sent))
    <3>1. CASE k > p - q
      BY <1>10, <2>4, <2>6, <3>1
    <3>2. CASE k <= p - q
      <4>1. PICK i \in 1..n : F[k] = full[i] /\ p - k <= n - i
        BY <1>2
      <4>2. i <= n - q
        BY <1>1, <1>6, <3>2, <4>1
      <4>3. QED BY <1>11, <2>6, <4>1, <4>2
    <3>3. QED BY <1>6, <3>1, <3>2
  <2>7. Ids(F) \subseteq Ids(sent) \cup Ids(CutMessages(full, sent))
    BY <1>2, <2>6, IdsFacts
  <2>8. Question(full) \subseteq Ids(sent)
    BY <1>1, <1>12, <2>5, QuestionFacts
  <2>9. QED BY <1>5, <1>8, <2>7, <2>8 DEF Covers, F, sent
<1>13. CASE full[n].size = 0
  <2>1. ASSUME NEW k \in 1..p, F[k].id # 0
        PROVE  F[k].id \in Ids(sent) \cup Ids(CutMessages(full, sent))
    <3>1. CASE k > p - q + 1
      <4>1. k > p - q
        BY <1>6, <3>1
      <4>2. QED BY <1>10, <2>1, <3>1, <4>1
    <3>2. CASE k <= p - q + 1
      <4>1. PICK i \in 1..n : F[k] = full[i] /\ p - k <= n - 1 - i
        BY <1>2, <1>13
      <4>2. i <= n - q
        BY <1>1, <1>6, <3>2, <4>1
      <4>3. QED BY <1>11, <2>1, <4>1, <4>2
    <3>3. QED BY <1>6, <3>1, <3>2
  <2>2. Ids(F) \subseteq Ids(sent) \cup Ids(CutMessages(full, sent))
    BY <1>2, <2>1, IdsFacts
  <2>3. Question(full) \subseteq Ids(sent)
    BY <1>13, QuestionFacts
  <2>4. QED BY <1>5, <1>8, <2>2, <2>3 DEF Covers, F, sent
<1>14. QED BY <1>1, <1>12, <1>13

(* ApplyWindow, for every number of turns and every budget: with none it     *)
(* leaves the list as it is.                                                 *)
LEMMA WindowCovers ==
  ASSUME NEW full \in Seq(Message), EndsAsking(full), NEW turns \in Int, NEW budget \in Nat
  PROVE  /\ ApplyWindow(full, turns, budget) \in Seq(Message)
         /\ Covers(full, ApplyWindow(full, turns, budget))
<1> DEFINE sent == ApplyWindow(full, turns, budget)
           n    == Len(full)
<1>1. /\ n \in Nat /\ n > 0 /\ n \in 1..n /\ full[n].role = "user" /\ full[n].id # 0
      /\ \A i \in 1..n : full[i].size \in Nat
  BY MessagesFacts DEF EndsAsking
<1>2. CASE turns < 0
  <2>1. sent = full
    BY <1>2 DEF ApplyWindow
  <2>2. Question(full) \subseteq Ids(full)
    BY <1>1, QuestionFacts, IdsFacts
  <2>3. Ids(FilterEmpty(full)) \subseteq Ids(full)
    <3>1. /\ FilterEmpty(full) \in Seq(Message)
          /\ \A k \in 1..Len(FilterEmpty(full)) : \E i \in 1..n : FilterEmpty(full)[k] = full[i]
      BY FilterEmptyFacts
    <3>2. \A x \in Ids(FilterEmpty(full)) :
            x # 0 /\ \E k \in 1..Len(FilterEmpty(full)) : FilterEmpty(full)[k].id = x
      BY <3>1, IdsFacts
    <3>3. \A x \in Ids(FilterEmpty(full)) : x # 0 /\ \E i \in 1..n : full[i].id = x
      BY <3>1, <3>2
    <3>4. QED BY <3>3, IdsFacts
  <2>4. QED BY <1>1, <2>1, <2>2, <2>3 DEF Covers
<1>3. CASE turns = 0
  <2>1. sent = Apply(full, 10, budget)
    BY <1>3 DEF ApplyWindow
  <2>2. QED BY <2>1, ApplyCovers
<1>4. CASE turns > 0
  <2>1. sent = Apply(full, turns, budget) /\ turns \in Nat \ {0}
    BY <1>4 DEF ApplyWindow
  <2>2. QED BY <2>1, ApplyCovers
<1>5. QED BY <1>2, <1>3, <1>4

-----------------------------------------------------------------------------
(* What a request in work has: the list ends with the question, the window     *)
(* covers it, a summary that succeeded has what was cut, and an edit has a row *)
(* that could be read.                                                         *)
GoodTalk(r) ==
  /\ r \in Talk
  /\ r.at \in {"gate", "answer", "summarise", "save"} =>
       EndsAsking(r.full) /\ Covers(r.full, r.sent)
  /\ r.at = "save" /\ r.whole => Ids(CutMessages(r.full, r.sent)) \subseteq r.summary
  /\ r.at = "edit" => r.row.is = "live"

TalksInv == \A t \in Speaker : GoodTalk(talk[t])

ConvInv == ConvTypeOK /\ TalksInv /\ EditsStay

LEMMA NoConvFacts == NoConv \in ConvRow
<1>1. <<>> \in Seq(Message) /\ {} \in SUBSET Nat
  OBVIOUS
<1>2. QED BY <1>1 DEF NoConv, ConvRow

LEMMA NoTalkFacts == NoTalk \in Talk /\ NoTalk.at = "idle" /\ GoodTalk(NoTalk)
<1>1. <<>> \in Seq(Message) /\ {} \in SUBSET Nat
  OBVIOUS
<1>2. NoTalk \in Talk /\ NoTalk.at = "idle"
  BY <1>1, NoConvFacts DEF NoTalk, Talk
<1>3. QED BY <1>2 DEF GoodTalk

LEMMA TalkFields ==
  ASSUME NEW r \in Talk
  PROVE  /\ r.row \in ConvRow /\ r.full \in Seq(Message) /\ r.sent \in Seq(Message)
         /\ r.summary \in SUBSET Nat /\ r.whole \in BOOLEAN
         /\ r.row.messages \in Seq(Message) /\ r.row.summary \in SUBSET Nat
<1>1. /\ r.row \in ConvRow /\ r.full \in Seq(Message) /\ r.sent \in Seq(Message)
      /\ r.summary \in SUBSET Nat /\ r.whole \in BOOLEAN
  BY DEF Talk
<1>2. \A c \in ConvRow : c.messages \in Seq(Message) /\ c.summary \in SUBSET Nat
  BY DEF ConvRow
<1>3. QED BY <1>1, <1>2

LEMMA RowFields ==
  ASSUME NEW c \in ConvRow
  PROVE  /\ c.is \in {"live", "garbled", "deleted"} /\ c.messages \in Seq(Message) /\ c.summary \in SUBSET Nat
         /\ \A m \in Seq(Message) : [c EXCEPT !.messages = m] \in ConvRow
         /\ \A m \in Seq(Message) : [c EXCEPT !.messages = m].is = c.is
         /\ [c EXCEPT !.is = "deleted"] \in ConvRow /\ [c EXCEPT !.is = "deleted"].is = "deleted"
BY DEF ConvRow

LEMMA TurnFacts ==
  ASSUME ConvTypeOK, NEW t \in Speaker, NEW r \in Talk, Turn(t, r)
  PROVE  /\ talk' \in [Speaker -> Talk] /\ talk'[t] = r
         /\ \A u \in Speaker : u # t => talk'[u] = talk[u]
BY DEF Turn, ConvTypeOK

(* A request goes on, and the row stays. *)
LEMMA TalkGoesOn ==
  ASSUME ConvInv, NEW t \in Speaker, NEW r, GoodTalk(r), Turn(t, r),
         UNCHANGED <<conv, put, emptied, lastAsked>>, lastId' \in Nat, talks' \in Nat
  PROVE  ConvInv'
<1>1. /\ talk' \in [Speaker -> Talk] /\ talk'[t] = r
      /\ \A u \in Speaker : u # t => talk'[u] = talk[u]
  BY TurnFacts DEF ConvInv, GoodTalk
<1>2. ConvTypeOK'
  BY <1>1 DEF ConvInv, ConvTypeOK
<1>3. TalksInv'
  BY <1>1 DEF ConvInv, TalksInv
<1>4. EditsStay'
  BY DEF ConvInv, EditsStay
<1>5. QED BY <1>2, <1>3, <1>4 DEF ConvInv

(* A request is given up.                                                    *)
LEMMA GivesUpKeeps ==
  ASSUME ConvInv, NEW t \in Speaker, GivesUp(t), UNCHANGED talks
  PROVE  ConvInv'
<1>1. GoodTalk(NoTalk) /\ Turn(t, NoTalk) /\ UNCHANGED <<conv, put, emptied, lastAsked>>
  BY NoTalkFacts DEF GivesUp, Over
<1>2. lastId' \in Nat /\ talks' \in Nat
  BY DEF GivesUp, ConvInv, ConvTypeOK
<1>3. QED BY <1>1, <1>2, TalkGoesOn

(* A goroutine writes the row. *)
LEMMA RowIsWritten ==
  ASSUME ConvInv, NEW t \in Speaker, Over(t), conv' \in ConvRow, put' \in Seq(Message),
         emptied' \in BOOLEAN, lastAsked' \subseteq Nat, UNCHANGED <<lastId, talks>>, EditsStay'
  PROVE  ConvInv'
<1>1. /\ talk' \in [Speaker -> Talk] /\ talk'[t] = NoTalk
      /\ \A u \in Speaker : u # t => talk'[u] = talk[u]
  BY TurnFacts, NoTalkFacts DEF ConvInv, Over
<1>2. ConvTypeOK'
  BY <1>1 DEF ConvInv, ConvTypeOK
<1>3. TalksInv'
  BY <1>1, NoTalkFacts DEF ConvInv, TalksInv
<1>4. QED BY <1>2, <1>3 DEF ConvInv

LEMMA SaidFacts ==
  ASSUME NEW role \in MessageRoles, NEW id \in Nat, NEW size \in Nat
  PROVE  /\ Said(role, id, size) \in Message /\ Said(role, id, size).role = role
         /\ Said(role, id, size).id = id
BY DEF Said, Message

(* What a client sends ends with a question that has an id.                  *)
LEMMA IncomingFacts ==
  ASSUME ConvTypeOK, NEW own \in Incoming
  PROVE  own \in Seq(Message) /\ Len(own) \in Nat /\ EndsAsking(own)
<1>1. lastId \in Nat /\ Size \subseteq Nat /\ {"user", "assistant"} \subseteq MessageRoles
  BY ConversationAssumption DEF ConvTypeOK, MessageRoles
<1>2. CASE \E n \in Size : own = <<Said("user", lastId + 1, n)>>
  <2>1. PICK n \in Size : own = <<Said("user", lastId + 1, n)>>
    BY <1>2
  <2>2. PICK m \in Message : m = Said("user", lastId + 1, n)
    BY <1>1, SaidFacts
  <2>3. m.role = "user" /\ m.id = lastId + 1
    BY <2>2 DEF Said
  <2>4. own = <<m>>
    BY <2>1, <2>2
  <2>5. own \in Seq(Message) /\ Len(own) = 1 /\ own[1] = m
    BY <2>4
  <2>6. QED BY <1>1, <2>3, <2>5 DEF EndsAsking
<1>3. CASE \E n \in Size : own = <<Said("user", lastId + 1, n), Said("assistant", lastId + 2, 1),
                                   Said("user", lastId + 3, n)>>
  <2>1. PICK n \in Size : own = <<Said("user", lastId + 1, n), Said("assistant", lastId + 2, 1),
                                   Said("user", lastId + 3, n)>>
    BY <1>3
  <2>2. PICK a \in Message : a = Said("user", lastId + 1, n)
    BY <1>1, SaidFacts
  <2>3. PICK b \in Message : b = Said("assistant", lastId + 2, 1)
    BY <1>1, SaidFacts
  <2>4. PICK c \in Message : c = Said("user", lastId + 3, n)
    BY <1>1, SaidFacts
  <2>5. c.role = "user" /\ c.id = lastId + 3
    BY <2>4 DEF Said
  <2>6. own = <<a, b, c>>
    BY <2>1, <2>2, <2>3, <2>4
  <2>7. own \in Seq(Message) /\ Len(own) = 3 /\ own[3] = c
    BY <2>6
  <2>8. QED BY <1>1, <2>5, <2>7 DEF EndsAsking
<1>4. QED BY <1>2, <1>3 DEF Incoming

(* So does the list made of it.                                              *)
LEMMA FullFacts ==
  ASSUME NEW row \in ConvRow, NEW blocks \in Nat, NEW own \in Seq(Message), EndsAsking(own)
  PROVE  FullMessages(row, blocks, own) \in Seq(Message) /\ EndsAsking(FullMessages(row, blocks, own))
<1> DEFINE n    == blocks + IF row.summary = {} THEN 0 ELSE 1
           head == [i \in 1..n |-> System]
           body == head \o row.messages
           full == body \o own
<1>1. n \in Nat /\ System \in Message /\ row.messages \in Seq(Message)
  <2>1. System \in Message
    BY SaidFacts DEF System, MessageRoles
  <2>2. n \in Nat
    <3>1. CASE row.summary = {}
      BY <3>1
    <3>2. CASE row.summary # {}
      BY <3>2
    <3>3. QED BY <3>1, <3>2
  <2>3. QED BY <2>1, <2>2, RowFields
<1> HIDE DEF n
<1>2. head \in Seq(Message)
  BY <1>1
<1> HIDE DEF head
<1>3. body \in Seq(Message) /\ Len(body) \in Nat
  BY <1>1, <1>2, ConcatProperties, MessagesFacts
<1> HIDE DEF body
<1>4. /\ full \in Seq(Message) /\ Len(full) = Len(body) + Len(own)
      /\ \A i \in 1..(Len(body) + Len(own)) :
           full[i] = IF i <= Len(body) THEN body[i] ELSE own[i - Len(body)]
  BY <1>3, ConcatProperties
<1>5. full = FullMessages(row, blocks, own)
  BY DEF FullMessages, body, head, n
<1> HIDE DEF full
<1>6. Len(own) \in Nat /\ Len(own) > 0
  BY MessagesFacts DEF EndsAsking
<1>7. full[Len(full)] = own[Len(own)]
  BY <1>3, <1>4, <1>6
<1>8. EndsAsking(full)
  BY <1>3, <1>4, <1>6, <1>7 DEF EndsAsking
<1>9. QED BY <1>4, <1>5, <1>8

(* What an update with a map leaves is a row; with two messages or more it is  *)
(* the row that was there.                                                     *)
LEMMA MapUpdateFacts ==
  ASSUME NEW c \in ConvRow, NEW m \in Seq(Message), NEW s \in SUBSET Nat
  PROVE  /\ MapUpdate(c, m, s) \in ConvRow
         /\ Len(m) > 1 => MapUpdate(c, m, s) = c
<1>1. PICK n \in Nat : Len(m) = n
  BY MessagesFacts
<1>2. CASE n = 0
  <2>1. MapUpdate(c, m, s) = [is |-> "live", messages |-> <<>>, summary |-> s]
    BY <1>1, <1>2 DEF MapUpdate
  <2>2. ~(n > 1)
    BY <1>2
  <2>3. QED BY <1>1, <2>1, <2>2 DEF ConvRow
<1>3. CASE n = 1
  <2>1. MapUpdate(c, m, s) = [is |-> "garbled", messages |-> m, summary |-> s]
    BY <1>1, <1>3 DEF MapUpdate
  <2>2. ~(n > 1)
    BY <1>3
  <2>3. QED BY <1>1, <2>1, <2>2 DEF ConvRow
<1>4. CASE n # 0 /\ n # 1
  <2>1. MapUpdate(c, m, s) = c
    BY <1>1, <1>4 DEF MapUpdate
  <2>2. QED BY <2>1
<1>5. QED BY <1>2, <1>3, <1>4

(* If no fewer messages are sent than there are, none is cut.                *)
LEMMA NothingCut ==
  ASSUME NEW full \in Seq(Message), NEW sent \in Seq(Message), Len(full) <= Len(sent)
  PROVE  CutMessages(full, sent) = <<>>
<1> DEFINE d == Len(full) - Len(sent)
<1>1. d \in Int /\ d < 1
  BY MessagesFacts
<1>2. CutMessages(full, sent) = SubSeq(full, 1, d)
  BY DEF CutMessages
<1> HIDE DEF d
<1>3. QED BY <1>1, <1>2, SubSeqEmpty

LEMMA CutIds ==
  ASSUME NEW full \in Seq(Message), NEW sent \in Seq(Message), Len(sent) <= Len(full)
  PROVE  Ids(CutMessages(full, sent)) \subseteq Nat
<1> DEFINE d == Len(full) - Len(sent)
<1>1. d \in Nat /\ \A j \in 1..d : full[j] \in Message
  BY MessagesFacts
<1>2. SubSeq(full, 1, d) \in Seq(Message)
  BY <1>1, SubSeqProperties
<1>3. QED BY <1>2, IdsFacts DEF CutMessages

(* A turn begins: what it sends covers its list.                             *)
LEMMA ChatKeeps == ASSUME ConvInv, NEW t \in Speaker, ChatStream(t), talks' \in Nat PROVE ConvInv'
<1>1. ConvTypeOK /\ conv \in ConvRow /\ lastId \in Nat
  BY DEF ConvInv, ConvTypeOK
<1>2. PICK own \in Incoming, turns \in Turns, budget \in Budget,
           notes \in Notes, fragments \in Fragments, row \in FoundRow :
        LET full == FullMessages(row, notes + fragments, own)
        IN /\ Turn(t, [NoTalk EXCEPT !.at = "gate", !.row = row,
                         !.full = full, !.sent = ApplyWindow(full, turns, budget)])
           /\ lastId' = lastId + Len(own)
  BY DEF ChatStream
<1> DEFINE full == FullMessages(row, notes + fragments, own)
           sent == ApplyWindow(full, turns, budget)
           r    == [NoTalk EXCEPT !.at = "gate", !.row = row, !.full = full, !.sent = sent]
<1>3. own \in Seq(Message) /\ Len(own) \in Nat /\ EndsAsking(own)
  BY <1>1, IncomingFacts
<1>4. row \in ConvRow /\ notes + fragments \in Nat /\ turns \in Int /\ budget \in Nat
  <2>1. row \in ConvRow
    BY <1>1, NoConvFacts DEF FoundRow
  <2>2. notes \in {0, 1} /\ fragments \in {0, 1} /\ turns \in Int /\ budget \in Nat
    BY ConversationAssumption DEF Notes, Fragments
  <2>3. QED BY <2>1, <2>2
<1>5. full \in Seq(Message) /\ EndsAsking(full)
  BY <1>3, <1>4, FullFacts
<1>6. Turn(t, r) /\ lastId' \in Nat
  BY <1>1, <1>2, <1>3
<1> HIDE DEF full
<1>7. sent \in Seq(Message) /\ Covers(full, sent)
  BY <1>4, <1>5, WindowCovers
<1> HIDE DEF sent
<1>8. r \in Talk /\ r.at = "gate" /\ r.full = full /\ r.sent = sent /\ r.row = row
  BY <1>4, <1>5, <1>7, NoTalkFacts DEF NoTalk, Talk
<1> HIDE DEF r
<1>9. GoodTalk(r)
  BY <1>5, <1>7, <1>8 DEF GoodTalk
<1>10. UNCHANGED <<conv, put, emptied, lastAsked>>
  BY DEF ChatStream
<1>11. QED BY <1>6, <1>9, <1>10, TalkGoesOn

LEMMA GateKeeps == ASSUME ConvInv, NEW t \in Speaker, Gate(t), UNCHANGED talks PROVE ConvInv'
<1>1. talk[t].at = "gate" /\ UNCHANGED <<conv, lastId, put, emptied, lastAsked>>
  BY DEF Gate
<1>2. CASE Over(t)
  BY <1>1, <1>2, GivesUpKeeps DEF GivesUp
<1>3. CASE Turn(t, [talk[t] EXCEPT !.at = "answer"])
  <2> DEFINE r == [talk[t] EXCEPT !.at = "answer"]
  <2>1. talk[t] \in Talk /\ GoodTalk(talk[t]) /\ lastId' \in Nat /\ talks' \in Nat
    BY <1>1 DEF ConvInv, ConvTypeOK, TalksInv
  <2>2. /\ r \in Talk /\ r.at = "answer" /\ r.full = talk[t].full /\ r.sent = talk[t].sent
        /\ r.row = talk[t].row
    BY <2>1 DEF Talk
  <2>3. Turn(t, r)
    BY <1>3
  <2> HIDE DEF r
  <2>4. GoodTalk(r)
    BY <1>1, <2>1, <2>2 DEF GoodTalk
  <2>5. QED BY <1>1, <2>1, <2>3, <2>4, TalkGoesOn
<1>4. QED BY <1>2, <1>3 DEF Gate

(* The answer is there: where nothing was cut, there is nothing to sum up.   *)
LEMMA AnswersKeeps ==
  ASSUME ConvInv, NEW t \in Speaker, ModelAnswers(t), UNCHANGED talks
  PROVE  ConvInv'
<1> DEFINE a == IF Len(talk[t].full) > Len(talk[t].sent) THEN "summarise" ELSE "save"
           r == [talk[t] EXCEPT !.at = a, !.summary = talk[t].row.summary]
<1>1. /\ talk[t].at = "answer" /\ Turn(t, r)
      /\ UNCHANGED <<conv, lastId, put, emptied, lastAsked>>
  BY DEF ModelAnswers
<1>2. talk[t] \in Talk /\ GoodTalk(talk[t]) /\ lastId' \in Nat /\ talks' \in Nat
  BY <1>1 DEF ConvInv, ConvTypeOK, TalksInv
<1>3. talk[t].row.summary \in SUBSET Nat
  BY <1>2, TalkFields
<1>4. a \in {"summarise", "save"} /\ (a = "save" => Len(talk[t].full) <= Len(talk[t].sent))
  <2>1. Len(talk[t].full) \in Nat /\ Len(talk[t].sent) \in Nat
    BY <1>2, TalkFields, MessagesFacts
  <2>2. QED BY <2>1
<1> HIDE DEF a
<1>5. /\ r \in Talk /\ r.at = a /\ r.full = talk[t].full /\ r.sent = talk[t].sent
      /\ r.row = talk[t].row
  BY <1>2, <1>3, <1>4 DEF Talk
<1> HIDE DEF r
<1>6. a = "save" => Ids(CutMessages(talk[t].full, talk[t].sent)) = {}
  <2>1. ASSUME a = "save"
        PROVE  CutMessages(talk[t].full, talk[t].sent) = <<>>
    <3>1. Len(talk[t].full) <= Len(talk[t].sent)
      BY <1>4, <2>1
    <3>2. talk[t].full \in Seq(Message) /\ talk[t].sent \in Seq(Message)
      BY <1>2, TalkFields
    <3>3. QED BY <3>1, <3>2, NothingCut
  <2>2. Ids(<<>>) = {}
    BY DEF Ids
  <2>3. QED BY <2>1, <2>2
<1>7. GoodTalk(r)
  BY <1>1, <1>2, <1>4, <1>5, <1>6 DEF GoodTalk
<1>8. QED BY <1>1, <1>2, <1>7, TalkGoesOn

(* A summary that succeeds has the ids of what was cut.                      *)
LEMMA SummariseKeeps ==
  ASSUME ConvInv, NEW t \in Speaker, Summarise(t), UNCHANGED talks
  PROVE  ConvInv'
<1> DEFINE cut == Ids(CutMessages(talk[t].full, talk[t].sent))
<1>1. talk[t].at = "summarise" /\ UNCHANGED <<conv, lastId, put, emptied, lastAsked>>
  BY DEF Summarise
<1>2. talk[t] \in Talk /\ GoodTalk(talk[t]) /\ lastId' \in Nat /\ talks' \in Nat
  BY <1>1 DEF ConvInv, ConvTypeOK, TalksInv
<1>3. ASSUME NEW r \in Talk, Turn(t, r), r.at = "save", r.full = talk[t].full,
             r.sent = talk[t].sent, r.row = talk[t].row, r.whole => cut \subseteq r.summary
      PROVE  ConvInv'
  <2>1. GoodTalk(r)
    BY <1>1, <1>2, <1>3 DEF GoodTalk
  <2>2. QED BY <1>1, <1>2, <1>3, <2>1, TalkGoesOn
<1>4. CASE Turn(t, [talk[t] EXCEPT !.at = "save",
                      !.summary = @ \cup Ids(CutMessages(talk[t].full, talk[t].sent))])
  <2> DEFINE s == talk[t].summary \cup cut
             r == [talk[t] EXCEPT !.at = "save", !.summary = s]
  <2>1. Turn(t, r)
    BY <1>4
  <2>2. s \in SUBSET Nat /\ cut \subseteq s
    <3>1. talk[t].full \in Seq(Message) /\ talk[t].sent \in Seq(Message)
          /\ talk[t].summary \in SUBSET Nat
      BY <1>2, TalkFields
    <3>2. Covers(talk[t].full, talk[t].sent)
      BY <1>1, <1>2 DEF GoodTalk
    <3>3. cut \subseteq Nat
      BY <3>1, <3>2, CutIds DEF Covers
    <3> HIDE DEF cut
    <3>4. QED BY <3>1, <3>3
  <2> HIDE DEF cut, s
  <2>3. /\ r \in Talk /\ r.at = "save" /\ r.full = talk[t].full /\ r.sent = talk[t].sent
        /\ r.row = talk[t].row /\ r.summary = s
    BY <1>2, <2>2 DEF Talk
  <2> HIDE DEF r
  <2>4. QED BY <1>3, <2>1, <2>2, <2>3 DEF cut
<1>5. CASE Turn(t, [talk[t] EXCEPT !.at = "save", !.whole = FALSE])
  <2> DEFINE r == [talk[t] EXCEPT !.at = "save", !.whole = FALSE]
  <2>1. Turn(t, r)
    BY <1>5
  <2>2. /\ r \in Talk /\ r.at = "save" /\ r.full = talk[t].full /\ r.sent = talk[t].sent
        /\ r.row = talk[t].row
    BY <1>2 DEF Talk
  <2>3. ~r.whole
    BY <1>2 DEF Talk
  <2> HIDE DEF r
  <2>4. QED BY <1>3, <2>1, <2>2, <2>3
<1>6. QED BY <1>4, <1>5 DEF Summarise

(* A turn that had read a history sends at least its question, unless that is  *)
(* empty: what it saves are two messages or more.                              *)
LEMMA TwoMessages ==
  ASSUME NEW r \in Talk, GoodTalk(r), r.at = "save", ~EmptyHanded(r)
  PROVE  Len(NewMessages(r)) > 1
<1>1. /\ r.row.messages \in Seq(Message) /\ r.sent \in Seq(Message)
      /\ r.row.messages # <<>> /\ Question(r.full) # {}
  BY TalkFields DEF EmptyHanded
<1>2. Question(r.full) \subseteq Ids(r.sent)
  BY DEF GoodTalk, Covers
<1>3. r.sent # <<>>
  <2>1. Ids(<<>>) = {}
    BY DEF Ids
  <2>2. QED BY <1>1, <1>2, <2>1
<1> DEFINE a == r.row.messages
           b == r.sent
<1>4. Len(a) \in Nat /\ Len(a) > 0 /\ Len(b) \in Nat /\ Len(b) > 0
  BY <1>1, <1>3, EmptySeq
<1>5. Len(a \o b) = Len(a) + Len(b)
  BY <1>1
<1>6. NewMessages(r) = a \o b
  BY DEF NewMessages
<1> HIDE DEF a, b
<1>7. QED BY <1>4, <1>5, <1>6

(* The update of a turn with a history and a question is refused.              *)
LEMMA SaveTurnKeeps ==
  ASSUME ConvInv, NEW t \in Speaker, SaveTurn(t), UNCHANGED talks
  PROVE  ConvInv'
<1> DEFINE m == NewMessages(talk[t])
           s == talk[t].summary
<1>1. /\ talk[t].at = "save" /\ conv.is # "deleted" /\ Over(t) /\ UNCHANGED <<lastId, put>>
      /\ conv' = MapUpdate(conv, m, s)
      /\ emptied' = (emptied \/ EmptyHanded(talk[t]))
      /\ lastAsked' = IF talk[t].row = conv THEN Question(talk[t].full) ELSE {}
  BY DEF SaveTurn
<1>2. /\ talk[t] \in Talk /\ GoodTalk(talk[t]) /\ conv \in ConvRow
      /\ put \in Seq(Message) /\ emptied \in BOOLEAN
  BY DEF ConvInv, ConvTypeOK, TalksInv
<1>3. /\ talk[t].row.messages \in Seq(Message) /\ talk[t].sent \in Seq(Message)
      /\ s \in SUBSET Nat
  BY <1>2, TalkFields
<1>4. m \in Seq(Message)
  BY <1>3, ConcatProperties DEF NewMessages
<1>5. ~EmptyHanded(talk[t]) => Len(m) > 1
  BY <1>1, <1>2, TwoMessages
<1>6. lastAsked' \subseteq Nat
  <2>1. Question(talk[t].full) \subseteq Ids(talk[t].sent)
    BY <1>1, <1>2 DEF GoodTalk, Covers
  <2>2. QED BY <1>1, <1>3, <2>1, IdsFacts
<1> HIDE DEF m, s
<1>7. conv' \in ConvRow /\ (~EmptyHanded(talk[t]) => conv' = conv)
  BY <1>1, <1>2, <1>3, <1>4, <1>5, MapUpdateFacts
<1>8. EditsStay'
  BY <1>1, <1>7 DEF ConvInv, EditsStay
<1>9. emptied' \in BOOLEAN
  BY <1>1, <1>2 DEF EmptyHanded
<1>10. QED BY <1>1, <1>2, <1>6, <1>7, <1>8, <1>9, RowIsWritten

(* An edit stores the row it has in hand.                                      *)
LEMMA SaveEditKeeps ==
  ASSUME ConvInv, NEW t \in Speaker, SaveEdit(t), UNCHANGED talks
  PROVE  ConvInv'
<1>1. /\ talk[t].at = "edit" /\ conv' = talk[t].row /\ Over(t) /\ UNCHANGED lastId
      /\ put' = talk[t].row.messages /\ emptied' = FALSE /\ lastAsked' = {}
  BY DEF SaveEdit
<1>2. talk[t] \in Talk /\ talk[t].row.is = "live"
  BY <1>1 DEF ConvInv, ConvTypeOK, TalksInv, GoodTalk
<1>3. conv' \in ConvRow /\ put' \in Seq(Message)
  BY <1>1, <1>2, TalkFields
<1>4. EditsStay'
  BY <1>1, <1>2 DEF EditsStay
<1>5. QED BY <1>1, <1>3, <1>4, RowIsWritten

LEMMA BeginEditKeeps ==
  ASSUME ConvInv, NEW t \in Speaker, BeginEdit(t), talks' \in Nat
  PROVE  ConvInv'
<1>1. ConvTypeOK /\ conv \in ConvRow /\ lastId \in Nat
  BY DEF ConvInv, ConvTypeOK
<1>2. PICK own \in Incoming \cup {<<>>} :
        /\ Turn(t, [NoTalk EXCEPT !.at = "edit", !.sent = own,
                      !.row = IF own = <<>> THEN conv ELSE [conv EXCEPT !.messages = own]])
        /\ lastId' = lastId + Len(own)
  BY DEF BeginEdit
<1> DEFINE row == IF own = <<>> THEN conv ELSE [conv EXCEPT !.messages = own]
           r   == [NoTalk EXCEPT !.at = "edit", !.sent = own, !.row = row]
<1>3. own \in Seq(Message) /\ Len(own) \in Nat
  <2>1. CASE own = <<>>
    BY <2>1
  <2>2. CASE own # <<>>
    BY <1>1, <2>2, IncomingFacts
  <2>3. QED BY <2>1, <2>2
<1>4. Turn(t, r) /\ lastId' \in Nat
  BY <1>1, <1>2, <1>3
<1>5. row \in ConvRow /\ row.is = "live"
  <2>1. conv.is = "live"
    BY DEF BeginEdit
  <2>2. QED BY <1>1, <1>3, <2>1, RowFields
<1>6. UNCHANGED <<conv, put, emptied, lastAsked>>
  BY DEF BeginEdit
<1> HIDE DEF row
<1>7. r \in Talk /\ r.at = "edit" /\ r.sent = own /\ r.row = row
  BY <1>3, <1>5, NoTalkFacts DEF NoTalk, Talk
<1> HIDE DEF r
<1>8. GoodTalk(r)
  BY <1>5, <1>7 DEF GoodTalk
<1>9. QED BY <1>4, <1>6, <1>8, TalkGoesOn

LEMMA DiscardKeeps ==
  ASSUME ConvInv, NEW t \in Speaker, Discard(t), talks' \in Nat
  PROVE  ConvInv'
<1>1. /\ conv' = [conv EXCEPT !.is = "deleted"] /\ lastAsked' = {}
      /\ UNCHANGED <<talk, lastId, put, emptied>>
  BY DEF Discard
<1>2. conv \in ConvRow
  BY DEF ConvInv, ConvTypeOK
<1>3. conv' \in ConvRow /\ conv'.is = "deleted"
  BY <1>1, <1>2, RowFields
<1>4. ConvTypeOK'
  BY <1>1, <1>3 DEF ConvInv, ConvTypeOK
<1>5. TalksInv'
  BY <1>1 DEF ConvInv, TalksInv
<1>6. EditsStay'
  BY <1>3 DEF EditsStay
<1>7. QED BY <1>4, <1>5, <1>6 DEF ConvInv

LEMMA ConversationInit == ConvInit => ConvInv
<1> SUFFICES ASSUME ConvInit PROVE ConvInv
  OBVIOUS
<1>1. PICK msgs \in {<<>>} \cup {<<Said("user", 1, n)>> : n \in Size} :
        conv = [is |-> "live", messages |-> msgs, summary |-> {}] /\ put = msgs
  BY DEF ConvInit
<1>2. msgs \in Seq(Message)
  <2>1. CASE msgs = <<>>
    BY <2>1
  <2>2. CASE \E n \in Size : msgs = <<Said("user", 1, n)>>
    <3>1. PICK n \in Size : msgs = <<Said("user", 1, n)>>
      BY <2>2
    <3>2. Said("user", 1, n) \in Message
      BY SaidFacts, ConversationAssumption DEF MessageRoles
    <3>3. QED BY <3>1, <3>2
  <2>3. QED BY <2>1, <2>2
<1>3. conv \in ConvRow /\ conv.is = "live" /\ conv.messages = msgs
  BY <1>1, <1>2 DEF ConvRow
<1>4. ConvTypeOK
  BY <1>1, <1>2, <1>3, NoTalkFacts DEF ConvInit, ConvTypeOK
<1>5. TalksInv
  BY NoTalkFacts DEF ConvInit, TalksInv
<1>6. EditsStay
  BY <1>1, <1>3 DEF EditsStay
<1>7. QED BY <1>4, <1>5, <1>6 DEF ConvInv

(* Every step keeps the invariant.                                           *)
LEMMA ConversationStep == ConvInv /\ [ConvNext]_convVars => ConvInv'
<1> SUFFICES ASSUME ConvInv, [ConvNext]_convVars PROVE ConvInv'
  OBVIOUS
<1>1. CASE UNCHANGED convVars
  BY <1>1 DEF ConvInv, ConvTypeOK, TalksInv, EditsStay, convVars
<1>2. ASSUME NEW t \in Speaker, Opens(t)
      PROVE  ConvInv'
  <2>1. talks' \in Nat
    BY <1>2 DEF Opens, ConvInv, ConvTypeOK
  <2>2. QED BY <1>2, <2>1, ChatKeeps, BeginEditKeeps, DiscardKeeps DEF Opens
<1>3. ASSUME NEW t \in Speaker, Continues(t)
      PROVE  ConvInv'
  <2>1. UNCHANGED talks
    BY <1>3 DEF Continues
  <2>2. CASE ModelFails(t)
    BY <2>1, <2>2, GivesUpKeeps DEF ModelFails
  <2>3. CASE SaveFails(t)
    BY <2>1, <2>3, GivesUpKeeps DEF SaveFails
  <2>4. QED BY <1>3, <2>1, <2>2, <2>3, GateKeeps, AnswersKeeps, SummariseKeeps, SaveTurnKeeps,
               SaveEditKeeps DEF Continues
<1>4. QED BY <1>1, <1>2, <1>3 DEF ConvNext

LEMMA ConversationInvariant == ConvSpec => []ConvInv
<1>1. QED BY ConversationInit, ConversationStep, PTL DEF ConvSpec

(* Every variable of a conversation keeps its type. *)
THEOREM ConvTypeCorrect == ConvSpec => []ConvTypeOK
<1>1. ConvInv => ConvTypeOK
  BY DEF ConvInv
<1>2. QED BY <1>1, ConversationInvariant, PTL

(* What Create or an edit stored last is what the row has, however many turns  *)
(* are answered and saved meanwhile and whatever they had read, unless one had *)
(* found no history or asked nothing: every window leaves the question in what *)
(* is sent (window.go), so that a turn with a history saves a list of two or   *)
(* more, and such an update is refused (conversation.go:271).                  *)
THEOREM EditsStayHolds == ConvSpec => []EditsStay
<1>1. ConvInv => EditsStay
  BY DEF ConvInv
<1>2. QED BY <1>1, ConversationInvariant, PTL

(* What a turn saves, it sent to the model or has in the summary, unless the   *)
(* summary failed: as many messages are summed up from the front as were cut,  *)
(* and with empty messages in between, and the user's last message saved from  *)
(* the cut, these are enough (handler.go:383, window.go).                      *)
THEOREM NothingForgottenHolds == ConvSpec => []NothingForgotten
<1>1. ConvInv => NothingForgotten
  <2>1. ASSUME ConvInv, NEW t \in Speaker, talk[t].at = "save", talk[t].whole
        PROVE  Ids(FilterEmpty(talk[t].full)) \subseteq Ids(talk[t].sent) \cup talk[t].summary
    <3>1. GoodTalk(talk[t])
      BY <2>1 DEF ConvInv, TalksInv
    <3>2. QED BY <2>1, <3>1 DEF GoodTalk, Covers
  <2>2. QED BY <2>1 DEF NothingForgotten
<1>2. QED BY <1>1, ConversationInvariant, PTL

-----------------------------------------------------------------------------
(* All of them. *)

(* A step of the platform is one of one component, and the others stay. *)
LEMMA PlatformStep ==
  ASSUME [PlatformNext]_platformVars
  PROVE  /\ [PromptNext]_promptVars /\ [AccountNext]_accountVars /\ [RoleNext]_roleVars
         /\ [ResetNext]_resetVars /\ [ProviderNext]_providerVars /\ [ConvNext]_convVars
         /\ [RegistryNext]_registryVars /\ [EvalNext]_evalVars /\ [LoopNext]_loopVars
<1>1. CASE UNCHANGED platformVars
  BY <1>1 DEF platformVars
<1>2. CASE PlatformNext
  BY <1>2 DEF PlatformNext, Only
<1>3. QED BY <1>1, <1>2

LEMMA PlatformStart ==
  ASSUME PlatformInit
  PROVE  /\ PromptInit /\ AccountInit /\ RoleInit /\ ResetInit /\ ProviderInit /\ ConvInit
         /\ RegistryInit /\ EvalInit /\ LoopInit
BY DEF PlatformInit

(* In a behaviour of the platform each component behaves as it does alone. *)
LEMMA PlatformHasAll ==
  PlatformSpec => /\ PromptSpec /\ AccountSpec /\ RoleSpec /\ ResetSpec /\ ProviderSpec
                  /\ ConvSpec /\ RegistrySpec /\ EvalSpec /\ LoopSpec
<1>1. PlatformSpec => PromptSpec
  BY PlatformStart, PlatformStep, PTL DEF PlatformSpec, PromptSpec
<1>2. PlatformSpec => AccountSpec
  BY PlatformStart, PlatformStep, PTL DEF PlatformSpec, AccountSpec
<1>3. PlatformSpec => RoleSpec
  BY PlatformStart, PlatformStep, PTL DEF PlatformSpec, RoleSpec
<1>4. PlatformSpec => ResetSpec
  BY PlatformStart, PlatformStep, PTL DEF PlatformSpec, ResetSpec
<1>5. PlatformSpec => ProviderSpec
  BY PlatformStart, PlatformStep, PTL DEF PlatformSpec, ProviderSpec
<1>6. PlatformSpec => ConvSpec
  BY PlatformStart, PlatformStep, PTL DEF PlatformSpec, ConvSpec
<1>7. PlatformSpec => RegistrySpec
  BY PlatformStart, PlatformStep, PTL DEF PlatformSpec, RegistrySpec
<1>8. PlatformSpec => EvalSpec
  BY PlatformStart, PlatformStep, PTL DEF PlatformSpec, EvalSpec
<1>9. PlatformSpec => LoopSpec
  BY PlatformStart, PlatformStep, PTL DEF PlatformSpec, LoopSpec
<1>10. QED BY <1>1, <1>2, <1>3, <1>4, <1>5, <1>6, <1>7, <1>8, <1>9

(* Every variable of the platform keeps its type: of the nine components, each *)
(* for itself, whatever the others do between its steps.                       *)
THEOREM PlatformTypeCorrect == PlatformSpec => []TypeOK
<1>1. PlatformSpec => /\ []PromptTypeOK /\ []AccountTypeOK /\ []RoleTypeOK /\ []ResetTypeOK
                      /\ []ProviderTypeOK /\ []ConvTypeOK /\ []RegistryTypeOK /\ []EvalTypeOK
                      /\ []LoopTypeOK
  BY PlatformHasAll, PromptTypeCorrect, AccountTypeCorrect, RoleTypeCorrect, ResetTypeCorrect,
     ProviderTypeCorrect, ConvTypeCorrect, RegistryTypeCorrect, EvalTypeCorrect, LoopTypeCorrect
<1>2. /\ PromptTypeOK /\ AccountTypeOK /\ RoleTypeOK /\ ResetTypeOK /\ ProviderTypeOK
      /\ ConvTypeOK /\ RegistryTypeOK /\ EvalTypeOK /\ LoopTypeOK
      => TypeOK
  BY DEF TypeOK
<1>3. QED BY <1>1, <1>2, PTL

(* What the components promise one by one they promise together: in every      *)
(* reachable state of the platform the safety properties of the nine hold, and *)
(* every resolution of a prompt answers with what was current.                 *)
THEOREM PlatformPromisesHold ==
  PlatformSpec =>
    /\ []PromptsStand /\ []NamesOwnVersions /\ ResolvedWasCurrent
    /\ []NamesKept /\ []RemovedAreFreed
    /\ []GrantsAreAsked
    /\ []TokensSingle /\ []LockoutsEnd
    /\ []DefaultIsChosen
    /\ []EditsStay /\ []NothingForgotten
    /\ []RegistryFollowsRows
    /\ []RunsAccounted
    /\ []LoopsMean
BY PlatformHasAll, PromptsStandHolds, NamesOwnVersionsHolds, ResolvedWasCurrentHolds,
   NamesKeptHolds, RemovedAreFreedHolds, GrantsAreAskedHolds, TokensSingleHolds, LockoutsEndHolds,
   DefaultIsChosenHolds, EditsStayHolds, NothingForgottenHolds,
   RegistryFollowsRowsHolds, RunsAccountedHolds, LoopsMeanHolds
==============================================================================
