----------------------------- MODULE Quota_proofs ------------------------------
(***************************************************************************)
(* Theorems about Quota, for every set of callers, costs and policies and  *)
(* every calendar.                                                         *)
(***************************************************************************)
EXTENDS Quota, FiniteSetTheorems, TLAPS

USE PolicyAssumption, CalendarAssumption, CallAssumption

(* What the resolution of a policy returns is a policy. *)
LEMMA ResolvedType ==
  ASSUME global \in Policies, override \in SUBSET Policy
  PROVE  Resolved \in Policy
<1>1. CASE override = {}
  BY <1>1 DEF Resolved, Policy
<1>2. CASE override # {}
  <2>1. (CHOOSE p \in override : TRUE) \in Policy
    BY <1>2
  <2>2. QED BY <1>2, <2>1 DEF Resolved, Policy
<1>3. QED BY <1>1, <1>2

(* So is what an insert makes of one. *)
LEMMA CreatedType ==
  ASSUME NEW p \in Policy
  PROVE  AsCreated(p) \in Policy
<1>1. /\ p.rpm \in Nat /\ p.dailyReq \in Nat
      /\ p.dailyTok \in Nat /\ p.monthTok \in Nat
  BY DEF Policy
<1>2. QED BY <1>1 DEF AsCreated, Policy

(* The callers a condition selects are finitely many. *)
LEMMA CountType ==
  ASSUME NEW S \in SUBSET Caller
  PROVE  IsFiniteSet(S) /\ Cardinality(S) \in Nat
BY FS_Subset, FS_CardinalityType

(* Adding a caller to a set of callers, or taking one out, changes its size   *)
(* by one.                                                                    *)
LEMMA CountAdd ==
  ASSUME NEW S \in SUBSET Caller, NEW c \in Caller, c \notin S
  PROVE  Cardinality(S \cup {c}) = Cardinality(S) + 1
BY CountType, FS_AddElement

LEMMA CountRemove ==
  ASSUME NEW S \in SUBSET Caller, NEW c \in S
  PROVE  Cardinality(S \ {c}) = Cardinality(S) - 1
<1>1. IsFiniteSet(S) BY CountType
<1>2. QED BY <1>1, FS_RemoveElement

-----------------------------------------------------------------------------
(* The variables of the model keep their types under every step. *)
THEOREM TypeCorrect == Spec => []TypeOK
<1>1. Init => TypeOK
  BY DEF Init, TypeOK, Pcs, Policy, Time
<1>2. TypeOK /\ [Next]_vars => TypeOK'
  <2> SUFFICES ASSUME TypeOK, [Next]_vars PROVE TypeOK'
    OBVIOUS
  <2> USE DEF TypeOK, Goto, Add
  <2>0. Resolved \in Policy
    BY ResolvedType
  <2>1. ASSUME NEW c \in Caller, Ask(c) PROVE TypeOK'
    BY <2>1 DEF Ask, policies, tokens, ledger, Pcs
  <2>2. ASSUME NEW c \in Caller, Allow(c) PROVE TypeOK'
    BY <2>2, <2>0 DEF Allow, policies, tokens, ledger, Pcs
  <2>3. ASSUME NEW c \in Caller, CheckTokens(c) PROVE TypeOK'
    BY <2>3 DEF CheckTokens, AfterRate, policies, tokens, ledger, Pcs
  <2>4. ASSUME NEW c \in Caller, CheckRate(c) PROVE TypeOK'
    BY <2>4 DEF CheckRate, AfterRate, policies, tokens, ledger, Pcs
  <2>5. ASSUME NEW c \in Caller, Charge(c) PROVE TypeOK'
    <3>1. Today(c) \in Day
      BY DEF Today
    <3>2. requests' \in [Day -> Int] /\ lost' \in [Day -> Nat]
      BY <2>5, <3>1 DEF Charge
    <3>3. charged' \in [Caller -> SUBSET Day]
      BY <2>5, <3>1 DEF Charge
    <3>4. pc' \in [Caller -> Pcs]
      BY <2>5 DEF Charge, Pcs
    <3>5. QED BY <2>5, <3>2, <3>3, <3>4 DEF Charge, policies, tokens
  <2>6. ASSUME NEW c \in Caller, Undo(c) PROVE TypeOK'
    BY <2>6 DEF Undo, Today, policies, tokens, ledger, Pcs
  <2>7. ASSUME NEW c \in Caller, NEW k \in Cost, Succeed(c, k) PROVE TypeOK'
    BY <2>7 DEF Succeed, policies, tokens, ledger, Pcs
  <2>8. ASSUME NEW c \in Caller, Fail(c) PROVE TypeOK'
    BY <2>8 DEF Fail, policies, tokens, ledger, Pcs
  <2>9. ASSUME NEW c \in Caller, RefundRequest(c) PROVE TypeOK'
    <3>1. DayOf[clock] \in Day
      OBVIOUS
    <3>2. requests' \in [Day -> Int] /\ lost' \in [Day -> Nat]
      BY <2>9, <3>1 DEF RefundRequest, Keep, GiveBack
    <3>3. crossed' \in [Day -> Nat] /\ unearned' \in [Day -> Nat]
      BY <2>9, <3>1 DEF RefundRequest, Keep, GiveBack
    <3>4. charged' \in [Caller -> SUBSET Day] /\ pc' \in [Caller -> Pcs]
      BY <2>9 DEF RefundRequest, Pcs
    <3>5. QED BY <2>9, <3>2, <3>3, <3>4 DEF RefundRequest, policies, tokens
  <2>10. ASSUME NEW c \in Caller, CommitDay(c) PROVE TypeOK'
    <3>1. DayOf[clock] \in Day /\ cost[c] \in Nat
      OBVIOUS
    <3>2. dayTok' \in [Day -> Nat]
      BY <2>10, <3>1 DEF CommitDay
    <3>3. QED BY <2>10, <3>2 DEF CommitDay, policies, ledger, Pcs
  <2>11. ASSUME NEW c \in Caller, CommitMonth(c) PROVE TypeOK'
    <3>1. MonthOf[at[c]] \in Month /\ cost[c] \in Nat
      OBVIOUS
    <3>2. monTok' \in [Month -> Nat]
      BY <2>11, <3>1 DEF CommitMonth
    <3>3. QED BY <2>11, <3>2 DEF CommitMonth, policies, ledger, Pcs
  <2>12. CASE NextMinute
    <3>1. clock' \in Time
      BY <2>12 DEF NextMinute, Time
    <3>2. QED BY <2>12, <3>1 DEF NextMinute, policies, tokens, ledger
  <2>13. ASSUME NEW p \in Policies, UpdateDefaultPolicy(p) \/ UpsertUserPolicy(p)
         PROVE  TypeOK'
    <3>1. p \in Policy /\ AsCreated(p) \in Policy
      BY CreatedType
    <3>2. global' \in Policies /\ override' \in SUBSET Policy
      BY <2>13, <3>1 DEF UpdateDefaultPolicy, UpsertUserPolicy
    <3>3. QED
      BY <2>13, <3>2 DEF UpdateDefaultPolicy, UpsertUserPolicy, Edit, tokens, ledger
  <2>14. CASE ClearUserPolicy
    BY <2>14 DEF ClearUserPolicy, Edit, tokens, ledger
  <2>15. CASE Crash
    <3>1. ASSUME NEW d \in Day
          PROVE  Cardinality({c \in Caller : d \in charged[c]
                     \/ (pc[c] = "undo" /\ d = Today(c))}) \in Nat
      BY CountType
    <3>2. lost' \in [Day -> Nat]
      BY <2>15, <3>1 DEF Crash
    <3>3. QED BY <2>15, <3>2 DEF Crash, policies, tokens, Pcs
  <2>16. CASE UNCHANGED vars
    BY <2>16 DEF vars, policies, tokens, ledger
  <2>17. QED
    BY <2>1, <2>2, <2>3, <2>4, <2>5, <2>6, <2>7, <2>8, <2>9, <2>10, <2>11,
       <2>12, <2>13, <2>14, <2>15, <2>16 DEF Next, CallStep
<1>3. QED BY <1>1, <1>2, PTL DEF Spec

-----------------------------------------------------------------------------
(* What a caller's own state says of its place in the call: at most one day is *)
(* charged and only while the model is called; a counter is touched only when  *)
(* its limit is set; and as long as no policy was edited, the policy a caller  *)
(* resolved is the one in force, so a limited call in progress is charged.     *)
Frame(c) ==
  /\ \A d, e \in charged[c] : d = e
  /\ pc[c] \notin {"call", "refund"} => charged[c] = {}
  /\ pc[c] = "charge" => rule[c].dailyReq > 0
  /\ edits = 0 /\ pc[c] \in {"tokens", "rate", "charge"} => rule[c] = Resolved
  /\ edits = 0 /\ Resolved.dailyReq > 0 /\ ~Unlimited(Resolved)
       /\ pc[c] \in {"call", "refund"} => charged[c] # {}

Frames == \A c \in Caller : Frame(c)

(* A step of one caller leaves the others' frames as they were. *)
LEMMA OthersKeep ==
  ASSUME TypeOK, Frames, NEW c \in Caller, NEW e \in Caller, e # c,
         UNCHANGED policies,
         pc'[e] = pc[e], rule'[e] = rule[e], charged'[e] = charged[e]
  PROVE  Frame(e)'
<1>1. Resolved' = Resolved
  BY DEF Resolved, policies
<1>2. QED BY <1>1 DEF Frames, Frame, policies, Unlimited

LEMMA FramesHold == Spec => []Frames
<1>1. Init => Frames
  BY DEF Init, Frames, Frame
<1>2. TypeOK /\ Frames /\ [Next]_vars => Frames'
  <2> SUFFICES ASSUME TypeOK, Frames, [Next]_vars, NEW e \in Caller
               PROVE  Frame(e)'
    BY DEF Frames
  <2> USE DEF Goto, Add
  <2>0. Resolved \in Policy /\ Resolved.dailyReq \in Nat
    BY ResolvedType DEF TypeOK, Policy
  <2>a. Frame(e)
    BY DEF Frames
  <2>r. UNCHANGED policies => Resolved' = Resolved
    BY DEF Resolved, policies
  <2>t. /\ pc \in [Caller -> Pcs] /\ rule \in [Caller -> Policy]
        /\ charged \in [Caller -> SUBSET Day]
    BY DEF TypeOK
  <2>1. ASSUME NEW c \in Caller, CallStep(c), e # c
        PROVE  Frame(e)'
    <3>1. UNCHANGED policies
      BY <2>1 DEF CallStep, Ask, Allow, CheckTokens, CheckRate, Charge, Undo,
                  Succeed, Fail, RefundRequest, CommitDay, CommitMonth
    <3>2. pc'[e] = pc[e]
      BY <2>1, <2>t DEF CallStep, Ask, Allow, CheckTokens, CheckRate, Charge, Undo,
                  Succeed, Fail, RefundRequest, CommitDay, CommitMonth
    <3>3. rule'[e] = rule[e]
      BY <2>1, <2>t DEF CallStep, Ask, Allow, CheckTokens, CheckRate, Charge, Undo,
                  Succeed, Fail, RefundRequest, CommitDay, CommitMonth
    <3>4. charged'[e] = charged[e]
      BY <2>1, <2>t DEF CallStep, Ask, Allow, CheckTokens, CheckRate, Charge, Undo,
                  Succeed, Fail, RefundRequest, CommitDay, CommitMonth, ledger
    <3>5. QED BY <2>1, <3>1, <3>2, <3>3, <3>4, OthersKeep
  <2>2. ASSUME Ask(e) PROVE Frame(e)'
    BY <2>2, <2>a, <2>r, <2>t DEF Ask, Frame, policies, ledger, Unlimited
  <2>3. ASSUME Allow(e) PROVE Frame(e)'
    BY <2>3, <2>a, <2>r, <2>t DEF Allow, Frame, policies, ledger, Unlimited
  <2>4. ASSUME CheckTokens(e) PROVE Frame(e)'
    <3>1. rule[e].dailyReq \in Nat
      BY <2>t DEF Policy
    <3>2. QED
      BY <2>4, <2>a, <2>r, <2>t, <3>1
         DEF CheckTokens, AfterRate, Frame, policies, ledger, Unlimited
  <2>5. ASSUME CheckRate(e) PROVE Frame(e)'
    <3>1. rule[e].dailyReq \in Nat
      BY <2>t DEF Policy
    <3>2. QED
      BY <2>5, <2>a, <2>r, <2>t, <3>1
         DEF CheckRate, AfterRate, Frame, policies, ledger, Unlimited
  <2>6. ASSUME Charge(e) PROVE Frame(e)'
    BY <2>6, <2>a, <2>r, <2>t DEF Charge, Frame, policies, Unlimited
  <2>7. ASSUME Undo(e) PROVE Frame(e)'
    BY <2>7, <2>a, <2>r, <2>t DEF Undo, Frame, policies, Unlimited
  <2>8. ASSUME NEW k \in Cost, Succeed(e, k) PROVE Frame(e)'
    BY <2>8, <2>a, <2>r, <2>t DEF Succeed, Frame, policies, Unlimited
  <2>9. ASSUME Fail(e) PROVE Frame(e)'
    BY <2>9, <2>a, <2>r, <2>t DEF Fail, Frame, policies, ledger, Unlimited
  <2>10. ASSUME RefundRequest(e) PROVE Frame(e)'
    BY <2>10, <2>a, <2>r, <2>t DEF RefundRequest, Frame, policies, Unlimited
  <2>11. ASSUME CommitDay(e) \/ CommitMonth(e) PROVE Frame(e)'
    BY <2>11, <2>a, <2>r, <2>t
       DEF CommitDay, CommitMonth, Frame, policies, ledger, Unlimited
  <2>12. CASE NextMinute
    BY <2>12, <2>a, <2>r DEF NextMinute, Frame, policies, ledger, Unlimited
  <2>13. ASSUME Edit PROVE Frame(e)'
    <3>1. edits' # 0
      BY <2>13 DEF Edit, TypeOK
    <3>2. QED BY <2>13, <2>a, <3>1 DEF Edit, Frame, ledger
  <2>14. CASE Crash
    BY <2>14, <2>a DEF Crash, Frame, policies
  <2>15. CASE UNCHANGED vars
    BY <2>15, <2>a, <2>r DEF vars, Frame, policies, ledger, Unlimited
  <2>16. QED
    BY <2>1, <2>2, <2>3, <2>4, <2>5, <2>6, <2>7, <2>8, <2>9, <2>10, <2>11, <2>12,
       <2>13, <2>14, <2>15
       DEF Next, CallStep, UpdateDefaultPolicy, UpsertUserPolicy, ClearUserPolicy
<1>3. QED BY <1>1, <1>2, TypeCorrect, PTL DEF Spec

-----------------------------------------------------------------------------
(* A step that neither enters nor leaves a refusal changes no one's refusal. *)
LEMMA StillUndoing ==
  ASSUME TypeOK, NEW c \in Caller, NEW d \in Day, NEW p, p # "undo",
         pc[c] # "undo", pc' = [pc EXCEPT ![c] = p],
         \A e \in Caller \ {c} : at'[e] = at[e]
  PROVE  Undoing(d)' = Undoing(d)
BY DEF TypeOK, Undoing, Today

(* The books of one day. *)
Balanced(d) ==
  requests[d] = served[d] + Cardinality(Charged(d)) + Cardinality(Undoing(d))
                  + lost[d] - crossed[d] - unearned[d]

(* A caller enters the charge, is let through or refused. *)
LEMMA ChargeBalances ==
  ASSUME TypeOK, Frames, NEW c \in Caller, Charge(c), NEW d \in Day, Balanced(d)
  PROVE  Balanced(d)'
<1> USE DEF Goto, Add
<1>1. /\ requests \in [Day -> Int] /\ lost \in [Day -> Nat]
      /\ served[d] \in Nat /\ crossed[d] \in Nat /\ unearned[d] \in Nat
      /\ pc \in [Caller -> Pcs] /\ charged \in [Caller -> SUBSET Day]
      /\ Today(c) \in Day
  BY DEF TypeOK, Today
<1>2. UNCHANGED <<at, served, crossed, unearned>> /\ pc[c] = "charge"
  BY DEF Charge
<1>3. charged[c] = {}
  BY <1>2 DEF Frames, Frame
<1>4. Cardinality(Charged(d)) \in Nat /\ Cardinality(Undoing(d)) \in Nat
  BY CountType DEF Charged, Undoing
<1>5. CASE /\ requests' = Add(requests, Today(c), 1) /\ UNCHANGED lost
           /\ charged' = [charged EXCEPT ![c] = {Today(c)}] /\ Goto(c, "call")
  <2>1. Undoing(d)' = Undoing(d)
    BY <1>2, <1>5, StillUndoing
  <2>2. Charged(d)' = IF d = Today(c) THEN Charged(d) \cup {c} ELSE Charged(d)
    BY <1>1, <1>3, <1>5 DEF Charged
  <2>3. d = Today(c) => Cardinality(Charged(d) \cup {c}) = Cardinality(Charged(d)) + 1
    BY <1>3, CountAdd DEF Charged
  <2>4. requests'[d] = IF d = Today(c) THEN requests[d] + 1 ELSE requests[d]
    BY <1>1, <1>5
  <2>5. QED BY <1>1, <1>2, <1>4, <1>5, <2>1, <2>2, <2>3, <2>4 DEF Balanced
<1>6. CASE /\ requests' = Add(requests, Today(c), 1) /\ UNCHANGED lost
           /\ UNCHANGED charged /\ Goto(c, "undo")
  <2>1. Charged(d)' = Charged(d)
    BY <1>6 DEF Charged
  <2>2. Undoing(d)' = IF d = Today(c) THEN Undoing(d) \cup {c} ELSE Undoing(d)
    BY <1>1, <1>2, <1>6 DEF Undoing, Today
  <2>3. d = Today(c) => Cardinality(Undoing(d) \cup {c}) = Cardinality(Undoing(d)) + 1
    BY <1>2, CountAdd DEF Undoing
  <2>4. requests'[d] = IF d = Today(c) THEN requests[d] + 1 ELSE requests[d]
    BY <1>1, <1>6
  <2>5. QED BY <1>1, <1>2, <1>4, <1>6, <2>1, <2>2, <2>3, <2>4 DEF Balanced
<1>7. CASE UNCHANGED <<requests, lost, charged>> /\ Goto(c, "idle")
  <2>1. Charged(d)' = Charged(d) /\ Undoing(d)' = Undoing(d)
    BY <1>2, <1>7, StillUndoing DEF Charged
  <2>2. QED BY <1>2, <1>7, <2>1 DEF Balanced
<1>8. CASE /\ requests' = Add(requests, Today(c), 1)
           /\ lost' = Add(lost, Today(c), 1)
           /\ UNCHANGED charged /\ Goto(c, "idle")
  <2>1. Charged(d)' = Charged(d) /\ Undoing(d)' = Undoing(d)
    BY <1>2, <1>8, StillUndoing DEF Charged
  <2>2. /\ requests'[d] = IF d = Today(c) THEN requests[d] + 1 ELSE requests[d]
        /\ lost'[d] = IF d = Today(c) THEN lost[d] + 1 ELSE lost[d]
    BY <1>1, <1>8
  <2>3. QED BY <1>1, <1>2, <1>4, <2>1, <2>2 DEF Balanced
<1>9. QED BY <1>5, <1>6, <1>7, <1>8 DEF Charge

(* A refused caller leaves, with its increment taken back or lost. *)
LEMMA UndoBalances ==
  ASSUME TypeOK, NEW c \in Caller, Undo(c), NEW d \in Day, Balanced(d)
  PROVE  Balanced(d)'
<1> USE DEF Goto, Add
<1>1. /\ requests \in [Day -> Int] /\ lost \in [Day -> Nat]
      /\ served[d] \in Nat /\ crossed[d] \in Nat /\ unearned[d] \in Nat
      /\ pc \in [Caller -> Pcs] /\ Today(c) \in Day
  BY DEF TypeOK, Today
<1>2. /\ UNCHANGED <<at, served, charged, crossed, unearned>>
      /\ pc[c] = "undo" /\ pc' = [pc EXCEPT ![c] = "idle"]
  BY DEF Undo
<1>3. Cardinality(Charged(d)) \in Nat /\ Cardinality(Undoing(d)) \in Nat
  BY CountType DEF Charged, Undoing
<1>4. Charged(d)' = Charged(d)
  BY <1>2 DEF Charged
<1>5. Undoing(d)' = IF d = Today(c) THEN Undoing(d) \ {c} ELSE Undoing(d)
  BY <1>1, <1>2 DEF Undoing, Today
<1>6. d = Today(c) => Cardinality(Undoing(d) \ {c}) = Cardinality(Undoing(d)) - 1
  BY <1>2, CountRemove DEF Undoing
<1>7. requests'[d] - lost'[d] =
        IF d = Today(c) THEN requests[d] - lost[d] - 1 ELSE requests[d] - lost[d]
  BY <1>1 DEF Undo
<1>8. requests'[d] \in Int /\ lost'[d] \in Int
  BY <1>1 DEF Undo
<1>9. QED BY <1>1, <1>2, <1>3, <1>4, <1>5, <1>6, <1>7, <1>8 DEF Balanced

(* A caller's charge is closed: Charged loses it, on its own day only. *)
LEMMA CloseCharge ==
  ASSUME TypeOK, NEW c \in Caller, NEW d \in Day,
         charged' = [charged EXCEPT ![c] = {}]
  PROVE  /\ Cardinality(Charged(d)) \in Nat
         /\ Cardinality(Charged(d)') =
              IF d \in charged[c] THEN Cardinality(Charged(d)) - 1
                                  ELSE Cardinality(Charged(d))
<1>1. Charged(d)' = IF d \in charged[c] THEN Charged(d) \ {c} ELSE Charged(d)
  BY DEF TypeOK, Charged
<1>2. d \in charged[c] => Cardinality(Charged(d) \ {c}) = Cardinality(Charged(d)) - 1
  BY CountRemove DEF Charged
<1>3. QED BY <1>1, <1>2, CountType DEF Charged

(* A served caller's charge stays with the day. *)
LEMMA SucceedBalances ==
  ASSUME TypeOK, NEW c \in Caller, NEW k \in Cost, Succeed(c, k),
         NEW d \in Day, Balanced(d)
  PROVE  Balanced(d)'
<1> USE DEF Goto
<1>1. /\ UNCHANGED <<at, requests, lost, crossed, unearned>>
      /\ pc[c] = "call" /\ charged' = [charged EXCEPT ![c] = {}]
  BY DEF Succeed
<1>2. /\ requests[d] \in Int /\ lost[d] \in Nat /\ served[d] \in Nat
      /\ crossed[d] \in Nat /\ unearned[d] \in Nat
  BY DEF TypeOK
<1>3. Undoing(d)' = Undoing(d)
  BY <1>1, StillUndoing DEF Succeed
<1>4. served'[d] = IF d \in charged[c] THEN served[d] + 1 ELSE served[d]
  BY DEF Succeed
<1>5. Cardinality(Undoing(d)) \in Nat
  BY CountType DEF Undoing
<1>6. /\ Cardinality(Charged(d)) \in Nat
      /\ Cardinality(Charged(d)') =
           IF d \in charged[c] THEN Cardinality(Charged(d)) - 1
                               ELSE Cardinality(Charged(d))
  BY <1>1, CloseCharge
<1>7. QED BY <1>1, <1>2, <1>3, <1>4, <1>5, <1>6 DEF Balanced

(* A failed caller's charge is given back, or lost, or taken from another day. *)
LEMMA RefundBalances ==
  ASSUME TypeOK, Frames, NEW c \in Caller, RefundRequest(c), NEW d \in Day,
         Balanced(d)
  PROVE  Balanced(d)'
<1> USE DEF Goto, Add
<1>1. /\ UNCHANGED <<at, served>>
      /\ pc[c] = "refund" /\ charged' = [charged EXCEPT ![c] = {}]
  BY DEF RefundRequest
<1>2. /\ requests \in [Day -> Int] /\ lost \in [Day -> Nat] /\ served[d] \in Nat
      /\ crossed \in [Day -> Nat] /\ unearned \in [Day -> Nat]
      /\ DayOf[clock] \in Day
  BY DEF TypeOK
<1>3. Undoing(d)' = Undoing(d)
  BY <1>1, StillUndoing DEF RefundRequest
<1>4. Cardinality(Undoing(d)) \in Nat
  BY CountType DEF Undoing
<1>5. /\ Cardinality(Charged(d)) \in Nat
      /\ Cardinality(Charged(d)') =
           IF d \in charged[c] THEN Cardinality(Charged(d)) - 1
                               ELSE Cardinality(Charged(d))
  BY <1>1, CloseCharge
<1>6. CASE Keep(c)
  <2>1. lost'[d] = IF d \in charged[c] THEN lost[d] + 1 ELSE lost[d]
    BY <1>6 DEF Keep
  <2>2. UNCHANGED <<requests, crossed, unearned>>
    BY <1>6 DEF Keep
  <2>3. QED BY <1>1, <1>2, <1>3, <1>4, <2>1, <2>2, <1>5 DEF Balanced
<1>7. CASE GiveBack(c)
  <2>1. \A e \in charged[c] : \A f \in charged[c] : e = f
    BY DEF Frames, Frame
  <2>2. CASE d # DayOf[clock]
    <3>1. lost'[d] = IF d \in charged[c] THEN lost[d] + 1 ELSE lost[d]
      BY <1>7, <2>2 DEF GiveBack
    <3>2. /\ requests'[d] = requests[d] /\ crossed'[d] = crossed[d]
          /\ unearned'[d] = unearned[d]
      BY <1>2, <1>7, <2>2 DEF GiveBack
    <3>3. QED BY <1>1, <1>2, <1>3, <1>4, <3>1, <3>2, <1>5 DEF Balanced
  <2>3. CASE d = DayOf[clock]
    <3>1. lost'[d] = lost[d] /\ requests'[d] = requests[d] - 1
      BY <1>2, <1>7, <2>3 DEF GiveBack
    <3>2. /\ crossed'[d] = IF charged[c] \ {d} # {} THEN crossed[d] + 1 ELSE crossed[d]
          /\ unearned'[d] = IF charged[c] = {} THEN unearned[d] + 1 ELSE unearned[d]
      BY <1>2, <1>7, <2>3 DEF GiveBack
    <3>3. d \in charged[c] => charged[c] \ {d} = {}
      BY <2>1
    <3>4. QED BY <1>1, <1>2, <1>3, <1>4, <3>1, <3>2, <3>3, <1>5 DEF Balanced
  <2>4. QED BY <2>2, <2>3
<1>8. QED BY <1>6, <1>7 DEF RefundRequest

(* A crash loses what was charged or being refused. *)
LEMMA CrashBalances ==
  ASSUME TypeOK, Frames, Crash, NEW d \in Day, Balanced(d)
  PROVE  Balanced(d)'
<1> DEFINE C == Charged(d)
           U == Undoing(d)
<1>1. UNCHANGED <<requests, served, crossed, unearned>>
  BY DEF Crash
<1>2. Charged(d)' = {} /\ Undoing(d)' = {}
  BY DEF Crash, Charged, Undoing
<1>3. C \cap U = {}
  BY DEF Charged, Undoing, Frames, Frame
<1>4. Cardinality(C \cup U) = Cardinality(C) + Cardinality(U)
  <2>1. IsFiniteSet(C) /\ IsFiniteSet(U) /\ Cardinality(C) \in Nat /\ Cardinality(U) \in Nat
    BY CountType DEF Charged, Undoing
  <2>2. Cardinality(C \cap U) = 0
    BY <1>3, FS_EmptySet
  <2>3. Cardinality(C \cup U) = Cardinality(C) + Cardinality(U) - Cardinality(C \cap U)
    BY <2>1, FS_Union
  <2>4. QED BY <2>1, <2>2, <2>3
<1>5. {c \in Caller : d \in charged[c] \/ (pc[c] = "undo" /\ d = Today(c))} = C \cup U
  BY DEF Charged, Undoing
<1>6. lost'[d] = lost[d] + Cardinality(C \cup U)
  BY <1>5 DEF Crash
<1>7. /\ Cardinality(C) \in Nat /\ Cardinality(U) \in Nat
      /\ requests[d] \in Int /\ served[d] \in Nat /\ lost[d] \in Nat
      /\ crossed[d] \in Nat /\ unearned[d] \in Nat
  BY CountType DEF Charged, Undoing, TypeOK
<1>8. Cardinality(Charged(d)') = 0 /\ Cardinality(Undoing(d)') = 0
  BY <1>2, FS_EmptySet
<1>9. QED BY <1>1, <1>4, <1>6, <1>7, <1>8 DEF Balanced

(* Every unit of a day's counter is a call served, in progress, being refused *)
(* or lost, less the refunds that belong to no charge of that day: Allow,     *)
(* RefundRequest and the failures between them never charge a call twice or   *)
(* give one back twice, whatever the interleaving.                            *)
THEOREM AccountedHolds == Spec => []Accounted
<1>1. Init => Accounted
  <2> SUFFICES ASSUME Init, NEW d \in Day
               PROVE  requests[d] = served[d] + Cardinality(Charged(d))
                        + Cardinality(Undoing(d)) + lost[d] - crossed[d] - unearned[d]
    BY DEF Accounted
  <2>1. Charged(d) = {} /\ Undoing(d) = {}
    BY DEF Init, Charged, Undoing
  <2>2. QED BY <2>1, FS_EmptySet DEF Init
<1>2. TypeOK /\ Frames /\ Accounted /\ [Next]_vars => Accounted'
  <2> SUFFICES ASSUME TypeOK, Frames, Accounted, [Next]_vars, NEW d \in Day
               PROVE  Balanced(d)'
    BY DEF Accounted, Balanced
  <2>a. Balanced(d)
    BY DEF Accounted, Balanced
  <2>1. ASSUME NEW c \in Caller, NEW p, p # "undo", pc[c] # "undo",
               pc' = [pc EXCEPT ![c] = p], \A e \in Caller \ {c} : at'[e] = at[e],
               UNCHANGED <<requests, ledger>>
        PROVE  Balanced(d)'
    <3>1. Undoing(d)' = Undoing(d) /\ Charged(d)' = Charged(d)
      BY <2>1, StillUndoing DEF Charged, ledger
    <3>2. QED BY <2>1, <2>a, <3>1 DEF Balanced, ledger
  <2>2. ASSUME UNCHANGED <<requests, ledger, pc, at>>
        PROVE  Balanced(d)'
    <3>1. Undoing(d)' = Undoing(d) /\ Charged(d)' = Charged(d)
      BY <2>2 DEF Charged, Undoing, Today, ledger
    <3>2. QED BY <2>2, <2>a, <3>1 DEF Balanced, ledger
  <2>t. at \in [Caller -> Time]
    BY DEF TypeOK
  <2>3. ASSUME NEW c \in Caller, Ask(c) \/ Fail(c) PROVE Balanced(d)'
    BY <2>3, <2>1 DEF Ask, Fail, Goto
  <2>4. ASSUME NEW c \in Caller, Allow(c) PROVE Balanced(d)'
    <3>1. \A e \in Caller \ {c} : at'[e] = at[e]
      BY <2>4, <2>t DEF Allow
    <3>2. \E p \in {"idle", "call", "tokens"} : pc' = [pc EXCEPT ![c] = p]
      BY <2>4 DEF Allow, Goto
    <3>3. QED BY <2>4, <2>1, <3>1, <3>2 DEF Allow
  <2>5. ASSUME NEW c \in Caller, CheckTokens(c) PROVE Balanced(d)'
    <3>1. \E p \in {"idle", "call", "charge", "rate"} : pc' = [pc EXCEPT ![c] = p]
      BY <2>5 DEF CheckTokens, AfterRate, Goto
    <3>2. QED BY <2>5, <2>1, <3>1 DEF CheckTokens
  <2>6. ASSUME NEW c \in Caller, CheckRate(c) PROVE Balanced(d)'
    <3>1. \E p \in {"idle", "call", "charge"} : pc' = [pc EXCEPT ![c] = p]
      BY <2>6 DEF CheckRate, AfterRate, Goto
    <3>2. QED BY <2>6, <2>1, <3>1 DEF CheckRate
  <2>7. ASSUME NEW c \in Caller, CommitDay(c) PROVE Balanced(d)'
    <3>1. \A e \in Caller \ {c} : at'[e] = at[e]
      BY <2>7, <2>t DEF CommitDay
    <3>2. QED BY <2>7, <2>1, <3>1 DEF CommitDay, Goto
  <2>8. ASSUME NEW c \in Caller, CommitMonth(c) PROVE Balanced(d)'
    BY <2>8, <2>1 DEF CommitMonth, Goto
  <2>9. ASSUME NextMinute \/ Edit \/ UNCHANGED vars PROVE Balanced(d)'
    BY <2>9, <2>2 DEF NextMinute, Edit, vars
  <2>10. QED
    BY <2>a, <2>3, <2>4, <2>5, <2>6, <2>7, <2>8, <2>9, ChargeBalances, UndoBalances,
       SucceedBalances, RefundBalances, CrashBalances
       DEF Next, CallStep, UpdateDefaultPolicy, UpsertUserPolicy, ClearUserPolicy
<1>3. QED BY <1>1, <1>2, TypeCorrect, FramesHold, PTL DEF Spec

-----------------------------------------------------------------------------
(* While no policy was edited, a limited user has had no refund for a call    *)
(* that was never charged, and no minute let through more than it counted.    *)
Earned ==
  edits = 0 /\ Resolved.dailyReq > 0 => \A d \in Day : unearned[d] = 0

Counted == \A t \in Time : passed[t] <= rate[t]

(* Only an edit changes the policy in force. *)
LEMMA PolicySteps ==
  ASSUME TypeOK, [Next]_vars, edits' = 0
  PROVE  edits = 0 /\ Resolved' = Resolved
<1>1. CASE UNCHANGED policies
  BY <1>1 DEF Resolved, policies
<1>2. CASE Edit
  BY <1>2 DEF Edit, TypeOK
<1>3. UNCHANGED policies \/ Edit
  BY DEF Next, CallStep, Ask, Allow, CheckTokens, CheckRate, Charge, Undo, Succeed,
         Fail, RefundRequest, CommitDay, CommitMonth, policies, vars, NextMinute,
         Crash, UpdateDefaultPolicy, UpsertUserPolicy, ClearUserPolicy
<1>4. QED BY <1>1, <1>2, <1>3

LEMMA EarnedHolds == Spec => []Earned
<1>1. Init => Earned
  BY DEF Init, Earned
<1>2. TypeOK /\ Frames /\ Earned /\ [Next]_vars => Earned'
  <2> SUFFICES ASSUME TypeOK, Frames, Earned, [Next]_vars, edits' = 0,
                      Resolved'.dailyReq > 0
               PROVE  unearned' = unearned
    BY PolicySteps DEF Earned
  <2>1. edits = 0 /\ Resolved.dailyReq > 0
    BY PolicySteps
  <2>2. ASSUME NEW c \in Caller, RefundRequest(c) PROVE unearned' = unearned
    <3>1. CASE Keep(c)
      BY <3>1 DEF Keep
    <3>2. CASE ~Unlimited(Resolved) /\ GiveBack(c)
      <4>1. charged[c] # {}
        BY <2>1, <2>2, <3>2 DEF Frames, Frame, RefundRequest
      <4>2. QED BY <3>2, <4>1 DEF GiveBack
    <3>3. QED BY <2>2, <3>1, <3>2 DEF RefundRequest
  <2>3. QED
    BY <2>2 DEF Next, CallStep, Ask, Allow, CheckTokens, CheckRate, Charge, Undo,
       Succeed, Fail, CommitDay, CommitMonth, policies, ledger, vars, NextMinute,
       Crash, UpdateDefaultPolicy, UpsertUserPolicy, ClearUserPolicy, Edit
<1>3. QED BY <1>1, <1>2, TypeCorrect, FramesHold, PTL DEF Spec

(* One day within the limit. *)
Within(d) == served[d] + Cardinality(Charged(d)) <= Resolved.dailyReq + crossed[d]

(* However many calls race on the counter, a day whose policy was not edited  *)
(* serves no more calls than its limit, and one more for each refund that     *)
(* crossed midnight into it.                                                  *)
THEOREM DailyLimitHolds == Spec => []DailyLimit
<1>1. Init => DailyLimit
  <2> SUFFICES ASSUME Init, Resolved.dailyReq > 0, NEW d \in Day
               PROVE  Within(d)
    BY DEF DailyLimit, Within
  <2>1. Resolved.dailyReq \in Nat
    BY ResolvedType DEF Init, Policy
  <2>2. Charged(d) = {}
    BY DEF Init, Charged
  <2>3. QED BY <2>1, <2>2, FS_EmptySet DEF Init, Within
<1>2. TypeOK /\ Frames /\ Accounted /\ Earned /\ DailyLimit
        /\ TypeOK' /\ Accounted' /\ Earned' /\ [Next]_vars => DailyLimit'
  <2> SUFFICES ASSUME TypeOK, Frames, Accounted, Earned, DailyLimit,
                      TypeOK', Accounted', Earned', [Next]_vars
               PROVE  DailyLimit'
    OBVIOUS
  <2> SUFFICES ASSUME (edits = 0 /\ Resolved.dailyReq > 0)', NEW d \in Day
               PROVE  Within(d)'
    BY DEF DailyLimit, Within
  <2>p. edits = 0 /\ Resolved' = Resolved
    BY PolicySteps
  <2>L. Resolved.dailyReq \in Nat
    BY ResolvedType DEF TypeOK, Policy
  <2>n. /\ served[d] \in Nat /\ crossed[d] \in Nat
        /\ Cardinality(Charged(d)) \in Nat
        /\ Within(d)
    BY <2>p, CountType DEF TypeOK, Charged, DailyLimit, Within
  <2>1. ASSUME UNCHANGED <<charged, served, crossed>>
        PROVE  Within(d)'
    BY <2>1, <2>n, <2>p DEF Charged, Within
  <2>2. ASSUME NEW c \in Caller, Charge(c)
        PROVE  Within(d)'
    <3>1. UNCHANGED <<served, crossed, unearned>> /\ pc[c] = "charge"
      BY <2>2 DEF Charge
    <3>2. rule[c] = Resolved
      BY <2>p, <3>1 DEF Frames, Frame
    <3>3. CASE UNCHANGED charged
      BY <2>1, <3>1, <3>3
    <3>4. CASE /\ requests'[Today(c)] <= rule[c].dailyReq
               /\ charged' = [charged EXCEPT ![c] = {Today(c)}]
      <4>1. CASE d = Today(c)
        <5>1. requests'[d] = served'[d] + Cardinality(Charged(d)')
                + Cardinality(Undoing(d)') + lost'[d] - crossed'[d] - unearned'[d]
          BY DEF Accounted
        <5>2. unearned'[d] = 0
          BY DEF Earned
        <5>3. /\ requests'[d] \in Int /\ served'[d] \in Nat /\ lost'[d] \in Nat
              /\ crossed'[d] \in Nat
          BY DEF TypeOK
        <5>4. Charged(d)' \in SUBSET Caller /\ Undoing(d)' \in SUBSET Caller
          BY DEF Charged, Undoing
        <5>5. Cardinality(Charged(d)') \in Nat /\ Cardinality(Undoing(d)') \in Nat
          BY <5>4, CountType
        <5>6. requests'[d] <= Resolved'.dailyReq
          BY <2>p, <3>2, <3>4, <4>1
        <5>7. QED BY <5>1, <5>2, <5>3, <5>5, <5>6, <2>p, <2>L DEF Within
      <4>2. CASE d # Today(c)
        <5>1. charged[c] = {}
          BY <3>1 DEF Frames, Frame
        <5>2. Charged(d)' = Charged(d)
          BY <3>4, <4>2, <5>1 DEF Charged, TypeOK
        <5>3. QED BY <2>n, <2>p, <3>1, <5>2 DEF Within
      <4>3. QED BY <4>1, <4>2
    <3>5. QED BY <2>2, <3>3, <3>4 DEF Charge
  <2>3. ASSUME NEW c \in Caller, NEW k \in Cost, Succeed(c, k)
        PROVE  Within(d)'
    <3>1. UNCHANGED crossed /\ charged' = [charged EXCEPT ![c] = {}]
      BY <2>3 DEF Succeed
    <3>2. served'[d] = IF d \in charged[c] THEN served[d] + 1 ELSE served[d]
      BY <2>3 DEF Succeed
    <3>3. Cardinality(Charged(d)') =
            IF d \in charged[c] THEN Cardinality(Charged(d)) - 1
                                ELSE Cardinality(Charged(d))
      BY <3>1, CloseCharge
    <3>4. QED BY <2>n, <2>p, <3>1, <3>2, <3>3 DEF Within
  <2>4. ASSUME NEW c \in Caller, RefundRequest(c)
        PROVE  Within(d)'
    <3>1. UNCHANGED served /\ charged' = [charged EXCEPT ![c] = {}]
      BY <2>4 DEF RefundRequest
    <3>2. crossed'[d] \in {crossed[d], crossed[d] + 1}
      BY <2>4 DEF RefundRequest, Keep, GiveBack, Add, TypeOK
    <3>3. Cardinality(Charged(d)') =
            IF d \in charged[c] THEN Cardinality(Charged(d)) - 1
                                ELSE Cardinality(Charged(d))
      BY <3>1, CloseCharge
    <3>4. QED BY <2>n, <2>p, <2>L, <3>1, <3>2, <3>3 DEF Within
  <2>5. CASE Crash
    <3>1. UNCHANGED <<served, crossed>> /\ Charged(d)' = {}
      BY <2>5 DEF Crash, Charged
    <3>2. QED BY <2>n, <2>p, <2>L, <3>1, FS_EmptySet DEF Within
  <2>6. QED
    BY <2>1, <2>2, <2>3, <2>4, <2>5
       DEF Next, CallStep, Ask, Allow, CheckTokens, CheckRate, Undo, Fail, CommitDay,
           CommitMonth, ledger, vars, NextMinute, UpdateDefaultPolicy,
           UpsertUserPolicy, ClearUserPolicy, Edit
<1>3. QED
  BY <1>1, <1>2, TypeCorrect, FramesHold, AccountedHolds, EarnedHolds, PTL DEF Spec

LEMMA CountedHolds == Spec => []Counted
<1>1. Init => Counted
  BY DEF Init, Counted
<1>2. TypeOK /\ Counted /\ [Next]_vars => Counted'
  <2> SUFFICES ASSUME TypeOK, Counted, [Next]_vars, NEW t \in Time
               PROVE  passed'[t] <= rate'[t]
    BY DEF Counted
  <2>1. /\ passed \in [Time -> Nat] /\ rate \in [Time -> Nat]
        /\ passed[t] <= rate[t]
    BY DEF TypeOK, Counted
  <2>2. ASSUME NEW c \in Caller, CheckRate(c) PROVE passed'[t] <= rate'[t]
    BY <2>1, <2>2 DEF CheckRate, Add
  <2>3. CASE UNCHANGED <<rate, passed>>
    BY <2>1, <2>3
  <2>4. QED
    BY <2>2, <2>3
       DEF Next, CallStep, Ask, Allow, CheckTokens, Charge, Undo, Succeed, Fail,
           RefundRequest, CommitDay, CommitMonth, vars, NextMinute, Crash,
           UpdateDefaultPolicy, UpsertUserPolicy, ClearUserPolicy, Edit
<1>3. QED BY <1>1, <1>2, TypeCorrect, PTL DEF Spec

(* While no policy was edited, no minute lets more calls through than the     *)
(* rate, however many calls race on its counter.                              *)
THEOREM RateLimitHolds == Spec => []RateLimit
<1>1. Init => RateLimit
  <2> SUFFICES ASSUME Init PROVE RateLimit
    OBVIOUS
  <2>1. Resolved.rpm \in Nat
    BY ResolvedType DEF Init, Policy
  <2>2. QED BY <2>1 DEF Init, RateLimit
<1>2. TypeOK /\ Frames /\ Counted /\ RateLimit /\ [Next]_vars => RateLimit'
  <2> SUFFICES ASSUME TypeOK, Frames, Counted, RateLimit, [Next]_vars
               PROVE  RateLimit'
    OBVIOUS
  <2> SUFFICES ASSUME (edits = 0 /\ Resolved.rpm > 0)', NEW t \in Time
               PROVE  passed'[t] <= Resolved'.rpm
    BY DEF RateLimit
  <2>p. edits = 0 /\ Resolved' = Resolved
    BY PolicySteps
  <2>1. /\ passed \in [Time -> Nat] /\ rate \in [Time -> Nat]
        /\ passed[t] <= rate[t] /\ passed[t] <= Resolved.rpm
        /\ Resolved.rpm \in Nat
    BY <2>p, ResolvedType DEF TypeOK, Counted, RateLimit, Policy
  <2>2. ASSUME NEW c \in Caller, CheckRate(c) PROVE passed'[t] <= Resolved'.rpm
    <3>1. rule[c] = Resolved
      BY <2>p, <2>2 DEF CheckRate, Frames, Frame
    <3>2. QED BY <2>1, <2>2, <2>p, <3>1 DEF CheckRate, Add
  <2>3. CASE UNCHANGED passed
    BY <2>1, <2>3, <2>p
  <2>4. QED
    BY <2>2, <2>3
       DEF Next, CallStep, Ask, Allow, CheckTokens, Charge, Undo, Succeed, Fail,
           RefundRequest, CommitDay, CommitMonth, vars, NextMinute, Crash,
           UpdateDefaultPolicy, UpsertUserPolicy, ClearUserPolicy, Edit
<1>3. QED BY <1>1, <1>2, TypeCorrect, FramesHold, CountedHolds, PTL DEF Spec
-----------------------------------------------------------------------------
(* Tokens.  A caller is risky for a day while it may still add to the day     *)
(* without having seen the counter as it is: it has passed the check, or it   *)
(* is about to compare another day's counter.  A caller adds once and is then *)
(* not risky until it passes the check again.                                 *)
Risky(d) ==
  {c \in Caller : \/ pc[c] \in {"rate", "charge", "call", "commit_day"}
                  \/ pc[c] = "tokens" /\ Today(c) # d}

Limited == edits = 0 /\ Resolved.dailyTok > 0 /\ ~Unlimited(Resolved)

Greatest(k) == k \in Cost /\ \A j \in Cost : j <= k

CostOK == \A c \in Caller : cost[c] \in Cost \cup {0}

Untouched == \A d \in Day : (\A t \in Time : t <= clock => DayOf[t] # d) => dayTok[d] = 0

(* What a day may still come to, of which the risky callers' share is still   *)
(* to be added while the day lasts.                                           *)
Room(d, k) ==
  LET pending == IF DayOf[clock] = d THEN k * Cardinality(Risky(d)) ELSE 0
  IN  dayTok[d] + pending < Resolved.dailyTok + k * Cardinality(Caller)

OvershootInv ==
  /\ CostOK
  /\ Untouched
  /\ Limited => \A d \in Day : \A k \in Cost : Greatest(k) => Room(d, k)

LEMMA TimesMore ==
  ASSUME NEW k \in Nat, NEW m \in Nat, NEW n \in Nat, m <= n
  PROVE  k * m \in Nat /\ k * n \in Nat /\ k * m <= k * n
<1>1. n - m \in Nat /\ n = m + (n - m)
  OBVIOUS
<1>2. k * (n - m) \in Nat
  BY <1>1
<1>3. k * n = k * m + k * (n - m)
  BY <1>1
<1>4. QED BY <1>2, <1>3

LEMMA RiskyType ==
  ASSUME NEW d \in Day
  PROVE  /\ Risky(d) \in SUBSET Caller
         /\ Cardinality(Risky(d)) \in Nat /\ Cardinality(Caller) \in Nat
         /\ Cardinality(Risky(d)) <= Cardinality(Caller)
<1>1. Risky(d) \in SUBSET Caller
  BY DEF Risky
<1>2. QED BY <1>1, CountType, FS_Subset

(* A day in which fewer tokens are counted than its limit has room, whoever   *)
(* is risky.                                                                  *)
LEMMA BelowLimit ==
  ASSUME NEW k \in Nat, NEW S \in SUBSET Caller, NEW x \in Nat, NEW limit \in Nat, x < limit
  PROVE  /\ x + k * Cardinality(S) < limit + k * Cardinality(Caller)
         /\ x + 0 < limit + k * Cardinality(Caller)
<1> DEFINE r == Cardinality(S)
           n == Cardinality(Caller)
<1>1. r \in Nat /\ n \in Nat /\ r <= n
  BY CountType, FS_Subset
<1>2. k * r \in Nat /\ k * n \in Nat /\ k * r <= k * n
  <2> HIDE DEF r, n
  <2>1. QED BY <1>1, TimesMore
<1>3. QED BY <1>2

(* Room stays when the day's counter does and nobody becomes risky. *)
LEMMA RoomKept ==
  ASSUME TypeOK, NEW d \in Day, NEW k \in Nat, Room(d, k), Resolved' = Resolved,
         clock' = clock, dayTok'[d] = dayTok[d],
         DayOf[clock] = d => Risky(d)' \subseteq Risky(d)
  PROVE  Room(d, k)'
<1>1. CASE DayOf[clock] # d
  BY <1>1 DEF Room
<1>2. CASE DayOf[clock] = d
  <2> DEFINE r == Cardinality(Risky(d))
             q == Cardinality(Risky(d)')
             n == Cardinality(Caller)
  <2>1. r \in Nat /\ q \in Nat /\ q <= r /\ n \in Nat
    <3>1. IsFiniteSet(Risky(d)) /\ r \in Nat /\ n \in Nat
      BY RiskyType, CountType
    <3>2. QED BY <1>2, <3>1, FS_Subset, FS_CardinalityType
  <2>2. k * q \in Nat /\ k * r \in Nat /\ k * q <= k * r
    <3> HIDE DEF r, q
    <3>1. QED BY <2>1, TimesMore
  <2>3. k * n \in Nat
    <3> HIDE DEF n
    <3>1. QED BY <2>1
  <2>4. dayTok[d] \in Nat /\ Resolved.dailyTok \in Nat
    BY ResolvedType DEF TypeOK, Policy
  <2>5. dayTok[d] + k * r < Resolved.dailyTok + k * n
    BY <1>2 DEF Room
  <2>6. dayTok'[d] + k * q < Resolved.dailyTok + k * n
    <3> HIDE DEF r, q, n
    <3>1. QED BY <2>2, <2>3, <2>4, <2>5
  <2>7. QED BY <1>2, <2>6 DEF Room
<1>3. QED BY <1>1, <1>2

(* A commit uses up the room that was kept for its caller. *)
LEMMA RoomUsed ==
  ASSUME TypeOK, NEW d \in Day, NEW k \in Nat, Room(d, k), Resolved' = Resolved,
         clock' = clock, DayOf[clock] = d, NEW c \in Risky(d), Risky(d)' = Risky(d) \ {c},
         NEW j \in Nat, j <= k, dayTok'[d] \in {dayTok[d], dayTok[d] + j}
  PROVE  Room(d, k)'
<1> DEFINE r == Cardinality(Risky(d))
           n == Cardinality(Caller)
<1>1. r \in Nat /\ n \in Nat /\ r - 1 \in Nat /\ Cardinality(Risky(d)') = r - 1
  <2>1. r \in Nat /\ n \in Nat
    BY RiskyType
  <2>2. Cardinality(Risky(d) \ {c}) = r - 1 /\ Cardinality(Risky(d) \ {c}) \in Nat
    BY CountRemove, CountType, RiskyType
  <2>3. QED BY <2>1, <2>2
<1>2. k * (r - 1) = k * r - k /\ k * r \in Nat /\ k * n \in Nat
  <2> HIDE DEF r, n
  <2>1. QED BY <1>1
<1>3. dayTok[d] \in Nat /\ Resolved.dailyTok \in Nat
  BY ResolvedType DEF TypeOK, Policy
<1>4. dayTok[d] + k * r < Resolved.dailyTok + k * n
  BY DEF Room
<1>5. dayTok'[d] + k * (r - 1) < Resolved.dailyTok + k * n
  <2> HIDE DEF r, n
  <2>1. QED BY <1>2, <1>3, <1>4
<1>6. QED BY <1>1, <1>5 DEF Room

LEMMA OvershootInit == Init => OvershootInv
<1> SUFFICES ASSUME Init PROVE OvershootInv
  OBVIOUS
<1>1. TypeOK
  BY DEF Init, TypeOK, Pcs, Policy, Time
<1>2. CostOK /\ Untouched
  BY DEF Init, CostOK, Untouched
<1>3. ASSUME Limited, NEW d \in Day, NEW k \in Cost PROVE Room(d, k)
  <2>1. dayTok[d] = 0 /\ Resolved.dailyTok \in Nat /\ 0 < Resolved.dailyTok /\ k \in Nat
    BY <1>1, <1>3, ResolvedType DEF Limited, Init, TypeOK, Policy
  <2>2. Risky(d) \in SUBSET Caller
    BY DEF Risky
  <2>3. QED BY <2>1, <2>2, BelowLimit DEF Room
<1>4. QED BY <1>2, <1>3 DEF OvershootInv

(* The answers reported are costs, and a day not reached has no tokens. *)
LEMMA CostStep ==
  ASSUME TypeOK, CostOK, Untouched, [Next]_vars
  PROVE  CostOK' /\ Untouched'
<1>1. ASSUME NEW c \in Caller, NEW k \in Cost, Succeed(c, k) PROVE CostOK' /\ Untouched'
  BY <1>1 DEF Succeed, CostOK, Untouched, TypeOK, tokens
<1>2. ASSUME NEW c \in Caller, CommitDay(c) PROVE CostOK' /\ Untouched'
  <2>1. CostOK'
    BY <1>2 DEF CommitDay, CostOK
  <2>2. clock \in Time /\ clock <= clock /\ clock' = clock
    BY <1>2 DEF CommitDay, TypeOK, Time
  <2>3. \A d \in Day : d # DayOf[clock] => dayTok'[d] = dayTok[d]
    BY <1>2 DEF CommitDay, Add, TypeOK
  <2>4. QED BY <2>1, <2>2, <2>3 DEF Untouched
<1>3. ASSUME NEW c \in Caller, CommitMonth(c) PROVE CostOK' /\ Untouched'
  BY <1>3 DEF CommitMonth, CostOK, Untouched, TypeOK
<1>4. CASE Crash
  BY <1>4 DEF Crash, CostOK, Untouched, tokens
<1>5. CASE NextMinute
  <2>1. clock' = clock + 1 /\ clock \in Nat /\ UNCHANGED <<cost, dayTok>>
    BY <1>5 DEF NextMinute, tokens, TypeOK, Time
  <2>2. \A t \in Time : t <= clock => t <= clock'
    BY <2>1 DEF Time
  <2>3. QED BY <2>1, <2>2 DEF CostOK, Untouched
<1>6. CASE UNCHANGED <<clock, cost, dayTok>>
  BY <1>6 DEF CostOK, Untouched
<1>7. QED
  BY <1>1, <1>2, <1>3, <1>4, <1>5, <1>6
     DEF Next, CallStep, Ask, Allow, CheckTokens, CheckRate, Charge, Undo, Fail, RefundRequest,
         UpdateDefaultPolicy, UpsertUserPolicy, ClearUserPolicy, Edit, vars, tokens

LEMMA OvershootStep ==
  ASSUME TypeOK, Frames, OvershootInv, [Next]_vars
  PROVE  OvershootInv'
<1>1. CostOK' /\ Untouched'
  BY CostStep DEF OvershootInv
<1>2. SUFFICES ASSUME Limited', NEW d \in Day, NEW k \in Cost, Greatest(k) PROVE Room(d, k)'
  BY <1>1 DEF OvershootInv, Greatest
<1>3. Limited /\ edits = 0 /\ Resolved' = Resolved
  BY <1>2, PolicySteps DEF Limited, Unlimited
<1>4. k \in Nat /\ Room(d, k)
  BY <1>2, <1>3 DEF OvershootInv
<1>t. pc \in [Caller -> Pcs] /\ at \in [Caller -> Time]
  BY DEF TypeOK
<1>L. dayTok \in [Day -> Nat] /\ Resolved.dailyTok \in Nat
  BY ResolvedType DEF TypeOK, Policy
<1>5. ASSUME NEW c \in Caller, UNCHANGED <<clock, dayTok>>,
             \A e \in Caller \ {c} : pc'[e] = pc[e] /\ at'[e] = at[e],
             c \in Risky(d)' => c \in Risky(d) \/ DayOf[clock] # d
      PROVE  Room(d, k)'
  <2>1. DayOf[clock] = d => Risky(d)' \subseteq Risky(d)
    BY <1>5 DEF Risky, Today
  <2>2. QED BY <1>3, <1>4, <1>5, <2>1, RoomKept
<1>6. ASSUME NEW c \in Caller, Ask(c) \/ Undo(c) \/ CommitMonth(c) \/ RefundRequest(c) \/ Fail(c)
      PROVE  Room(d, k)'
  <2>1. /\ UNCHANGED <<clock, dayTok, at>>
        /\ \E p \in {"allow", "idle", "refund"} : pc' = [pc EXCEPT ![c] = p]
    BY <1>6 DEF Ask, Undo, CommitMonth, RefundRequest, Fail, Goto, tokens
  <2>2. c \notin Risky(d)' /\ \A e \in Caller \ {c} : pc'[e] = pc[e]
    BY <1>t, <2>1 DEF Risky
  <2>3. QED BY <1>5, <2>1, <2>2
<1>7. ASSUME NEW c \in Caller, Allow(c) PROVE Room(d, k)'
  <2>1. /\ UNCHANGED <<clock, dayTok>>
        /\ \A e \in Caller \ {c} : pc'[e] = pc[e] /\ at'[e] = at[e]
    BY <1>7, <1>t DEF Allow, Goto, tokens
  <2>2. pc'[c] = "idle" \/ (pc'[c] = "tokens" /\ at'[c] = clock)
    BY <1>7, <1>t, <1>3 DEF Allow, Goto, Limited
  <2>3. c \in Risky(d)' => DayOf[clock] # d
    BY <2>2 DEF Risky, Today
  <2>4. QED BY <1>5, <2>1, <2>3
<1>8. ASSUME NEW c \in Caller, CheckTokens(c) PROVE Room(d, k)'
  <2>1. /\ UNCHANGED <<clock, dayTok, at>> /\ pc[c] = "tokens"
        /\ \A e \in Caller \ {c} : pc'[e] = pc[e]
    BY <1>8, <1>t DEF CheckTokens, Goto, AfterRate, tokens
  <2>2. CASE pc'[c] = "idle"
    BY <1>5, <2>1, <2>2 DEF Risky
  <2>3. CASE Today(c) # d
    BY <1>5, <2>1, <2>3 DEF Risky
  <2>4. CASE Today(c) = d /\ pc'[c] # "idle"
    <3>1. ~UsedUp(rule[c].dailyTok, dayTok[d])
      BY <1>8, <1>t, <2>4 DEF CheckTokens, Goto
    <3>2. rule[c] = Resolved
      BY <1>3, <2>1 DEF Frames, Frame
    <3>3. dayTok[d] < Resolved.dailyTok /\ dayTok'[d] < Resolved'.dailyTok
      BY <1>3, <2>1, <3>1, <3>2, ResolvedType DEF UsedUp, Limited, TypeOK, Policy
    <3>4. dayTok'[d] \in Nat /\ Resolved'.dailyTok \in Nat /\ Risky(d)' \in SUBSET Caller
      BY <1>L, <1>3, <2>1 DEF Risky
    <3>5. QED BY <1>4, <3>3, <3>4, BelowLimit DEF Room
  <2>5. QED BY <2>2, <2>3, <2>4
<1>9. ASSUME NEW c \in Caller, CheckRate(c) \/ Charge(c) \/ \E j \in Cost : Succeed(c, j)
      PROVE  Room(d, k)'
  <2>1. /\ UNCHANGED <<clock, dayTok, at>> /\ pc[c] \in {"rate", "charge", "call"}
        /\ \A e \in Caller \ {c} : pc'[e] = pc[e]
    BY <1>9, <1>t DEF CheckRate, Charge, Succeed, Goto, AfterRate, tokens
  <2>2. c \in Risky(d)
    BY <2>1 DEF Risky
  <2>3. QED BY <1>5, <2>1, <2>2
<1>10. ASSUME NEW c \in Caller, CommitDay(c) PROVE Room(d, k)'
  <2>1. /\ pc[c] = "commit_day" /\ UNCHANGED clock /\ pc'[c] = "commit_month"
        /\ \A e \in Caller \ {c} : pc'[e] = pc[e] /\ at'[e] = at[e]
    BY <1>10, <1>t DEF CommitDay, Goto
  <2>2. c \in Risky(d) /\ Risky(d)' = Risky(d) \ {c}
    BY <2>1 DEF Risky, Today
  <2>3. cost[c] \in Nat /\ cost[c] <= k
    <3>1. cost[c] \in Cost \cup {0}
      BY DEF OvershootInv, CostOK
    <3>2. \A j \in Cost : j \in Nat /\ j <= k
      BY <1>2 DEF Greatest
    <3>3. CASE cost[c] \in Cost
      BY <3>2, <3>3
    <3>4. CASE cost[c] = 0
      <4>1. 0 \in Nat /\ 0 <= k
        BY <1>4
      <4>2. QED BY <3>4, <4>1
    <3>5. QED BY <3>1, <3>3, <3>4
  <2>4. dayTok'[d] = dayTok[d] \/ (d = DayOf[clock] /\ dayTok'[d] = dayTok[d] + cost[c])
    BY <1>10 DEF CommitDay, Add, TypeOK
  <2>5. CASE DayOf[clock] # d
    BY <1>3, <1>4, <2>1, <2>4, <2>5, RoomKept
  <2>6. CASE DayOf[clock] = d
    BY <1>3, <1>4, <2>1, <2>2, <2>3, <2>4, <2>6, RoomUsed
  <2>7. QED BY <2>5, <2>6
<1>11. CASE Crash
  <2>1. UNCHANGED <<clock, dayTok>> /\ Risky(d)' = {}
    BY <1>11 DEF Crash, Risky, tokens
  <2>2. QED BY <1>3, <1>4, <2>1, RoomKept
<1>12. CASE UNCHANGED <<clock, dayTok, pc, at>>
  <2>1. Risky(d)' = Risky(d)
    BY <1>12 DEF Risky, Today
  <2>2. QED BY <1>3, <1>4, <1>12, <2>1, RoomKept
<1>13. CASE NextMinute
  <2>1. clock' = clock + 1 /\ clock \in Time /\ clock' \in Time /\ UNCHANGED <<dayTok, pc, at>>
    BY <1>13 DEF NextMinute, tokens, TypeOK, Time
  <2>2. CASE DayOf[clock'] # d
    <3>1. Cardinality(Risky(d)) \in Nat /\ Cardinality(Caller) \in Nat
      BY RiskyType
    <3>2. k * Cardinality(Risky(d)) \in Nat /\ k * Cardinality(Caller) \in Nat
      BY <1>4, <3>1
    <3>3. dayTok[d] \in Nat /\ Resolved.dailyTok \in Nat
      BY ResolvedType DEF TypeOK, Policy
    <3>4. dayTok[d] < Resolved.dailyTok + k * Cardinality(Caller)
      BY <1>4, <3>2, <3>3 DEF Room
    <3>5. QED BY <1>3, <2>1, <2>2, <3>3, <3>4 DEF Room
  <2>3. CASE DayOf[clock] = d /\ DayOf[clock'] = d
    <3>1. Risky(d)' = Risky(d)
      BY <2>1 DEF Risky, Today
    <3>2. QED BY <1>3, <1>4, <2>1, <2>3, <3>1 DEF Room
  <2>4. CASE DayOf[clock] # d /\ DayOf[clock'] = d
    <3>1. ASSUME NEW t \in Time, t <= clock PROVE DayOf[t] # d
      <4>1. clock <= clock'
        BY <2>1 DEF Time
      <4>2. QED BY <2>1, <2>4, <3>1, <4>1, DayAssumption
    <3>2. dayTok'[d] = 0
      BY <2>1, <3>1 DEF OvershootInv, Untouched
    <3>3. dayTok'[d] < Resolved'.dailyTok
      BY <1>3, <3>2 DEF Limited
    <3>4. dayTok'[d] \in Nat /\ Resolved'.dailyTok \in Nat /\ Risky(d)' \in SUBSET Caller
      BY <1>L, <1>3, <2>1 DEF Risky
    <3>5. QED BY <1>4, <3>3, <3>4, BelowLimit DEF Room
  <2>5. QED BY <2>2, <2>3, <2>4
<1>14. ~Edit
  BY <1>2, <1>3 DEF Edit, Limited
<1>15. QED
  BY <1>6, <1>7, <1>8, <1>9, <1>10, <1>11, <1>12, <1>13, <1>14
     DEF Next, CallStep, UpdateDefaultPolicy, UpsertUserPolicy, ClearUserPolicy, vars, tokens

(* While no policy is edited, the tokens of a day exceed a limited user's     *)
(* limit by less than one answer for each goroutine, however many calls are   *)
(* checked before any of them is charged and whatever midnight falls between. *)
THEOREM TokenOvershootHolds == Spec => []TokenOvershoot
<1>1. Init => OvershootInv
  BY OvershootInit
<1>2. TypeOK /\ Frames /\ OvershootInv /\ [Next]_vars => OvershootInv'
  BY OvershootStep
<1>3. TypeOK /\ OvershootInv => TokenOvershoot
  <2> SUFFICES ASSUME TypeOK, OvershootInv, Limited, NEW d \in Day, NEW k \in Cost, Greatest(k)
               PROVE  dayTok[d] < Resolved.dailyTok + k * Cardinality(Caller)
    BY DEF TokenOvershoot, Limited, Greatest
  <2>1. k \in Nat /\ Room(d, k)
    BY DEF OvershootInv
  <2>2. k * Cardinality(Risky(d)) \in Nat /\ k * Cardinality(Caller) \in Nat
    BY <2>1, RiskyType
  <2>3. dayTok[d] \in Nat /\ Resolved.dailyTok \in Nat
    BY ResolvedType DEF TypeOK, Policy
  <2>4. QED BY <2>1, <2>2, <2>3 DEF Room
<1>4. QED BY <1>1, <1>2, <1>3, TypeCorrect, FramesHold, PTL DEF Spec
================================================================================
