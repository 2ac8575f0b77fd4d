--------------------------------- MODULE Quota ---------------------------------
(***************************************************************************)
(* The quota of one user: what every call to a language model passes on    *)
(* its way out (Allow), what it is charged when it comes back (Commit) and *)
(* what it gets back when it fails (RefundRequest).  internal/quota/       *)
(* {service,store}.go, and the callers' use of them in internal/chat,      *)
(* internal/agent and internal/engine/nodes.                               *)
(*                                                                         *)
(* The counters are keys of Redis named after the day, the month and the   *)
(* minute; each command on one is an action, because any other call, the   *)
(* clock, an administrator and a crash may come between two of them.  Any  *)
(* command may fail: Redis is away, or the request whose context it uses   *)
(* has been abandoned by its client.                                       *)
(***************************************************************************)
EXTENDS Integers, FiniteSets

CONSTANTS
  Caller,     \* goroutines that call a model for this user
  Cost,       \* the token totals an answer may report
  Policies,   \* quota policies an administrator may save
  IsAdmin,    \* the user's role is "admin"
  MaxTime,    \* bound: minutes that pass
  Day, Month, \* days and months those minutes fall into
  DayOf, MonthOf,
  MaxCalls,   \* bound: calls one goroutine makes
  MaxEvents   \* bound: policies saved or cleared and server crashes, together

Time == 0 .. MaxTime

Policy == [enabled : BOOLEAN, adminUnlimited : BOOLEAN,
           rpm : Nat, dailyReq : Nat, dailyTok : Nat, monthTok : Nat]

ASSUME PolicyAssumption == Policies \subseteq Policy /\ IsAdmin \in BOOLEAN

ASSUME CalendarAssumption ==
  /\ MaxTime \in Nat
  /\ DayOf \in [Time -> Day]
  /\ MonthOf \in [Time -> Month]

(* A day, once over, does not come back. *)
ASSUME DayAssumption ==
  \A s, t, u \in Time : s <= t /\ t <= u /\ DayOf[s] = DayOf[u] => DayOf[t] = DayOf[s]

ASSUME CallAssumption ==
  /\ IsFiniteSet(Caller)
  /\ Cost \subseteq Nat
  /\ MaxCalls \in Nat /\ MaxEvents \in Nat

VARIABLES
  clock,      \* the minute it is
  global,     \* the default policy's row
  override,   \* the set of the user's own policies: at most one
  requests,   \* day -> its request counter
  dayTok,     \* day -> its token counter
  monTok,     \* month -> its token counter
  rate,       \* minute -> its request counter
  pc,         \* what each caller does next
  rule,       \* the policy it resolved
  at,         \* the minute it took from the clock
  cost,       \* the tokens its answer reported
  calls,      \* calls it has made
  edits, crashes,
  (* history *)
  charged,    \* day each caller's call in progress was charged to, as a set
  served,     \* day -> answered calls charged to it
  passed,     \* minute -> calls the rate let through
  lost,       \* day -> charges nobody was served for and nobody gave back
  crossed,    \* day -> refunds taken from it for a charge on another day
  unearned    \* day -> refunds taken from it for a call never charged

policies == <<global, override, edits>>
tokens   == <<dayTok, monTok>>
ledger   == <<charged, served, lost, crossed, unearned>>
vars     == <<clock, policies, requests, tokens, rate, pc, rule, at, cost,
              calls, crashes, ledger, passed>>

Pcs == {"idle", "allow", "tokens", "rate", "charge", "undo", "call", "refund",
        "commit_day", "commit_month"}

Goto(c, p) == pc' = [pc EXCEPT ![c] = p]

Add(f, k, n) == [f EXCEPT ![k] = @ + n]

(* Names ending in _Bug are variants of the definition that follows them, each *)
(* with a mistake the code could have; the properties are tried against them.  *)

-----------------------------------------------------------------------------
(* resolvePolicy: the user's own row wins over the default one; only an       *)
(* administrator can be unlimited.                                            *)
Resolved ==
  LET row == IF override = {} THEN global ELSE CHOOSE p \in override : TRUE
  IN  [row EXCEPT !.adminUnlimited = IsAdmin /\ @]

Unlimited(p) == p.adminUnlimited

Today(c) == DayOf[at[c]]

(* A caller starts a call. *)
Ask(c) ==
  /\ pc[c] = "idle"
  /\ calls[c] < MaxCalls
  /\ calls' = Add(calls, c, 1)
  /\ Goto(c, "allow")
  /\ UNCHANGED <<clock, policies, requests, tokens, rate, rule, at, cost,
                 crashes, ledger, passed>>

(* Allow up to its first counter: no user, no store, a disabled policy and an *)
(* unlimited one are decided here.                                            *)
Allow(c) ==
  /\ pc[c] = "allow"
  /\ \/ Goto(c, "idle") /\ UNCHANGED <<rule, at>>
     \/ /\ Resolved.enabled
        /\ rule' = [rule EXCEPT ![c] = Resolved]
        /\ at' = [at EXCEPT ![c] = clock]
        /\ Goto(c, IF Unlimited(Resolved) THEN "call" ELSE "tokens")
  /\ UNCHANGED <<clock, policies, requests, tokens, rate, cost, calls, crashes,
                 ledger, passed>>

AfterRate(c) == IF rule[c].dailyReq > 0 THEN "charge" ELSE "call"

UsedUp(limit, n) == limit > 0 /\ n >= limit

(* Both token counters are compared with their limits.  The code reads the    *)
(* day's, then the month's; they only grow, so whatever passes that passes a  *)
(* look at both when the day's is read.                                       *)
CheckTokens_Bug(c) ==        \* the month is compared, the day is not
  /\ pc[c] = "tokens"
  /\ \/ Goto(c, "idle")
     \/ /\ ~UsedUp(rule[c].monthTok, monTok[MonthOf[at[c]]])
        /\ Goto(c, IF rule[c].rpm > 0 THEN "rate" ELSE AfterRate(c))
  /\ UNCHANGED <<clock, policies, requests, tokens, rate, rule, at, cost, calls,
                 crashes, ledger, passed>>

CheckTokens(c) ==
  /\ pc[c] = "tokens"
  /\ \/ Goto(c, "idle")
     \/ /\ ~UsedUp(rule[c].dailyTok, dayTok[Today(c)])
        /\ ~UsedUp(rule[c].monthTok, monTok[MonthOf[at[c]]])
        /\ Goto(c, IF rule[c].rpm > 0 THEN "rate" ELSE AfterRate(c))
  /\ UNCHANGED <<clock, policies, requests, tokens, rate, rule, at, cost, calls,
                 crashes, ledger, passed>>

(* The minute's counter is incremented and compared.  A command that failed   *)
(* may have been executed.                                                    *)
CheckRate_Bug(c) ==          \* the count before the increment is compared
  /\ pc[c] = "rate"
  /\ rate' = Add(rate, at[c], 1)
  /\ IF rate[at[c]] > rule[c].rpm
     THEN Goto(c, "idle") /\ UNCHANGED passed
     ELSE Goto(c, AfterRate(c)) /\ passed' = Add(passed, at[c], 1)
  /\ UNCHANGED <<clock, policies, requests, tokens, rule, at, cost, calls,
                 crashes, ledger>>

CheckRate(c) ==
  /\ pc[c] = "rate"
  /\ \/ /\ rate' \in {rate, Add(rate, at[c], 1)}
        /\ Goto(c, "idle")
        /\ UNCHANGED passed
     \/ /\ rate' = Add(rate, at[c], 1)
        /\ rate'[at[c]] <= rule[c].rpm
        /\ passed' = Add(passed, at[c], 1)
        /\ Goto(c, AfterRate(c))
  /\ UNCHANGED <<clock, policies, requests, tokens, rule, at, cost, calls,
                 crashes, ledger>>

(* The day's counter is incremented and compared: a call over the limit goes  *)
(* on to undo its increment, one whose command failed does not.               *)
Charge_Bug(c) ==             \* the count before the increment is compared
  /\ pc[c] = "charge"
  /\ requests' = Add(requests, Today(c), 1)
  /\ IF requests[Today(c)] <= rule[c].dailyReq
     THEN /\ charged' = [charged EXCEPT ![c] = {Today(c)}]
          /\ Goto(c, "call")
     ELSE Goto(c, "undo") /\ UNCHANGED charged
  /\ UNCHANGED <<clock, policies, tokens, rate, rule, at, cost, calls, crashes,
                 served, lost, crossed, unearned, passed>>

Charge(c) ==
  /\ pc[c] = "charge"
  /\ \/ /\ requests' = Add(requests, Today(c), 1)
        /\ IF requests'[Today(c)] <= rule[c].dailyReq
           THEN /\ charged' = [charged EXCEPT ![c] = {Today(c)}]
                /\ Goto(c, "call")
           ELSE Goto(c, "undo") /\ UNCHANGED charged
        /\ UNCHANGED lost
     \/ /\ Goto(c, "idle")
        /\ UNCHANGED <<requests, lost, charged>>
     \/ /\ requests' = Add(requests, Today(c), 1)
        /\ lost' = Add(lost, Today(c), 1)
        /\ Goto(c, "idle")
        /\ UNCHANGED charged
  /\ UNCHANGED <<clock, policies, tokens, rate, rule, at, cost, calls, crashes,
                 served, crossed, unearned, passed>>

(* The decrement of a refused call; its error is ignored. *)
Undo_Bug(c) ==               \* refused without the decrement
  /\ pc[c] = "undo"
  /\ Goto(c, "idle")
  /\ UNCHANGED <<clock, policies, requests, tokens, rate, rule, at, cost, calls,
                 crashes, ledger, passed>>

Undo(c) ==
  /\ pc[c] = "undo"
  /\ \/ requests' = Add(requests, Today(c), -1) /\ UNCHANGED lost
     \/ UNCHANGED requests /\ lost' = Add(lost, Today(c), 1)
  /\ Goto(c, "idle")
  /\ UNCHANGED <<clock, policies, tokens, rate, rule, at, cost, calls, crashes,
                 charged, served, crossed, unearned, passed>>

-----------------------------------------------------------------------------
(* The call itself, made by the chat, the agent or a workflow node. *)

(* The model answers, and reports or is estimated to have used k tokens. *)
Succeed(c, k) ==
  /\ pc[c] = "call"
  /\ cost' = [cost EXCEPT ![c] = k]
  /\ served' = [d \in Day |-> IF d \in charged[c] THEN served[d] + 1 ELSE served[d]]
  /\ charged' = [charged EXCEPT ![c] = {}]
  /\ Goto(c, IF k > 0 THEN "commit_day" ELSE "idle")
  /\ UNCHANGED <<clock, policies, requests, tokens, rate, rule, at, calls,
                 crashes, lost, crossed, unearned, passed>>

Fail(c) ==
  /\ pc[c] = "call"
  /\ Goto(c, "refund")
  /\ UNCHANGED <<clock, policies, requests, tokens, rate, rule, at, cost, calls,
                 crashes, ledger, passed>>

(* RefundRequest resolves the policy again and decrements the counter of the  *)
(* day it is now, whatever was charged and when.                              *)
Keep(c) ==
  /\ lost' = [d \in Day |-> IF d \in charged[c] THEN lost[d] + 1 ELSE lost[d]]
  /\ UNCHANGED <<requests, crossed, unearned>>

GiveBack(c) ==
  LET d == DayOf[clock] IN
  /\ requests' = Add(requests, d, -1)
  /\ lost' = [e \in Day |-> IF e \in charged[c] \ {d} THEN lost[e] + 1 ELSE lost[e]]
  /\ crossed' = IF charged[c] \ {d} # {} THEN Add(crossed, d, 1) ELSE crossed
  /\ unearned' = IF charged[c] = {} THEN Add(unearned, d, 1) ELSE unearned

RefundRequest(c) ==
  /\ pc[c] = "refund"
  /\ \/ Keep(c)
     \/ ~Unlimited(Resolved) /\ GiveBack(c)
  /\ charged' = [charged EXCEPT ![c] = {}]
  /\ Goto(c, "idle")
  /\ UNCHANGED <<clock, policies, tokens, rate, rule, at, cost, calls, crashes,
                 served, passed>>

(* Commit adds the tokens to the day and to the month it is now; the errors   *)
(* of both commands are ignored.                                              *)
CommitDay(c) ==
  /\ pc[c] = "commit_day"
  /\ at' = [at EXCEPT ![c] = clock]
  /\ dayTok' \in {dayTok, Add(dayTok, DayOf[clock], cost[c])}
  /\ Goto(c, "commit_month")
  /\ UNCHANGED <<clock, policies, requests, monTok, rate, rule, cost, calls,
                 crashes, ledger, passed>>

CommitMonth(c) ==
  /\ pc[c] = "commit_month"
  /\ monTok' \in {monTok, Add(monTok, MonthOf[at[c]], cost[c])}
  /\ cost' = [cost EXCEPT ![c] = 0]
  /\ Goto(c, "idle")
  /\ UNCHANGED <<clock, policies, requests, dayTok, rate, rule, at, calls,
                 crashes, ledger, passed>>

-----------------------------------------------------------------------------
(* The surroundings *)

NextMinute ==
  /\ clock < MaxTime
  /\ clock' = clock + 1
  /\ UNCHANGED <<policies, requests, tokens, rate, pc, rule, at, cost, calls,
                 crashes, ledger, passed>>

Edit ==
  /\ edits + crashes < MaxEvents
  /\ edits' = edits + 1
  /\ UNCHANGED <<clock, requests, tokens, rate, pc, rule, at, cost, calls,
                 crashes, ledger, passed>>

(* PutPolicy reads the default row, changes the fields it was sent and saves  *)
(* the whole row: whatever another administrator saved meanwhile, the result  *)
(* is some policy.                                                            *)
UpdateDefaultPolicy(p) == Edit /\ global' = p /\ UNCHANGED override

(* A row that is inserted gets the columns' default for every field that is   *)
(* zero or FALSE; one that is updated keeps what was sent.                    *)
AsCreated(p) ==
  LET or(n, default) == IF n = 0 THEN default ELSE n
  IN  [enabled |-> TRUE, adminUnlimited |-> TRUE,
       rpm |-> or(p.rpm, 8), dailyReq |-> or(p.dailyReq, 30),
       dailyTok |-> or(p.dailyTok, 100000), monthTok |-> or(p.monthTok, 1000000)]

UpsertUserPolicy(p) ==
  /\ Edit
  /\ override' = {IF override = {} THEN AsCreated(p) ELSE p}
  /\ UNCHANGED global

ClearUserPolicy == Edit /\ override' = {} /\ UNCHANGED global

(* The process dies with every call in it. *)
Crash ==
  /\ edits + crashes < MaxEvents
  /\ crashes' = crashes + 1
  /\ pc' = [c \in Caller |-> "idle"]
  /\ cost' = [c \in Caller |-> 0]
  /\ charged' = [c \in Caller |-> {}]
  /\ lost' = [d \in Day |->
       lost[d] + Cardinality({c \in Caller :
                   d \in charged[c] \/ (pc[c] = "undo" /\ d = Today(c))})]
  /\ UNCHANGED <<clock, policies, requests, tokens, rate, rule, at, calls,
                 served, crossed, unearned, passed>>

-----------------------------------------------------------------------------
Init ==
  /\ clock = 0
  /\ global \in Policies
  /\ override \in {{}} \cup {{p} : p \in Policies}
  /\ requests = [d \in Day |-> 0]
  /\ dayTok = [d \in Day |-> 0]
  /\ monTok = [m \in Month |-> 0]
  /\ rate = [t \in Time |-> 0]
  /\ pc = [c \in Caller |-> "idle"]
  /\ rule = [c \in Caller |-> global]
  /\ at = [c \in Caller |-> 0]
  /\ cost = [c \in Caller |-> 0]
  /\ calls = [c \in Caller |-> 0]
  /\ edits = 0
  /\ crashes = 0
  /\ charged = [c \in Caller |-> {}]
  /\ served = [d \in Day |-> 0]
  /\ passed = [t \in Time |-> 0]
  /\ lost = [d \in Day |-> 0]
  /\ crossed = [d \in Day |-> 0]
  /\ unearned = [d \in Day |-> 0]

CallStep(c) ==
  \/ Ask(c) \/ Allow(c) \/ CheckTokens(c) \/ CheckRate(c) \/ Charge(c) \/ Undo(c)
  \/ \E k \in Cost : Succeed(c, k)
  \/ Fail(c) \/ RefundRequest(c) \/ CommitDay(c) \/ CommitMonth(c)

Next ==
  \/ \E c \in Caller : CallStep(c)
  \/ NextMinute
  \/ \E p \in Policies : UpdateDefaultPolicy(p) \/ UpsertUserPolicy(p)
  \/ ClearUserPolicy
  \/ Crash

Spec == Init /\ [][Next]_vars
-----------------------------------------------------------------------------
(* Properties *)

(* The values every variable ranges over.  A request counter may be negative. *)
TypeOK ==
  /\ clock \in Time
  /\ global \in Policies
  /\ override \in SUBSET Policy
  /\ requests \in [Day -> Int]
  /\ dayTok \in [Day -> Nat]
  /\ monTok \in [Month -> Nat]
  /\ rate \in [Time -> Nat]
  /\ pc \in [Caller -> Pcs]
  /\ rule \in [Caller -> Policy]
  /\ at \in [Caller -> Time]
  /\ cost \in [Caller -> Nat]
  /\ calls \in [Caller -> Nat]
  /\ edits \in Nat
  /\ crashes \in Nat
  /\ charged \in [Caller -> SUBSET Day]
  /\ served \in [Day -> Nat]
  /\ passed \in [Time -> Nat]
  /\ lost \in [Day -> Nat]
  /\ crossed \in [Day -> Nat]
  /\ unearned \in [Day -> Nat]

Charged(d)  == {c \in Caller : d \in charged[c]}
Undoing(d) == {c \in Caller : pc[c] = "undo" /\ Today(c) = d}

(* The day's counter is always explained: every unit of it is a call that was *)
(* served, is in progress, is being refused or was lost to a failure, less    *)
(* the refunds that belong to no charge of that day.  A refused call costs    *)
(* nothing and a failed one is given back once.                               *)
Accounted ==
  \A d \in Day :
    requests[d] = served[d] + Cardinality(Charged(d)) + Cardinality(Undoing(d))
                    + lost[d] - crossed[d] - unearned[d]

(* However many calls race on the counter, a day serves no more than its      *)
(* limit, and exactly one more for each refund that crossed midnight into it. *)
DailyLimit ==
  edits = 0 /\ Resolved.dailyReq > 0 =>
    \A d \in Day :
      served[d] + Cardinality(Charged(d)) <= Resolved.dailyReq + crossed[d]

(* No minute lets more calls through than the rate. *)
RateLimit ==
  edits = 0 /\ Resolved.rpm > 0 =>
    \A t \in Time : passed[t] <= Resolved.rpm

(* Tokens are checked before a call and charged after it, so the limit can be *)
(* overshot: by the answers of the calls that were in progress when it was    *)
(* reached, one per goroutine, and by nothing more.                           *)
TokenOvershoot ==
  edits = 0 /\ Resolved.dailyTok > 0 /\ ~Unlimited(Resolved) =>
    \A d \in Day : \A k \in Cost :
      (\A j \in Cost : j <= k) =>
        dayTok[d] < Resolved.dailyTok + k * Cardinality(Caller)
================================================================================
