----------------------------- MODULE Evaluation ------------------------------
(***************************************************************************)
(* Test suites, their cases, and the runs that put each case to a model    *)
(* and judge the answer.  internal/eval/service.go, judge.go, llm_judge.go.*)
(*                                                                         *)
(* A run reads its cases once and then takes minutes, a remote call or two *)
(* for each case; nothing keeps its suite from being edited or deleted     *)
(* meanwhile.  Each query, and each case with the insert of its result, is *)
(* an action.  What a case says, the target, weights and the score are     *)
(* left out: the answer is judged one way or the other.                    *)
(***************************************************************************)
EXTENDS Integers, FiniteSets

CONSTANTS
  Tester,               \* goroutines that serve requests
  Suite, EvalCase, EvalRun,
  NoSuite, NoRun,
  MaxCases,             \* cases a run may have; 50 in the code
  MaxTasks, MaxMishaps  \* bounds: requests; queries that fail, restarts

ASSUME EvalAssumption ==
  /\ NoSuite \notin Suite /\ NoRun \notin EvalRun
  /\ MaxCases \in Nat /\ MaxTasks \in Nat /\ MaxMishaps \in Nat

(* A case that could not be answered, one judged by its keywords, one by a     *)
(* model that may fail or not give a score.                                    *)
CallCase     == {"error"}
Judge        == {"pass", "fail"}
JudgeWithLLM == {"pass", "fail", "skip"}
Verdict      == CallCase \cup Judge \cup JudgeWithLLM

Verdicts == [pass : Nat, fail : Nat, skip : Nat]
NoVerdicts == [pass |-> 0, fail |-> 0, skip |-> 0]

VARIABLES
  suites,      \* suite -> is there a row
  cases,       \* case -> its row
  runs,        \* run -> its row
  results,     \* the rows of eval_results
  task,        \* goroutine -> its request
  tasks, mishaps,
  (* history *)
  struck,      \* runs a deletion of their suite met on their way
  late         \* cases entered after their suite was deleted

evalVars == <<suites, cases, runs, results, task, tasks, mishaps, struck, late>>

Row     == {"none", "live", "deleted"}
CaseRow == [is : Row, suite : Suite \cup {NoSuite}]
RunRow  == [is : Row, suite : Suite \cup {NoSuite},
            status : {"running", "completed", "failed"}, counts : Verdicts]
Result  == [run : EvalRun, of : EvalCase, verdict : Verdict]
Task    == [at : {"idle", "saveSuite", "dropSuite", "commit", "enterCase", "saveCase",
                  "target", "cases", "failing"},
            suite : Suite \cup {NoSuite}, todo : SUBSET EvalCase, run : EvalRun \cup {NoRun},
            row : RunRow, known : SUBSET EvalRun]

NoRunRow  == [is |-> "none", suite |-> NoSuite, status |-> "running", counts |-> NoVerdicts]
NoTask    == [at |-> "idle", suite |-> NoSuite, todo |-> {}, run |-> NoRun, row |-> NoRunRow,
              known |-> {}]

CasesOf(s)   == {c \in EvalCase : cases[c].is = "live" /\ cases[c].suite = s}
RunsOf(s)    == {r \in EvalRun : runs[r].is = "live" /\ runs[r].suite = s}
ResultsOf(r) == {x \in results : x.run = r}
UnderWay     == {task[t].run : t \in Tester} \ {NoRun}

TakesTask(t, r) == task[t].at = "idle" /\ task' = [task EXCEPT ![t] = r]
EndsTask(t)     == task' = [task EXCEPT ![t] = NoTask]

(* Names ending in _Bug are variants of the definition that follows them, each *)
(* with a mistake the code could have; the properties are tried against them.  *)

-----------------------------------------------------------------------------
(* Suites. *)
CreateSuite(t) ==
  /\ task[t].at = "idle"
  /\ \E s \in Suite : suites[s] = "none" /\ suites' = [suites EXCEPT ![s] = "live"]
  /\ UNCHANGED <<cases, runs, results, task, struck, late>>

(* UpdateSuite and DeleteSuite read the suite first.                           *)
FindSuite(t) ==
  /\ \E s \in Suite, next \in {"saveSuite", "dropSuite", "enterCase"} :
       suites[s] = "live" /\ TakesTask(t, [NoTask EXCEPT !.at = next, !.suite = s])
  /\ UNCHANGED <<suites, cases, runs, results, struck, late>>

(* Save puts a row back that was deleted meanwhile.                            *)
SaveSuite(t) ==
  /\ task[t].at = "saveSuite"
  /\ suites' = [suites EXCEPT ![task[t].suite] = "live"]
  /\ EndsTask(t)
  /\ UNCHANGED <<cases, runs, results, struck, late>>

(* DeleteSuite, in one transaction: it lists the runs, and deletes the results *)
(* of those and then whatever runs and cases the suite has.                    *)
ListRuns(t) ==
  /\ task[t].at = "dropSuite"
  /\ task' = [task EXCEPT ![t].at = "commit", ![t].known = RunsOf(task[t].suite)]
  /\ UNCHANGED <<suites, cases, runs, results, struck, late>>

Deletes(s) ==
  /\ suites' = [suites EXCEPT ![s] = "deleted"]
  /\ cases' = [c \in EvalCase |-> IF c \in CasesOf(s) THEN [cases[c] EXCEPT !.is = "deleted"]
                                  ELSE cases[c]]
  /\ runs' = [r \in EvalRun |-> IF r \in RunsOf(s) THEN [runs[r] EXCEPT !.is = "deleted"]
                                ELSE runs[r]]

DropSuite(t) ==
  /\ task[t].at = "commit"
  /\ Deletes(task[t].suite)
  /\ results' = {x \in results : x.run \notin task[t].known}
  /\ struck' = struck \cup {r \in RunsOf(task[t].suite) : r \in UnderWay \/ r \notin task[t].known}
  /\ EndsTask(t)
  /\ UNCHANGED late

-----------------------------------------------------------------------------
(* Cases: CreateCase looks for the suite and then inserts; UpdateCase reads    *)
(* the case and saves it; DeleteCase is one statement.                         *)
EnterCase(t) ==
  /\ task[t].at = "enterCase"
  /\ \E c \in EvalCase :
       /\ cases[c].is = "none"
       /\ cases' = [cases EXCEPT ![c] = [is |-> "live", suite |-> task[t].suite]]
       /\ late' = IF suites[task[t].suite] = "live" THEN late ELSE late \cup {c}
  /\ EndsTask(t)
  /\ UNCHANGED <<suites, runs, results, struck>>

FindCase(t) ==
  /\ \E c \in EvalCase :
       cases[c].is = "live" /\ TakesTask(t, [NoTask EXCEPT !.at = "saveCase", !.todo = {c}])
  /\ UNCHANGED <<suites, cases, runs, results, struck, late>>

SaveCase(t) ==
  /\ task[t].at = "saveCase"
  /\ cases' = [c \in EvalCase |-> IF c \in task[t].todo THEN [cases[c] EXCEPT !.is = "live"]
                                  ELSE cases[c]]
  /\ late' = late \cup {c \in task[t].todo : suites[cases[c].suite] # "live"}
  /\ EndsTask(t)
  /\ UNCHANGED <<suites, runs, results, struck>>

DeleteCase(t) ==
  /\ task[t].at = "idle"
  /\ \E c \in EvalCase :
       cases[c].is = "live" /\ cases' = [cases EXCEPT ![c].is = "deleted"]
  /\ UNCHANGED <<suites, runs, results, task, struck, late>>

-----------------------------------------------------------------------------
(* CreateAndExecuteRun reads the suite and its cases, up to MaxCases, resolves *)
(* the target, which may fail, and inserts the run.                            *)
BeginRun(t) ==
  /\ \E s \in Suite :
       /\ suites[s] = "live"
       /\ CasesOf(s) # {} /\ Cardinality(CasesOf(s)) <= MaxCases
       /\ TakesTask(t, [NoTask EXCEPT !.at = "target", !.suite = s, !.todo = CasesOf(s)])
  /\ UNCHANGED <<suites, cases, runs, results, struck, late>>

InsertRun(t) ==
  LET row == [NoRunRow EXCEPT !.is = "live", !.suite = task[t].suite] IN
  /\ task[t].at = "target"
  /\ \E r \in EvalRun :
       /\ runs[r].is = "none" /\ r \notin UnderWay
       /\ runs' = [runs EXCEPT ![r] = row]
       /\ task' = [task EXCEPT ![t].at = "cases", ![t].run = r, ![t].row = row]
       /\ struck' = IF suites[task[t].suite] = "live" THEN struck ELSE struck \cup {r}
  /\ UNCHANGED <<suites, cases, results, late>>

(* One case after the other.  A call that fails is an error and counts among   *)
(* the failures; a judge model that cannot be asked leaves the case skipped.   *)
Counter(verdict) == IF verdict = "error" THEN "fail" ELSE verdict

JudgeCase_Bug(t) ==          \* an error goes uncounted
  /\ task[t].at = "cases"
  /\ \E c \in task[t].todo, v \in Verdict :
       /\ results' = results \cup {[run |-> task[t].run, of |-> c, verdict |-> v]}
       /\ task' = [task EXCEPT ![t].todo = @ \ {c},
                     ![t].row.counts = IF v = "error" THEN @ ELSE [@ EXCEPT ![v] = @ + 1]]
  /\ UNCHANGED <<suites, cases, runs, struck, late>>

JudgeCase(t) ==
  /\ task[t].at = "cases"
  /\ \E c \in task[t].todo, v \in Verdict :
       /\ results' = results \cup {[run |-> task[t].run, of |-> c, verdict |-> v]}
       /\ task' = [task EXCEPT ![t].todo = @ \ {c}, ![t].row.counts[Counter(v)] = @ + 1]
  /\ UNCHANGED <<suites, cases, runs, struck, late>>

(* The run's row is saved as a whole, and put back if it was deleted.          *)
SavesRun(t, row) == runs' = [runs EXCEPT ![task[t].run] = row]

CompleteRun(t) ==
  /\ task[t].at = "cases" /\ task[t].todo = {}
  /\ SavesRun(t, [task[t].row EXCEPT !.status = "completed"])
  /\ EndsTask(t)
  /\ UNCHANGED <<suites, cases, results, struck, late>>

(* failRun, after a result could not be inserted: the counts are not set.      *)
FailRun(t) ==
  /\ task[t].at = "failing"
  /\ SavesRun(t, [task[t].row EXCEPT !.status = "failed", !.counts = NoVerdicts])
  /\ EndsTask(t)
  /\ UNCHANGED <<suites, cases, results, struck, late>>

-----------------------------------------------------------------------------
(* A query fails.  The save at the end of a run ignores that, and the run is   *)
(* running for ever; an insert of a result makes the run a failed one.         *)
TaskFails(t) ==
  /\ task[t].at # "idle"
  /\ IF task[t].at = "cases" /\ task[t].todo # {}
     THEN task' = [task EXCEPT ![t].at = "failing"] ELSE EndsTask(t)
  /\ UNCHANGED <<suites, cases, runs, results, struck, late>>

(* The process dies: its runs are not taken up again.                          *)
Dies ==
  /\ task' = [t \in Tester |-> NoTask]
  /\ UNCHANGED <<suites, cases, runs, results, struck, late>>

EvalInit ==
  /\ suites = [s \in Suite |-> "none"]
  /\ cases = [c \in EvalCase |-> [is |-> "none", suite |-> NoSuite]]
  /\ runs = [r \in EvalRun |-> NoRunRow]
  /\ results = {} /\ task = [t \in Tester |-> NoTask]
  /\ tasks = 0 /\ mishaps = 0 /\ struck = {} /\ late = {}

TakesUp(t) ==
  \/ CreateSuite(t) \/ FindSuite(t) \/ FindCase(t) \/ DeleteCase(t) \/ BeginRun(t)

GoesOn(t) ==
  \/ SaveSuite(t) \/ ListRuns(t) \/ DropSuite(t) \/ EnterCase(t) \/ SaveCase(t)
  \/ InsertRun(t) \/ JudgeCase(t) \/ CompleteRun(t) \/ FailRun(t)

EvalNext ==
  \/ /\ tasks < MaxTasks /\ tasks' = tasks + 1 /\ UNCHANGED mishaps
     /\ \E t \in Tester : TakesUp(t)
  \/ \E t \in Tester : GoesOn(t) /\ UNCHANGED <<tasks, mishaps>>
  \/ /\ mishaps < MaxMishaps /\ mishaps' = mishaps + 1 /\ UNCHANGED tasks
     /\ (\E t \in Tester : TaskFails(t)) \/ Dies

EvalSpec == EvalInit /\ [][EvalNext]_evalVars

-----------------------------------------------------------------------------
(* Every variable keeps its type. *)
EvalTypeOK ==
  /\ suites \in [Suite -> Row] /\ cases \in [EvalCase -> CaseRow]
  /\ runs \in [EvalRun -> RunRow] /\ results \subseteq Result
  /\ task \in [Tester -> Task] /\ tasks \in Nat /\ mishaps \in Nat
  /\ struck \subseteq EvalRun /\ late \subseteq EvalCase

(* The counts of a completed run are those of the results kept for it, and     *)
(* what is kept of a deleted suite is only what was entered or under way       *)
(* behind the deletion's back (service.go:85, 120, 401): a failed insert or a  *)
(* crash leaves no run that counts what it did not keep.                       *)
Tally(r) ==
  [n \in DOMAIN NoVerdicts |-> Cardinality({x \in ResultsOf(r) : Counter(x.verdict) = n})]

RunsAccounted ==
  /\ \A r \in EvalRun \ struck :
       /\ runs[r].is = "live" /\ runs[r].status = "completed" => runs[r].counts = Tally(r)
       /\ runs[r].is # "live" => ResultsOf(r) = {}
  /\ \A s \in Suite : suites[s] = "deleted" => CasesOf(s) \subseteq late /\ RunsOf(s) \subseteq struck
=============================================================================
