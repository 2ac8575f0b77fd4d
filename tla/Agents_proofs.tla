---------------------------- MODULE Agents_proofs ----------------------------
(*****************************************************************************)
(* Theorems about Prompts and Evaluation, for any number of prompts,         *)
(* versions, suites, cases, runs and concurrent requests.                    *)
(*****************************************************************************)
EXTENDS Prompts, Evaluation, FiniteSetTheorems, WellFoundedInduction, TLAPS

-----------------------------------------------------------------------------
(* Prompts.                                                                  *)

USE PromptAssumption

OnPrompt == {"rename", "save", "max", "add", "row", "publish", "count", "remove",
             "delete", "choose", "resolve"}
OnVersion == {"publish", "count", "remove", "resolve"}

(* What a request knows of its prompt and its version, in each place.          *)
EditHolds(t) ==
  /\ edit[t].at \in OnPrompt => edit[t].prompt \in madeP
  /\ edit[t].at \in OnVersion => edit[t].ver \in madeV
  /\ edit[t].at = "agent" => edit[t].agent \in Agent
  /\ Of(edit[t].ver, edit[t].prompt)
  /\ Of(edit[t].row.current, edit[t].prompt)

NumberBound == \E b \in Nat : \A v \in Version : number[v] <= b

RowInv ==
  /\ PromptTypeOK /\ NumberBound
  /\ \A v \in madeV : home[v] \in madeP
  /\ \A p \in Prompt : Of(card[p].current, p)
  /\ \A t \in Editor : EditHolds(t)

(* What a resolution is about to return was offered, or it cannot return it.   *)
WasOffered(t) ==
  edit[t].at = "resolve" => edit[t].ver \in offered[t] \/ edit[t].ver \notin stored \cap published

-----------------------------------------------------------------------------
(* Numbers. *)
LEMMA Least ==
  ASSUME NEW T, T \subseteq Nat, T # {}
  PROVE  \E x \in T : \A y \in T : x <= y
<1>1. PICK x \in T : \A y \in T : ~(<<y, x>> \in OpToRel(<, Nat))
  BY NatLessThanWellFounded, WFMin
<1>2. \A y \in T : ~(y < x)
  BY <1>1 DEF OpToRel
<1>3. QED BY <1>2

LEMMA Greatest ==
  ASSUME NEW S, S \subseteq Nat, S # {}, NEW b \in Nat, \A n \in S : n <= b
  PROVE  \E x \in S : \A y \in S : y <= x
<1> DEFINE T == {m \in Nat : \A n \in S : n <= m}
<1>1. PICK m \in T : \A k \in T : m <= k
  <2>1. T \subseteq Nat /\ b \in T
    OBVIOUS
  <2> HIDE DEF T
  <2>2. QED BY <2>1, Least
<1>2. ASSUME m \notin S
      PROVE  FALSE
  <2>1. PICK n \in S : TRUE
    OBVIOUS
  <2>2. n \in Nat /\ n <= m /\ n # m
    BY <1>2, <2>1
  <2>3. m - 1 \in Nat /\ \A k \in S : k <= m - 1
    BY <1>2, <2>2
  <2>4. m - 1 \in T
    BY <2>3
  <2>5. QED BY <1>1, <2>3, <2>4
<1>3. QED BY <1>1, <1>2

LEMMA HighestFacts ==
  ASSUME PromptTypeOK, NumberBound, NEW p
  PROVE  Highest(p) \in Nat /\ \A v \in VersionsOf(p) : number[v] <= Highest(p)
<1>1. VersionsOf(p) \subseteq Version /\ \A v \in Version : number[v] \in Nat
  BY DEF PromptTypeOK, VersionsOf
<1>2. CASE VersionsOf(p) = {}
  BY <1>2 DEF Highest
<1>3. CASE VersionsOf(p) # {}
  <2> DEFINE S == {number[v] : v \in VersionsOf(p)}
  <2>1. PICK b \in Nat : \A v \in Version : number[v] <= b
    BY DEF NumberBound
  <2>2. S \subseteq Nat /\ S # {} /\ \A n \in S : n <= b
    BY <1>1, <1>3, <2>1
  <2>3. \E n \in S : \A m \in S : m <= n
    <3> HIDE DEF S
    <3>1. QED BY <2>2, Greatest
  <2>4. \E n \in S : \A v \in VersionsOf(p) : number[v] <= n
    BY <2>3
  <2>5. Highest(p) \in S /\ \A v \in VersionsOf(p) : number[v] <= Highest(p)
    BY <1>3, <2>4 DEF Highest
  <2>6. QED BY <2>2, <2>5
<1>4. QED BY <1>2, <1>3

-----------------------------------------------------------------------------
(* The record of a request after a step. *)
LEMMA StepFacts ==
  ASSUME PromptTypeOK, NEW t \in Editor, NEW r \in Editing, Step(t, r)
  PROVE  /\ edit'[t] = r
         /\ \A u \in Editor : u # t => edit'[u] = edit[u]
         /\ edit' \in [Editor -> Editing]
BY DEF Step, PromptTypeOK

LEMMA IdleFacts ==
  /\ Idle \in Editing /\ Idle.at = "idle" /\ Idle.prompt = NoPrompt
  /\ Idle.ver = NoVersion /\ Idle.row = NoCard /\ NoCard.current = NoVersion
  /\ NoCard \in Card
<1>1. NoCard \in Card /\ NoCard.current = NoVersion
  BY DEF NoCard, Card
<1>2. QED BY <1>1 DEF Idle, Editing, Places

LEMMA FinishFacts ==
  ASSUME PromptTypeOK, NEW t \in Editor, Finish(t)
  PROVE  /\ edit'[t] = Idle
         /\ \A u \in Editor : u # t => edit'[u] = edit[u]
         /\ edit' \in [Editor -> Editing]
BY StepFacts, IdleFacts DEF Finish

LEMMA EditType == PromptTypeOK => \A t \in Editor : edit[t] \in Editing
BY DEF PromptTypeOK

(* Requests that begin. *)
LEMMA CreateEdit ==
  ASSUME PromptTypeOK, NEW t \in Editor, BeginCreate(t)
  PROVE  /\ edit'[t].at = "insert" /\ edit'[t].ver = NoVersion /\ edit'[t].row.current = NoVersion
         /\ edit'[t].prompt = NoPrompt
         /\ \A u \in Editor : u # t => edit'[u] = edit[u]
         /\ edit' \in [Editor -> Editing]
<1>1. PICK n \in Title : Step(t, [Idle EXCEPT !.at = "insert", !.row.name = n])
  BY DEF BeginCreate, Begin
<1> DEFINE r == [Idle EXCEPT !.at = "insert", !.row.name = n]
<1>2. r \in Editing /\ r.at = "insert" /\ r.ver = NoVersion /\ r.row.current = NoVersion
      /\ r.prompt = NoPrompt
  <2>1. [NoCard EXCEPT !.name = n] \in Card /\ [NoCard EXCEPT !.name = n].current = NoVersion
    BY IdleFacts DEF Card
  <2>2. QED BY <2>1, IdleFacts DEF Editing, Places
<1>3. Step(t, r)
  BY <1>1
<1> HIDE DEF r
<1>4. QED BY <1>2, <1>3, StepFacts

LEMMA ImportEdit ==
  ASSUME PromptTypeOK, NEW t \in Editor, BeginImport(t)
  PROVE  /\ \/ edit'[t].at = "row" /\ edit'[t].prompt \in prompts
            \/ edit'[t].at = "name" /\ edit'[t].prompt = NoPrompt
         /\ edit'[t].ver = NoVersion /\ edit'[t].row.current = NoVersion
         /\ \A u \in Editor : u # t => edit'[u] = edit[u]
         /\ edit' \in [Editor -> Editing]
<1>1. CASE \E p \in prompts : Step(t, [Idle EXCEPT !.at = "row", !.prompt = p, !.publish = TRUE])
  <2>1. PICK p \in prompts : Step(t, [Idle EXCEPT !.at = "row", !.prompt = p, !.publish = TRUE])
    BY <1>1
  <2> DEFINE r == [Idle EXCEPT !.at = "row", !.prompt = p, !.publish = TRUE]
  <2>2. r \in Editing /\ r.at = "row" /\ r.ver = NoVersion /\ r.row = NoCard /\ r.prompt = p
    BY IdleFacts DEF Editing, Places, PromptTypeOK
  <2>3. Step(t, r)
    BY <2>1
  <2> HIDE DEF r
  <2>4. QED BY <2>2, <2>3, StepFacts, IdleFacts
<1>2. CASE \E o \in Origin : Step(t, [Idle EXCEPT !.at = "name", !.row.origin = o])
  <2>1. PICK o \in Origin : Step(t, [Idle EXCEPT !.at = "name", !.row.origin = o])
    BY <1>2
  <2> DEFINE r == [Idle EXCEPT !.at = "name", !.row.origin = o]
  <2>2. r \in Editing /\ r.at = "name" /\ r.ver = NoVersion /\ r.row.current = NoVersion
        /\ r.prompt = NoPrompt
    <3>1. [NoCard EXCEPT !.origin = o] \in Card /\ [NoCard EXCEPT !.origin = o].current = NoVersion
      BY IdleFacts DEF Card
    <3>2. QED BY <3>1, IdleFacts DEF Editing, Places
  <2>3. Step(t, r)
    BY <2>1
  <2> HIDE DEF r
  <2>4. QED BY <2>2, <2>3, StepFacts
<1>3. QED BY <1>1, <1>2 DEF BeginImport, Begin

LEMMA OnPromptEdit ==
  ASSUME PromptTypeOK, NEW t \in Editor, BeginOnPrompt(t)
  PROVE  /\ \/ /\ edit'[t].at \in {"rename", "delete", "choose", "max"}
               /\ edit'[t].row = card[edit'[t].prompt] /\ edit'[t].ver = NoVersion
            \/ /\ edit'[t].at = "resolve"
               /\ edit'[t].row = NoCard /\ edit'[t].ver = card[edit'[t].prompt].current
               /\ edit'[t].ver # NoVersion
         /\ edit'[t].prompt \in prompts
         /\ \A u \in Editor : u # t => edit'[u] = edit[u]
         /\ edit' \in [Editor -> Editing]
<1>1. PICK p \in prompts :
       \/ \E next \in {"rename", "delete", "choose"} :
            Step(t, [Idle EXCEPT !.at = next, !.prompt = p, !.row = card[p]])
       \/ \E pub \in BOOLEAN :
            Step(t, [Idle EXCEPT !.at = "max", !.prompt = p, !.row = card[p], !.publish = pub])
       \/ /\ card[p].current # NoVersion
          /\ Step(t, [Idle EXCEPT !.at = "resolve", !.prompt = p, !.ver = card[p].current])
  BY DEF BeginOnPrompt, Begin
<1>2. p \in Prompt /\ card[p] \in Card /\ card[p].current \in Version \cup {NoVersion}
  BY DEF PromptTypeOK, Card
<1>3. ASSUME NEW next \in {"rename", "delete", "choose"},
             Step(t, [Idle EXCEPT !.at = next, !.prompt = p, !.row = card[p]])
      PROVE  /\ edit'[t].at = next /\ edit'[t].row = card[p] /\ edit'[t].ver = NoVersion
             /\ edit'[t].prompt = p
             /\ \A u \in Editor : u # t => edit'[u] = edit[u]
             /\ edit' \in [Editor -> Editing]
  <2> DEFINE r == [Idle EXCEPT !.at = next, !.prompt = p, !.row = card[p]]
  <2>1. r \in Editing /\ r.at = next /\ r.row = card[p] /\ r.ver = NoVersion /\ r.prompt = p
    BY <1>2, IdleFacts DEF Editing, Places
  <2>2. Step(t, r)
    BY <1>3
  <2> HIDE DEF r
  <2>3. QED BY <2>1, <2>2, StepFacts
<1>4. ASSUME NEW pub \in BOOLEAN,
             Step(t, [Idle EXCEPT !.at = "max", !.prompt = p, !.row = card[p], !.publish = pub])
      PROVE  /\ edit'[t].at = "max" /\ edit'[t].row = card[p] /\ edit'[t].ver = NoVersion
             /\ edit'[t].prompt = p
             /\ \A u \in Editor : u # t => edit'[u] = edit[u]
             /\ edit' \in [Editor -> Editing]
  <2> DEFINE r == [Idle EXCEPT !.at = "max", !.prompt = p, !.row = card[p], !.publish = pub]
  <2>1. r \in Editing /\ r.at = "max" /\ r.row = card[p] /\ r.ver = NoVersion /\ r.prompt = p
    BY <1>2, IdleFacts DEF Editing, Places
  <2>2. Step(t, r)
    BY <1>4
  <2> HIDE DEF r
  <2>3. QED BY <2>1, <2>2, StepFacts
<1>5. ASSUME Step(t, [Idle EXCEPT !.at = "resolve", !.prompt = p, !.ver = card[p].current])
      PROVE  /\ edit'[t].at = "resolve" /\ edit'[t].row = NoCard /\ edit'[t].ver = card[p].current
             /\ edit'[t].prompt = p
             /\ \A u \in Editor : u # t => edit'[u] = edit[u]
             /\ edit' \in [Editor -> Editing]
  <2> DEFINE r == [Idle EXCEPT !.at = "resolve", !.prompt = p, !.ver = card[p].current]
  <2>1. r \in Editing /\ r.at = "resolve" /\ r.row = NoCard /\ r.ver = card[p].current /\ r.prompt = p
    BY <1>2, IdleFacts DEF Editing, Places
  <2>2. Step(t, r)
    BY <1>5
  <2> HIDE DEF r
  <2>3. QED BY <2>1, <2>2, StepFacts
<1>6. QED BY <1>1, <1>3, <1>4, <1>5

LEMMA OnVersionEdit ==
  ASSUME PromptTypeOK, NEW t \in Editor, BeginOnVersion(t)
  PROVE  /\ edit'[t].at = "row" /\ edit'[t].row = NoCard
         /\ edit'[t].ver \in stored /\ edit'[t].prompt = home[edit'[t].ver]
         /\ \A u \in Editor : u # t => edit'[u] = edit[u]
         /\ edit' \in [Editor -> Editing]
<1>1. PICK v \in stored, pub \in BOOLEAN :
        Step(t, [Idle EXCEPT !.at = "row", !.prompt = home[v], !.ver = v, !.publish = pub])
  BY DEF BeginOnVersion, Begin
<1> DEFINE r == [Idle EXCEPT !.at = "row", !.prompt = home[v], !.ver = v, !.publish = pub]
<1>2. v \in Version /\ home[v] \in Prompt \cup {NoPrompt}
  BY DEF PromptTypeOK
<1>3. r \in Editing /\ r.at = "row" /\ r.row = NoCard /\ r.ver = v /\ r.prompt = home[v]
  BY <1>2, IdleFacts DEF Editing, Places
<1>4. Step(t, r)
  BY <1>1
<1> HIDE DEF r
<1>5. QED BY <1>3, <1>4, StepFacts

LEMMA UpdateAgentEdit ==
  ASSUME PromptTypeOK, NEW t \in Editor, BeginUpdateAgent(t)
  PROVE  /\ edit'[t].at = "agent" /\ edit'[t].row = NoCard /\ edit'[t].ver = NoVersion
         /\ edit'[t].agent \in Agent
         /\ \A u \in Editor : u # t => edit'[u] = edit[u]
         /\ edit' \in [Editor -> Editing]
<1>1. PICK a \in Agent : Step(t, [Idle EXCEPT !.at = "agent", !.agent = a, !.prompt = bound[a]])
  BY DEF BeginUpdateAgent, Begin
<1> DEFINE r == [Idle EXCEPT !.at = "agent", !.agent = a, !.prompt = bound[a]]
<1>2. bound[a] \in Prompt \cup {NoPrompt}
  BY DEF PromptTypeOK
<1>3. r \in Editing /\ r.at = "agent" /\ r.row = NoCard /\ r.ver = NoVersion /\ r.agent = a
  BY <1>2, IdleFacts DEF Editing, Places
<1>4. Step(t, r)
  BY <1>1
<1> HIDE DEF r
<1>5. QED BY <1>3, <1>4, StepFacts

(* Requests that go on. *)
LEMMA NamedEdit ==
  ASSUME PromptTypeOK, NEW t \in Editor, UniqueName(t) \/ Rename(t)
  PROVE  /\ edit[t].at = "name" => edit'[t].at = "insert"
         /\ edit[t].at = "rename" => edit'[t].at = "save"
         /\ edit[t].at \in {"name", "rename"}
         /\ edit'[t].prompt = edit[t].prompt /\ edit'[t].ver = edit[t].ver
         /\ edit'[t].row.current = edit[t].row.current
         /\ \A u \in Editor : u # t => edit'[u] = edit[u]
         /\ edit' \in [Editor -> Editing]
<1>1. edit[t] \in Editing /\ edit[t].row \in Card
  BY EditType DEF Editing
<1>2. CASE UniqueName(t)
  <2>1. edit[t].at = "name"
    BY <1>2 DEF UniqueName
  <2>2. PICK n \in Title : Step(t, [edit[t] EXCEPT !.at = "insert", !.row.name = n])
    BY <1>2 DEF UniqueName
  <2> DEFINE r == [edit[t] EXCEPT !.at = "insert", !.row.name = n]
  <2>3. /\ [edit[t].row EXCEPT !.name = n] \in Card
        /\ [edit[t].row EXCEPT !.name = n].current = edit[t].row.current
    BY <1>1 DEF Card
  <2>4. /\ r \in Editing /\ r.at = "insert" /\ r.prompt = edit[t].prompt /\ r.ver = edit[t].ver
        /\ r.row.current = edit[t].row.current
    BY <1>1, <2>3 DEF Editing, Places
  <2>5. Step(t, r)
    BY <2>2
  <2> HIDE DEF r
  <2>6. QED BY <2>1, <2>4, <2>5, StepFacts
<1>3. CASE Rename(t)
  <2>1. edit[t].at = "rename"
    BY <1>3 DEF Rename
  <2>2. PICK n \in Title : Step(t, [edit[t] EXCEPT !.at = "save", !.row.name = n])
    BY <1>3 DEF Rename
  <2> DEFINE r == [edit[t] EXCEPT !.at = "save", !.row.name = n]
  <2>3. /\ [edit[t].row EXCEPT !.name = n] \in Card
        /\ [edit[t].row EXCEPT !.name = n].current = edit[t].row.current
    BY <1>1 DEF Card
  <2>4. /\ r \in Editing /\ r.at = "save" /\ r.prompt = edit[t].prompt /\ r.ver = edit[t].ver
        /\ r.row.current = edit[t].row.current
    BY <1>1, <2>3 DEF Editing, Places
  <2>5. Step(t, r)
    BY <2>2
  <2> HIDE DEF r
  <2>6. QED BY <2>1, <2>4, <2>5, StepFacts
<1>4. QED BY <1>2, <1>3

LEMMA ReadRowEdit ==
  ASSUME PromptTypeOK, NEW t \in Editor, ReadRow(t)
  PROVE  /\ edit'[t].at \in {"max", "publish", "count"}
         /\ edit[t].ver = NoVersion => edit'[t].at = "max"
         /\ edit'[t].prompt = edit[t].prompt /\ edit'[t].ver = edit[t].ver
         /\ edit[t].prompt \in prompts
         /\ edit'[t].row = card[edit[t].prompt]
         /\ \A u \in Editor : u # t => edit'[u] = edit[u]
         /\ edit' \in [Editor -> Editing]
<1> DEFINE at == IF edit[t].ver = NoVersion THEN "max"
                 ELSE IF edit[t].publish THEN "publish" ELSE "count"
           r == [edit[t] EXCEPT !.row = card[edit[t].prompt], !.at = at]
<1>1. Step(t, r)
  BY DEF ReadRow
<1>2. /\ at \in {"max", "publish", "count"}
      /\ edit[t].ver = NoVersion => at = "max"
      /\ edit[t].ver # NoVersion => at \in {"publish", "count"}
  OBVIOUS
<1> HIDE DEF at
<1>3. edit[t] \in Editing /\ edit[t].prompt \in prompts
  BY EditType DEF ReadRow
<1>4. card[edit[t].prompt] \in Card
  BY <1>3 DEF PromptTypeOK
<1>5. /\ r \in Editing /\ r.at = at /\ r.prompt = edit[t].prompt /\ r.ver = edit[t].ver
      /\ r.row = card[edit[t].prompt]
  BY <1>2, <1>3, <1>4 DEF Editing, Places
<1> HIDE DEF r
<1>6. /\ edit'[t] = r /\ edit' \in [Editor -> Editing]
      /\ \A u \in Editor : u # t => edit'[u] = edit[u]
  BY <1>1, <1>5, StepFacts
<1>7. QED BY <1>2, <1>3, <1>5, <1>6

LEMMA ChooseEdit ==
  ASSUME PromptTypeOK, NEW t \in Editor, Choose(t)
  PROVE  /\ edit'[t].at = "save"
         /\ edit'[t].prompt = edit[t].prompt /\ edit'[t].ver = edit[t].ver
         /\ edit'[t].row.current \in VersionsOf(edit[t].prompt) \cap published
         /\ \A u \in Editor : u # t => edit'[u] = edit[u]
         /\ edit' \in [Editor -> Editing]
<1>1. PICK v \in VersionsOf(edit[t].prompt) \cap published :
        Step(t, [edit[t] EXCEPT !.at = "save", !.row.current = v])
  BY DEF Choose
<1> DEFINE r == [edit[t] EXCEPT !.at = "save", !.row.current = v]
<1>2. edit[t] \in Editing /\ edit[t].row \in Card /\ v \in Version
  BY EditType DEF Editing, VersionsOf, PromptTypeOK
<1>3. /\ [edit[t].row EXCEPT !.current = v] \in Card
      /\ [edit[t].row EXCEPT !.current = v].current = v
  BY <1>2 DEF Card
<1>4. /\ r \in Editing /\ r.at = "save" /\ r.prompt = edit[t].prompt /\ r.ver = edit[t].ver
      /\ r.row.current = v
  BY <1>2, <1>3 DEF Editing, Places
<1>5. Step(t, r)
  BY <1>1
<1> HIDE DEF r
<1>6. QED BY <1>1, <1>4, <1>5, StepFacts

LEMMA CountedEdit ==
  ASSUME PromptTypeOK, NumberBound, NEW t \in Editor, ReadMax(t) \/ CountVersions(t)
  PROVE  /\ edit[t].at \in {"max", "count"}
         /\ edit[t].at = "max" => edit'[t].at = "add"
         /\ edit[t].at = "count" => edit'[t].at = "remove"
         /\ edit'[t].prompt = edit[t].prompt /\ edit'[t].ver = edit[t].ver
         /\ edit'[t].row = edit[t].row
         /\ edit[t].at = "max" => edit'[t].n = Highest(edit[t].prompt)
         /\ \A u \in Editor : u # t => edit'[u] = edit[u]
         /\ edit' \in [Editor -> Editing]
<1>1. edit[t] \in Editing
  BY EditType
<1>2. CASE ReadMax(t)
  <2> DEFINE h == Highest(edit[t].prompt)
             r == [edit[t] EXCEPT !.at = "add", !.n = h]
  <2>1. h \in Nat
    BY HighestFacts
  <2>2. Step(t, r)
    BY <1>2 DEF ReadMax
  <2> HIDE DEF h
  <2>3. /\ r \in Editing /\ r.at = "add" /\ r.prompt = edit[t].prompt /\ r.ver = edit[t].ver
        /\ r.row = edit[t].row /\ r.n = h
    BY <1>1, <2>1 DEF Editing, Places
  <2> HIDE DEF r
  <2>4. /\ edit'[t] = r /\ edit' \in [Editor -> Editing]
        /\ \A u \in Editor : u # t => edit'[u] = edit[u]
    BY <2>2, <2>3, StepFacts
  <2>5. edit[t].at = "max"
    BY <1>2 DEF ReadMax
  <2>6. QED BY <2>3, <2>4, <2>5 DEF h
<1>3. CASE CountVersions(t)
  <2> DEFINE r == [edit[t] EXCEPT !.at = "remove"]
  <2>1. /\ r \in Editing /\ r.at = "remove" /\ r.prompt = edit[t].prompt /\ r.ver = edit[t].ver
        /\ r.row = edit[t].row
    BY <1>1 DEF Editing, Places
  <2>2. Step(t, r)
    BY <1>3 DEF CountVersions
  <2> HIDE DEF r
  <2>3. QED BY <1>3, <2>1, <2>2, StepFacts DEF CountVersions
<1>4. QED BY <1>2, <1>3

-----------------------------------------------------------------------------
(* The invariant in parts: the rows, the agents and the history. *)
Rows ==
  /\ prompts \subseteq madeP /\ madeP \subseteq Prompt
  /\ card \in [Prompt -> Card]
  /\ stored \subseteq madeV /\ published \subseteq madeV /\ madeV \subseteq Version
  /\ home \in [Version -> Prompt \cup {NoPrompt}]
  /\ number \in [Version -> Nat]
  /\ NumberBound
  /\ \A v \in madeV : home[v] \in madeP
  /\ \A p \in Prompt : Of(card[p].current, p)

Bindings ==
  /\ agents \in [Agent -> {"none", "live", "deleted"}]
  /\ bound \in [Agent -> Prompt \cup {NoPrompt}] /\ strayed \subseteq Agent

History == fresh \subseteq Editor /\ disturbed \subseteq Prompt

(* Ids are handed out once, and a version stays with its prompt. *)
Grows ==
  /\ madeP \subseteq madeP' /\ madeV \subseteq madeV'
  /\ \A v \in madeV : home'[v] = home[v]

LEMMA Parts ==
  RowInv <=> /\ Rows /\ Bindings /\ History /\ begun \in Nat
             /\ edit \in [Editor -> Editing] /\ \A t \in Editor : EditHolds(t)
             /\ offered \in [Editor -> SUBSET Version]
BY DEF RowInv, Rows, Bindings, History, PromptTypeOK

LEMMA OthersHold ==
  ASSUME RowInv, NEW u \in Editor, edit'[u] = edit[u], Grows
  PROVE  EditHolds(u)'
BY DEF RowInv, EditHolds, Of, Grows

LEMMA OfGrows ==
  ASSUME NEW v, NEW p, Of(v, p), Grows
  PROVE  v # NoVersion => v \in madeV' /\ home'[v] = p
BY DEF Of, Grows

(* A request that only goes on leaves rows and agents alone. *)
LEMMA OnlyEditRows ==
  ASSUME RowInv, OnlyEdit
  PROVE  Rows' /\ Bindings' /\ Grows
BY Parts DEF OnlyEdit, promptRows, versionRows, agentRows, Rows, Bindings, Grows, NumberBound, Of

LEMMA CommitsHistory ==
  ASSUME RowInv, NEW t \in Editor, NEW p \in Prompt, Commits(t, p)
  PROVE  History'
BY Parts DEF Commits, History

LEMMA ReadsHistory ==
  ASSUME RowInv, NEW t \in Editor, Reads(t) \/ Leaves(t) \/ Keeps
  PROVE  History'
BY Parts DEF Reads, Leaves, Keeps, History

LEMMA IdleHolds ==
  ASSUME NEW t \in Editor, edit'[t] = Idle
  PROVE  EditHolds(t)'
BY IdleFacts DEF EditHolds, Of, OnPrompt, OnVersion

LEMMA SaveFacts ==
  ASSUME RowInv, NEW t \in Editor, NEW row \in Card, Save(t, row), edit[t].prompt \in madeP
  PROVE  /\ prompts' \subseteq madeP' /\ madeP' = madeP /\ edit[t].prompt \in Prompt
         /\ card' \in [Prompt -> Card]
         /\ card'[edit[t].prompt] = row
         /\ \A p \in Prompt : p # edit[t].prompt => card'[p] = card[p]
         /\ Bindings' /\ History' /\ edit'[t] = Idle /\ edit' \in [Editor -> Editing]
         /\ \A u \in Editor : u # t => edit'[u] = edit[u]
<1>1. edit[t].prompt \in Prompt
  BY DEF RowInv, PromptTypeOK
<1>2. History'
  BY <1>1, CommitsHistory DEF Save
<1>3. Bindings'
  BY Parts DEF Save, Bindings, agentRows
<1>4. /\ edit'[t] = Idle /\ edit' \in [Editor -> Editing]
      /\ \A u \in Editor : u # t => edit'[u] = edit[u]
  BY FinishFacts DEF Save, RowInv
<1>5. QED BY <1>1, <1>2, <1>3, <1>4 DEF Save, RowInv, PromptTypeOK

(* What a step has to show. *)
Kept(t) == Rows' /\ Grows /\ Bindings' /\ History' /\ edit' \in [Editor -> Editing]
           /\ EditHolds(t)' /\ \A u \in Editor : u # t => edit'[u] = edit[u]

LEMMA FinishKept ==
  ASSUME RowInv, NEW t \in Editor, Finish(t), Rows', Grows, Bindings', History'
  PROVE  Kept(t)
BY FinishFacts, IdleHolds DEF Kept, RowInv

LEMMA EditKept ==
  ASSUME RowInv, NEW t \in Editor, OnlyEdit, Reads(t) \/ Leaves(t) \/ Keeps,
         edit' \in [Editor -> Editing], \A u \in Editor : u # t => edit'[u] = edit[u],
         edit'[t].at \in OnPrompt => edit'[t].prompt \in madeP,
         edit'[t].at \in OnVersion => edit'[t].ver \in madeV,
         edit'[t].at = "agent" => edit'[t].agent \in Agent,
         Of(edit'[t].ver, edit'[t].prompt), Of(edit'[t].row.current, edit'[t].prompt)
  PROVE  Kept(t)
<1>1. Rows' /\ Bindings' /\ Grows /\ History'
  BY OnlyEditRows, ReadsHistory
<1>2. UNCHANGED <<madeP, madeV, home>>
  BY DEF OnlyEdit, promptRows, versionRows
<1>3. EditHolds(t)'
  BY <1>2 DEF EditHolds, Of
<1>4. QED BY <1>1, <1>3 DEF Kept

LEMMA ArriveKept ==
  ASSUME RowInv, NEW t \in Editor, Arrive(t)
  PROVE  Kept(t)
<1>1. PromptTypeOK /\ prompts \subseteq madeP /\ stored \subseteq madeV /\ madeP \subseteq Prompt
  BY DEF RowInv, PromptTypeOK
<1> USE DEF OnPrompt, OnVersion
<1>2. CASE BeginCreate(t)
  <2>1. OnlyEdit /\ Keeps
    BY <1>2 DEF BeginCreate
  <2>2. QED BY <1>1, <1>2, <2>1, CreateEdit, EditKept DEF Of
<1>3. CASE BeginImport(t)
  <2>1. OnlyEdit /\ (Reads(t) \/ Keeps)
    BY <1>3 DEF BeginImport
  <2>2. QED BY <1>1, <1>3, <2>1, ImportEdit, EditKept DEF Of
<1>4. CASE BeginOnPrompt(t)
  <2>1. OnlyEdit /\ Reads(t)
    BY <1>4 DEF BeginOnPrompt
  <2>2. \A p \in prompts : Of(card[p].current, p)
    BY <1>1 DEF RowInv
  <2>3. QED BY <1>1, <1>4, <2>1, <2>2, OnPromptEdit, EditKept, IdleFacts DEF Of
<1>5. CASE BeginOnVersion(t)
  <2>1. OnlyEdit /\ Reads(t)
    BY <1>5 DEF BeginOnVersion
  <2>2. \A v \in stored : home[v] \in madeP
    BY <1>1 DEF RowInv
  <2>3. QED BY <1>1, <1>5, <2>1, <2>2, OnVersionEdit, EditKept, IdleFacts DEF Of
<1>6. CASE BeginUpdateAgent(t)
  <2>1. OnlyEdit /\ Keeps
    BY <1>6 DEF BeginUpdateAgent
  <2>2. QED BY <1>1, <1>6, <2>1, UpdateAgentEdit, EditKept, IdleFacts DEF Of
<1>7. CASE CreateAgent(t)
  <2>1. PICK a \in Agent, p \in madeP \cup {NoPrompt} : Bind(a, p)
    BY <1>7 DEF CreateAgent
  <2>2. UNCHANGED edit /\ Keeps
    BY <1>7 DEF CreateAgent
  <2>3. Bindings'
    BY <1>1, <2>1, Parts DEF Bind, Bindings
  <2>4. Rows' /\ Grows
    BY <2>1, Parts DEF Bind, Rows, Grows, promptRows, versionRows, NumberBound, Of
  <2>5. EditHolds(t)'
    BY <2>2, <2>4, OthersHold
  <2>6. QED BY <2>2, <2>3, <2>4, <2>5, ReadsHistory DEF Kept, RowInv, PromptTypeOK
<1>8. QED BY <1>2, <1>3, <1>4, <1>5, <1>6, <1>7 DEF Arrive

LEMMA InsertKept ==
  ASSUME RowInv, NEW t \in Editor, Insert(t)
  PROVE  Kept(t)
<1>1. PICK p \in Prompt \ madeP, v \in Version \ madeV :
       /\ prompts' = prompts \cup {p} /\ madeP' = madeP \cup {p}
       /\ card' = [card EXCEPT ![p] = [edit[t].row EXCEPT !.current = v]]
       /\ stored' = stored \cup {v} /\ published' = published \cup {v}
       /\ madeV' = madeV \cup {v}
       /\ home' = [home EXCEPT ![v] = p] /\ number' = [number EXCEPT ![v] = 1]
  BY DEF Insert
<1>2. Rows /\ edit[t].row \in Card
  BY Parts, EditType DEF RowInv, Editing
<1>3. /\ [edit[t].row EXCEPT !.current = v] \in Card
      /\ [edit[t].row EXCEPT !.current = v].current = v
  BY <1>2 DEF Card
<1>4. Grows /\ home'[v] = p
  BY <1>1, <1>2 DEF Grows, Rows
<1>5. NumberBound'
  <2>1. PICK b \in Nat : \A w \in Version : number[w] <= b
    BY <1>2 DEF Rows, NumberBound
  <2>2. b + 1 \in Nat /\ \A w \in Version : number'[w] <= b + 1
    BY <1>1, <1>2, <2>1 DEF Rows
  <2>3. QED BY <2>2 DEF NumberBound
<1>6. \A q \in Prompt : Of(card[q].current, q)'
  <2>1. SUFFICES ASSUME NEW q \in Prompt PROVE Of(card[q].current, q)'
    OBVIOUS
  <2>2. CASE q = p
    <3>1. card'[q].current = v
      BY <1>1, <1>2, <1>3, <2>2 DEF Rows
    <3>2. QED BY <1>1, <1>4, <2>2, <3>1 DEF Of
  <2>3. CASE q # p
    <3>1. card'[q] = card[q] /\ Of(card[q].current, q)
      BY <1>1, <1>2, <2>3 DEF Rows
    <3>2. QED BY <1>4, <3>1, OfGrows DEF Of
  <2>4. QED BY <2>2, <2>3
<1>7. Rows'
  BY <1>1, <1>2, <1>3, <1>4, <1>5, <1>6 DEF Rows
<1>8. Bindings' /\ History'
  BY Parts, ReadsHistory DEF Insert, agentRows, Bindings
<1>9. QED BY <1>4, <1>7, <1>8, FinishKept DEF Insert

(* A save of the row, with the current version it names, and with versions as  *)
(* they were or one more.                                                      *)
LEMMA SaveKept ==
  ASSUME RowInv, NEW t \in Editor, NEW row \in Card, Save(t, row), edit[t].prompt \in madeP,
         madeV \subseteq madeV', madeV' \subseteq Version,
         stored' \subseteq madeV', published' \subseteq madeV',
         home' \in [Version -> Prompt \cup {NoPrompt}], \A v \in madeV : home'[v] = home[v],
         \A v \in madeV' : home'[v] \in madeP,
         number' \in [Version -> Nat], NumberBound',
         row.current # NoVersion => row.current \in madeV' /\ home'[row.current] = edit[t].prompt
  PROVE  Kept(t)
<1>1. /\ prompts' \subseteq madeP' /\ madeP' = madeP /\ edit[t].prompt \in Prompt
      /\ card' \in [Prompt -> Card] /\ card'[edit[t].prompt] = row
      /\ \A p \in Prompt : p # edit[t].prompt => card'[p] = card[p]
      /\ Bindings' /\ History'
  BY SaveFacts
<1>2. Finish(t)
  BY DEF Save
<1>3. Grows
  BY <1>1 DEF Grows
<1>4. \A p \in Prompt : Of(card[p].current, p)'
  <2>1. SUFFICES ASSUME NEW p \in Prompt PROVE Of(card[p].current, p)'
    OBVIOUS
  <2>2. CASE p = edit[t].prompt
    BY <1>1, <2>2 DEF Of
  <2>3. CASE p # edit[t].prompt
    <3>1. card'[p] = card[p] /\ Of(card[p].current, p)
      BY <1>1, <2>3 DEF RowInv
    <3>2. QED BY <1>3, <3>1, OfGrows DEF Of
  <2>4. QED BY <2>2, <2>3
<1>5. Rows'
  BY <1>1, <1>4 DEF Rows, RowInv, PromptTypeOK
<1>6. QED BY <1>1, <1>2, <1>3, <1>5, FinishKept

LEMMA SameVersions ==
  ASSUME RowInv, UNCHANGED <<madeV, home, number>>
  PROVE  /\ madeV' \subseteq Version /\ \A v \in madeV' : home'[v] \in madeP
         /\ home' \in [Version -> Prompt \cup {NoPrompt}]
         /\ number' \in [Version -> Nat] /\ NumberBound'
BY DEF RowInv, PromptTypeOK, NumberBound

LEMMA SaveRowKept ==
  ASSUME RowInv, NEW t \in Editor, SaveRow(t)
  PROVE  Kept(t)
<1>1. edit[t].prompt \in madeP /\ Of(edit[t].row.current, edit[t].prompt)
  BY DEF RowInv, EditHolds, SaveRow, OnPrompt
<1>2. edit[t].row \in Card
  BY EditType DEF RowInv, Editing
<1>3. UNCHANGED <<stored, published, madeV, home, number>> /\ Save(t, edit[t].row)
  BY DEF SaveRow, versionRows
<1>4. stored' \subseteq madeV' /\ published' \subseteq madeV'
  BY <1>3 DEF RowInv, PromptTypeOK
<1>5. QED BY <1>1, <1>2, <1>3, <1>4, SameVersions, SaveKept DEF Of

LEMMA PublishKept ==
  ASSUME RowInv, NEW t \in Editor, Publish(t)
  PROVE  Kept(t)
<1>1. /\ edit[t].prompt \in madeP /\ edit[t].ver \in madeV /\ edit[t].ver \in Version
      /\ home[edit[t].ver] = edit[t].prompt
  BY DEF RowInv, PromptTypeOK, EditHolds, Of, Publish, OnPrompt, OnVersion
<1> DEFINE row == [edit[t].row EXCEPT !.current = edit[t].ver]
<1>2. edit[t].row \in Card
  BY EditType DEF RowInv, Editing
<1>3. row \in Card /\ row.current = edit[t].ver
  BY <1>1, <1>2 DEF Card
<1>4. UNCHANGED <<madeV, home, number>> /\ Save(t, row)
  BY DEF Publish
<1> HIDE DEF row
<1>5. stored' \subseteq madeV' /\ published' \subseteq madeV'
  BY <1>1, <1>4 DEF Publish, RowInv, PromptTypeOK
<1>6. QED BY <1>1, <1>3, <1>4, <1>5, SameVersions, SaveKept

LEMMA RemoveKept ==
  ASSUME RowInv, NEW t \in Editor, Remove(t)
  PROVE  Kept(t)
<1>1. edit[t].prompt \in madeP /\ edit[t].prompt \in Prompt
  BY DEF RowInv, PromptTypeOK, EditHolds, Remove, OnPrompt
<1>2. UNCHANGED <<madeV, home, number>> /\ stored' \subseteq madeV' /\ published' \subseteq madeV'
  BY DEF Remove, RowInv, PromptTypeOK
<1>3. CASE edit[t].row.current # edit[t].ver
  <2>1. /\ Commits(t, edit[t].prompt) /\ Finish(t)
        /\ UNCHANGED <<promptRows, agentRows, strayed>>
    BY <1>3 DEF Remove
  <2>2. Rows'
    <3>1. UNCHANGED <<prompts, madeP, card>>
      BY <2>1 DEF promptRows
    <3>2. QED BY <1>2, <3>1, SameVersions DEF Rows, RowInv, PromptTypeOK, Of
  <2>3. Grows /\ Bindings'
    BY <1>2, <2>1, Parts DEF Grows, Bindings, promptRows, agentRows
  <2>4. QED BY <1>1, <2>1, <2>2, <2>3, CommitsHistory, FinishKept
<1>4. CASE \E next \in Best(VersionsOf(edit[t].prompt) \ {edit[t].ver}) :
             Save(t, [edit[t].row EXCEPT !.current = next])
  <2>1. PICK next \in Best(VersionsOf(edit[t].prompt) \ {edit[t].ver}) :
             Save(t, [edit[t].row EXCEPT !.current = next])
    BY <1>4
  <2>2. next \in VersionsOf(edit[t].prompt)
    BY DEF Best
  <2>3. next \in madeV /\ next \in Version /\ home[next] = edit[t].prompt
    BY <2>2 DEF VersionsOf, RowInv, PromptTypeOK
  <2> DEFINE row == [edit[t].row EXCEPT !.current = next]
  <2>4. edit[t].row \in Card
    BY EditType DEF RowInv, Editing
  <2>5. row \in Card /\ row.current = next
    BY <2>3, <2>4 DEF Card
  <2>6. Save(t, row)
    BY <2>1
  <2> HIDE DEF row
  <2>7. QED BY <1>1, <1>2, <2>3, <2>5, <2>6, SameVersions, SaveKept
<1>5. QED BY <1>3, <1>4 DEF Remove

LEMMA AddVersionKept ==
  ASSUME RowInv, NEW t \in Editor, AddVersion(t)
  PROVE  Kept(t)
<1>1. edit[t].prompt \in madeP /\ edit[t].prompt \in Prompt /\ edit[t].n \in Nat /\ edit[t].row \in Card
  BY EditType DEF RowInv, PromptTypeOK, EditHolds, AddVersion, OnPrompt, Editing
<1>2. PICK v \in Version \ madeV :
       /\ stored' = stored \cup {v}
       /\ madeV' = madeV \cup {v}
       /\ home' = [home EXCEPT ![v] = edit[t].prompt]
       /\ number' = [number EXCEPT ![v] = edit[t].n + 1]
       /\ \/ /\ published' = published \cup {v}
             /\ Save(t, [edit[t].row EXCEPT !.current = v])
          \/ /\ Commits(t, edit[t].prompt)
             /\ Finish(t)
             /\ UNCHANGED <<promptRows, published, agentRows, strayed>>
  BY DEF AddVersion
<1>3. Rows
  BY Parts
<1>4. NumberBound'
  <2>1. PICK b \in Nat : \A w \in Version : number[w] <= b
    BY <1>3 DEF Rows, NumberBound
  <2>2. b + edit[t].n + 1 \in Nat /\ \A w \in Version : number'[w] <= b + edit[t].n + 1
    BY <1>1, <1>2, <1>3, <2>1 DEF Rows
  <2>3. QED BY <2>2 DEF NumberBound
<1>5. /\ madeV \subseteq madeV' /\ madeV' \subseteq Version /\ stored' \subseteq madeV'
      /\ published' \subseteq madeV'
      /\ home' \in [Version -> Prompt \cup {NoPrompt}] /\ \A w \in madeV : home'[w] = home[w]
      /\ \A w \in madeV' : home'[w] \in madeP
      /\ number' \in [Version -> Nat]
      /\ v \in madeV' /\ home'[v] = edit[t].prompt
  BY <1>1, <1>2, <1>3 DEF Rows
<1>6. CASE Save(t, [edit[t].row EXCEPT !.current = v])
  <2> DEFINE row == [edit[t].row EXCEPT !.current = v]
  <2>1. row \in Card /\ row.current = v
    BY <1>1 DEF Card
  <2>2. Save(t, row)
    BY <1>6
  <2> HIDE DEF row
  <2>3. QED BY <1>1, <1>4, <1>5, <2>1, <2>2, SaveKept
<1>7. CASE /\ Commits(t, edit[t].prompt)
           /\ Finish(t)
           /\ UNCHANGED <<promptRows, published, agentRows, strayed>>
  <2>1. UNCHANGED <<prompts, madeP, card>> /\ Bindings'
    BY <1>7, Parts DEF promptRows, agentRows, Bindings
  <2>2. Grows
    BY <1>5, <2>1 DEF Grows
  <2>3. \A p \in Prompt : Of(card[p].current, p)'
    BY <1>3, <2>1, <2>2, OfGrows DEF Rows, Of
  <2>4. Rows'
    BY <1>3, <1>4, <1>5, <2>1, <2>3 DEF Rows
  <2>5. QED BY <1>1, <1>7, <2>1, <2>2, <2>4, CommitsHistory, FinishKept
<1>8. QED BY <1>2, <1>6, <1>7

LEMMA DeleteKept ==
  ASSUME RowInv, NEW t \in Editor, Delete(t)
  PROVE  Kept(t)
<1> DEFINE p == edit[t].prompt
<1>1. p \in madeP /\ p \in Prompt /\ Rows /\ Bindings /\ History
  BY Parts DEF RowInv, PromptTypeOK, EditHolds, Delete, OnPrompt
<1>2. /\ prompts' = prompts \ {p} /\ card' = [card EXCEPT ![p] = NoCard]
      /\ stored' \subseteq stored /\ UNCHANGED <<madeP, published, madeV, home, number>>
      /\ fresh' \subseteq fresh /\ UNCHANGED <<agents, disturbed, strayed>> /\ Finish(t)
      /\ bound' = [a \in Agent |-> IF agents[a] = "live" /\ bound[a] = p THEN NoPrompt ELSE bound[a]]
  BY DEF Delete
<1> HIDE DEF p
<1>3. Grows /\ History' /\ Bindings'
  BY <1>1, <1>2 DEF Grows, History, Bindings
<1>4. \A q \in Prompt : Of(card[q].current, q)'
  <2>1. SUFFICES ASSUME NEW q \in Prompt PROVE Of(card[q].current, q)'
    OBVIOUS
  <2>2. CASE q = p
    <3>1. card'[q] = NoCard
      BY <1>1, <1>2, <2>2 DEF Rows
    <3>2. QED BY <3>1, IdleFacts DEF Of
  <2>3. CASE q # p
    <3>1. card'[q] = card[q] /\ Of(card[q].current, q)
      BY <1>1, <1>2, <2>3 DEF Rows
    <3>2. QED BY <1>3, <3>1, OfGrows DEF Of
  <2>4. QED BY <2>2, <2>3
<1>5. Rows'
  BY <1>1, <1>2, <1>4, IdleFacts DEF Rows, NumberBound
<1>6. QED BY <1>2, <1>3, <1>5, FinishKept

LEMMA GoOnKept ==
  ASSUME RowInv, NEW t \in Editor, GoOn(t)
  PROVE  Kept(t)
<1>1. /\ PromptTypeOK /\ NumberBound /\ prompts \subseteq madeP /\ stored \subseteq madeV
      /\ EditHolds(t) /\ edit[t] \in Editing
  BY EditType DEF RowInv, PromptTypeOK
<1> USE DEF OnPrompt, OnVersion
<1>2. CASE UniqueName(t) \/ Rename(t)
  <2>1. OnlyEdit /\ Keeps
    BY <1>2 DEF UniqueName, Rename
  <2>2. QED BY <1>1, <1>2, <2>1, NamedEdit, EditKept DEF EditHolds
<1>3. CASE ReadRow(t)
  <2>1. OnlyEdit /\ Keeps /\ edit[t].at = "row" /\ edit[t].prompt \in prompts
    BY <1>3 DEF ReadRow
  <2>2. Of(card[edit[t].prompt].current, edit[t].prompt)
    BY <1>1, <2>1 DEF RowInv, PromptTypeOK
  <2>3. /\ edit'[t].at \in {"max", "publish", "count"}
        /\ edit[t].ver = NoVersion => edit'[t].at = "max"
        /\ edit'[t].prompt = edit[t].prompt /\ edit'[t].ver = edit[t].ver
        /\ edit'[t].row = card[edit[t].prompt]
        /\ \A u \in Editor : u # t => edit'[u] = edit[u]
        /\ edit' \in [Editor -> Editing]
    BY <1>1, <1>3, ReadRowEdit
  <2>4. edit'[t].at \in OnVersion => edit'[t].ver \in madeV
    BY <1>1, <2>3 DEF EditHolds, Of
  <2>5. edit'[t].prompt \in madeP /\ Of(edit'[t].ver, edit'[t].prompt)
        /\ Of(edit'[t].row.current, edit'[t].prompt)
    BY <1>1, <2>1, <2>2, <2>3 DEF EditHolds
  <2>6. QED BY <2>1, <2>3, <2>4, <2>5, EditKept
<1>4. CASE GiveUp(t) \/ Resolve(t)
  <2>1. OnlyEdit /\ Leaves(t) /\ Finish(t)
    BY <1>4 DEF GiveUp, Resolve
  <2>2. QED BY <2>1, OnlyEditRows, ReadsHistory, FinishKept
<1>5. CASE Choose(t)
  <2>1. OnlyEdit /\ Keeps /\ edit[t].at = "choose"
    BY <1>5 DEF Choose
  <2>2. /\ edit'[t].at = "save"
        /\ edit'[t].prompt = edit[t].prompt /\ edit'[t].ver = edit[t].ver
        /\ edit'[t].row.current \in VersionsOf(edit[t].prompt) \cap published
        /\ \A u \in Editor : u # t => edit'[u] = edit[u]
        /\ edit' \in [Editor -> Editing]
    BY <1>1, <1>5, ChooseEdit
  <2>3. Of(edit'[t].row.current, edit'[t].prompt)
    BY <1>1, <2>2 DEF VersionsOf, Of
  <2>4. QED BY <1>1, <2>1, <2>2, <2>3, EditKept DEF EditHolds
<1>6. CASE ReadMax(t) \/ CountVersions(t)
  <2>1. OnlyEdit /\ Keeps
    BY <1>6 DEF ReadMax, CountVersions
  <2>2. /\ edit[t].at \in {"max", "count"}
        /\ edit[t].at = "max" => edit'[t].at = "add"
        /\ edit[t].at = "count" => edit'[t].at = "remove"
        /\ edit'[t].prompt = edit[t].prompt /\ edit'[t].ver = edit[t].ver
        /\ edit'[t].row = edit[t].row
        /\ \A u \in Editor : u # t => edit'[u] = edit[u]
        /\ edit' \in [Editor -> Editing]
    BY <1>1, <1>6, CountedEdit
  <2>3. QED BY <1>1, <2>1, <2>2, EditKept DEF EditHolds
<1>7. CASE SaveAgent(t) \/ DeleteAgent(t)
  <2>1. Finish(t) /\ Leaves(t) /\ edit[t].agent \in Agent
    BY <1>1, <1>7 DEF SaveAgent, DeleteAgent, EditHolds
  <2>2. UNCHANGED <<prompts, madeP, card, stored, published, madeV, home, number>>
    BY <1>7 DEF SaveAgent, DeleteAgent, Bind, promptRows, versionRows
  <2>3. Rows' /\ Grows
    BY <2>2, Parts DEF Rows, Grows, NumberBound, Of
  <2>4. edit[t].prompt \in Prompt \cup {NoPrompt} /\ madeP \subseteq Prompt
    BY <1>1 DEF Editing, PromptTypeOK
  <2>5. Bindings'
    BY <1>7, <2>1, <2>4, Parts DEF SaveAgent, DeleteAgent, Bind, Bindings
  <2>6. QED BY <2>1, <2>3, <2>5, ReadsHistory, FinishKept
<1>8. QED BY <1>2, <1>3, <1>4, <1>5, <1>6, <1>7, InsertKept, SaveRowKept, PublishKept,
             RemoveKept, AddVersionKept, DeleteKept DEF GoOn

-----------------------------------------------------------------------------
LEMMA OfferType ==
  ASSUME Rows', edit' \in [Editor -> Editing], offered \in [Editor -> SUBSET Version], Offer
  PROVE  offered' \in [Editor -> SUBSET Version]
<1>1. \A p : ServedAfter(p) \subseteq Version
  BY DEF ServedAfter, Rows
<1>2. QED BY <1>1 DEF Offer

LEMMA RowInit == PromptInit => RowInv
<1> SUFFICES ASSUME PromptInit PROVE RowInv
  OBVIOUS
<1>1. PromptTypeOK
  BY IdleFacts DEF PromptInit, PromptTypeOK
<1>2. NumberBound
  <2>1. \A v \in Version : number[v] <= 0
    BY DEF PromptInit
  <2>2. QED BY <2>1 DEF NumberBound
<1>3. \A p \in Prompt : Of(card[p].current, p)
  BY IdleFacts DEF PromptInit, Of
<1>4. \A t \in Editor : EditHolds(t)
  BY IdleFacts DEF PromptInit, EditHolds, Of, OnPrompt, OnVersion
<1>5. QED BY <1>1, <1>2, <1>3, <1>4 DEF RowInv, PromptInit

LEMMA RowStep == RowInv /\ [PromptNext]_promptVars => RowInv'
<1> SUFFICES ASSUME RowInv, [PromptNext]_promptVars PROVE RowInv'
  OBVIOUS
<1>1. CASE UNCHANGED promptVars
  BY <1>1 DEF promptVars, promptRows, versionRows, agentRows, RowInv, PromptTypeOK, NumberBound,
              EditHolds, Of
<1>2. CASE PromptNext
  <2>1. PICK t \in Editor : Arrive(t) \/ GoOn(t)
    BY <1>2 DEF PromptNext
  <2>2. Kept(t)
    BY <2>1, ArriveKept, GoOnKept
  <2>3. begun' \in Nat
    BY <1>2 DEF PromptNext, RowInv, PromptTypeOK
  <2>4. offered' \in [Editor -> SUBSET Version]
    BY <1>2, <2>2, OfferType DEF PromptNext, Kept, RowInv, PromptTypeOK
  <2>5. \A u \in Editor : EditHolds(u)'
    BY <2>2, OthersHold DEF Kept
  <2>6. Rows' /\ Bindings' /\ History' /\ edit' \in [Editor -> Editing]
    BY <2>2 DEF Kept
  <2>7. QED BY <2>3, <2>4, <2>5, <2>6 DEF RowInv, Rows, Bindings, History, PromptTypeOK
<1>3. QED BY <1>1, <1>2

(* Every variable keeps its type, however requests about prompts, versions and *)
(* agents run between each other's reads and writes (prompt/service.go).       *)
THEOREM PromptTypeCorrect == PromptSpec => []PromptTypeOK
<1>1. RowInv => PromptTypeOK
  BY DEF RowInv
<1>2. QED BY <1>1, RowInit, RowStep, PTL DEF PromptSpec

(* Every version that is current or that a request carries was made for the    *)
(* prompt it is named with, in every interleaving and without exception.       *)
THEOREM NamesOwnVersionsHolds == PromptSpec => []NamesOwnVersions
<1>1. RowInv => NamesOwnVersions
  BY DEF RowInv, EditHolds, NamesOwnVersions
<1>2. QED BY <1>1, RowInit, RowStep, PTL DEF PromptSpec

-----------------------------------------------------------------------------
(* What a resolution may return.  A version that becomes one to be served is   *)
(* the current version of its prompt by the same step: only Publish does it.   *)
LEMMA ServedIsCurrent ==
  ASSUME RowInv, NEW t \in Editor, Arrive(t) \/ GoOn(t),
         NEW v \in madeV, v \notin stored \cap published, v \in stored' \cap published'
  PROVE  home[v] \in prompts' /\ card'[home[v]].current = v
<1>1. ~UNCHANGED <<stored, published>>
  OBVIOUS
<1>2. ~OnlyEdit /\ ~UNCHANGED versionRows
  BY <1>1 DEF OnlyEdit, versionRows
<1>3. ~Arrive(t)
  BY <1>2 DEF Arrive, BeginCreate, BeginImport, BeginOnPrompt, BeginOnVersion, CreateAgent,
              BeginUpdateAgent, Bind
<1>4. GoOn(t)
  BY <1>3
<1>5. Insert(t) \/ AddVersion(t) \/ Publish(t) \/ Remove(t) \/ Delete(t)
  BY <1>2, <1>4 DEF GoOn, UniqueName, ReadRow, GiveUp, Rename, Choose, SaveRow, ReadMax, CountVersions,
              Resolve, SaveAgent, DeleteAgent, Bind
<1>6. ~Insert(t)
  BY DEF Insert
<1>7. ~AddVersion(t)
  <2>1. ASSUME AddVersion(t)
        PROVE  \E w \in Version \ madeV : stored' = stored \cup {w}
                  /\ published' \subseteq published \cup {w}
    BY <2>1 DEF AddVersion
  <2>2. QED BY <2>1
<1>8. ~Remove(t) /\ ~Delete(t)
  BY DEF Remove, Delete
<1>9. Publish(t)
  BY <1>5, <1>6, <1>7, <1>8
<1>10. v = edit[t].ver
  BY <1>9 DEF Publish
<1>11. /\ edit[t].prompt \in madeP /\ edit[t].prompt \in Prompt /\ v \in Version
       /\ home[v] = edit[t].prompt
  BY <1>9, <1>10 DEF RowInv, PromptTypeOK, EditHolds, Of, Publish, OnPrompt, OnVersion
<1> DEFINE row == [edit[t].row EXCEPT !.current = edit[t].ver]
<1>12. edit[t].row \in Card
  BY EditType DEF RowInv, Editing
<1>13. row \in Card /\ row.current = v
  BY <1>10, <1>11, <1>12 DEF Card
<1>14. Save(t, row)
  BY <1>9 DEF Publish
<1> HIDE DEF row
<1>15. card'[edit[t].prompt] = row
  BY <1>11, <1>13, <1>14, SaveFacts
<1>16. edit[t].prompt \in prompts'
  BY <1>14 DEF Save
<1>17. QED BY <1>11, <1>13, <1>15, <1>16

(* Only a request that begins to resolve comes to "resolve". *)
LEMMA ResolveBegins ==
  ASSUME RowInv, NEW t \in Editor, Arrive(t) \/ GoOn(t), NEW u \in Editor, edit'[u].at = "resolve"
  PROVE  edit'[u] = edit[u] \/ (u = t /\ BeginOnPrompt(t))
<1>1. PromptTypeOK /\ NumberBound
  BY DEF RowInv
<1>2. CASE u # t
  BY <1>2, ArriveKept, GoOnKept DEF Kept
<1>3. CASE u = t /\ Arrive(t)
  BY <1>1, <1>3, CreateEdit, ImportEdit, OnVersionEdit, UpdateAgentEdit DEF Arrive, CreateAgent
<1>4. CASE u = t /\ GoOn(t)
  <2>1. ~Finish(t)
    BY <1>1, <1>4, FinishFacts, IdleFacts
  <2>2. ~(UniqueName(t) \/ Rename(t) \/ ReadRow(t) \/ Choose(t) \/ ReadMax(t) \/ CountVersions(t))
    <3>1. ~(UniqueName(t) \/ Rename(t))
      BY <1>1, <1>4, NamedEdit
    <3>2. ~ReadRow(t) /\ ~Choose(t)
      BY <1>1, <1>4, ReadRowEdit, ChooseEdit
    <3>3. ~(ReadMax(t) \/ CountVersions(t))
      BY <1>1, <1>4, CountedEdit
    <3>4. QED BY <3>1, <3>2, <3>3
  <2>3. \A row : ~Save(t, row)
    BY <2>1 DEF Save
  <2>4. ~SaveRow(t) /\ ~Publish(t) /\ ~Remove(t) /\ ~AddVersion(t)
    BY <2>1, <2>3 DEF SaveRow, Publish, Remove, AddVersion
  <2>5. QED BY <1>4, <2>1, <2>2, <2>4 DEF GoOn, Insert, GiveUp, Delete, Resolve, SaveAgent, DeleteAgent
<1>5. QED BY <1>2, <1>3, <1>4

LEMMA OfferedStep ==
  ASSUME RowInv, \A u \in Editor : WasOffered(u), [PromptNext]_promptVars, NEW u \in Editor
  PROVE  WasOffered(u)'
<1>1. CASE UNCHANGED promptVars
  BY <1>1 DEF promptVars, versionRows, WasOffered
<1>2. CASE PromptNext
  <2>1. PICK t \in Editor : Arrive(t) \/ GoOn(t)
    BY <1>2 DEF PromptNext
  <2> SUFFICES ASSUME edit'[u].at = "resolve", edit'[u].ver \in stored' \cap published'
               PROVE  edit'[u].ver \in offered'[u]
    BY DEF WasOffered
  <2>2. offered'[u] = offered[u] \cup ServedAfter(edit'[u].prompt)
    BY <1>2 DEF PromptNext, Offer
  <2>3. CASE edit'[u] = edit[u]
    <3>1. WasOffered(u) /\ edit[u].ver \in madeV /\ home[edit[u].ver] = edit[u].prompt
      BY <2>3 DEF RowInv, EditHolds, OnVersion, OnPrompt, Of, PromptTypeOK
    <3>2. CASE edit[u].ver \in offered[u]
      BY <2>2, <2>3, <3>2
    <3>3. CASE edit[u].ver \notin stored \cap published
      <4>1. edit[u].prompt \in prompts' /\ card'[edit[u].prompt].current = edit[u].ver
        BY <2>1, <2>3, <3>1, <3>3, ServedIsCurrent
      <4>2. QED BY <2>2, <2>3, <4>1 DEF ServedAfter
    <3>4. QED BY <2>3, <3>1, <3>2, <3>3 DEF WasOffered
  <2>4. CASE u = t /\ BeginOnPrompt(t)
    <3>1. /\ edit'[u].prompt \in prompts /\ edit'[u].ver = card[edit'[u].prompt].current
      BY <2>4, OnPromptEdit DEF RowInv
    <3>2. UNCHANGED <<prompts, card>>
      BY <2>4 DEF BeginOnPrompt, OnlyEdit, promptRows
    <3>3. QED BY <2>2, <3>1, <3>2 DEF ServedAfter
  <2>5. QED BY <2>1, <2>3, <2>4, ResolveBegins
<1>3. QED BY <1>1, <1>2

(* What an agent or an evaluation answers with was the prompt's current and    *)
(* published version at some moment since it asked, whatever publishes,        *)
(* choices and deletes ran between its two reads (prompt/service.go:353-398).  *)
THEOREM ResolvedWasCurrentHolds == PromptSpec => ResolvedWasCurrent
<1> DEFINE OInv == RowInv /\ \A t \in Editor : WasOffered(t)
<1>1. PromptInit => OInv
  BY RowInit, IdleFacts DEF PromptInit, WasOffered
<1>2. OInv /\ [PromptNext]_promptVars => OInv'
  BY RowStep, OfferedStep
<1>3. OInv => [\A t \in Editor : Resolve(t) => edit[t].ver \in offered[t]]_promptVars
  BY DEF WasOffered, Resolve
<1>4. QED BY <1>1, <1>2, <1>3, PTL DEF PromptSpec, ResolvedWasCurrent

-----------------------------------------------------------------------------
(* Prompts stand.  A prompt nobody wrote from rows that had changed stands; an *)
(* editor that is fresh knows what is in its rows; a live agent is bound to a  *)
(* live prompt.                                                                *)
Stands(p) == IF p \in prompts THEN CurrentStands(p) ELSE VersionsOf(p) = {}

Knows(t, p) ==
  /\ p \in prompts
  /\ edit[t].at \in {"rename", "add", "max", "publish", "count", "remove"} =>
       edit[t].row.current = card[p].current
  /\ edit[t].at = "save" =>
       /\ edit[t].row.current \in VersionsOf(p)
       /\ VersionsOf(p) \cap published # {} => edit[t].row.current \in published
  /\ edit[t].at = "add" => \A v \in VersionsOf(p) : number[v] <= edit[t].n
  /\ edit[t].at \in {"row", "publish", "count", "remove"} /\ edit[t].ver # NoVersion =>
       edit[t].ver \in VersionsOf(p)

FreshKnows(t) ==
  t \in fresh =>
    /\ edit[t].at \in OnPrompt
    /\ edit[t].prompt \notin disturbed => Knows(t, edit[t].prompt)

AgentsStand ==
  \A a \in Agent \ strayed : agents[a] = "live" => bound[a] \in prompts \cup {NoPrompt}

StandInv ==
  /\ RowInv
  /\ \A p \in madeP \ disturbed : Stands(p)
  /\ \A t \in Editor : FreshKnows(t)
  /\ AgentsStand

(* A step that leaves the rows alone. *)
SamePrompts == UNCHANGED <<promptRows, stored, published, home, number>>

LEMMA SameStands ==
  ASSUME NEW p, SamePrompts
  PROVE  (Stands(p)' <=> Stands(p)) /\ VersionsOf(p)' = VersionsOf(p)
BY DEF SamePrompts, promptRows, Stands, CurrentStands, VersionsOf

LEMMA SameKnows ==
  ASSUME NEW u, NEW p, SamePrompts, edit'[u] = edit[u]
  PROVE  Knows(u, p)' <=> Knows(u, p)
<1>1. VersionsOf(p)' = VersionsOf(p)
  BY SameStands
<1>2. QED BY <1>1 DEF SamePrompts, promptRows, Knows

(* A request that only goes on: what it knows is up to it. *)
LEMMA EditStand ==
  ASSUME StandInv, RowInv', NEW t \in Editor, SamePrompts, AgentsStand',
         fresh' \subseteq fresh \cup {t}, UNCHANGED disturbed,
         \A u \in Editor : u # t => edit'[u] = edit[u], FreshKnows(t)'
  PROVE  StandInv'
<1>1. \A p \in madeP' \ disturbed' : Stands(p)'
  BY SameStands DEF StandInv, SamePrompts, promptRows
<1>2. \A u \in Editor : FreshKnows(u)'
  BY SameKnows DEF StandInv, FreshKnows
<1>3. QED BY <1>1, <1>2 DEF StandInv

(* A step that writes the rows of prompt p only. *)
Elsewhere(p) ==
  \A q \in Prompt \ {p} :
    /\ q \in prompts' <=> q \in prompts
    /\ card'[q] = card[q]
    /\ VersionsOf(q)' = VersionsOf(q)
    /\ \A v \in VersionsOf(q) : /\ v \in published' <=> v \in published
                                /\ number'[v] = number[v]

LEMMA ElsewhereStands ==
  ASSUME NEW p, Elsewhere(p), NEW q \in Prompt, q # p
  PROVE  Stands(q)' <=> Stands(q)
<1>1. /\ q \in prompts' <=> q \in prompts
      /\ card'[q] = card[q]
      /\ VersionsOf(q)' = VersionsOf(q)
      /\ \A v \in VersionsOf(q) : /\ v \in published' <=> v \in published
                                  /\ number'[v] = number[v]
  BY DEF Elsewhere
<1>2. (VersionsOf(q) \cap published)' = VersionsOf(q) \cap published
  BY <1>1
<1>3. CurrentStands(q)' <=> CurrentStands(q)
  BY <1>1, <1>2 DEF CurrentStands
<1>4. QED BY <1>1, <1>3 DEF Stands

LEMMA ElsewhereKnows ==
  ASSUME NEW p, Elsewhere(p), NEW q \in Prompt, q # p, NEW u, edit'[u] = edit[u]
  PROVE  Knows(u, q)' <=> Knows(u, q)
<1>1. /\ q \in prompts' <=> q \in prompts
      /\ card'[q] = card[q]
      /\ VersionsOf(q)' = VersionsOf(q)
      /\ \A v \in VersionsOf(q) : /\ v \in published' <=> v \in published
                                  /\ number'[v] = number[v]
  BY DEF Elsewhere
<1>2. (VersionsOf(q) \cap published)' = VersionsOf(q) \cap published
  BY <1>1
<1>3. edit[u].row.current \in VersionsOf(q) =>
        (edit[u].row.current \in published' <=> edit[u].row.current \in published)
  BY <1>1
<1>4. QED BY <1>1, <1>2, <1>3 DEF Knows

LEMMA WriteStand ==
  ASSUME StandInv, RowInv', NEW t \in Editor, NEW p \in Prompt, Elsewhere(p),
         t \notin fresh', \A u \in Editor : u # t => edit'[u] = edit[u],
         \A u \in fresh' : u \in fresh /\ edit[u].prompt # p,
         disturbed \subseteq disturbed', madeP' \subseteq madeP \cup {p},
         p \notin disturbed' => Stands(p)', AgentsStand'
  PROVE  StandInv'
<1>1. \A q \in madeP' \ disturbed' : Stands(q)'
  <2>1. SUFFICES ASSUME NEW q \in madeP' \ disturbed' PROVE Stands(q)'
    OBVIOUS
  <2>2. q \in Prompt
    BY DEF RowInv, PromptTypeOK
  <2>3. QED BY <2>2, ElsewhereStands DEF StandInv
<1>2. \A u \in Editor : FreshKnows(u)'
  <2>1. SUFFICES ASSUME NEW u \in Editor, u \in fresh' PROVE FreshKnows(u)'
    BY DEF FreshKnows
  <2>2. u # t /\ edit'[u] = edit[u] /\ u \in fresh /\ edit[u].prompt # p
    BY <2>1
  <2>3. edit[u].prompt \in Prompt
    BY <2>2 DEF StandInv, FreshKnows, RowInv, EditHolds, PromptTypeOK
  <2>4. QED BY <2>2, <2>3, ElsewhereKnows DEF StandInv, FreshKnows
<1>3. QED BY <1>1, <1>2 DEF StandInv

LEMMA BindStand ==
  ASSUME StandInv, NEW a \in Agent, NEW p \in Prompt \cup {NoPrompt}, Bind(a, p)
  PROVE  SamePrompts /\ AgentsStand'
<1>1. agents \in [Agent -> {"none", "live", "deleted"}] /\ bound \in [Agent -> Prompt \cup {NoPrompt}]
  BY DEF StandInv, RowInv, PromptTypeOK
<1>2. UNCHANGED prompts /\ SamePrompts
  BY DEF Bind, SamePrompts, promptRows, versionRows
<1>3. ASSUME NEW b \in Agent \ strayed', agents'[b] = "live"
      PROVE  bound'[b] \in prompts' \cup {NoPrompt}
  <2>1. CASE b = a
    BY <1>1, <1>2, <1>3, <2>1 DEF Bind
  <2>2. CASE b # a
    BY <1>1, <1>2, <1>3, <2>2 DEF Bind, StandInv, AgentsStand
  <2>3. QED BY <2>1, <2>2
<1>4. QED BY <1>2, <1>3 DEF AgentsStand

-----------------------------------------------------------------------------
(* Requests that begin or go on. *)
LEMMA OnlyEditStand ==
  ASSUME StandInv, RowInv', NEW t \in Editor, OnlyEdit,
         \A u \in Editor : u # t => edit'[u] = edit[u],
         ((Reads(t) \/ Keeps) /\ FreshKnows(t)') \/ Leaves(t)
  PROVE  StandInv'
<1>1. SamePrompts /\ AgentsStand'
  BY DEF OnlyEdit, SamePrompts, promptRows, versionRows, agentRows, StandInv, AgentsStand
<1>2. fresh' \subseteq fresh \cup {t} /\ UNCHANGED disturbed
  BY DEF Reads, Keeps, Leaves
<1>3. FreshKnows(t)'
  BY DEF Leaves, FreshKnows
<1>4. QED BY <1>1, <1>2, <1>3, EditStand

LEMMA ArriveStand ==
  ASSUME StandInv, RowInv', NEW t \in Editor, Arrive(t)
  PROVE  StandInv'
<1>1. RowInv /\ PromptTypeOK /\ edit[t].at = "idle" /\ t \notin fresh
  BY DEF StandInv, RowInv, Arrive, BeginCreate, BeginImport, BeginOnPrompt, BeginOnVersion, CreateAgent,
         BeginUpdateAgent, Begin, FreshKnows, OnPrompt
<1>2. \A u \in Editor : u # t => edit'[u] = edit[u]
  BY <1>1, ArriveKept DEF Kept
<1>3. CASE BeginCreate(t) \/ BeginUpdateAgent(t)
  <2>1. OnlyEdit /\ Keeps
    BY <1>3 DEF BeginCreate, BeginUpdateAgent
  <2>2. FreshKnows(t)'
    BY <1>1, <2>1 DEF Keeps, FreshKnows
  <2>3. QED BY <1>2, <2>1, <2>2, OnlyEditStand
<1>4. CASE BeginImport(t)
  <2>1. OnlyEdit /\ (Reads(t) \/ Keeps)
    BY <1>4 DEF BeginImport
  <2>2. CASE Keeps
    <3>1. FreshKnows(t)'
      BY <1>1, <2>2 DEF Keeps, FreshKnows
    <3>2. QED BY <1>2, <2>1, <2>2, <3>1, OnlyEditStand
  <2>3. CASE Reads(t)
    <3>1. edit'[t].at = "row" /\ edit'[t].prompt \in prompts /\ edit'[t].ver = NoVersion
      <4>1. ~Keeps
        BY <1>1, <2>3 DEF Reads, Keeps
      <4>2. PICK q \in prompts : Step(t, [Idle EXCEPT !.at = "row", !.prompt = q, !.publish = TRUE])
        BY <1>4, <4>1 DEF BeginImport, Begin
      <4> DEFINE r == [Idle EXCEPT !.at = "row", !.prompt = q, !.publish = TRUE]
      <4>3. r \in Editing /\ r.at = "row" /\ r.ver = NoVersion /\ r.prompt = q
        BY <1>1, IdleFacts DEF Editing, Places, PromptTypeOK
      <4>4. Step(t, r)
        BY <4>2
      <4> HIDE DEF r
      <4>5. QED BY <1>1, <4>3, <4>4, StepFacts
    <3>2. FreshKnows(t)'
      BY <2>1, <3>1 DEF FreshKnows, Knows, OnPrompt, OnlyEdit, promptRows
    <3>3. QED BY <1>2, <2>1, <2>3, <3>2, OnlyEditStand
  <2>4. QED BY <2>1, <2>2, <2>3
<1>5. CASE BeginOnPrompt(t)
  <2>1. OnlyEdit /\ Reads(t)
    BY <1>5 DEF BeginOnPrompt
  <2>2. /\ \/ /\ edit'[t].at \in {"rename", "delete", "choose", "max"}
              /\ edit'[t].row = card[edit'[t].prompt] /\ edit'[t].ver = NoVersion
           \/ edit'[t].at = "resolve"
        /\ edit'[t].prompt \in prompts
    BY <1>1, <1>5, OnPromptEdit
  <2>3. FreshKnows(t)'
    BY <2>1, <2>2 DEF FreshKnows, Knows, OnPrompt, OnlyEdit, promptRows
  <2>4. QED BY <1>2, <2>1, <2>3, OnlyEditStand
<1>6. CASE BeginOnVersion(t)
  <2>1. OnlyEdit /\ Reads(t)
    BY <1>6 DEF BeginOnVersion
  <2>2. /\ edit'[t].at = "row" /\ edit'[t].ver \in stored /\ edit'[t].prompt = home[edit'[t].ver]
    BY <1>1, <1>6, OnVersionEdit
  <2>3. edit'[t].ver \in VersionsOf(edit'[t].prompt) /\ edit'[t].prompt \in madeP
    BY <1>1, <2>2 DEF VersionsOf, RowInv, PromptTypeOK
  <2>4. edit'[t].prompt \notin disturbed => edit'[t].prompt \in prompts
    BY <2>3 DEF StandInv, Stands
  <2>5. \A q : VersionsOf(q)' = VersionsOf(q)
    BY <2>1 DEF OnlyEdit, versionRows, VersionsOf
  <2>6. FreshKnows(t)'
    BY <2>1, <2>2, <2>3, <2>4, <2>5 DEF FreshKnows, Knows, OnPrompt, OnlyEdit, promptRows, Reads
  <2>7. QED BY <1>2, <2>1, <2>6, OnlyEditStand
<1>7. CASE CreateAgent(t)
  <2>1. PICK a \in Agent, p \in madeP \cup {NoPrompt} : Bind(a, p)
    BY <1>7 DEF CreateAgent
  <2>2. Keeps
    BY <1>7 DEF CreateAgent
  <2>3. SamePrompts /\ AgentsStand'
    <3>1. p \in Prompt \cup {NoPrompt}
      BY <1>1 DEF PromptTypeOK
    <3>2. QED BY <2>1, <3>1, BindStand
  <2>4. FreshKnows(t)'
    BY <1>1, <2>2 DEF Keeps, FreshKnows
  <2>5. QED BY <1>2, <2>2, <2>3, <2>4, EditStand DEF Keeps
<1>8. QED BY <1>3, <1>4, <1>5, <1>6, <1>7 DEF Arrive

-----------------------------------------------------------------------------
(* Requests that write.  A commit by an editor that is not fresh disturbs the  *)
(* prompt; one that is knows what it changes.                                  *)
LEMMA CommitsFacts ==
  ASSUME StandInv, NEW t \in Editor, NEW p, Commits(t, p)
  PROVE  /\ t \notin fresh' /\ disturbed \subseteq disturbed'
         /\ \A u \in fresh' : u \in fresh /\ edit[u].prompt # p
         /\ p \notin disturbed' => t \in fresh /\ p \notin disturbed
BY DEF Commits

LEMMA GrowAgents ==
  ASSUME StandInv, prompts \subseteq prompts', UNCHANGED <<agentRows, strayed>>
  PROVE  AgentsStand'
BY DEF StandInv, AgentsStand, agentRows

(* A save of the row, by an editor that leaves the prompt standing.            *)
LEMMA SaveStand ==
  ASSUME StandInv, RowInv', NEW t \in Editor, NEW row \in Card, Save(t, row),
         NEW p \in madeP, p = edit[t].prompt,
         \A u \in Editor : u # t => edit'[u] = edit[u],
         \A q \in Prompt \ {p} :
           /\ VersionsOf(q)' = VersionsOf(q)
           /\ \A v \in VersionsOf(q) : /\ v \in published' <=> v \in published
                                       /\ number'[v] = number[v],
         t \in fresh /\ p \notin disturbed =>
           /\ row.current \in VersionsOf(p)'
           /\ (VersionsOf(p) \cap published)' # {} => row.current \in published'
           /\ \A v, w \in VersionsOf(p)' : number'[v] = number'[w] => v = w
  PROVE  StandInv'
<1>1. /\ madeP' = madeP /\ p \in Prompt /\ prompts' = prompts \cup {p}
      /\ card' \in [Prompt -> Card] /\ card'[p] = row
      /\ \A q \in Prompt : q # p => card'[q] = card[q]
      /\ UNCHANGED <<agentRows, strayed>>
  BY SaveFacts DEF Save, StandInv
<1>2. Commits(t, p)
  BY DEF Save
<1>3. Elsewhere(p)
  BY <1>1 DEF Elsewhere
<1>4. p \notin disturbed' => Stands(p)'
  <2>1. SUFFICES ASSUME p \notin disturbed' PROVE Stands(p)'
    OBVIOUS
  <2>2. t \in fresh /\ p \notin disturbed
    BY <1>2, <2>1, CommitsFacts
  <2>3. p \in prompts'
    BY <1>1
  <2>4. CurrentStands(p)'
    BY <1>1, <2>2 DEF CurrentStands
  <2>5. QED BY <2>3, <2>4 DEF Stands
<1>5. AgentsStand'
  BY <1>1, GrowAgents
<1>6. /\ t \notin fresh' /\ disturbed \subseteq disturbed'
      /\ \A u \in fresh' : u \in fresh /\ edit[u].prompt # p
  BY <1>2, CommitsFacts
<1>7. madeP' \subseteq madeP \cup {p}
  BY <1>1
<1>8. QED BY <1>1, <1>3, <1>4, <1>5, <1>6, <1>7, WriteStand

(* What an editor about to write has, if it is fresh and its prompt undisturbed. *)
LEMMA WriterKnows ==
  ASSUME StandInv, NEW t \in Editor, t \in fresh, edit[t].prompt \notin disturbed
  PROVE  /\ Knows(t, edit[t].prompt) /\ CurrentStands(edit[t].prompt)
         /\ edit[t].prompt \in prompts
<1>1. Knows(t, edit[t].prompt)
  BY DEF StandInv, FreshKnows
<1>2. edit[t].prompt \in prompts /\ edit[t].prompt \in madeP
  BY <1>1 DEF Knows, StandInv, RowInv, PromptTypeOK
<1>3. Stands(edit[t].prompt)
  BY <1>2 DEF StandInv
<1>4. QED BY <1>1, <1>2, <1>3 DEF Stands

(* The versions of a prompt, and of the others, when one is added or removed.  *)
LEMMA AddedVersions ==
  ASSUME RowInv, NEW v \in Version \ madeV, NEW p \in Prompt, stored' = stored \cup {v},
         home' = [home EXCEPT ![v] = p]
  PROVE  /\ VersionsOf(p)' = VersionsOf(p) \cup {v}
         /\ \A q \in Prompt \ {p} : VersionsOf(q)' = VersionsOf(q)
<1>1. home'[v] = p /\ \A w \in stored : w # v /\ home'[w] = home[w]
  BY DEF RowInv, PromptTypeOK
<1>2. QED BY <1>1 DEF VersionsOf

LEMMA RemovedVersions ==
  ASSUME NEW S, stored' = stored \ S, UNCHANGED home, NEW p, \A v \in S \cap stored : home[v] = p
  PROVE  /\ VersionsOf(p)' = VersionsOf(p) \ S
         /\ \A q \in Prompt \ {p} : VersionsOf(q)' = VersionsOf(q)
BY DEF VersionsOf

LEMMA InsertStand ==
  ASSUME StandInv, RowInv', NEW t \in Editor, Insert(t)
  PROVE  StandInv'
<1>1. PICK p \in Prompt \ madeP, v \in Version \ madeV :
       /\ prompts' = prompts \cup {p} /\ madeP' = madeP \cup {p}
       /\ card' = [card EXCEPT ![p] = [edit[t].row EXCEPT !.current = v]]
       /\ stored' = stored \cup {v} /\ published' = published \cup {v}
       /\ madeV' = madeV \cup {v}
       /\ home' = [home EXCEPT ![v] = p] /\ number' = [number EXCEPT ![v] = 1]
  BY DEF Insert
<1>2. RowInv /\ PromptTypeOK /\ edit[t].row \in Card
  BY EditType DEF StandInv, RowInv, Editing
<1>3. [edit[t].row EXCEPT !.current = v].current = v
  BY <1>2 DEF Card
<1>4. /\ card'[p].current = v /\ \A q \in Prompt : q # p => card'[q] = card[q]
      /\ \A w \in stored : number'[w] = number[w] /\ (w \in published' <=> w \in published)
      /\ stored \subseteq madeV
  BY <1>1, <1>2, <1>3 DEF PromptTypeOK
<1>5. VersionsOf(p) = {}
  <2>1. \A w \in stored : home[w] \in madeP
    BY <1>2 DEF RowInv, PromptTypeOK
  <2>2. QED BY <1>1, <2>1 DEF VersionsOf
<1>6. /\ VersionsOf(p)' = {v}
      /\ \A q \in Prompt \ {p} : VersionsOf(q)' = VersionsOf(q)
  <2>1. /\ VersionsOf(p)' = VersionsOf(p) \cup {v}
        /\ \A q \in Prompt \ {p} : VersionsOf(q)' = VersionsOf(q)
    BY <1>1, <1>2, AddedVersions
  <2>2. QED BY <1>5, <2>1
<1>7. Elsewhere(p)
  BY <1>1, <1>4, <1>6 DEF Elsewhere, VersionsOf
<1>8. Stands(p)'
  <2>1. p \in prompts' /\ v \in published'
    BY <1>1
  <2>2. CurrentStands(p)'
    BY <1>4, <1>6, <2>1 DEF CurrentStands
  <2>3. QED BY <2>1, <2>2 DEF Stands
<1>9. t \notin fresh /\ UNCHANGED <<fresh, disturbed, agentRows, strayed>>
  BY DEF Insert, StandInv, FreshKnows, OnPrompt, Keeps
<1>10. \A u \in fresh' : u \in fresh /\ edit[u].prompt # p
  BY <1>1, <1>9 DEF StandInv, FreshKnows, RowInv, PromptTypeOK, EditHolds
<1>11. \A u \in Editor : u # t => edit'[u] = edit[u]
  BY <1>2, InsertKept DEF Kept
<1>12. AgentsStand'
  BY <1>1, <1>9, GrowAgents
<1>13. QED BY <1>1, <1>7, <1>8, <1>9, <1>10, <1>11, <1>12, WriteStand

LEMMA SaveRowStand ==
  ASSUME StandInv, RowInv', NEW t \in Editor, SaveRow(t)
  PROVE  StandInv'
<1>1. /\ UNCHANGED <<stored, published, madeV, home, number>> /\ Save(t, edit[t].row)
      /\ edit[t].at = "save"
  BY DEF SaveRow, versionRows
<1>2. edit[t].prompt \in madeP /\ edit[t].row \in Card /\ RowInv
  BY <1>1, EditType DEF StandInv, RowInv, EditHolds, OnPrompt, Editing
<1>3. PICK p \in madeP : p = edit[t].prompt
  BY <1>2
<1>4. \A u \in Editor : u # t => edit'[u] = edit[u]
  BY <1>2, SaveRowKept DEF Kept
<1>5. \A q : VersionsOf(q)' = VersionsOf(q)
  BY <1>1 DEF VersionsOf
<1>6. t \in fresh /\ p \notin disturbed =>
        /\ edit[t].row.current \in VersionsOf(p)
        /\ VersionsOf(p) \cap published # {} => edit[t].row.current \in published
        /\ \A v, w \in VersionsOf(p) : number[v] = number[w] => v = w
  BY <1>1, <1>3, WriterKnows DEF Knows, CurrentStands
<1>7. PICK row \in Card : row = edit[t].row
  BY <1>2
<1>8. t \in fresh /\ p \notin disturbed =>
        /\ row.current \in VersionsOf(p)'
        /\ (VersionsOf(p) \cap published)' # {} => row.current \in published'
        /\ \A v, w \in VersionsOf(p)' : number'[v] = number'[w] => v = w
  BY <1>1, <1>5, <1>6, <1>7
<1>9. \A q \in Prompt \ {p} :
         /\ VersionsOf(q)' = VersionsOf(q)
         /\ \A v \in VersionsOf(q) : /\ v \in published' <=> v \in published
                                     /\ number'[v] = number[v]
  BY <1>1, <1>5
<1>10. Save(t, row)
  BY <1>1, <1>7
<1>11. QED BY <1>3, <1>4, <1>8, <1>9, <1>10, SaveStand

LEMMA AddVersionStand ==
  ASSUME StandInv, RowInv', NEW t \in Editor, AddVersion(t)
  PROVE  StandInv'
<1>1. RowInv /\ PromptTypeOK /\ edit[t].at = "add"
  BY DEF StandInv, RowInv, AddVersion
<1>2. /\ edit[t].prompt \in madeP /\ edit[t].prompt \in Prompt
      /\ edit[t].row \in Card /\ edit[t].n \in Nat
  BY <1>1, EditType DEF RowInv, PromptTypeOK, EditHolds, OnPrompt, Editing
<1> PICK p \in madeP : p = edit[t].prompt
  BY <1>2
<1>3. PICK v \in Version \ madeV :
       /\ stored' = stored \cup {v}
       /\ madeV' = madeV \cup {v}
       /\ home' = [home EXCEPT ![v] = p]
       /\ number' = [number EXCEPT ![v] = edit[t].n + 1]
       /\ \/ /\ published' = published \cup {v}
             /\ Save(t, [edit[t].row EXCEPT !.current = v])
          \/ /\ Commits(t, p)
             /\ Finish(t)
             /\ UNCHANGED <<promptRows, published, agentRows, strayed>>
  BY DEF AddVersion
<1>4. /\ VersionsOf(p)' = VersionsOf(p) \cup {v}
      /\ \A q \in Prompt \ {p} : VersionsOf(q)' = VersionsOf(q)
  BY <1>1, <1>2, <1>3, AddedVersions
<1>5. /\ stored \subseteq madeV /\ published \subseteq madeV
      /\ number'[v] = edit[t].n + 1
      /\ \A w \in madeV : number'[w] = number[w] /\ number[w] \in Nat
      /\ \A w \in madeV : w \in published' <=> w \in published
  BY <1>1, <1>3 DEF PromptTypeOK
<1>6. \A q \in Prompt : VersionsOf(q) \subseteq madeV
  BY <1>5 DEF VersionsOf
<1>7. \A u \in Editor : u # t => edit'[u] = edit[u]
  BY <1>1, AddVersionKept DEF Kept
<1>8. t \in fresh /\ p \notin disturbed =>
        /\ p \in prompts /\ edit[t].row.current = card[p].current
        /\ CurrentStands(p)
        /\ \A w \in VersionsOf(p) : number[w] <= edit[t].n
  BY <1>1, WriterKnows DEF Knows
<1>9. ASSUME t \in fresh, p \notin disturbed
      PROVE  \A w, x \in VersionsOf(p)' : number'[w] = number'[x] => w = x
  <2>1. \A w \in VersionsOf(p) : number'[w] = number[w] /\ number[w] \in Nat /\ number[w] <= edit[t].n
    BY <1>2, <1>5, <1>6, <1>8, <1>9
  <2>2. \A w, x \in VersionsOf(p) : number[w] = number[x] => w = x
    BY <1>8, <1>9 DEF CurrentStands
  <2>3. QED BY <1>2, <1>4, <1>5, <2>1, <2>2
<1>10. CASE published' = published \cup {v} /\ Save(t, [edit[t].row EXCEPT !.current = v])
  <2> DEFINE row == [edit[t].row EXCEPT !.current = v]
  <2>1. row \in Card /\ row.current = v
    BY <1>2 DEF Card
  <2>2. Save(t, row)
    BY <1>10
  <2> HIDE DEF row
  <2>3. t \in fresh /\ p \notin disturbed =>
          /\ row.current \in VersionsOf(p)'
          /\ (VersionsOf(p) \cap published)' # {} => row.current \in published'
          /\ \A w, x \in VersionsOf(p)' : number'[w] = number'[x] => w = x
    BY <1>4, <1>9, <1>10, <2>1
  <2>4. \A q \in Prompt \ {p} :
           /\ VersionsOf(q)' = VersionsOf(q)
           /\ \A w \in VersionsOf(q) : /\ w \in published' <=> w \in published
                                       /\ number'[w] = number[w]
    BY <1>4, <1>5, <1>6
  <2>5. QED BY <1>7, <2>1, <2>2, <2>3, <2>4, SaveStand
<1>11. CASE /\ Commits(t, p) /\ Finish(t)
            /\ UNCHANGED <<promptRows, published, agentRows, strayed>>
  <2>1. UNCHANGED <<prompts, madeP, card, published, agentRows, strayed>> /\ p \in Prompt
    BY <1>2, <1>11 DEF promptRows
  <2>2. Elsewhere(p)
    BY <1>4, <1>5, <1>6, <2>1 DEF Elsewhere
  <2>3. p \notin disturbed' => Stands(p)'
    <3>1. SUFFICES ASSUME t \in fresh, p \notin disturbed PROVE Stands(p)'
      BY <1>11, CommitsFacts
    <3>2. (VersionsOf(p) \cap published)' = VersionsOf(p) \cap published
      BY <1>3, <1>4, <1>5, <2>1
    <3>3. CurrentStands(p)'
      BY <1>4, <1>8, <1>9, <2>1, <3>1, <3>2 DEF CurrentStands
    <3>4. QED BY <1>8, <2>1, <3>1, <3>3 DEF Stands
  <2>4. AgentsStand'
    BY <2>1, GrowAgents
  <2>5. QED BY <1>2, <1>7, <1>11, <2>1, <2>2, <2>3, <2>4, CommitsFacts, WriteStand
<1>12. QED BY <1>3, <1>10, <1>11

LEMMA PublishStand ==
  ASSUME StandInv, RowInv', NEW t \in Editor, Publish(t)
  PROVE  StandInv'
<1>1. RowInv /\ PromptTypeOK /\ edit[t].at = "publish"
  BY DEF StandInv, RowInv, Publish
<1>2. /\ edit[t].prompt \in madeP /\ edit[t].row \in Card
      /\ edit[t].ver \in madeV /\ edit[t].ver \in Version /\ home[edit[t].ver] = edit[t].prompt
      /\ edit[t].ver # NoVersion
  BY <1>1, EditType DEF RowInv, PromptTypeOK, EditHolds, Of, OnPrompt, OnVersion, Editing
<1>3. PICK p \in madeP, v \in madeV : p = edit[t].prompt /\ v = edit[t].ver
  BY <1>2
<1> DEFINE row == [edit[t].row EXCEPT !.current = v]
<1>4. row \in Card /\ row.current = v
  BY <1>2, <1>3 DEF Card
<1>5. /\ UNCHANGED <<madeV, home, number>> /\ Save(t, row)
      /\ stored' = stored \cup {v} /\ published' = published \cup {v}
  BY <1>3 DEF Publish
<1>6. row \in Card /\ row.current = v /\ Save(t, row)
  BY <1>4, <1>5
<1> HIDE DEF row
<1>7. \A q \in Prompt \ {p} :
         /\ VersionsOf(q)' = VersionsOf(q)
         /\ \A w \in VersionsOf(q) : /\ w \in published' <=> w \in published
                                     /\ number'[w] = number[w]
  BY <1>2, <1>3, <1>5 DEF VersionsOf
<1>8. t \in fresh /\ p \notin disturbed =>
        v \in VersionsOf(p) /\ \A w, x \in VersionsOf(p) : number[w] = number[x] => w = x
  BY <1>1, <1>2, <1>3, WriterKnows DEF Knows, CurrentStands
<1>9. v \in VersionsOf(p) => VersionsOf(p)' = VersionsOf(p)
  BY <1>5 DEF VersionsOf
<1>10. t \in fresh /\ p \notin disturbed =>
        /\ row.current \in VersionsOf(p)'
        /\ (VersionsOf(p) \cap published)' # {} => row.current \in published'
        /\ \A w, x \in VersionsOf(p)' : number'[w] = number'[x] => w = x
  BY <1>5, <1>6, <1>8, <1>9
<1>11. \A u \in Editor : u # t => edit'[u] = edit[u]
  BY <1>1, PublishKept DEF Kept
<1>12. QED BY <1>3, <1>6, <1>7, <1>10, <1>11, SaveStand

LEMMA RemoveStand ==
  ASSUME StandInv, RowInv', NEW t \in Editor, Remove(t)
  PROVE  StandInv'
<1>1. RowInv /\ PromptTypeOK /\ edit[t].at = "remove"
  BY DEF StandInv, RowInv, Remove
<1>2. /\ edit[t].prompt \in madeP /\ edit[t].row \in Card
      /\ edit[t].ver \in madeV /\ edit[t].ver \in Version /\ home[edit[t].ver] = edit[t].prompt
      /\ edit[t].ver # NoVersion
  BY <1>1, EditType DEF RowInv, PromptTypeOK, EditHolds, Of, OnPrompt, OnVersion, Editing
<1>3. PICK p \in madeP, v \in madeV : p = edit[t].prompt /\ v = edit[t].ver
  BY <1>2
<1>4. UNCHANGED <<published, madeV, home, number>> /\ stored' = stored \ {v}
  BY <1>3 DEF Remove
<1>5. /\ VersionsOf(p)' = VersionsOf(p) \ {v}
      /\ \A q \in Prompt \ {p} : VersionsOf(q)' = VersionsOf(q)
  <2>1. UNCHANGED home /\ \A w \in {v} \cap stored : home[w] = p
    BY <1>2, <1>3, <1>4
  <2>2. QED BY <1>4, <2>1, RemovedVersions
<1>6. \A q \in Prompt \ {p} :
         /\ VersionsOf(q)' = VersionsOf(q)
         /\ \A w \in VersionsOf(q) : /\ w \in published' <=> w \in published
                                     /\ number'[w] = number[w]
  BY <1>4, <1>5
<1>7. t \in fresh /\ p \notin disturbed =>
        /\ p \in prompts /\ edit[t].row.current = card[p].current
        /\ CurrentStands(p)
  BY <1>1, <1>3, WriterKnows DEF Knows
<1>8. t \in fresh /\ p \notin disturbed =>
        \A w, x \in VersionsOf(p)' : number'[w] = number'[x] => w = x
  BY <1>4, <1>5, <1>7 DEF CurrentStands
<1>9. (VersionsOf(p) \cap published)' = (VersionsOf(p) \ {v}) \cap published
  BY <1>4, <1>5
<1>10. \A u \in Editor : u # t => edit'[u] = edit[u]
  BY <1>1, RemoveKept DEF Kept
<1>11. p \in Prompt
  BY <1>1 DEF PromptTypeOK
<1>12. CASE edit[t].row.current # v
  <2>1. Commits(t, p) /\ UNCHANGED <<prompts, madeP, card, agentRows, strayed>>
    BY <1>3, <1>12 DEF Remove, promptRows
  <2>2. Elsewhere(p)
    BY <1>6, <2>1 DEF Elsewhere
  <2>3. p \notin disturbed' => Stands(p)'
    <3>1. SUFFICES ASSUME p \notin disturbed' PROVE Stands(p)'
      OBVIOUS
    <3>2. t \in fresh /\ p \notin disturbed
      BY <2>1, <3>1, CommitsFacts
    <3>3. CurrentStands(p)'
      BY <1>5, <1>7, <1>8, <1>9, <1>12, <2>1, <3>2, <1>4 DEF CurrentStands
    <3>4. QED BY <1>7, <2>1, <3>2, <3>3 DEF Stands
  <2>4. AgentsStand'
    BY <2>1, GrowAgents
  <2>5. /\ t \notin fresh' /\ disturbed \subseteq disturbed'
        /\ \A u \in fresh' : u \in fresh /\ edit[u].prompt # p
    BY <2>1, CommitsFacts
  <2>6. madeP' \subseteq madeP \cup {p}
    BY <2>1
  <2>7. QED BY <1>10, <1>11, <2>2, <2>3, <2>4, <2>5, <2>6, WriteStand
<1>13. CASE edit[t].row.current = v
  <2>1. PICK next \in Best(VersionsOf(p) \ {v}) : Save(t, [edit[t].row EXCEPT !.current = next])
    BY <1>3, <1>13 DEF Remove
  <2>2. /\ next \in VersionsOf(p) \ {v}
        /\ (VersionsOf(p) \ {v}) \cap published # {} => next \in published
    BY DEF Best
  <2>3. next \in Version
    BY <1>1, <2>2 DEF VersionsOf, PromptTypeOK
  <2> DEFINE row == [edit[t].row EXCEPT !.current = next]
  <2>4. row \in Card /\ row.current = next
    BY <1>2, <2>3 DEF Card
  <2>5. Save(t, row)
    BY <2>1
  <2> HIDE DEF row
  <2>6. t \in fresh /\ p \notin disturbed =>
        /\ row.current \in VersionsOf(p)'
        /\ (VersionsOf(p) \cap published)' # {} => row.current \in published'
        /\ \A w, x \in VersionsOf(p)' : number'[w] = number'[x] => w = x
    BY <1>4, <1>5, <1>8, <1>9, <2>2, <2>4
  <2>7. QED BY <1>3, <1>6, <1>10, <2>4, <2>5, <2>6, SaveStand
<1>14. QED BY <1>12, <1>13

LEMMA DeleteStand ==
  ASSUME StandInv, RowInv', NEW t \in Editor, Delete(t)
  PROVE  StandInv'
<1>1. RowInv /\ PromptTypeOK /\ edit[t].prompt \in madeP /\ edit[t].prompt \in Prompt
  BY DEF StandInv, RowInv, PromptTypeOK, EditHolds, Delete, OnPrompt
<1>2. PICK p \in Prompt : p = edit[t].prompt
  BY <1>1
<1>3. /\ prompts' = prompts \ {p} /\ card' = [card EXCEPT ![p] = NoCard]
      /\ stored' = stored \ VersionsOf(p)
      /\ UNCHANGED <<madeP, published, madeV, home, number, agents, disturbed, strayed>>
      /\ fresh' = {u \in fresh \ {t} : edit[u].prompt # p}
      /\ bound' = [a \in Agent |-> IF agents[a] = "live" /\ bound[a] = p THEN NoPrompt ELSE bound[a]]
  BY <1>2 DEF Delete
<1>4. /\ VersionsOf(p)' = VersionsOf(p) \ VersionsOf(p)
      /\ \A q \in Prompt \ {p} : VersionsOf(q)' = VersionsOf(q)
  BY <1>3 DEF VersionsOf
<1>5. Elsewhere(p)
  <2>1. \A q \in Prompt \ {p} : card'[q] = card[q]
    BY <1>1, <1>3 DEF PromptTypeOK
  <2>2. QED BY <1>3, <1>4, <2>1 DEF Elsewhere
<1>6. Stands(p)'
  BY <1>3, <1>4 DEF Stands
<1>7. AgentsStand'
  BY <1>3 DEF StandInv, AgentsStand
<1>8. \A u \in Editor : u # t => edit'[u] = edit[u]
  BY <1>1, DeleteKept DEF Kept
<1>9. QED BY <1>3, <1>5, <1>6, <1>7, <1>8, WriteStand

LEMMA GoOnStand ==
  ASSUME StandInv, RowInv', NEW t \in Editor, GoOn(t)
  PROVE  StandInv'
<1>1. RowInv /\ PromptTypeOK /\ NumberBound /\ FreshKnows(t)
  BY DEF StandInv, RowInv
<1>2. \A u \in Editor : u # t => edit'[u] = edit[u]
  BY <1>1, GoOnKept DEF Kept
<1>3. ASSUME OnlyEdit
      PROVE  /\ UNCHANGED <<prompts, card, stored, published, home, number>>
             /\ \A q : VersionsOf(q)' = VersionsOf(q)
  BY <1>3 DEF OnlyEdit, promptRows, versionRows, VersionsOf
<1>4. CASE UniqueName(t) \/ Rename(t)
  <2>1. OnlyEdit /\ Keeps
    BY <1>4 DEF UniqueName, Rename
  <2>2. /\ edit[t].at = "name" => edit'[t].at = "insert"
        /\ edit[t].at = "rename" => edit'[t].at = "save"
        /\ edit[t].at \in {"name", "rename"}
        /\ edit'[t].prompt = edit[t].prompt
        /\ edit'[t].row.current = edit[t].row.current
    BY <1>1, <1>4, NamedEdit
  <2>3. FreshKnows(t)'
    <3>1. SUFFICES ASSUME t \in fresh' PROVE FreshKnows(t)'
      BY DEF FreshKnows
    <3>2. t \in fresh /\ edit[t].at = "rename" /\ disturbed' = disturbed
      BY <1>1, <2>1, <2>2, <3>1 DEF Keeps, FreshKnows, OnPrompt
    <3>3. edit[t].prompt \notin disturbed =>
            /\ edit[t].prompt \in prompts
            /\ edit[t].row.current = card[edit[t].prompt].current
            /\ CurrentStands(edit[t].prompt)
      BY <3>2, WriterKnows DEF Knows
    <3>4. QED BY <1>3, <2>1, <2>2, <3>2, <3>3 DEF FreshKnows, Knows, CurrentStands, OnPrompt
  <2>4. QED BY <1>2, <2>1, <2>3, OnlyEditStand
<1>5. CASE ReadRow(t)
  <2>1. OnlyEdit /\ Keeps /\ edit[t].at = "row"
    BY <1>5 DEF ReadRow
  <2>2. /\ edit'[t].at \in {"max", "publish", "count"}
        /\ edit'[t].prompt = edit[t].prompt /\ edit'[t].ver = edit[t].ver
        /\ edit[t].prompt \in prompts /\ edit'[t].row = card[edit[t].prompt]
    BY <1>1, <1>5, ReadRowEdit
  <2>3. FreshKnows(t)'
    BY <1>1, <1>3, <2>1, <2>2 DEF FreshKnows, Knows, OnPrompt, Keeps
  <2>4. QED BY <1>2, <2>1, <2>3, OnlyEditStand
<1>6. CASE GiveUp(t) \/ Resolve(t)
  BY <1>2, <1>6, OnlyEditStand DEF GiveUp, Resolve
<1>7. CASE Choose(t)
  <2>1. OnlyEdit /\ Keeps /\ edit[t].at = "choose"
    BY <1>7 DEF Choose
  <2>2. /\ edit'[t].at = "save"
        /\ edit'[t].prompt = edit[t].prompt
        /\ edit'[t].row.current \in VersionsOf(edit[t].prompt) \cap published
    BY <1>1, <1>7, ChooseEdit
  <2>3. FreshKnows(t)'
    BY <1>1, <1>3, <2>1, <2>2 DEF FreshKnows, Knows, OnPrompt, Keeps
  <2>4. QED BY <1>2, <2>1, <2>3, OnlyEditStand
<1>8. CASE ReadMax(t) \/ CountVersions(t)
  <2>1. OnlyEdit /\ Keeps
    BY <1>8 DEF ReadMax, CountVersions
  <2>2. /\ edit[t].at \in {"max", "count"}
        /\ edit[t].at = "max" => edit'[t].at = "add"
        /\ edit[t].at = "count" => edit'[t].at = "remove"
        /\ edit'[t].prompt = edit[t].prompt /\ edit'[t].ver = edit[t].ver
        /\ edit'[t].row = edit[t].row
        /\ edit[t].at = "max" => edit'[t].n = Highest(edit[t].prompt)
    BY <1>1, <1>8, CountedEdit
  <2>3. \A v \in VersionsOf(edit[t].prompt) : number[v] <= Highest(edit[t].prompt)
    BY <1>1, HighestFacts
  <2>4. FreshKnows(t)'
    BY <1>1, <1>3, <2>1, <2>2, <2>3 DEF FreshKnows, Knows, OnPrompt, Keeps
  <2>5. QED BY <1>2, <2>1, <2>4, OnlyEditStand
<1>9. CASE SaveAgent(t) \/ DeleteAgent(t)
  <2>1. Leaves(t) /\ edit[t].at = "agent"
    BY <1>9 DEF SaveAgent, DeleteAgent
  <2>2. edit[t].agent \in Agent /\ edit[t].prompt \in Prompt \cup {NoPrompt} /\ madeP \subseteq Prompt
    BY <1>1, <2>1, EditType DEF RowInv, EditHolds, Editing, PromptTypeOK
  <2>3. SamePrompts /\ AgentsStand'
    <3>1. CASE SaveAgent(t)
      BY <2>2, <3>1, BindStand DEF SaveAgent
    <3>2. CASE DeleteAgent(t)
      <4>1. SamePrompts /\ UNCHANGED <<prompts, bound, strayed>>
        BY <3>2 DEF DeleteAgent, SamePrompts, promptRows, versionRows
      <4>2. \A a \in Agent : agents'[a] = "live" => agents[a] = "live"
        BY <1>1, <2>2, <3>2 DEF DeleteAgent, PromptTypeOK
      <4>3. QED BY <4>1, <4>2 DEF StandInv, AgentsStand
    <3>3. QED BY <1>9, <3>1, <3>2
  <2>4. fresh' \subseteq fresh \cup {t} /\ UNCHANGED disturbed /\ FreshKnows(t)'
    BY <2>1 DEF Leaves, FreshKnows
  <2>5. QED BY <1>2, <2>3, <2>4, EditStand
<1>10. QED BY <1>4, <1>5, <1>6, <1>7, <1>8, <1>9, InsertStand, SaveRowStand, PublishStand,
              RemoveStand, AddVersionStand, DeleteStand DEF GoOn

LEMMA StandStep == StandInv /\ [PromptNext]_promptVars => StandInv'
<1> SUFFICES ASSUME StandInv, [PromptNext]_promptVars PROVE StandInv'
  OBVIOUS
<1>1. RowInv'
  BY RowStep DEF StandInv
<1>2. CASE UNCHANGED promptVars
  <2>1. SamePrompts /\ UNCHANGED <<madeP, disturbed, fresh, edit, agentRows, strayed>>
    BY <1>2 DEF promptVars, SamePrompts, promptRows, versionRows
  <2>2. \A p \in madeP' \ disturbed' : Stands(p)'
    BY <2>1, SameStands DEF StandInv
  <2>3. \A u \in Editor : FreshKnows(u)'
    BY <2>1, SameKnows DEF StandInv, FreshKnows
  <2>4. AgentsStand'
    BY <2>1 DEF StandInv, AgentsStand, SamePrompts, promptRows, agentRows
  <2>5. QED BY <1>1, <2>2, <2>3, <2>4 DEF StandInv
<1>3. CASE PromptNext
  BY <1>1, <1>3, ArriveStand, GoOnStand DEF PromptNext
<1>4. QED BY <1>2, <1>3

(* A prompt that was never written from rows another had changed keeps a       *)
(* current version that stands and numbers that differ, or is gone with all    *)
(* its versions; and agents are bound to live prompts unless a save strayed    *)
(* (prompt/service.go, agent/service.go).                                      *)
THEOREM PromptsStandHolds == PromptSpec => []PromptsStand
<1>1. PromptInit => StandInv
  <2>1. SUFFICES ASSUME PromptInit PROVE StandInv
    OBVIOUS
  <2>2. RowInv
    BY <2>1, RowInit
  <2>3. madeP = {} /\ fresh = {} /\ \A a \in Agent : agents[a] = "none"
    BY <2>1 DEF PromptInit
  <2>4. QED BY <2>2, <2>3 DEF StandInv, FreshKnows, AgentsStand
<1>2. StandInv => PromptsStand
  BY DEF StandInv, Stands, AgentsStand, PromptsStand
<1>3. QED BY <1>1, <1>2, StandStep, PTL DEF PromptSpec

HIDE PromptAssumption

-----------------------------------------------------------------------------
(* Evaluation.                                                               *)

USE EvalAssumption

(* What task t holds: while it works on a run, that run's row as it was        *)
(* inserted, the counts of the results it has kept, and cases it has kept none *)
(* for; while it deletes a suite, runs of that suite.                          *)
Judging(t) ==
  /\ runs[task[t].run].is # "none" /\ runs[task[t].run].suite = task[t].row.suite
  /\ task[t].row.is = "live"
  /\ \A x \in ResultsOf(task[t].run) : x.of \notin task[t].todo
  /\ task[t].run \notin struck =>
       /\ runs[task[t].run].is = "live" /\ runs[task[t].run].status = "running"
       /\ task[t].at = "cases" => task[t].row.counts = Tally(task[t].run)

TaskHolds(t) ==
  /\ task[t].run # NoRun <=> task[t].at \in {"cases", "failing"}
  /\ task[t].run # NoRun => Judging(t)
  /\ task[t].at = "commit" =>
       \A r \in task[t].known : runs[r].is # "none" /\ runs[r].suite = task[t].suite

(* No two tasks work on one run. *)
Apart(t, u) == task[t].run # NoRun /\ task[t].run = task[u].run => t = u

Accounted(r) ==
  /\ runs[r].is = "none" => ResultsOf(r) = {}
  /\ r \notin struck =>
       /\ runs[r].is = "live" /\ runs[r].status = "completed" => runs[r].counts = Tally(r)
       /\ runs[r].is # "live" => ResultsOf(r) = {}

Swept(s) == suites[s] = "deleted" => CasesOf(s) \subseteq late /\ RunsOf(s) \subseteq struck

EvalInv ==
  /\ EvalTypeOK /\ IsFiniteSet(results)
  /\ \A t \in Tester : TaskHolds(t)
  /\ \A t, u \in Tester : Apart(t, u)
  /\ \A r \in EvalRun : Accounted(r)
  /\ \A s \in Suite : Swept(s)

-----------------------------------------------------------------------------
(* A task's record is replaced by another. *)
LEMMA NoTaskType == NoTask \in Task /\ NoRunRow \in RunRow
<1>1. NoVerdicts \in Verdicts
  BY DEF NoVerdicts, Verdicts
<1>2. NoRunRow \in RunRow
  BY <1>1 DEF NoRunRow, RunRow, Row
<1>3. QED BY <1>2 DEF NoTask, Task

LEMMA TakesTaskType ==
  ASSUME EvalTypeOK, NEW t \in Tester, NEW r \in Task, TakesTask(t, r)
  PROVE  task' \in [Tester -> Task] /\ task'[t] = r /\ \A u \in Tester \ {t} : task'[u] = task[u]
BY DEF EvalTypeOK, TakesTask

LEMMA EndsTaskType ==
  ASSUME EvalTypeOK, NEW t \in Tester, EndsTask(t)
  PROVE  /\ task' \in [Tester -> Task] /\ task'[t] = NoTask
         /\ \A u \in Tester \ {t} : task'[u] = task[u]
BY NoTaskType DEF EvalTypeOK, EndsTask

LEMMA CounterType ==
  ASSUME NEW v \in Verdict
  PROVE  Counter(v) \in {"pass", "fail", "skip"}
BY DEF Counter, Verdict, CallCase, Judge, JudgeWithLLM

(* One more in one of the counts. *)
LEMMA CountsType ==
  ASSUME NEW counts \in Verdicts, NEW n \in {"pass", "fail", "skip"}
  PROVE  [counts EXCEPT ![n] = @ + 1] \in Verdicts
BY DEF Verdicts

LEMMA CountsOf ==
  ASSUME NEW counts \in Verdicts, NEW n \in {"pass", "fail", "skip"}, NEW m \in {"pass", "fail", "skip"}
  PROVE  [counts EXCEPT ![n] = @ + 1][m] = IF m = n THEN counts[m] + 1 ELSE counts[m]
BY DEF Verdicts

(* What a query that begins a request, or that only reads, makes of its task.  *)
Fresh(t) == task'[t].run = NoRun /\ task'[t].at \notin {"cases", "failing", "commit"}

(* The steps, and what each makes of the task that takes it.                   *)
EvalReads(t) ==
  \/ CreateSuite(t) \/ FindSuite(t) \/ FindCase(t) \/ DeleteCase(t) \/ BeginRun(t)
  \/ SaveSuite(t) \/ EnterCase(t) \/ SaveCase(t)

LEMMA EvalSteps ==
  ASSUME EvalNext
  PROVE  /\ tasks' \in {tasks, tasks + 1} /\ mishaps' \in {mishaps, mishaps + 1}
         /\ \/ \E t \in Tester : \/ EvalReads(t) \/ ListRuns(t) \/ DropSuite(t) \/ InsertRun(t)
                                 \/ JudgeCase(t) \/ CompleteRun(t) \/ FailRun(t) \/ TaskFails(t)
            \/ Dies
BY DEF EvalNext, TakesUp, GoesOn, EvalReads

LEMMA ReadsFacts ==
  ASSUME EvalTypeOK, NEW t \in Tester, EvalReads(t)
  PROVE  /\ task' \in [Tester -> Task]
         /\ task'[t] = task[t] \/ Fresh(t)
         /\ \A u \in Tester \ {t} : task'[u] = task[u]
         /\ UNCHANGED <<runs, results, struck>>
<1>n. NoTask \in Task /\ NoTask.run = NoRun /\ NoTask.at = "idle"
  BY NoTaskType DEF NoTask
<1>1. CASE CreateSuite(t) \/ DeleteCase(t)
  BY <1>1 DEF CreateSuite, DeleteCase, EvalTypeOK
<1>2. CASE SaveSuite(t) \/ EnterCase(t) \/ SaveCase(t)
  <2>1. EndsTask(t) /\ UNCHANGED <<runs, results, struck>>
    BY <1>2 DEF SaveSuite, EnterCase, SaveCase
  <2>2. QED BY <1>n, <2>1, EndsTaskType DEF Fresh
<1>3. CASE FindSuite(t)
  <2>1. PICK s \in Suite, next \in {"saveSuite", "dropSuite", "enterCase"} :
          TakesTask(t, [NoTask EXCEPT !.at = next, !.suite = s])
    BY <1>3 DEF FindSuite
  <2> DEFINE r == [NoTask EXCEPT !.at = next, !.suite = s]
  <2>2. r \in Task /\ r.at = next /\ r.run = NoRun
    BY <1>n DEF Task
  <2> HIDE DEF r
  <2>3. TakesTask(t, r)
    BY <2>1 DEF r
  <2>4. QED BY <1>3, <2>2, <2>3, TakesTaskType DEF Fresh, FindSuite
<1>4. CASE FindCase(t)
  <2>1. PICK c \in EvalCase : TakesTask(t, [NoTask EXCEPT !.at = "saveCase", !.todo = {c}])
    BY <1>4 DEF FindCase
  <2> DEFINE r == [NoTask EXCEPT !.at = "saveCase", !.todo = {c}]
  <2>2. r \in Task /\ r.at = "saveCase" /\ r.run = NoRun
    BY <1>n DEF Task
  <2> HIDE DEF r
  <2>3. TakesTask(t, r)
    BY <2>1 DEF r
  <2>4. QED BY <1>4, <2>2, <2>3, TakesTaskType DEF Fresh, FindCase
<1>5. CASE BeginRun(t)
  <2>1. PICK s \in Suite : TakesTask(t, [NoTask EXCEPT !.at = "target", !.suite = s, !.todo = CasesOf(s)])
    BY <1>5 DEF BeginRun
  <2> DEFINE r == [NoTask EXCEPT !.at = "target", !.suite = s, !.todo = CasesOf(s)]
  <2>2. r \in Task /\ r.at = "target" /\ r.run = NoRun
    BY <1>n DEF Task, CasesOf
  <2> HIDE DEF r
  <2>3. TakesTask(t, r)
    BY <2>1 DEF r
  <2>4. QED BY <1>5, <2>2, <2>3, TakesTaskType DEF Fresh, BeginRun
<1>6. QED BY <1>1, <1>2, <1>3, <1>4, <1>5 DEF EvalReads

(* The tables of suites and cases. *)
LEMMA ReadsTables ==
  ASSUME EvalTypeOK, NEW t \in Tester, EvalReads(t)
  PROVE  /\ suites' \in [Suite -> Row] /\ cases' \in [EvalCase -> CaseRow]
         /\ late' \subseteq EvalCase /\ late \subseteq late'
<1>1. CASE CreateSuite(t)
  BY <1>1 DEF CreateSuite, EvalTypeOK, Row
<1>2. CASE FindSuite(t) \/ FindCase(t) \/ BeginRun(t)
  BY <1>2 DEF FindSuite, FindCase, BeginRun, EvalTypeOK
<1>3. CASE DeleteCase(t)
  <2>1. PICK c \in EvalCase : cases' = [cases EXCEPT ![c].is = "deleted"]
    BY <1>3 DEF DeleteCase
  <2>2. [cases[c] EXCEPT !.is = "deleted"] \in CaseRow
    BY DEF EvalTypeOK, CaseRow, Row
  <2>3. QED BY <1>3, <2>1, <2>2 DEF DeleteCase, EvalTypeOK
<1>4. CASE SaveSuite(t)
  BY <1>4 DEF SaveSuite, EvalTypeOK, Row
<1>5. CASE EnterCase(t)
  <2>1. PICK c \in EvalCase :
          /\ cases' = [cases EXCEPT ![c] = [is |-> "live", suite |-> task[t].suite]]
          /\ late' = IF suites[task[t].suite] = "live" THEN late ELSE late \cup {c}
    BY <1>5 DEF EnterCase
  <2>2. [is |-> "live", suite |-> task[t].suite] \in CaseRow
    BY DEF EvalTypeOK, CaseRow, Row, Task
  <2>3. QED BY <1>5, <2>1, <2>2 DEF EnterCase, EvalTypeOK
<1>6. CASE SaveCase(t)
  <2>1. \A c \in EvalCase : [cases[c] EXCEPT !.is = "live"] \in CaseRow
    BY DEF EvalTypeOK, CaseRow, Row
  <2>2. task[t].todo \subseteq EvalCase
    BY DEF EvalTypeOK, Task
  <2>3. QED BY <1>6, <2>1, <2>2 DEF SaveCase, EvalTypeOK
<1>7. QED BY <1>1, <1>2, <1>3, <1>4, <1>5, <1>6 DEF EvalReads

LEMMA EvalTypeStep ==
  ASSUME EvalTypeOK, \A t \in Tester : TaskHolds(t), [EvalNext]_evalVars
  PROVE  EvalTypeOK'
<1> DEFINE Counted == tasks' \in Nat /\ mishaps' \in Nat
<1>c. Counted
  BY EvalSteps DEF EvalTypeOK, evalVars
<1>r. \A t \in Tester : task[t] \in Task /\ task[t].row \in RunRow
  BY DEF EvalTypeOK, Task
<1>1. ASSUME NEW t \in Tester, EvalReads(t) PROVE EvalTypeOK'
  BY <1>1, <1>c, ReadsFacts, ReadsTables DEF EvalTypeOK
<1>2. ASSUME NEW t \in Tester, ListRuns(t) PROVE EvalTypeOK'
  <2>1. [task[t] EXCEPT !.at = "commit", !.known = RunsOf(task[t].suite)] \in Task
    BY <1>r DEF Task, RunsOf
  <2>2. task' \in [Tester -> Task]
    BY <1>2, <2>1 DEF ListRuns, EvalTypeOK
  <2>3. QED BY <1>2, <1>c, <2>2 DEF ListRuns, EvalTypeOK
<1>3. ASSUME NEW t \in Tester, DropSuite(t) PROVE EvalTypeOK'
  <2>1. \A c \in EvalCase : [cases[c] EXCEPT !.is = "deleted"] \in CaseRow
    BY DEF EvalTypeOK, CaseRow, Row
  <2>2. \A r \in EvalRun : [runs[r] EXCEPT !.is = "deleted"] \in RunRow
    BY DEF EvalTypeOK, RunRow, Row
  <2>3. suites' \in [Suite -> Row] /\ cases' \in [EvalCase -> CaseRow] /\ runs' \in [EvalRun -> RunRow]
    BY <1>3, <2>1, <2>2 DEF DropSuite, Deletes, EvalTypeOK, Row
  <2>4. results' \subseteq Result /\ struck' \subseteq EvalRun
    BY <1>3 DEF DropSuite, EvalTypeOK, RunsOf
  <2>5. QED BY <1>3, <1>c, <2>3, <2>4, EndsTaskType DEF DropSuite, EvalTypeOK
<1>4. ASSUME NEW t \in Tester, InsertRun(t) PROVE EvalTypeOK'
  <2> DEFINE row == [NoRunRow EXCEPT !.is = "live", !.suite = task[t].suite]
  <2>1. row \in RunRow
    BY <1>r, NoTaskType DEF RunRow, Row, Task
  <2> HIDE DEF row
  <2>2. PICK r \in EvalRun : /\ runs' = [runs EXCEPT ![r] = row]
                             /\ task' = [task EXCEPT ![t].at = "cases", ![t].run = r, ![t].row = row]
                             /\ struck' = IF suites[task[t].suite] = "live" THEN struck ELSE struck \cup {r}
    BY <1>4 DEF InsertRun, row
  <2>3. [task[t] EXCEPT !.at = "cases", !.run = r, !.row = row] \in Task
    BY <1>r, <2>1 DEF Task
  <2>4. task' \in [Tester -> Task] /\ runs' \in [EvalRun -> RunRow] /\ struck' \subseteq EvalRun
    BY <2>1, <2>2, <2>3 DEF EvalTypeOK
  <2>5. QED BY <1>4, <1>c, <2>4 DEF InsertRun, EvalTypeOK
<1>5. ASSUME NEW t \in Tester, JudgeCase(t) PROVE EvalTypeOK'
  <2>1. PICK c \in task[t].todo, v \in Verdict :
          /\ results' = results \cup {[run |-> task[t].run, of |-> c, verdict |-> v]}
          /\ task' = [task EXCEPT ![t].todo = @ \ {c}, ![t].row.counts[Counter(v)] = @ + 1]
    BY <1>5 DEF JudgeCase
  <2>2. task[t].run \in EvalRun /\ c \in EvalCase
    BY <1>5, <1>r DEF JudgeCase, TaskHolds, Task
  <2> DEFINE counts == [task[t].row.counts EXCEPT ![Counter(v)] = @ + 1]
  <2>3. counts \in Verdicts
    BY <1>r, CounterType, CountsType DEF RunRow
  <2> HIDE DEF counts
  <2>4. [task[t].row EXCEPT !.counts = counts] \in RunRow
    BY <1>r, <2>3 DEF RunRow
  <2>5. [task[t] EXCEPT !.todo = @ \ {c}, !.row = [@ EXCEPT !.counts = counts]] \in Task
    BY <1>r, <2>4 DEF Task
  <2>6. task' = [task EXCEPT ![t] = [task[t] EXCEPT !.todo = @ \ {c}, !.row = [@ EXCEPT !.counts = counts]]]
    BY <2>1 DEF counts
  <2>7. task' \in [Tester -> Task]
    BY <2>5, <2>6 DEF EvalTypeOK
  <2>8. results' \subseteq Result
    BY <2>1, <2>2 DEF EvalTypeOK, Result
  <2>9. QED BY <1>5, <1>c, <2>7, <2>8 DEF JudgeCase, EvalTypeOK
<1>6. ASSUME NEW t \in Tester, CompleteRun(t) \/ FailRun(t) PROVE EvalTypeOK'
  <2>1. /\ [task[t].row EXCEPT !.status = "completed"] \in RunRow
        /\ [task[t].row EXCEPT !.status = "failed", !.counts = NoVerdicts] \in RunRow
    BY <1>r DEF RunRow, NoVerdicts, Verdicts
  <2>2. runs' \in [EvalRun -> RunRow]
    BY <1>6, <2>1 DEF CompleteRun, FailRun, SavesRun, EvalTypeOK
  <2>3. QED BY <1>6, <1>c, <2>2, EndsTaskType DEF CompleteRun, FailRun, EvalTypeOK
<1>7. ASSUME NEW t \in Tester, TaskFails(t) PROVE EvalTypeOK'
  <2>1. [task[t] EXCEPT !.at = "failing"] \in Task
    BY <1>r DEF Task
  <2>2. task' \in [Tester -> Task]
    BY <1>7, <2>1, EndsTaskType DEF TaskFails, EvalTypeOK
  <2>3. QED BY <1>7, <1>c, <2>2 DEF TaskFails, EvalTypeOK
<1>8. CASE Dies
  BY <1>8, <1>c, NoTaskType DEF Dies, EvalTypeOK
<1>9. CASE UNCHANGED evalVars
  BY <1>9 DEF evalVars, EvalTypeOK
<1>10. QED BY <1>1, <1>2, <1>3, <1>4, <1>5, <1>6, <1>7, <1>8, <1>9, EvalSteps

-----------------------------------------------------------------------------
(* A run whose row and results a step leaves alone, and a task that holds one. *)
LEMMA TallyKept ==
  ASSUME NEW r, ResultsOf(r)' = ResultsOf(r)
  PROVE  Tally(r)' = Tally(r)
BY DEF Tally, Counter, NoVerdicts

LEMMA AccountedKept ==
  ASSUME NEW r, Accounted(r), runs'[r] = runs[r], ResultsOf(r)' = ResultsOf(r),
         struck \subseteq struck'
  PROVE  Accounted(r)'
BY TallyKept DEF Accounted

LEMMA HoldsKept ==
  ASSUME NEW t, TaskHolds(t), task'[t] = task[t], struck \subseteq struck',
         task[t].run # NoRun => /\ runs'[task[t].run] = runs[task[t].run]
                                /\ ResultsOf(task[t].run)' = ResultsOf(task[t].run),
         \A r \in task[t].known : runs[r].is # "none" =>
            runs'[r].is # "none" /\ runs'[r].suite = runs[r].suite
  PROVE  TaskHolds(t)'
<1>1. task[t].run # NoRun => Judging(t)'
  <2> SUFFICES ASSUME task[t].run # NoRun PROVE Judging(t)'
    OBVIOUS
  <2>1. Tally(task[t].run)' = Tally(task[t].run)
    <3> DEFINE r == task[t].run
    <3>1. ResultsOf(r)' = ResultsOf(r)
      OBVIOUS
    <3>2. r' = r
      OBVIOUS
    <3>3. QED BY <3>1, <3>2 DEF Tally, Counter, NoVerdicts, ResultsOf
  <2>2. Judging(t)
    BY DEF TaskHolds
  <2>3. QED BY <2>1, <2>2 DEF Judging, ResultsOf
<1>2. QED BY <1>1 DEF TaskHolds

LEMMA FreshHolds ==
  ASSUME NEW t, Fresh(t)
  PROVE  TaskHolds(t)' /\ \A u : Apart(t, u)'
BY DEF Fresh, TaskHolds, Apart

LEMMA NoTaskFresh ==
  ASSUME NEW t, task'[t] = NoTask
  PROVE  Fresh(t)
BY DEF Fresh, NoTask

LEMMA SweptKept ==
  ASSUME NEW s \in Suite, Swept(s), suites'[s] = suites[s],
         CasesOf(s)' \subseteq CasesOf(s), RunsOf(s)' \subseteq RunsOf(s),
         struck \subseteq struck', late \subseteq late'
  PROVE  Swept(s)'
BY DEF Swept

LEMMA ReadsStep ==
  ASSUME EvalInv, NEW t \in Tester, EvalReads(t)
  PROVE  /\ \A u \in Tester : TaskHolds(u)'
         /\ \A u, v \in Tester : Apart(u, v)'
         /\ \A r \in EvalRun : Accounted(r)'
         /\ \A s \in Suite : Swept(s)'
         /\ IsFiniteSet(results')
<1>t. EvalTypeOK
  BY DEF EvalInv
<1>1. /\ task'[t] = task[t] \/ Fresh(t)
      /\ \A u \in Tester \ {t} : task'[u] = task[u]
      /\ UNCHANGED <<runs, results, struck>>
  BY <1>t, ReadsFacts
<1>2. \A r : ResultsOf(r)' = ResultsOf(r)
  BY <1>1 DEF ResultsOf
<1>3. ASSUME NEW u \in Tester PROVE TaskHolds(u)'
  BY <1>1, <1>2, HoldsKept, FreshHolds DEF EvalInv
<1>4. ASSUME NEW u \in Tester, NEW v \in Tester PROVE Apart(u, v)'
  <2>1. CASE task'[u] = task[u] /\ task'[v] = task[v]
    BY <2>1 DEF EvalInv, Apart
  <2>2. CASE Fresh(t) /\ t \in {u, v}
    BY <2>2 DEF Apart, Fresh
  <2>3. QED BY <1>1, <2>1, <2>2
<1>5. ASSUME NEW r \in EvalRun PROVE Accounted(r)'
  BY <1>1, <1>2, AccountedKept DEF EvalInv
<1>6. ASSUME NEW s \in Suite PROVE Swept(s)'
  <2>0. Swept(s) /\ late \subseteq late' /\ RunsOf(s)' = RunsOf(s)
    BY <1>t, <1>1, ReadsTables DEF EvalInv, RunsOf
  <2>1. CASE CreateSuite(t)
    BY <1>t, <1>1, <2>0, <2>1 DEF CreateSuite, EvalTypeOK, Swept, CasesOf
  <2>2. CASE SaveSuite(t)
    BY <1>t, <1>1, <2>0, <2>2 DEF SaveSuite, EvalTypeOK, Swept, CasesOf
  <2>3. CASE FindSuite(t) \/ FindCase(t) \/ BeginRun(t)
    BY <1>1, <2>0, <2>3, SweptKept DEF FindSuite, FindCase, BeginRun, CasesOf
  <2>4. CASE DeleteCase(t)
    <3>1. CasesOf(s)' \subseteq CasesOf(s)
      BY <1>t, <2>4 DEF DeleteCase, CasesOf, EvalTypeOK, CaseRow
    <3>2. QED BY <1>1, <2>0, <2>4, <3>1, SweptKept DEF DeleteCase
  <2>5. CASE EnterCase(t)
    <3>1. PICK c \in EvalCase :
            /\ cases' = [cases EXCEPT ![c] = [is |-> "live", suite |-> task[t].suite]]
            /\ late' = IF suites[task[t].suite] = "live" THEN late ELSE late \cup {c}
      BY <2>5 DEF EnterCase
    <3>2. CasesOf(s)' \subseteq CasesOf(s) \cup {c} /\ (c \in CasesOf(s)' => task[t].suite = s)
      BY <1>t, <3>1 DEF CasesOf, EvalTypeOK
    <3>3. suites' = suites
      BY <2>5 DEF EnterCase
    <3>4. QED BY <1>1, <2>0, <3>1, <3>2, <3>3 DEF Swept
  <2>6. CASE SaveCase(t)
    <3>1. /\ \A c \in EvalCase : cases'[c].suite = cases[c].suite
          /\ \A c \in EvalCase \ task[t].todo : cases'[c] = cases[c]
      <4>1. \A c \in EvalCase : cases'[c] = IF c \in task[t].todo THEN [cases[c] EXCEPT !.is = "live"]
                                           ELSE cases[c]
        BY <2>6 DEF SaveCase
      <4>2. \A c \in EvalCase : cases[c] \in CaseRow
        BY <1>t DEF EvalTypeOK
      <4>3. QED BY <4>1, <4>2 DEF CaseRow
    <3>2. \A c \in CasesOf(s)' : c \in CasesOf(s) \/ (c \in task[t].todo /\ cases[c].suite = s)
      BY <3>1 DEF CasesOf
    <3>3. suites' = suites /\ late' = late \cup {c \in task[t].todo : suites[cases[c].suite] # "live"}
      BY <2>6 DEF SaveCase
    <3>4. QED BY <1>1, <2>0, <3>2, <3>3 DEF Swept
  <2>7. QED BY <2>1, <2>2, <2>3, <2>4, <2>5, <2>6, <1>1 DEF EvalReads
<1>7. QED BY <1>1, <1>3, <1>4, <1>5, <1>6 DEF EvalInv

LEMMA ListRunsStep ==
  ASSUME EvalInv, NEW t \in Tester, ListRuns(t)
  PROVE  /\ \A u \in Tester : TaskHolds(u)'
         /\ \A u, v \in Tester : Apart(u, v)'
         /\ \A r \in EvalRun : Accounted(r)'
         /\ \A s \in Suite : Swept(s)'
         /\ IsFiniteSet(results')
<1>1. /\ task[t].at = "dropSuite" /\ task'[t].at = "commit" /\ task'[t].run = task[t].run
      /\ task'[t].suite = task[t].suite /\ task'[t].known = RunsOf(task[t].suite)
      /\ \A u \in Tester \ {t} : task'[u] = task[u]
      /\ UNCHANGED <<suites, cases, runs, results, struck, late>>
  BY DEF ListRuns, EvalInv, EvalTypeOK, Task
<1>2. \A r : ResultsOf(r)' = ResultsOf(r)
  BY <1>1 DEF ResultsOf
<1>3. ASSUME NEW u \in Tester PROVE TaskHolds(u)'
  <2>1. CASE u = t
    BY <1>1, <2>1 DEF EvalInv, TaskHolds, RunsOf
  <2>2. CASE u # t
    BY <1>1, <1>2, <2>2, HoldsKept DEF EvalInv
  <2>3. QED BY <2>1, <2>2
<1>4. ASSUME NEW u \in Tester, NEW v \in Tester PROVE Apart(u, v)'
  BY <1>1 DEF EvalInv, Apart
<1>5. ASSUME NEW r \in EvalRun PROVE Accounted(r)'
  BY <1>1, <1>2, AccountedKept DEF EvalInv
<1>6. ASSUME NEW s \in Suite PROVE Swept(s)'
  BY <1>1, SweptKept DEF EvalInv, RunsOf, CasesOf
<1>7. QED BY <1>1, <1>3, <1>4, <1>5, <1>6 DEF EvalInv

(* A deletion strikes the runs that are under way and those it did not list;   *)
(* of the others it deletes the results.                                       *)
LEMMA DropSuiteStep ==
  ASSUME EvalInv, NEW t \in Tester, DropSuite(t)
  PROVE  /\ \A u \in Tester : TaskHolds(u)'
         /\ \A u, v \in Tester : Apart(u, v)'
         /\ \A r \in EvalRun : Accounted(r)'
         /\ \A s \in Suite : Swept(s)'
         /\ IsFiniteSet(results')
<1>t. EvalTypeOK
  BY DEF EvalInv
<1>s. PICK S, K : S = task[t].suite /\ K = task[t].known
  OBVIOUS
<1>0. TaskHolds(t) /\ task[t].at = "commit"
  BY DEF DropSuite, EvalInv
<1>1. /\ suites' = [suites EXCEPT ![S] = "deleted"]
      /\ \A c \in EvalCase : cases'[c] = IF c \in CasesOf(S) THEN [cases[c] EXCEPT !.is = "deleted"]
                                         ELSE cases[c]
      /\ \A r \in EvalRun : runs'[r] = IF r \in RunsOf(S) THEN [runs[r] EXCEPT !.is = "deleted"]
                                       ELSE runs[r]
      /\ results' = {x \in results : x.run \notin K}
      /\ struck' = struck \cup {r \in RunsOf(S) : r \in UnderWay \/ r \notin K}
      /\ late' = late
      /\ EndsTask(t)
  BY <1>s DEF DropSuite, Deletes
<1>2. /\ task'[t] = NoTask
      /\ \A u \in Tester \ {t} : task'[u] = task[u]
  BY <1>t, <1>1, EndsTaskType
<1>3. \A r \in K : runs[r].is # "none" /\ runs[r].suite = S
  BY <1>0, <1>s DEF TaskHolds
<1>4. \A r \in EvalRun : ResultsOf(r)' = IF r \in K THEN {} ELSE ResultsOf(r)
  BY <1>1 DEF ResultsOf
<1>5. \A r \in EvalRun : /\ runs'[r].suite = runs[r].suite
                         /\ runs'[r].is = "none" <=> runs[r].is = "none"
                         /\ r \in RunsOf(S) => runs'[r].is = "deleted"
                         /\ r \notin RunsOf(S) => runs'[r] = runs[r]
  BY <1>t, <1>1 DEF EvalTypeOK, RunRow, RunsOf
<1>6. ASSUME NEW r \in EvalRun PROVE Accounted(r)'
  <2>0. Accounted(r)
    BY DEF EvalInv
  <2>1. CASE r \notin RunsOf(S)
    <3>1. CASE r \notin K
      BY <1>1, <1>4, <1>5, <2>0, <2>1, <3>1, AccountedKept
    <3>2. CASE r \in K
      <4>1. runs[r].is # "live"
        BY <1>3, <2>1, <3>2 DEF RunsOf
      <4>2. runs'[r] = runs[r] /\ ResultsOf(r)' = {}
        BY <1>4, <1>5, <2>1, <3>2
      <4>3. QED BY <4>1, <4>2 DEF Accounted
    <3>3. QED BY <3>1, <3>2
  <2>2. CASE r \in RunsOf(S)
    <3>1. runs'[r].is = "deleted"
      BY <1>5, <2>2
    <3>2. r \notin struck' => ResultsOf(r)' = {}
      BY <1>1, <1>4, <2>2
    <3>3. QED BY <3>1, <3>2 DEF Accounted
  <2>3. QED BY <2>1, <2>2
<1>7. ASSUME NEW u \in Tester PROVE TaskHolds(u)'
  <2>1. CASE u = t
    BY <1>2, <2>1, NoTaskFresh, FreshHolds
  <2>2. CASE u # t
    <3>0. TaskHolds(u) /\ task'[u] = task[u] /\ task[u].run \in EvalRun \cup {NoRun}
          /\ task[u].known \subseteq EvalRun
      BY <1>t, <1>2, <2>2 DEF EvalInv, EvalTypeOK, Task
    <3>1. ASSUME task[u].run # NoRun, task[u].run \in RunsOf(S) PROVE Judging(u)'
      <4>1. task[u].run \in UnderWay
        BY <3>1 DEF UnderWay
      <4>2. task[u].run \in struck'
        BY <1>1, <3>1, <4>1
      <4>3. ResultsOf(task[u].run)' \subseteq ResultsOf(task[u].run)
        BY <1>1, <3>0 DEF ResultsOf
      <4>4. Judging(u) /\ task[u].run \in EvalRun
        BY <3>0, <3>1 DEF TaskHolds
      <4>5. runs'[task[u].run].is # "none" /\ runs'[task[u].run].suite = runs[task[u].run].suite
        BY <1>5, <4>4 DEF Judging
      <4>6. QED BY <3>0, <4>2, <4>3, <4>4, <4>5 DEF Judging
    <3>2. ASSUME task[u].run # NoRun, task[u].run \notin RunsOf(S), task[u].run \in K PROVE Judging(u)'
      <4>1. Judging(u) /\ task[u].run \in EvalRun
        BY <3>0, <3>2 DEF TaskHolds
      <4>2. runs[task[u].run].is # "live"
        BY <1>3, <3>2, <4>1 DEF RunsOf
      <4>3. task[u].run \in struck'
        BY <1>1, <4>1, <4>2 DEF Judging
      <4>4. ResultsOf(task[u].run)' \subseteq ResultsOf(task[u].run)
        BY <1>1, <3>0 DEF ResultsOf
      <4>5. runs'[task[u].run] = runs[task[u].run]
        BY <1>5, <3>2, <4>1
      <4>6. QED BY <3>0, <4>1, <4>3, <4>4, <4>5 DEF Judging
    <3>3. \A r \in task[u].known : runs[r].is # "none" =>
             runs'[r].is # "none" /\ runs'[r].suite = runs[r].suite
      BY <1>5, <3>0
    <3>4. CASE task[u].run # NoRun /\ (task[u].run \in RunsOf(S) \/ task[u].run \in K)
      BY <3>0, <3>1, <3>2, <3>3, <3>4 DEF TaskHolds
    <3>5. CASE task[u].run # NoRun => task[u].run \notin RunsOf(S) /\ task[u].run \notin K
      <4>1. task[u].run # NoRun => /\ runs'[task[u].run] = runs[task[u].run]
                                   /\ ResultsOf(task[u].run)' = ResultsOf(task[u].run)
        <5>1. SUFFICES ASSUME task[u].run # NoRun
                       PROVE  /\ runs'[task[u].run] = runs[task[u].run]
                              /\ ResultsOf(task[u].run)' = ResultsOf(task[u].run)
          OBVIOUS
        <5>2. task[u].run \in EvalRun
          BY <3>0, <5>1
        <5>3. runs'[task[u].run] = runs[task[u].run]
          BY <1>5, <3>5, <5>1, <5>2
        <5>4. ResultsOf(task[u].run)' = ResultsOf(task[u].run)
          BY <1>1, <3>0, <3>5, <5>1 DEF ResultsOf
        <5>5. QED BY <5>3, <5>4
      <4>2. struck \subseteq struck'
        BY <1>1
      <4>3. QED BY <3>0, <3>3, <4>1, <4>2, HoldsKept
    <3>6. QED BY <3>4, <3>5
  <2>3. QED BY <2>1, <2>2
<1>8. ASSUME NEW u \in Tester, NEW v \in Tester PROVE Apart(u, v)'
  <2>1. task'[t].run = NoRun
    BY <1>2 DEF NoTask
  <2>2. QED BY <1>2, <2>1 DEF EvalInv, Apart
<1>9. ASSUME NEW s \in Suite PROVE Swept(s)'
  <2>0. Swept(s) /\ late' = late /\ struck \subseteq struck'
    BY <1>1 DEF EvalInv
  <2>1. \A r \in EvalRun : runs'[r].is = "live" => runs'[r] = runs[r]
    BY <1>5
  <2>2. RunsOf(s)' \subseteq RunsOf(s) /\ RunsOf(S)' = {}
    BY <1>5, <2>1 DEF RunsOf
  <2>3. \A c \in EvalCase : /\ c \in CasesOf(S) => cases'[c].is = "deleted"
                            /\ c \notin CasesOf(S) => cases'[c] = cases[c]
    BY <1>t, <1>1 DEF EvalTypeOK, CaseRow
  <2>4. CasesOf(s)' \subseteq CasesOf(s) /\ CasesOf(s)' \cap CasesOf(S) = {}
    BY <2>3 DEF CasesOf
  <2>5. CASE s = S
    BY <2>2, <2>4, <2>5 DEF Swept
  <2>6. CASE s # S
    <3>1. suites'[s] = suites[s]
      BY <1>t, <1>1, <2>6 DEF EvalTypeOK
    <3>2. QED BY <2>0, <2>2, <2>4, <3>1, SweptKept
  <2>7. QED BY <2>5, <2>6
<1>10. IsFiniteSet(results')
  BY <1>1, FS_Subset DEF EvalInv
<1>11. QED BY <1>6, <1>7, <1>8, <1>9, <1>10

LEMMA InsertRunStep ==
  ASSUME EvalInv, NEW t \in Tester, InsertRun(t)
  PROVE  /\ \A u \in Tester : TaskHolds(u)'
         /\ \A u, v \in Tester : Apart(u, v)'
         /\ \A r \in EvalRun : Accounted(r)'
         /\ \A s \in Suite : Swept(s)'
         /\ IsFiniteSet(results')
<1> DEFINE row == [NoRunRow EXCEPT !.is = "live", !.suite = task[t].suite]
<1>t. EvalTypeOK
  BY DEF EvalInv
<1>r. /\ row.is = "live" /\ row.suite = task[t].suite /\ row.status = "running"
      /\ row.counts = NoVerdicts
  BY DEF NoRunRow
<1> HIDE DEF row
<1>0. PICK r \in EvalRun :
        /\ task[t].at = "target" /\ runs[r].is = "none" /\ r \notin UnderWay
        /\ runs' = [runs EXCEPT ![r] = row]
        /\ task' = [task EXCEPT ![t].at = "cases", ![t].run = r, ![t].row = row]
        /\ struck' = IF suites[task[t].suite] = "live" THEN struck ELSE struck \cup {r}
        /\ UNCHANGED <<suites, cases, results, late>>
  BY DEF InsertRun, row
<1>1. /\ runs'[r] = row
      /\ \A o \in EvalRun \ {r} : runs'[o] = runs[o]
      /\ task'[t].at = "cases" /\ task'[t].run = r /\ task'[t].row = row
      /\ task'[t].todo = task[t].todo
      /\ \A u \in Tester \ {t} : task'[u] = task[u]
  BY <1>t, <1>0 DEF EvalTypeOK, Task
<1>2. ResultsOf(r) = {} /\ \A o : ResultsOf(o)' = ResultsOf(o)
  BY <1>0 DEF EvalInv, Accounted, ResultsOf
<1>3. Tally(r)' = NoVerdicts
  <2>1. ResultsOf(r)' = {}
    BY <1>2
  <2>2. Tally(r)' = [n \in DOMAIN NoVerdicts |-> Cardinality({x \in ResultsOf(r)' : Counter(x.verdict) = n})]
    BY DEF Tally, NoVerdicts, Counter
  <2>3. Tally(r)' = [n \in DOMAIN NoVerdicts |-> Cardinality({})]
    BY <2>1, <2>2
  <2>4. Cardinality({}) = 0
    BY FS_EmptySet
  <2>5. QED BY <2>3, <2>4 DEF NoVerdicts
<1>4. struck \subseteq struck'
  BY <1>0
<1>5. ASSUME NEW u \in Tester PROVE TaskHolds(u)'
  <2>1. CASE u = t
    <3>1. /\ \A x \in ResultsOf(task[t].run)' : FALSE
          /\ Tally(task[t].run)' = NoVerdicts
      BY <1>1, <1>2, <1>3 DEF ResultsOf, Tally
    <3>2. Judging(t)'
      BY <1>1, <1>r, <3>1 DEF Judging
    <3>3. r # NoRun
      OBVIOUS
    <3>4. QED BY <1>1, <2>1, <3>2, <3>3 DEF TaskHolds
  <2>2. CASE u # t
    <3>0. TaskHolds(u) /\ task'[u] = task[u] /\ task[u].run \in EvalRun \cup {NoRun}
          /\ task[u].known \subseteq EvalRun
      BY <1>t, <1>1, <2>2 DEF EvalInv, EvalTypeOK, Task
    <3>1. task[u].run # NoRun => runs'[task[u].run] = runs[task[u].run]
      BY <1>0, <1>1, <3>0 DEF TaskHolds, Judging
    <3>2. \A o \in task[u].known : runs[o].is # "none" => runs'[o].is # "none"
             /\ runs'[o].suite = runs[o].suite
      BY <1>0, <1>1, <3>0
    <3>3. QED BY <1>2, <1>4, <3>0, <3>1, <3>2, HoldsKept
  <2>3. QED BY <2>1, <2>2
<1>6. ASSUME NEW u \in Tester, NEW v \in Tester PROVE Apart(u, v)'
  <2>1. \A w \in Tester : task[w].run # r
    BY <1>0 DEF UnderWay
  <2>2. QED BY <1>1, <2>1 DEF EvalInv, Apart
<1>7. ASSUME NEW o \in EvalRun PROVE Accounted(o)'
  <2>1. CASE o = r
    BY <1>1, <1>r, <1>2, <2>1 DEF Accounted
  <2>2. CASE o # r
    BY <1>1, <1>2, <1>4, <2>2, AccountedKept DEF EvalInv
  <2>3. QED BY <2>1, <2>2
<1>8. ASSUME NEW s \in Suite PROVE Swept(s)'
  <2>1. RunsOf(s)' \subseteq RunsOf(s) \cup {r} /\ (r \in RunsOf(s)' => task[t].suite = s)
    BY <1>1, <1>r DEF RunsOf
  <2>2. CasesOf(s)' = CasesOf(s) /\ Swept(s)
    BY <1>0 DEF CasesOf, EvalInv
  <2>3. QED BY <1>0, <2>1, <2>2 DEF Swept
<1>9. QED BY <1>0, <1>5, <1>6, <1>7, <1>8 DEF EvalInv

(* One more result of a run, for a case it had none for: its tally grows by    *)
(* one where the verdict counts.                                               *)
LEMMA TallyGrows ==
  ASSUME IsFiniteSet(results), NEW x, x \notin results, NEW n,
         NEW m \in DOMAIN NoVerdicts
  PROVE  LET old == {y \in ResultsOf(x.run) : Counter(y.verdict) = m}
             new == {y \in results \cup {x} : y.run = x.run /\ Counter(y.verdict) = m}
         IN  Cardinality(new) = IF Counter(x.verdict) = m THEN Cardinality(old) + 1
                                ELSE Cardinality(old)
<1> DEFINE old == {y \in ResultsOf(x.run) : Counter(y.verdict) = m}
           new == {y \in results \cup {x} : y.run = x.run /\ Counter(y.verdict) = m}
<1>1. IsFiniteSet(old) /\ x \notin old
  <2>1. old \subseteq results
    BY DEF ResultsOf
  <2>2. QED BY <2>1, FS_Subset
<1>2. CASE Counter(x.verdict) = m
  <2>1. new = old \cup {x}
    BY <1>2 DEF ResultsOf
  <2>2. Cardinality(new) = Cardinality(old) + 1
    BY <1>1, <2>1, FS_AddElement
  <2>3. QED BY <1>2, <2>2
<1>3. CASE Counter(x.verdict) # m
  <2>1. new = old
    BY <1>3 DEF ResultsOf
  <2>2. QED BY <1>3, <2>1
<1>4. QED BY <1>2, <1>3

LEMMA JudgeCaseStep ==
  ASSUME EvalInv, NEW t \in Tester, JudgeCase(t)
  PROVE  /\ \A u \in Tester : TaskHolds(u)'
         /\ \A u, v \in Tester : Apart(u, v)'
         /\ \A r \in EvalRun : Accounted(r)'
         /\ \A s \in Suite : Swept(s)'
         /\ IsFiniteSet(results')
<1>t. EvalTypeOK /\ IsFiniteSet(results) /\ TaskHolds(t) /\ task[t].at = "cases"
  BY DEF EvalInv, JudgeCase
<1>k. task[t] \in Task /\ task[t].row \in RunRow /\ task[t].row.counts \in Verdicts
  BY <1>t DEF EvalTypeOK, Task, RunRow
<1>0. PICK r, c, v :
        /\ r = task[t].run /\ c \in task[t].todo /\ v \in Verdict
        /\ results' = results \cup {[run |-> r, of |-> c, verdict |-> v]}
        /\ task' = [task EXCEPT ![t].todo = @ \ {c}, ![t].row.counts[Counter(v)] = @ + 1]
        /\ UNCHANGED <<suites, cases, runs, struck, late>>
  BY DEF JudgeCase
<1>r. r \in EvalRun /\ r # NoRun /\ Judging(t)
  BY <1>t, <1>k, <1>0 DEF TaskHolds, Task
<1> DEFINE x == [run |-> r, of |-> c, verdict |-> v]
           counts == [task[t].row.counts EXCEPT ![Counter(v)] = @ + 1]
<1>1. /\ task'[t].at = "cases" /\ task'[t].run = r /\ task'[t].todo = task[t].todo \ {c}
      /\ task'[t].suite = task[t].suite
      /\ task'[t].row.is = task[t].row.is /\ task'[t].row.suite = task[t].row.suite
      /\ task'[t].row.counts = counts
      /\ \A u \in Tester \ {t} : task'[u] = task[u]
  <2>1. task'[t] = [task[t] EXCEPT !.todo = @ \ {c}, !.row = [@ EXCEPT !.counts = counts]]
    BY <1>t, <1>0 DEF EvalTypeOK
  <2> HIDE DEF counts
  <2>2. \A u \in Tester \ {t} : task'[u] = task[u]
    BY <1>t, <1>0 DEF EvalTypeOK
  <2> DEFINE row == [task[t].row EXCEPT !.counts = counts]
  <2>3. row.is = task[t].row.is /\ row.suite = task[t].row.suite /\ row.counts = counts
    BY <1>k DEF RunRow
  <2>4. task'[t] = [task[t] EXCEPT !.todo = @ \ {c}, !.row = row]
    BY <2>1
  <2> HIDE DEF row
  <2>5. /\ task'[t].at = task[t].at /\ task'[t].run = task[t].run /\ task'[t].row = row
        /\ task'[t].todo = task[t].todo \ {c} /\ task'[t].suite = task[t].suite
    BY <1>k, <2>4 DEF Task
  <2>6. QED BY <1>t, <1>0, <2>2, <2>3, <2>5
<1>2. x \notin results
  BY <1>0, <1>r DEF Judging, ResultsOf
<1>3. ResultsOf(r)' = ResultsOf(r) \cup {x}
  BY <1>0 DEF ResultsOf
<1>4. \A o : o # r => ResultsOf(o)' = ResultsOf(o)
  BY <1>0 DEF ResultsOf
<1>5. task[t].row.counts = Tally(r) => counts = Tally(r)'
  <2> SUFFICES ASSUME task[t].row.counts = Tally(r) PROVE counts = Tally(r)'
    OBVIOUS
  <2>n. DOMAIN NoVerdicts = {"pass", "fail", "skip"}
    BY DEF NoVerdicts
  <2>v. Counter(v) \in {"pass", "fail", "skip"}
    BY <1>0, CounterType
  <2>1. ASSUME NEW m \in {"pass", "fail", "skip"} PROVE counts[m] = Tally(r)'[m]
    <3>1. counts[m] = IF m = Counter(v) THEN Tally(r)[m] + 1 ELSE Tally(r)[m]
      BY <1>k, <2>v, CountsOf
    <3>2. Tally(r)[m] = Cardinality({y \in ResultsOf(r) : Counter(y.verdict) = m})
      BY <2>n DEF Tally
    <3>3. Tally(r)'[m] = Cardinality({y \in results \cup {x} : y.run = r /\ Counter(y.verdict) = m})
      <4>1. Tally(r)' = [n \in {"pass", "fail", "skip"} |->
                           Cardinality({y \in results' : y.run = r /\ Counter(y.verdict) = n})]
        <5>1. \A n : {y \in ResultsOf(r)' : Counter(y.verdict) = n}
                     = {y \in results' : y.run = r /\ Counter(y.verdict) = n}
          BY DEF ResultsOf
        <5>2. Tally(r)' = [n \in {"pass", "fail", "skip"} |->
                           Cardinality({y \in ResultsOf(r)' : Counter(y.verdict) = n})]
          BY <2>n DEF Tally, Counter
        <5>3. QED BY <5>1, <5>2
      <4>2. results' = results \cup {x}
        BY <1>0
      <4>3. QED BY <4>1, <4>2
    <3>4. x.run = r /\ x.verdict = v
      OBVIOUS
    <3>5. Cardinality({y \in results \cup {x} : y.run = r /\ Counter(y.verdict) = m})
            = IF Counter(v) = m THEN Cardinality({y \in ResultsOf(r) : Counter(y.verdict) = m}) + 1
              ELSE Cardinality({y \in ResultsOf(r) : Counter(y.verdict) = m})
      <4> HIDE DEF x
      <4>1. m \in DOMAIN NoVerdicts
        BY <2>n
      <4>2. QED BY <1>t, <1>2, <3>4, <4>1, TallyGrows
    <3>6. QED BY <3>1, <3>2, <3>3, <3>5
  <2>2. counts = [m \in {"pass", "fail", "skip"} |-> counts[m]]
    BY <1>k DEF Verdicts
  <2>3. Tally(r)' = [m \in {"pass", "fail", "skip"} |-> Tally(r)'[m]]
    BY <2>n DEF Tally
  <2> HIDE DEF counts
  <2>4. [m \in {"pass", "fail", "skip"} |-> counts[m]] = [m \in {"pass", "fail", "skip"} |-> Tally(r)'[m]]
    BY <2>1
  <2>5. QED BY <2>2, <2>3, <2>4
<1> HIDE DEF counts
<1>6. Judging(t)'
  <2>1. \A y \in ResultsOf(r)' : y.of \notin task'[t].todo
    <3>1. task'[t].todo = task[t].todo \ {c} /\ x.of = c
      BY <1>1
    <3>2. \A y \in ResultsOf(r) : y.of \notin task[t].todo
      BY <1>0, <1>r DEF Judging
    <3>3. QED BY <1>3, <3>1, <3>2
  <2>2. /\ \A y \in ResultsOf(task[t].run)' : y.of \notin task'[t].todo
        /\ Tally(task[t].run)' = Tally(r)'
    BY <1>1, <2>1 DEF ResultsOf, Tally
  <2>3. r \notin struck => task'[t].row.counts = Tally(r)'
    BY <1>0, <1>1, <1>5, <1>r, <1>t DEF Judging
  <2>4. /\ runs[r].is # "none" /\ runs[r].suite = task[t].row.suite /\ task[t].row.is = "live"
        /\ r \notin struck => runs[r].is = "live" /\ runs[r].status = "running"
    BY <1>0, <1>r DEF Judging
  <2>5. runs' = runs /\ struck' = struck
    BY <1>0
  <2>6. QED BY <1>1, <2>2, <2>3, <2>4, <2>5 DEF Judging
<1>7. ASSUME NEW u \in Tester PROVE TaskHolds(u)'
  <2>1. CASE u = t
    BY <1>1, <1>6, <1>r, <2>1 DEF TaskHolds
  <2>2. CASE u # t
    <3>1. TaskHolds(u) /\ task'[u] = task[u] /\ Apart(t, u)
      BY <1>1, <2>2 DEF EvalInv
    <3>2. task[u].run # r
      BY <1>0, <1>r, <2>2, <3>1 DEF Apart
    <3>3. ResultsOf(task[u].run)' = ResultsOf(task[u].run)
      BY <1>0, <3>1, <3>2 DEF ResultsOf
    <3>4. QED BY <1>0, <3>1, <3>3, HoldsKept
  <2>3. QED BY <2>1, <2>2
<1>8. ASSUME NEW u \in Tester, NEW w \in Tester PROVE Apart(u, w)'
  <2>1. \A o \in Tester : task'[o].run = task[o].run
    BY <1>0, <1>1
  <2>2. QED BY <2>1 DEF EvalInv, Apart
<1>9. ASSUME NEW o \in EvalRun PROVE Accounted(o)'
  <2>1. CASE o # r
    BY <1>0, <1>4, <2>1, AccountedKept DEF EvalInv
  <2>2. CASE o = r
    BY <1>0, <1>r, <2>2 DEF Accounted, Judging
  <2>3. QED BY <2>1, <2>2
<1>10. ASSUME NEW s \in Suite PROVE Swept(s)'
  BY <1>0, SweptKept DEF EvalInv, RunsOf, CasesOf
<1>11. IsFiniteSet(results')
  BY <1>0, <1>t, FS_AddElement
<1>12. QED BY <1>7, <1>8, <1>9, <1>10, <1>11

(* The row saved at the end of a run is the one it was inserted with, but for  *)
(* its status and counts: a run that was deleted meanwhile is struck.          *)
LEMMA SavesRunStep ==
  ASSUME EvalInv, NEW t \in Tester, NEW row, SavesRun(t, row), EndsTask(t),
         task[t].run # NoRun, row.is = "live", row.suite = task[t].row.suite,
         row.status = "completed" => task[t].at = "cases" /\ row.counts = task[t].row.counts,
         UNCHANGED <<suites, cases, results, struck, late>>
  PROVE  /\ \A u \in Tester : TaskHolds(u)'
         /\ \A u, v \in Tester : Apart(u, v)'
         /\ \A r \in EvalRun : Accounted(r)'
         /\ \A s \in Suite : Swept(s)'
         /\ IsFiniteSet(results')
<1>t. EvalTypeOK /\ Judging(t)
  BY DEF EvalInv, TaskHolds
<1>0. PICK r \in EvalRun : r = task[t].run
  BY <1>t DEF EvalTypeOK, Task
<1>1. runs'[r] = row /\ \A o \in EvalRun \ {r} : runs'[o] = runs[o]
  BY <1>t, <1>0 DEF EvalTypeOK, SavesRun
<1>2. task'[t] = NoTask /\ \A u \in Tester \ {t} : task'[u] = task[u]
  BY <1>t, EndsTaskType
<1>3. runs'[r].suite = runs[r].suite /\ runs'[r].is = "live" /\ runs[r].is # "none"
  BY <1>0, <1>1, <1>t DEF Judging
<1>4. \A o : ResultsOf(o)' = ResultsOf(o)
  BY DEF ResultsOf
<1>5. ASSUME NEW u \in Tester PROVE TaskHolds(u)'
  <2>1. CASE u = t
    BY <1>2, <2>1, NoTaskFresh, FreshHolds
  <2>2. CASE u # t
    <3>1. /\ TaskHolds(u) /\ task'[u] = task[u] /\ Apart(t, u)
          /\ task[u].run \in EvalRun \cup {NoRun} /\ task[u].known \subseteq EvalRun
      BY <1>t, <1>2, <2>2 DEF EvalInv, EvalTypeOK, Task
    <3>2. task[u].run # NoRun => runs'[task[u].run] = runs[task[u].run]
      BY <1>0, <1>1, <2>2, <3>1 DEF Apart
    <3>3. \A o \in task[u].known : runs[o].is # "none" => runs'[o].is # "none"
             /\ runs'[o].suite = runs[o].suite
      BY <1>1, <1>3, <3>1
    <3>4. QED BY <1>4, <3>1, <3>2, <3>3, HoldsKept
  <2>3. QED BY <2>1, <2>2
<1>6. ASSUME NEW u \in Tester, NEW v \in Tester PROVE Apart(u, v)'
  <2>1. task'[t].run = NoRun
    BY <1>2 DEF NoTask
  <2>2. QED BY <1>2, <2>1 DEF EvalInv, Apart
<1>7. ASSUME NEW o \in EvalRun PROVE Accounted(o)'
  <2>1. CASE o # r
    BY <1>1, <1>4, <2>1, AccountedKept DEF EvalInv
  <2>2. CASE o = r
    <3>1. Tally(r)' = Tally(r)
      BY <1>4, TallyKept
    <3>2. r \notin struck /\ row.status = "completed" => row.counts = Tally(r)
      BY <1>0, <1>t DEF Judging
    <3>3. QED BY <1>1, <1>3, <2>2, <3>1, <3>2 DEF Accounted
  <2>3. QED BY <2>1, <2>2
<1>8. ASSUME NEW s \in Suite PROVE Swept(s)'
  <2>1. r \in struck \/ runs[r].is = "live"
    BY <1>0, <1>t DEF Judging
  <2>2. RunsOf(s)' \subseteq RunsOf(s) \cup (struck \cap {r})
    BY <1>1, <1>3, <2>1 DEF RunsOf
  <2>3. CasesOf(s)' = CasesOf(s) /\ Swept(s)
    BY DEF CasesOf, EvalInv
  <2>4. QED BY <2>2, <2>3 DEF Swept
<1>9. QED BY <1>5, <1>6, <1>7, <1>8 DEF EvalInv

(* A query fails, or the process dies. *)
LEMMA StopsStep ==
  ASSUME EvalInv, (\E t \in Tester : TaskFails(t)) \/ Dies
  PROVE  /\ \A u \in Tester : TaskHolds(u)'
         /\ \A u, v \in Tester : Apart(u, v)'
         /\ \A r \in EvalRun : Accounted(r)'
         /\ \A s \in Suite : Swept(s)'
         /\ IsFiniteSet(results')
<1>t. EvalTypeOK
  BY DEF EvalInv
<1>1. UNCHANGED <<suites, cases, runs, results, struck, late>>
  BY DEF TaskFails, Dies
<1>2. \A u \in Tester : \/ task'[u] = task[u] \/ task'[u] = NoTask
                        \/ /\ task[u].at = "cases" /\ task'[u] = [task[u] EXCEPT !.at = "failing"]
  <2>1. CASE Dies
    BY <2>1 DEF Dies
  <2>2. ASSUME NEW t \in Tester, TaskFails(t)
        PROVE  \A u \in Tester : \/ task'[u] = task[u] \/ task'[u] = NoTask
                                 \/ /\ task[u].at = "cases" /\ task'[u] = [task[u] EXCEPT !.at = "failing"]
    BY <1>t, <2>2 DEF TaskFails, EndsTask, EvalTypeOK
  <2>3. QED BY <2>1, <2>2
<1>3. \A o : ResultsOf(o)' = ResultsOf(o)
  BY <1>1 DEF ResultsOf
<1>4. ASSUME NEW u \in Tester PROVE TaskHolds(u)'
  <2>1. CASE task'[u] = task[u]
    BY <1>1, <1>3, <2>1, HoldsKept DEF EvalInv
  <2>2. CASE task'[u] = NoTask
    BY <2>2, NoTaskFresh, FreshHolds
  <2>3. CASE task[u].at = "cases" /\ task'[u] = [task[u] EXCEPT !.at = "failing"]
    <3>1. task[u] \in Task
      BY <1>t DEF EvalTypeOK
    <3>2. /\ task'[u].at = "failing" /\ task'[u].run = task[u].run /\ task'[u].row = task[u].row
          /\ task'[u].todo = task[u].todo
      BY <2>3, <3>1 DEF Task
    <3>3. TaskHolds(u)
      BY DEF EvalInv
    <3>4. ResultsOf(task[u].run)' = ResultsOf(task[u].run)
      BY <1>1, <3>2 DEF ResultsOf
    <3>5. QED BY <1>1, <2>3, <3>2, <3>3, <3>4 DEF TaskHolds, Judging
  <2>4. QED BY <1>2, <2>1, <2>2, <2>3
<1>5. ASSUME NEW u \in Tester, NEW v \in Tester PROVE Apart(u, v)'
  <2>1. \A w \in Tester : task'[w].run = task[w].run \/ task'[w].run = NoRun
    <3> SUFFICES ASSUME NEW w \in Tester PROVE task'[w].run = task[w].run \/ task'[w].run = NoRun
      OBVIOUS
    <3>1. task[w] \in Task
      BY <1>t DEF EvalTypeOK
    <3>2. [task[w] EXCEPT !.at = "failing"].run = task[w].run
      BY <3>1 DEF Task
    <3>3. NoTask.run = NoRun
      BY DEF NoTask
    <3>4. QED BY <1>2, <3>2, <3>3
  <2>2. QED BY <2>1 DEF EvalInv, Apart
<1>6. ASSUME NEW r \in EvalRun PROVE Accounted(r)'
  BY <1>1, <1>3, AccountedKept DEF EvalInv
<1>7. ASSUME NEW s \in Suite PROVE Swept(s)'
  BY <1>1, SweptKept DEF EvalInv, RunsOf, CasesOf
<1>8. QED BY <1>1, <1>4, <1>5, <1>6, <1>7 DEF EvalInv

LEMMA EvalInvariant == EvalSpec => []EvalInv
<1>1. EvalInit => EvalInv
  <2> SUFFICES ASSUME EvalInit PROVE EvalInv
    OBVIOUS
  <2>1. EvalTypeOK
    BY NoTaskType DEF EvalInit, EvalTypeOK, Row, CaseRow
  <2>2. \A t \in Tester : task[t].run = NoRun /\ task[t].at = "idle"
    BY DEF EvalInit, NoTask
  <2>3. /\ \A r \in EvalRun : runs[r].is = "none" /\ ResultsOf(r) = {}
        /\ \A s \in Suite : suites[s] = "none"
    BY DEF EvalInit, NoRunRow, ResultsOf
  <2>4. IsFiniteSet(results)
    BY FS_EmptySet DEF EvalInit
  <2>5. QED BY <2>1, <2>2, <2>3, <2>4 DEF EvalInv, TaskHolds, Apart, Accounted, Swept
<1>2. EvalInv /\ [EvalNext]_evalVars => EvalInv'
  <2> SUFFICES ASSUME EvalInv, [EvalNext]_evalVars PROVE EvalInv'
    OBVIOUS
  <2>0. EvalTypeOK'
    BY EvalTypeStep DEF EvalInv
  <2>1. ASSUME NEW t \in Tester, CompleteRun(t) PROVE EvalInv'
    <3> DEFINE row == [task[t].row EXCEPT !.status = "completed"]
    <3>1. TaskHolds(t) /\ task[t].row \in RunRow
      BY DEF EvalInv, EvalTypeOK, Task
    <3>2. /\ task[t].run # NoRun /\ row.is = "live" /\ row.suite = task[t].row.suite
          /\ task[t].at = "cases" /\ row.counts = task[t].row.counts
      BY <2>1, <3>1 DEF CompleteRun, TaskHolds, Judging, RunRow
    <3>3. SavesRun(t, row) /\ EndsTask(t) /\ UNCHANGED <<suites, cases, results, struck, late>>
      BY <2>1 DEF CompleteRun
    <3> HIDE DEF row
    <3>4. QED BY <2>0, <3>2, <3>3, SavesRunStep DEF EvalInv
  <2>2. ASSUME NEW t \in Tester, FailRun(t) PROVE EvalInv'
    <3> DEFINE row == [task[t].row EXCEPT !.status = "failed", !.counts = NoVerdicts]
    <3>1. TaskHolds(t) /\ task[t].row \in RunRow
      BY DEF EvalInv, EvalTypeOK, Task
    <3>2. /\ task[t].run # NoRun /\ row.is = "live" /\ row.suite = task[t].row.suite
          /\ row.status # "completed"
      BY <2>2, <3>1 DEF FailRun, TaskHolds, Judging, RunRow
    <3>3. SavesRun(t, row) /\ EndsTask(t) /\ UNCHANGED <<suites, cases, results, struck, late>>
      BY <2>2 DEF FailRun
    <3> HIDE DEF row
    <3>4. QED BY <2>0, <3>2, <3>3, SavesRunStep DEF EvalInv
  <2>3. ASSUME NEW t \in Tester, EvalReads(t) PROVE EvalInv'
    BY <2>0, <2>3, ReadsStep DEF EvalInv
  <2>4. ASSUME NEW t \in Tester, ListRuns(t) PROVE EvalInv'
    BY <2>0, <2>4, ListRunsStep DEF EvalInv
  <2>5. ASSUME NEW t \in Tester, DropSuite(t) PROVE EvalInv'
    BY <2>0, <2>5, DropSuiteStep DEF EvalInv
  <2>6. ASSUME NEW t \in Tester, InsertRun(t) PROVE EvalInv'
    BY <2>0, <2>6, InsertRunStep DEF EvalInv
  <2>7. ASSUME NEW t \in Tester, JudgeCase(t) PROVE EvalInv'
    BY <2>0, <2>7, JudgeCaseStep DEF EvalInv
  <2>8. ASSUME (\E t \in Tester : TaskFails(t)) \/ Dies PROVE EvalInv'
    BY <2>0, <2>8, StopsStep DEF EvalInv
  <2>9. CASE UNCHANGED evalVars
    BY <2>9 DEF evalVars, EvalInv, EvalTypeOK, TaskHolds, Judging, Apart, Accounted, Swept,
       ResultsOf, RunsOf, CasesOf, Tally
  <2>10. QED BY <2>1, <2>2, <2>3, <2>4, <2>5, <2>6, <2>7, <2>8, <2>9, EvalSteps
<1>3. QED BY <1>1, <1>2, PTL DEF EvalSpec

(* Every variable of suites, cases, runs, results and tasks keeps its type. *)
THEOREM EvalTypeCorrect == EvalSpec => []EvalTypeOK
<1>1. EvalInv => EvalTypeOK
  BY DEF EvalInv
<1>2. QED BY <1>1, EvalInvariant, PTL

(* A completed run counts the results kept for it, a deleted one keeps none,   *)
(* and of a deleted suite only what was entered or under way behind the        *)
(* deletion's back is left, however many runs, edits, deletions, failed        *)
(* queries and crashes interleave (eval/service.go:85, 120, 401).              *)
THEOREM RunsAccountedHolds == EvalSpec => []RunsAccounted
<1>1. EvalInv => RunsAccounted
  BY DEF EvalInv, Accounted, Swept, RunsAccounted
<1>2. QED BY <1>1, EvalInvariant, PTL
==============================================================================
