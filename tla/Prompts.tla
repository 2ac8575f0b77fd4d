-------------------------------- MODULE Prompts --------------------------------
(***************************************************************************)
(* One user's prompts, their versions and the agents bound to them.        *)
(* internal/prompt/service.go, internal/agent/service.go and the part of   *)
(* internal/agent/handler.go that picks an agent's system prompt.          *)
(*                                                                         *)
(* A request reads rows by some queries and writes them by a later         *)
(* statement or transaction: each query and each transaction is an action, *)
(* and other requests run between them.  A write is GORM's Save: it writes *)
(* every column as it was read, and it puts a row back that was deleted in *)
(* between.                                                                *)
(*                                                                         *)
(* A version's number and prompt never change, so they are kept with its   *)
(* id; what the table holds is `stored` and `published`.  Contents,        *)
(* descriptions, variables and tags are left out.                          *)
(***************************************************************************)
EXTENDS Integers, FiniteSets

CONSTANTS
  Editor,     \* goroutines that serve requests about prompts
  Prompt, Version, Agent,   \* ids that may be handed out
  Title,       \* names a prompt may get
  Origin,     \* agents and skills whose text can be imported
  NoPrompt, NoVersion, NoTitle,
  MaxEdits    \* bound: requests

ASSUME PromptAssumption ==
  /\ NoPrompt \notin Prompt /\ NoVersion \notin Version
  /\ NoTitle \notin Title \cup Origin
  /\ MaxEdits \in Nat

Card == [name : Title \cup {NoTitle}, origin : Origin \cup {NoTitle},
         current : Version \cup {NoVersion}]
NoCard == [name |-> NoTitle, origin |-> NoTitle, current |-> NoVersion]

VARIABLES
  prompts,    \* the live rows
  madeP,      \* prompt ids handed out
  card,       \* a row's name, origin and current version
  stored,     \* the rows of prompt_versions
  published,  \* versions that are published, if stored
  madeV,      \* version ids handed out
  home,       \* version -> the prompt it belongs to
  number,     \* version -> its number
  agents,     \* agent -> "none", "live" or "deleted"
  bound,      \* agent -> its prompt_id
  edit,       \* editor -> its request: where it is and what it has read
  begun,      \* requests begun
  (* history *)
  fresh,      \* editors such that nobody wrote their prompt since their first read
  disturbed,  \* prompts written by an editor that was not fresh
  strayed,    \* agents bound by a save to a prompt that was not there
  offered     \* editor -> versions current and published since it began to resolve

promptRows  == <<prompts, madeP, card>>
versionRows == <<stored, published, madeV, home, number>>
agentRows   == <<agents, bound>>
promptVars  == <<promptRows, versionRows, agentRows, edit, begun, fresh, disturbed,
                 strayed, offered>>

(* Where a request is: what it does next. *)
Places == {"idle", "insert", "name", "rename", "save", "max", "add", "row",
           "publish", "count", "remove", "delete", "choose", "resolve", "agent"}

Editing == [at : Places, prompt : Prompt \cup {NoPrompt}, ver : Version \cup {NoVersion},
            row : Card, n : Nat, publish : BOOLEAN, agent : Agent \cup {NoTitle}]
Idle == [at |-> "idle", prompt |-> NoPrompt, ver |-> NoVersion, row |-> NoCard,
         n |-> 0, publish |-> FALSE, agent |-> NoTitle]

VersionsOf(p) == {v \in stored : home[v] = p}

(* nameTaken and the unique indexes: another row has this name, this origin. *)
NameTaken(n, p) == \E q \in prompts \ {p} : card[q].name = n
Clash(p, row) == \E q \in prompts \ {p} :
  \/ card[q].name = row.name
  \/ row.origin # NoTitle /\ card[q].origin = row.origin

Step(t, r)  == edit' = [edit EXCEPT ![t] = r]
Finish(t)   == Step(t, Idle)
Begin(t, r) == edit[t].at = "idle" /\ Step(t, r)

-----------------------------------------------------------------------------
(* History.  Editor t commits a write to prompt p: whoever else has read p is  *)
(* no longer fresh, and p is disturbed if t was not.                           *)
Commits(t, p) ==
  /\ fresh' = {u \in fresh \ {t} : edit[u].prompt # p}
  /\ disturbed' = IF t \in fresh THEN disturbed ELSE disturbed \cup {p}

(* The versions a reader of p may be given: those current and published at     *)
(* some moment since it began.                                                 *)
ServedAfter(p) ==
  IF p \in prompts' THEN {card'[p].current} \cap stored' \cap published' ELSE {}
Offer == offered' = [u \in Editor |->
  IF edit'[u].at = "resolve" THEN offered[u] \cup ServedAfter(edit'[u].prompt) ELSE {}]

Reads(t)  == fresh' = fresh \cup {t} /\ UNCHANGED disturbed
Leaves(t) == fresh' = fresh \ {t} /\ UNCHANGED disturbed
Keeps     == UNCHANGED <<fresh, disturbed>>
OnlyEdit == UNCHANGED <<promptRows, versionRows, agentRows, strayed>>

(* Names ending in _Bug are variants of the definition that follows them, each *)
(* with a mistake the code could have; the properties are tried against them.  *)

-----------------------------------------------------------------------------
(* Create and the imports: a name, then one transaction that inserts the       *)
(* prompt and its first version.                                               *)
BeginCreate(t) ==
  /\ \E n \in Title : /\ ~NameTaken(n, NoPrompt)
                     /\ Begin(t, [Idle EXCEPT !.at = "insert", !.row.name = n])
  /\ Keeps /\ OnlyEdit

(* A source that was imported before gets a new version, else a new prompt.    *)
BeginImport(t) ==
  /\ \E o \in Origin :
       IF \E p \in prompts : card[p].origin = o
       THEN \E p \in prompts :
              /\ card[p].origin = o
              /\ Begin(t, [Idle EXCEPT !.at = "row", !.prompt = p, !.publish = TRUE])
              /\ Reads(t)
       ELSE /\ Begin(t, [Idle EXCEPT !.at = "name", !.row.origin = o])
            /\ Keeps
  /\ OnlyEdit

(* uniqueNameForUser: the first free suffix, here any free name. *)
UniqueName(t) ==
  /\ edit[t].at = "name"
  /\ \E n \in Title : /\ ~NameTaken(n, NoPrompt)
                     /\ Step(t, [edit[t] EXCEPT !.at = "insert", !.row.name = n])
  /\ Keeps /\ OnlyEdit

Insert(t) ==
  /\ edit[t].at = "insert"
  /\ \E p \in Prompt \ madeP, v \in Version \ madeV :
       /\ ~Clash(p, edit[t].row)
       /\ prompts' = prompts \cup {p}
       /\ madeP' = madeP \cup {p}
       /\ card' = [card EXCEPT ![p] = [edit[t].row EXCEPT !.current = v]]
       /\ stored' = stored \cup {v}
       /\ published' = published \cup {v}
       /\ madeV' = madeV \cup {v}
       /\ home' = [home EXCEPT ![v] = p]
       /\ number' = [number EXCEPT ![v] = 1]
  /\ Finish(t) /\ Keeps
  /\ UNCHANGED <<agentRows, strayed>>

-----------------------------------------------------------------------------
(* Requests about one prompt read its row first; one that is not there ends    *)
(* them.                                                                       *)
BeginOnPrompt(t) ==
  /\ \E p \in prompts :
       \/ \E next \in {"rename", "delete", "choose"} :
            Begin(t, [Idle EXCEPT !.at = next, !.prompt = p, !.row = card[p]])
       \/ \E pub \in BOOLEAN :
            Begin(t, [Idle EXCEPT !.at = "max", !.prompt = p, !.row = card[p],
                                  !.publish = pub])
       \/ /\ card[p].current # NoVersion
          /\ Begin(t, [Idle EXCEPT !.at = "resolve", !.prompt = p,
                                   !.ver = card[p].current])
  /\ Reads(t) /\ OnlyEdit

(* Requests about one version read it, then the row of its prompt.             *)
BeginOnVersion(t) ==
  /\ \E v \in stored, pub \in BOOLEAN :
       Begin(t, [Idle EXCEPT !.at = "row", !.prompt = home[v], !.ver = v,
                             !.publish = pub])
  /\ Reads(t) /\ OnlyEdit

(* The row of the prompt, read second: by a request about a version, which     *)
(* goes on to publish or to count, and by an import's new version.             *)
ReadRow(t) ==
  /\ edit[t].at = "row"
  /\ edit[t].prompt \in prompts
  /\ Step(t, [edit[t] EXCEPT !.row = card[edit[t].prompt],
                             !.at = IF edit[t].ver = NoVersion THEN "max"
                                    ELSE IF edit[t].publish THEN "publish" ELSE "count"])
  /\ Keeps /\ OnlyEdit

(* Every query may fail, or find nothing, and a transaction may be rolled      *)
(* back: the request ends with an error.                                       *)
GiveUp(t) ==
  /\ edit[t].at # "idle"
  /\ Finish(t) /\ Leaves(t) /\ OnlyEdit

-----------------------------------------------------------------------------
(* What a Save of a prompt's row does: the row is there again, as it was read. *)
Save(t, row) ==
  /\ ~Clash(edit[t].prompt, row)
  /\ prompts' = prompts \cup {edit[t].prompt}
  /\ card' = [card EXCEPT ![edit[t].prompt] = row]
  /\ Commits(t, edit[t].prompt)
  /\ Finish(t)
  /\ UNCHANGED <<madeP, agentRows, strayed>>

(* Update: another name, if it is free, or other columns only.                 *)
Rename(t) ==
  /\ edit[t].at = "rename"
  /\ \E n \in Title :
       /\ n = edit[t].row.name \/ ~NameTaken(n, edit[t].prompt)
       /\ Step(t, [edit[t] EXCEPT !.at = "save", !.row.name = n])
  /\ Keeps /\ OnlyEdit

(* SetCurrentVersion: only a published version of this prompt.                 *)
Choose_Bug(t) ==             \* a draft may be chosen
  /\ edit[t].at = "choose"
  /\ \E v \in VersionsOf(edit[t].prompt) :
       Step(t, [edit[t] EXCEPT !.at = "save", !.row.current = v])
  /\ Keeps /\ OnlyEdit

ChooseAny_Bug(t) ==          \* a version of any prompt
  /\ edit[t].at = "choose"
  /\ \E v \in stored \cap published :
       Step(t, [edit[t] EXCEPT !.at = "save", !.row.current = v])
  /\ Keeps /\ OnlyEdit

Choose(t) ==
  /\ edit[t].at = "choose"
  /\ \E v \in VersionsOf(edit[t].prompt) \cap published :
       Step(t, [edit[t] EXCEPT !.at = "save", !.row.current = v])
  /\ Keeps /\ OnlyEdit

SaveRow(t) ==
  /\ edit[t].at = "save"
  /\ Save(t, edit[t].row)
  /\ UNCHANGED versionRows

(* CreateVersion: the highest number is read before the transaction.           *)
Highest(p) ==
  IF VersionsOf(p) = {} THEN 0
  ELSE CHOOSE n \in {number[v] : v \in VersionsOf(p)} :
         \A v \in VersionsOf(p) : number[v] <= n

ReadMax(t) ==
  /\ edit[t].at = "max"
  /\ Step(t, [edit[t] EXCEPT !.at = "add", !.n = Highest(edit[t].prompt)])
  /\ Keeps /\ OnlyEdit

AddVersion(t) ==
  /\ edit[t].at = "add"
  /\ \E v \in Version \ madeV :
       /\ stored' = stored \cup {v}
       /\ madeV' = madeV \cup {v}
       /\ home' = [home EXCEPT ![v] = edit[t].prompt]
       /\ number' = [number EXCEPT ![v] = edit[t].n + 1]
       /\ IF edit[t].publish
          THEN /\ published' = published \cup {v}
               /\ Save(t, [edit[t].row EXCEPT !.current = v])
          ELSE /\ Commits(t, edit[t].prompt)
               /\ Finish(t)
               /\ UNCHANGED <<promptRows, published, agentRows, strayed>>

(* PublishVersion saves the version and the prompt. *)
Publish(t) ==
  /\ edit[t].at = "publish"
  /\ stored' = stored \cup {edit[t].ver}
  /\ published' = published \cup {edit[t].ver}
  /\ Save(t, [edit[t].row EXCEPT !.current = edit[t].ver])
  /\ UNCHANGED <<madeV, home, number>>

(* DeleteVersion counts, then deletes; if the version it deletes was current   *)
(* when it read the prompt, the highest published one takes its place, or the  *)
(* highest of all.                                                             *)
CountVersions(t) ==
  /\ edit[t].at = "count"
  /\ Cardinality(VersionsOf(edit[t].prompt)) > 1
  /\ Step(t, [edit[t] EXCEPT !.at = "remove"])
  /\ Keeps /\ OnlyEdit

Best(rest) ==
  LET pool == IF rest \cap published # {} THEN rest \cap published ELSE rest
  IN {v \in pool : \A w \in pool : number[w] <= number[v]}

Remove(t) ==
  /\ edit[t].at = "remove"
  /\ stored' = stored \ {edit[t].ver}
  /\ IF edit[t].row.current # edit[t].ver
     THEN /\ Commits(t, edit[t].prompt)
          /\ Finish(t)
          /\ UNCHANGED <<promptRows, agentRows, strayed>>
     ELSE \E next \in Best(VersionsOf(edit[t].prompt) \ {edit[t].ver}) :
            Save(t, [edit[t].row EXCEPT !.current = next])
  /\ UNCHANGED <<published, madeV, home, number>>

(* Delete unbinds the agents, deletes the versions, frees name and origin and  *)
(* deletes the row.                                                            *)
Delete(t) ==
  /\ edit[t].at = "delete"
  /\ LET p == edit[t].prompt IN
     /\ bound' = [a \in Agent |-> IF agents[a] = "live" /\ bound[a] = p
                                  THEN NoPrompt ELSE bound[a]]
     /\ stored' = stored \ VersionsOf(p)
     /\ prompts' = prompts \ {p}
     /\ card' = [card EXCEPT ![p] = NoCard]
     /\ fresh' = {u \in fresh \ {t} : edit[u].prompt # p}
  /\ Finish(t)
  /\ UNCHANGED <<madeP, published, madeV, home, number, agents, disturbed, strayed>>

-----------------------------------------------------------------------------
(* Agents and evaluations answer with the current version of a prompt: the     *)
(* prompt is read, then the version, which must be there and published.        *)
Resolve_Bug(t) ==            \* a draft is rendered too
  /\ edit[t].at = "resolve"
  /\ edit[t].ver \in stored
  /\ Finish(t) /\ Leaves(t) /\ OnlyEdit

Resolve(t) ==
  /\ edit[t].at = "resolve"
  /\ edit[t].ver \in stored \cap published
  /\ Finish(t) /\ Leaves(t) /\ OnlyEdit

(* An agent's prompt_id is written as the client gives it, or as it was read.  *)
Bind(a, p) ==
  /\ agents' = [agents EXCEPT ![a] = "live"]
  /\ bound' = [bound EXCEPT ![a] = p]
  /\ strayed' = IF p \in Prompt \ prompts THEN strayed \cup {a} ELSE strayed \ {a}
  /\ UNCHANGED <<promptRows, versionRows>>

CreateAgent(t) ==
  /\ edit[t].at = "idle"
  /\ \E a \in Agent, p \in madeP \cup {NoPrompt} : agents[a] = "none" /\ Bind(a, p)
  /\ Keeps /\ UNCHANGED edit

BeginUpdateAgent(t) ==
  /\ \E a \in Agent :
       /\ agents[a] = "live"
       /\ Begin(t, [Idle EXCEPT !.at = "agent", !.agent = a, !.prompt = bound[a]])
  /\ Keeps /\ OnlyEdit

SaveAgent(t) ==
  /\ edit[t].at = "agent"
  /\ \E p \in {edit[t].prompt, NoPrompt} \cup madeP : Bind(edit[t].agent, p)
  /\ Finish(t) /\ Leaves(t)

DeleteAgent(t) ==
  /\ edit[t].at = "agent"
  /\ agents' = [agents EXCEPT ![edit[t].agent] = "deleted"]
  /\ Finish(t) /\ Leaves(t)
  /\ UNCHANGED <<promptRows, versionRows, bound, strayed>>

-----------------------------------------------------------------------------
PromptInit ==
  /\ prompts = {} /\ madeP = {}
  /\ card = [p \in Prompt |-> NoCard]
  /\ stored = {} /\ published = {} /\ madeV = {}
  /\ home = [v \in Version |-> NoPrompt]
  /\ number = [v \in Version |-> 0]
  /\ agents = [a \in Agent |-> "none"]
  /\ bound = [a \in Agent |-> NoPrompt]
  /\ edit = [t \in Editor |-> Idle] /\ begun = 0
  /\ fresh = {} /\ disturbed = {} /\ strayed = {}
  /\ offered = [t \in Editor |-> {}]

Arrive(t) ==
  \/ BeginCreate(t) \/ BeginImport(t) \/ BeginOnPrompt(t) \/ BeginOnVersion(t)
  \/ CreateAgent(t) \/ BeginUpdateAgent(t)

GoOn(t) ==
  \/ UniqueName(t) \/ Insert(t) \/ ReadRow(t) \/ GiveUp(t)
  \/ Rename(t) \/ Choose(t) \/ SaveRow(t)
  \/ ReadMax(t) \/ AddVersion(t) \/ Publish(t)
  \/ CountVersions(t) \/ Remove(t) \/ Delete(t) \/ Resolve(t)
  \/ SaveAgent(t) \/ DeleteAgent(t)

PromptNext ==
  /\ \/ begun < MaxEdits /\ begun' = begun + 1 /\ \E t \in Editor : Arrive(t)
     \/ UNCHANGED begun /\ \E t \in Editor : GoOn(t)
  /\ Offer

PromptSpec == PromptInit /\ [][PromptNext]_promptVars

-----------------------------------------------------------------------------
(* Every variable keeps its type. *)
PromptTypeOK ==
  /\ prompts \subseteq madeP /\ madeP \subseteq Prompt
  /\ card \in [Prompt -> Card]
  /\ stored \subseteq madeV /\ published \subseteq madeV /\ madeV \subseteq Version
  /\ home \in [Version -> Prompt \cup {NoPrompt}]
  /\ number \in [Version -> Nat]
  /\ agents \in [Agent -> {"none", "live", "deleted"}]
  /\ bound \in [Agent -> Prompt \cup {NoPrompt}]
  /\ edit \in [Editor -> Editing] /\ begun \in Nat
  /\ fresh \subseteq Editor /\ disturbed \subseteq Prompt /\ strayed \subseteq Agent
  /\ offered \in [Editor -> SUBSET Version]

(* A live prompt's current version exists, and is published when any of its    *)
(* versions is; its version numbers differ.                                    *)
CurrentStands(p) ==
  /\ card[p].current \in VersionsOf(p)
  /\ VersionsOf(p) \cap published # {} => card[p].current \in published
  /\ \A v, w \in VersionsOf(p) : number[v] = number[w] => v = w

(* Unless a request wrote a prompt from rows that another had changed since it *)
(* read them, a live prompt stands as above and a deleted one has no version   *)
(* left; and no live agent is bound to a deleted prompt unless a save bound it *)
(* to one (prompt/service.go: each operation for itself is right).             *)
PromptsStand ==
  /\ \A p \in madeP \ disturbed :
       IF p \in prompts THEN CurrentStands(p) ELSE VersionsOf(p) = {}
  /\ \A a \in Agent \ strayed :
       agents[a] = "live" => bound[a] \in prompts \cup {NoPrompt}

(* A version named with a prompt was made for it.                              *)
Of(v, p) == v # NoVersion => v \in madeV /\ home[v] = p

(* Whatever runs between a request's reads and its write, and however rows are *)
(* written back as they were read: the current version of a prompt, and the    *)
(* versions a request carries, are of that prompt and no other's, so nobody    *)
(* is ever served another prompt's text (SetCurrentVersion's check, and the    *)
(* prompt_id in every query of prompt/service.go).                             *)
NamesOwnVersions ==
  /\ \A p \in Prompt : Of(card[p].current, p)
  /\ \A t \in Editor : /\ Of(edit[t].ver, edit[t].prompt)
                       /\ Of(edit[t].row.current, edit[t].prompt)

(* Whatever else runs, what a resolution returns was the prompt's current and  *)
(* published version at some moment since it began (ResolvePublishedContent    *)
(* reads the prompt and the version by two queries).                           *)
ResolvedWasCurrent ==
  [][\A t \in Editor : Resolve(t) => edit[t].ver \in offered[t]]_promptVars
================================================================================
