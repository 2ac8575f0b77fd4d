----------------------------- MODULE McpRegistry -----------------------------
(***************************************************************************)
(* Users' MCP servers in the database, the registry one process keeps of   *)
(* them and of their tools, and the turns that offer the tools to a model  *)
(* and call them.  internal/mcp/registry.go, handler.go, service.go,       *)
(* http_client.go, internal/chat/mcp_tools.go, ChatWithTools in            *)
(* internal/chat/service.go.                                               *)
(*                                                                         *)
(* Each query, each critical section of the registry's lock and each call  *)
(* of a remote server is an action.  There is one registry for all users.  *)
(* A server's row is its address and whether it is enabled; a tool is its  *)
(* server, its name and the address it was found at.  Names of servers,    *)
(* schemas and the built-in servers, which never change, are left out.     *)
(***************************************************************************)
EXTENDS Integers, FiniteSets

CONSTANTS
  Worker,       \* goroutines that serve requests
  Owner, Server, Url, ToolName,
  NoUser, NoCopy,
  MaxToolCalls,
  MaxJobs, MaxStops    \* bounds: requests; queries that fail, restarts

ASSUME RegistryAssumption ==
  /\ NoUser \notin Owner /\ MaxToolCalls \in Nat
  /\ MaxJobs \in Nat /\ MaxStops \in Nat

Copy   == [on : BOOLEAN, url : Url]
Tool   == [server : Server, name : ToolName, url : Url]
McpRow == [is : {"none", "live", "deleted"}, user : Owner \cup {NoUser},
           copy : Copy \cup {NoCopy}]

ASSUME NoCopyAssumption == NoCopy \notin Copy

VARIABLES
  mcpRows,    \* the table mcp_servers
  servers,    \* the registry: server -> a copy of its row
  tools,      \* the registry's tools
  job,        \* goroutine -> its request
  jobs, stops,
  (* history *)
  astray      \* servers whose entry was wrong when it was written, or whose
              \* refresh was not done

registry     == <<servers, tools>>
registryVars == <<mcpRows, registry, job, jobs, stops, astray>>

Job == [at : {"idle", "save", "drop", "list", "refresh", "check", "swap", "enter", "clear",
              "discover", "lookup", "ask", "call"},
        user : Owner \cup {NoUser}, todo : [Server -> Copy \cup {NoCopy}],
        ids : SUBSET Server, left : SUBSET Server, names : SUBSET ToolName, round : Nat,
        calls : SUBSET ToolName]
NoTodo == [s \in Server |-> NoCopy]
NoJob  == [at |-> "idle", user |-> NoUser, todo |-> NoTodo, ids |-> {}, left |-> {},
           names |-> {}, round |-> 0, calls |-> {}]

IsLive(s)     == mcpRows[s].is = "live"
OwnedBy(u)    == {s \in Server : IsLive(s) /\ mcpRows[s].user = u}
ToolsOf(s)    == {x \in tools : x.server = s}
Todo(t)       == {s \in Server : job[t].todo[s] # NoCopy}
One(s, c)     == [NoTodo EXCEPT ![s] = c]
StartsJob(t, r) == job[t].at = "idle" /\ job' = [job EXCEPT ![t] = r]
NextAt(t, at) == job' = [job EXCEPT ![t].at = at]
EndsJob(t)    == job' = [job EXCEPT ![t] = NoJob]

(* The registry's entry of s says what the row says, or there is none.         *)
Right(s) ==
  IF servers[s] = NoCopy THEN ToolsOf(s) = {}
  ELSE /\ IsLive(s) /\ servers[s] = mcpRows[s].copy
       /\ \A x \in ToolsOf(s) : x.url = servers[s].url

(* The entries of S have been written.                                         *)
Writes(S) == astray' = {s \in astray \cup S : ~Right(s)'}

(* Names ending in _Bug are variants of the definition that follows them, each *)
(* with a mistake the code could have; the properties are tried against them.  *)

-----------------------------------------------------------------------------
(* The table.  A server is created enabled, even if the request says it is     *)
(* not: gorm takes FALSE for no value and leaves the column its default.       *)
(* Update saves every column as it was read, and puts a deleted row back.      *)
(* Each of the three goes on to refresh the registry.                          *)
CreateServer(t) ==
  /\ \E s \in Server, u \in Owner, url \in Url :
       /\ mcpRows[s].is = "none"
       /\ mcpRows' = [mcpRows EXCEPT ![s] =
                        [is |-> "live", user |-> u, copy |-> [on |-> TRUE, url |-> url]]]
       /\ StartsJob(t, [NoJob EXCEPT !.at = "list", !.user = u])
  /\ UNCHANGED <<registry, astray>>

BeginUpdateServer(t) ==
  /\ \E s \in Server, c \in Copy :
       /\ IsLive(s)
       /\ StartsJob(t, [NoJob EXCEPT !.at = "save", !.user = mcpRows[s].user,
                                     !.todo = One(s, c)])
  /\ UNCHANGED <<mcpRows, registry, astray>>

UpdateServer(t) ==
  /\ job[t].at = "save"
  /\ mcpRows' = [s \in Server |-> IF s \in Todo(t)
                   THEN [mcpRows[s] EXCEPT !.is = "live", !.copy = job[t].todo[s]]
                   ELSE mcpRows[s]]
  /\ job' = [job EXCEPT ![t] = [NoJob EXCEPT !.at = "list", !.user = job[t].user]]
  /\ UNCHANGED <<registry, astray>>

BeginDeleteServer(t) ==
  /\ \E s \in Server :
       /\ IsLive(s)
       /\ StartsJob(t, [NoJob EXCEPT !.at = "drop", !.user = mcpRows[s].user, !.ids = {s}])
  /\ UNCHANGED <<mcpRows, registry, astray>>

DeleteServer(t) ==
  /\ job[t].at = "drop"
  /\ mcpRows' = [s \in Server |-> IF s \in job[t].ids
                   THEN [mcpRows[s] EXCEPT !.is = "deleted"] ELSE mcpRows[s]]
  /\ job' = [job EXCEPT ![t] = [NoJob EXCEPT !.at = "list", !.user = job[t].user]]
  /\ UNCHANGED <<registry, astray>>

-----------------------------------------------------------------------------
(* refreshUserRegistry lists the user's servers; if that fails nothing is      *)
(* refreshed.                                                                  *)
ListServers(t) ==
  /\ job[t].at = "list"
  /\ job' = [job EXCEPT ![t].at = "refresh",
                        ![t].todo = [s \in Server |-> IF s \in OwnedBy(job[t].user)
                                                      THEN mcpRows[s].copy ELSE NoCopy]]
  /\ UNCHANGED <<mcpRows, registry, astray>>

ListFails(t) ==
  /\ job[t].at = "list"
  /\ stops < MaxStops /\ stops' = stops + 1
  /\ EndsJob(t)
  /\ astray' = astray \cup {s \in Server : mcpRows[s].user = job[t].user}
  /\ UNCHANGED <<mcpRows, registry>>

(* Refresh, under the lock: all entries go, of every user, and the tools of    *)
(* every server that had one; the enabled servers of the list are entered.     *)
Enabled(todo) == [s \in Server |-> IF todo[s] # NoCopy /\ todo[s].on THEN todo[s] ELSE NoCopy]

Refresh_Bug(t) ==            \* the tools stay
  /\ job[t].at = "refresh"
  /\ servers' = Enabled(job[t].todo)
  /\ job' = [job EXCEPT ![t].at = "discover", ![t].todo = Enabled(job[t].todo)]
  /\ UNCHANGED <<mcpRows, tools>> /\ Writes(Todo(t))

Refresh(t) ==
  /\ job[t].at = "refresh"
  /\ servers' = Enabled(job[t].todo)
  /\ tools' = {x \in tools : servers[x.server] = NoCopy}
  /\ job' = [job EXCEPT ![t].at = "discover", ![t].todo = Enabled(job[t].todo)]
  /\ UNCHANGED mcpRows /\ Writes(Todo(t))

(* A server asked with Initialize, then tools/list, names some tools, or none. *)
Answers == SUBSET ToolName

(* discoverAndRegisterHTTP, for one server after the other, without the lock:  *)
(* the server is asked for its tools at the address that was read, and what it *)
(* answers replaces what is there; or the call fails, and nothing is replaced. *)
Discover(t) ==
  /\ job[t].at = "discover"
  /\ UNCHANGED <<mcpRows, servers>>
  /\ \E s \in Todo(t) :
       /\ job' = [job EXCEPT ![t].todo[s] = NoCopy]
       /\ \/ \E names \in Answers :
               /\ tools' = (tools \ ToolsOf(s))
                     \cup {[server |-> s, name |-> n, url |-> job[t].todo[s].url] : n \in names}
               /\ Writes({s})
          \/ UNCHANGED <<tools, astray>>

(* A request that listed or refreshed ends, a turn looks at the next server.   *)
Discovered(t) ==
  /\ job[t].at = "discover" /\ Todo(t) = {}
  /\ IF job[t].ids # {} THEN NextAt(t, "lookup") ELSE EndsJob(t)
  /\ UNCHANGED <<mcpRows, registry, astray>>

-----------------------------------------------------------------------------
(* ListTools, with or without refresh=1, and RefreshTools.                     *)
BeginListTools(t) ==
  /\ \E s \in Server, next \in {"check", "clear"} :
       /\ IsLive(s)
       /\ StartsJob(t, [NoJob EXCEPT !.at = next, !.todo = One(s, mcpRows[s].copy)])
  /\ UNCHANGED <<mcpRows, registry, astray>>

(* EnsureHTTPTools looks for tools of the server; if there are some, only its  *)
(* entry is replaced.                                                          *)
CheckTools(t) ==
  /\ job[t].at = "check"
  /\ NextAt(t, IF \E s \in Todo(t) : ToolsOf(s) # {} THEN "swap" ELSE "enter")
  /\ UNCHANGED <<mcpRows, registry, astray>>

EnterServer(t) ==
  /\ job[t].at \in {"swap", "enter"}
  /\ servers' = [s \in Server |-> IF s \in Todo(t) THEN job[t].todo[s] ELSE servers[s]]
  /\ job' = [job EXCEPT ![t].at = "discover",
                        ![t].todo = IF job[t].at = "swap" THEN NoTodo ELSE @]
  /\ UNCHANGED <<mcpRows, tools>> /\ Writes(Todo(t))

(* RediscoverHTTP drops the tools first. *)
ClearTools(t) ==
  /\ job[t].at = "clear"
  /\ servers' = [s \in Server |-> IF s \in Todo(t) THEN job[t].todo[s] ELSE servers[s]]
  /\ tools' = {x \in tools : x.server \notin Todo(t)}
  /\ NextAt(t, "discover")
  /\ UNCHANGED mcpRows /\ Writes(Todo(t))

-----------------------------------------------------------------------------
(* A turn with tools: InjectMCPTools sees to each server of its list whose row *)
(* is the user's and enabled, then offers the tools the registry has for the   *)
(* list; an evaluation has no user and only offers.                            *)
BeginTurn(t) ==
  /\ \E u \in Owner \cup {NoUser}, ids \in SUBSET Server \ {{}} :
       StartsJob(t, [NoJob EXCEPT !.at = "lookup", !.user = u, !.ids = ids,
                                  !.left = IF u = NoUser THEN {} ELSE ids])
  /\ UNCHANGED <<mcpRows, registry, astray>>

LookUp(t) ==
  /\ job[t].at = "lookup"
  /\ \E s \in job[t].left :
       IF s \in OwnedBy(job[t].user) /\ mcpRows[s].copy.on
       THEN job' = [job EXCEPT ![t].left = @ \ {s}, ![t].at = "check",
                               ![t].todo = One(s, mcpRows[s].copy)]
       ELSE job' = [job EXCEPT ![t].left = @ \ {s}]
  /\ UNCHANGED <<mcpRows, registry, astray>>

(* Without tools the turn is an ordinary one, which is none of this module's.  *)
Offered(ids) == {x \in tools : x.server \in ids}

OfferTools(t) ==
  LET found == Offered(job[t].ids) IN
  /\ job[t].at = "lookup" /\ job[t].left = {}
  /\ IF found = {} THEN EndsJob(t)
     ELSE job' = [job EXCEPT ![t].at = "ask", ![t].names = {x.name : x \in found}]
  /\ UNCHANGED <<mcpRows, registry, astray>>

(* ChatWithTools: the model answers or fails, or asks for calls, at most       *)
(* MaxToolCalls times.                                                         *)
AskModel(t) ==
  /\ job[t].at = "ask"
  /\ \/ EndsJob(t)
     \/ /\ job[t].round < MaxToolCalls
        /\ \E calls \in SUBSET job[t].names \ {{}} :
             job' = [job EXCEPT ![t].at = "call", ![t].round = @ + 1, ![t].calls = calls]
  /\ UNCHANGED <<mcpRows, registry, astray>>

(* Execute finds the tool by its name alone, among the tools of every server,  *)
(* and calls the address of the entry there is now; without tool or entry the  *)
(* model is told of an error.  CallHTTPClient tries a second protocol when the *)
(* first fails, even if the first call was carried out.                        *)
CallTool(t) ==
  /\ job[t].at = "call"
  /\ IF job[t].calls = {} THEN NextAt(t, "ask")
     ELSE \E n \in job[t].calls : job' = [job EXCEPT ![t].calls = @ \ {n}]
  /\ UNCHANGED <<mcpRows, registry, astray>>

-----------------------------------------------------------------------------
(* A query fails, and the request ends with an error.                          *)
Fails(t) ==
  /\ job[t].at \in {"save", "drop", "lookup"}
  /\ EndsJob(t)
  /\ UNCHANGED <<mcpRows, registry, astray>>

(* The process is started again: the registry is empty.                        *)
RegistryLost ==
  /\ stops < MaxStops /\ stops' = stops + 1
  /\ servers' = NoTodo /\ tools' = {} /\ astray' = {}
  /\ job' = [t \in Worker |-> NoJob]
  /\ UNCHANGED <<mcpRows, jobs>>

RegistryInit ==
  /\ mcpRows = [s \in Server |-> [is |-> "none", user |-> NoUser, copy |-> NoCopy]]
  /\ servers = NoTodo /\ tools = {}
  /\ job = [t \in Worker |-> NoJob] /\ jobs = 0 /\ stops = 0
  /\ astray = {}

TakesJob(t) ==
  /\ jobs < MaxJobs /\ jobs' = jobs + 1
  /\ \/ CreateServer(t) \/ BeginUpdateServer(t) \/ BeginDeleteServer(t)
     \/ BeginListTools(t) \/ BeginTurn(t)

DoesJob(t) ==
  \/ UpdateServer(t) \/ DeleteServer(t) \/ ListServers(t) \/ Refresh(t) \/ Discover(t)
  \/ Discovered(t) \/ CheckTools(t) \/ EnterServer(t) \/ ClearTools(t) \/ LookUp(t)
  \/ OfferTools(t) \/ AskModel(t) \/ CallTool(t) \/ Fails(t)

RegistryNext ==
  \/ \E t \in Worker : TakesJob(t) /\ UNCHANGED stops
  \/ \E t \in Worker : DoesJob(t) /\ UNCHANGED <<jobs, stops>>
  \/ \E t \in Worker : ListFails(t) /\ UNCHANGED jobs
  \/ RegistryLost

RegistrySpec == RegistryInit /\ [][RegistryNext]_registryVars

-----------------------------------------------------------------------------
(* Every variable keeps its type. *)
RegistryTypeOK ==
  /\ mcpRows \in [Server -> McpRow]
  /\ servers \in [Server -> Copy \cup {NoCopy}] /\ tools \subseteq Tool
  /\ job \in [Worker -> Job] /\ jobs \in Nat /\ stops \in Nat /\ astray \subseteq Server

(* A server in the registry is there as its row is, with tools found at that   *)
(* address, and one that is not in it has no tools; unless what was written    *)
(* was out of date when it was written (registry.go:149, 190), or the refresh  *)
(* after a change of the row is still to come or has failed.                   *)
RegistryFollowsRows ==
  \A s \in Server \ astray :
    \/ Right(s)
    \/ \E t \in Worker : job[t].at \in {"list", "refresh"} /\ job[t].user = mcpRows[s].user
=============================================================================
