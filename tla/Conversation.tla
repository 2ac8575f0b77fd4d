---------------------------- MODULE Conversation ----------------------------
(***************************************************************************)
(* One stored conversation: turns that read its history, answer, and save  *)
(* it in the background, and edits of its row.  internal/chat/handler.go,  *)
(* internal/chat/conversation.go.                                          *)
(*                                                                         *)
(* A turn reads the row, asks the model, and later writes messages and     *)
(* summary in a goroutine of its own; an edit reads the row and saves all  *)
(* of it.  Each query, call and statement is an action.  What the turn's   *)
(* update does with a list of messages is gorm's and Postgres's affair:    *)
(* MapUpdate.  A summary is the set of the ids it was made from.  Titles,  *)
(* models and the queue are left out; the quota's part of an answer is in  *)
(* Quota, the model's in McpRegistry.                                      *)
(***************************************************************************)
EXTENDS MemoryWindow

CONSTANTS
  Speaker,      \* goroutines that serve requests
  Turns,        \* memory_turns a request may ask for; below 0, no window
  Budget,       \* max_input_tokens it may ask for; 0, no limit
  Size,         \* sizes a message may have
  Blocks,       \* how many system messages notes add, or fragments: 0 or 1
  MaxTalks      \* bound: requests

ASSUME ConversationAssumption ==
  /\ Turns \subseteq Int /\ Budget \subseteq Nat
  /\ Size \subseteq Nat /\ Blocks \subseteq {0, 1} /\ MaxTalks \in Nat

VARIABLES
  conv,       \* the row
  talk,       \* goroutine -> its request
  lastId,     \* ids given to messages
  talks,
  (* history *)
  put,        \* the messages that Create or an edit stored last
  emptied,    \* since then, a turn was saved that had no history or asked nothing
  lastAsked   \* id of the question of the turn saved last, if nobody else wrote
              \* the row since that turn had read it

convVars == <<conv, talk, lastId, talks, put, emptied, lastAsked>>

(* The messages of a garbled row are no list but the one message itself. *)
ConvRow  == [is : {"live", "garbled", "deleted"}, messages : Seq(Message), summary : SUBSET Nat]
NoConv   == [is |-> "deleted", messages |-> <<>>, summary |-> {}]
Talk     == [at : {"idle", "gate", "answer", "summarise", "save", "edit"}, row : ConvRow,
             full : Seq(Message), sent : Seq(Message), summary : SUBSET Nat, whole : BOOLEAN]
NoTalk   == [at |-> "idle", row |-> NoConv, full |-> <<>>, sent |-> <<>>,
             summary |-> {}, whole |-> TRUE]

Ids(msgs)  == {msgs[i].id : i \in DOMAIN msgs} \ {0}
Question(msgs) == LET m == msgs[LastUser(msgs)] IN IF m.size = 0 THEN {} ELSE {m.id}
Turn(t, r) == talk' = [talk EXCEPT ![t] = r]
Over(t)    == Turn(t, NoTalk)
GivesUp(t) == Over(t) /\ UNCHANGED <<conv, lastId, put, emptied, lastAsked>>

(* What a request brings: a question, or an exchange the client remembers and  *)
(* a question.                                                                 *)
Said(role, id, size) == [role |-> role, id |-> id, size |-> size]
Incoming == {<<Said("user", lastId + 1, n)>> : n \in Size}
       \cup {<<Said("user", lastId + 1, n), Said("assistant", lastId + 2, 1),
               Said("user", lastId + 3, n)>> : n \in Size}

(* Names ending in _Bug are variants of the definition that follows them, each *)
(* with a mistake the code could have; the properties are tried against them.  *)

-----------------------------------------------------------------------------
(* searchLongTermMemory and retrieveRAGFragments ask other services.  What they*)
(* find makes one message; if they are not asked, fail or find nothing, none.  *)
Notes     == Blocks
Fragments == Blocks

(* buildFullMessages: the summary, notes and fragments, the history, the       *)
(* request's own messages.                                                     *)
System == Said("system", 0, 1)
FullMessages(row, blocks, own) ==
  [i \in 1..(blocks + IF row.summary = {} THEN 0 ELSE 1) |-> System] \o row.messages \o own

(* Get, for this user; if it fails, as it does when the messages are no list,  *)
(* or there is none, the history is empty.                                     *)
FoundRow == {IF conv.is = "live" THEN conv ELSE NoConv, NoConv}

(* ChatStream reads the row and has the list made and cut.  Requests that name *)
(* no conversation, and Chat, keep nothing.                                    *)
ChatStream(t) ==
  /\ talk[t].at = "idle"
  /\ \E own \in Incoming, turns \in Turns, budget \in Budget,
        notes \in Notes, fragments \in Fragments, row \in FoundRow :
       LET full == FullMessages(row, notes + fragments, own)
       IN /\ Turn(t, [NoTalk EXCEPT !.at = "gate", !.row = row,
                        !.full = full, !.sent = ApplyWindow(full, turns, budget)])
          /\ lastId' = lastId + Len(own)
  /\ UNCHANGED <<conv, put, emptied, lastAsked>>

(* The quota's gate lets the turn pass or ends it.                             *)
Gate(t) ==
  /\ talk[t].at = "gate"
  /\ Over(t) \/ Turn(t, [talk[t] EXCEPT !.at = "answer"])
  /\ UNCHANGED <<conv, lastId, put, emptied, lastAsked>>

(* There is no provider, or it answers with an error: the turn is over.        *)
ModelFails(t) ==
  /\ talk[t].at = "answer"
  /\ GivesUp(t)

(* The answer is written and the saving begins, which asks for a summary if    *)
(* something was cut.                                                          *)
ModelAnswers(t) ==
  /\ talk[t].at = "answer"
  /\ Turn(t, [talk[t] EXCEPT !.at = IF Len(talk[t].full) > Len(talk[t].sent)
                                    THEN "summarise" ELSE "save",
                             !.summary = talk[t].row.summary])
  /\ UNCHANGED <<conv, lastId, put, emptied, lastAsked>>

(* summarizeAsync has the first messages summed up, as many as were cut; if    *)
(* that fails the stored summary stays.                                        *)
CutMessages(full, sent) == SubSeq(full, 1, Len(full) - Len(sent))

Summarise(t) ==
  /\ talk[t].at = "summarise"
  /\ \/ Turn(t, [talk[t] EXCEPT !.at = "save",
                   !.summary = @ \cup Ids(CutMessages(talk[t].full, talk[t].sent))])
     \/ Turn(t, [talk[t] EXCEPT !.at = "save", !.whole = FALSE])
  /\ UNCHANGED <<conv, lastId, put, emptied, lastAsked>>

(* What an update with a map does to a column of messages.  gorm applies the   *)
(* column's serializer to fields of a struct, not to values of a map: a list   *)
(* becomes a parenthesis with a parameter for each message.  Of one message    *)
(* that is an object, of none NULL, which is read as an empty list; of several *)
(* it is a row, which Postgres refuses for a jsonb column.                     *)
MapUpdate(row, list, summary) ==
  CASE Len(list) = 0 -> [is |-> "live", messages |-> <<>>, summary |-> summary]
    [] Len(list) = 1 -> [is |-> "garbled", messages |-> list, summary |-> summary]
    [] OTHER         -> row

(* saveConversationAsync: what was read, then what was sent, in one update of  *)
(* the row, if it is not deleted; an error is not looked at.                   *)
NewMessages_Bug(r) == r.sent     \* what was sent replaces what was read
NewMessages(r)     == r.row.messages \o r.sent

EmptyHanded(r) == r.row.messages = <<>> \/ Question(r.full) = {}

SaveTurn(t) ==
  /\ talk[t].at = "save"
  /\ conv.is # "deleted"
  /\ conv' = MapUpdate(conv, NewMessages(talk[t]), talk[t].summary)
  /\ emptied' = (emptied \/ EmptyHanded(talk[t]))
  /\ lastAsked' = IF talk[t].row = conv THEN Question(talk[t].full) ELSE {}
  /\ Over(t)
  /\ UNCHANGED <<lastId, put>>

(* The update fails or finds no row, or the process dies before it.            *)
SaveFails(t) ==
  /\ talk[t].at \in {"summarise", "save", "edit"}
  /\ GivesUp(t)

-----------------------------------------------------------------------------
(* Update reads the row, changes what the request names - the messages, or     *)
(* other columns - and saves all of it: a row deleted in between is there      *)
(* again.                                                                      *)
BeginEdit(t) ==
  /\ talk[t].at = "idle"
  /\ conv.is = "live"
  /\ \E own \in Incoming \cup {<<>>} :
       /\ Turn(t, [NoTalk EXCEPT !.at = "edit", !.sent = own,
                     !.row = IF own = <<>> THEN conv ELSE [conv EXCEPT !.messages = own]])
       /\ lastId' = lastId + Len(own)
  /\ UNCHANGED <<conv, put, emptied, lastAsked>>

SaveEdit(t) ==
  /\ talk[t].at = "edit"
  /\ conv' = talk[t].row
  /\ put' = talk[t].row.messages /\ emptied' = FALSE /\ lastAsked' = {}
  /\ Over(t)
  /\ UNCHANGED lastId

Discard(t) ==
  /\ talk[t].at = "idle"
  /\ conv.is # "deleted"
  /\ conv' = [conv EXCEPT !.is = "deleted"]
  /\ lastAsked' = {}
  /\ UNCHANGED <<talk, lastId, put, emptied>>

-----------------------------------------------------------------------------
(* Create: the row with the messages the client has. *)
ConvInit ==
  /\ talk = [t \in Speaker |-> NoTalk] /\ lastId = 1 /\ talks = 0
  /\ \E msgs \in {<<>>} \cup {<<Said("user", 1, n)>> : n \in Size} :
       conv = [is |-> "live", messages |-> msgs, summary |-> {}] /\ put = msgs
  /\ emptied = FALSE /\ lastAsked = {}

Opens(t) ==
  /\ talks < MaxTalks /\ talks' = talks + 1
  /\ ChatStream(t) \/ BeginEdit(t) \/ Discard(t)

Continues(t) ==
  /\ UNCHANGED talks
  /\ \/ Gate(t) \/ ModelFails(t) \/ ModelAnswers(t) \/ Summarise(t) \/ SaveTurn(t)
     \/ SaveFails(t) \/ SaveEdit(t)

ConvNext == \E t \in Speaker : Opens(t) \/ Continues(t)
ConvSpec == ConvInit /\ [][ConvNext]_convVars

-----------------------------------------------------------------------------
(* Every variable keeps its type. *)
ConvTypeOK ==
  /\ conv \in ConvRow /\ talk \in [Speaker -> Talk] /\ lastId \in Nat /\ talks \in Nat
  /\ put \in Seq(Message) /\ emptied \in BOOLEAN /\ lastAsked \subseteq Nat

(* Turns do not undo edits: however many turns answer and save over each other *)
(* and over edits, deletions and rows that come back, the row has what Create  *)
(* or an edit stored last and can be read.  The exception are turns that found *)
(* no history (an empty or unreadable row, a failed read, handler.go:165) or   *)
(* asked nothing: they can leave the row empty or unreadable, as what they     *)
(* save may be a list of fewer than two messages (conversation.go:271).        *)
EditsStay ==
  conv.is # "deleted" /\ ~emptied => conv.is = "live" /\ conv.messages = put

(* When a turn begins to save, each message of its list that is not empty was  *)
(* sent to the model or is in the summary it is to store; unless the summary   *)
(* failed.  The code counts what was cut and has as many summed up from the    *)
(* front, empty messages among them (handler.go:383): right, since the lists   *)
(* clients send end with the user's message.                                   *)
NothingForgotten ==
  \A t \in Speaker : talk[t].at = "save" /\ talk[t].whole =>
    Ids(FilterEmpty(talk[t].full)) \subseteq Ids(talk[t].sent) \cup talk[t].summary

(* "Append messages and update the summary" (conversation.go:266): when a turn *)
(* has been saved whose row nobody else wrote meanwhile, its question is among *)
(* the messages of the row, which can be read.                                 *)
TurnIsAppended ==
  lastAsked # {} => conv.is = "live" /\ lastAsked \subseteq Ids(conv.messages)
=============================================================================
