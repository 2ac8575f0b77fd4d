------------------------------- MODULE Knowledge -------------------------------
(***************************************************************************)
(* A knowledge base, its documents, and their vectors in the Python        *)
(* service.  internal/knowledge/service.go.                                *)
(*                                                                         *)
(* An upload or a reparse ends by starting a goroutine that has the        *)
(* document processed.  Rows and vectors have no common transaction: each  *)
(* statement and each call of the Python service is an action.             *)
(*                                                                         *)
(* Vectors are known by the parse that made them: a document's vectors are *)
(* a set of parses, and its counts stand for one of them.  The service's   *)
(* answer may come too late (60 s, httpclient/rest.go:32); what it was     *)
(* asked for is then done all the same, later.                             *)
(***************************************************************************)
EXTENDS Integers, FiniteSets

CONSTANTS
  Clerk,      \* goroutines that serve requests
  Parse,      \* goroutines that process a document
  Doc,
  NoDoc, NoParse,
  MaxDesk,    \* bound: requests
  MaxTrouble  \* bound: crashes, statements and calls that fail

ASSUME KnowledgeAssumption ==
  /\ IsFiniteSet(Clerk) /\ IsFiniteSet(Doc)
  /\ NoDoc \notin Doc /\ NoParse \notin Parse
  /\ MaxDesk \in Nat /\ MaxTrouble \in Nat

VARIABLES
  base,       \* the knowledge base is "live" or "deleted"
  count,      \* its doc_count
  docs,       \* document -> "none", "live" or "deleted"
  status,     \* document -> its status
  chunks,     \* document -> the parse its counts are of, if they are not 0
  vectors,    \* document -> the parses whose vectors are stored
  late,       \* parses the Python service is still at, given up by the server
  clerk,      \* clerk -> its request
  parse,      \* parse -> what it does next, for which document
  asked,      \* requests begun
  trouble,    \* crashes and failures
  (* history *)
  skew,       \* units of doc_count lost and gained
  mixed       \* documents two goroutines worked on at once, or that had trouble

baseRow       == <<base, count>>
docRows       == <<docs, status, chunks>>
store         == <<vectors, late>>
knowledgeVars == <<baseRow, docRows, store, clerk, parse, asked, trouble, skew, mixed>>

Errand == [at : {"idle", "create", "inc", "vectors", "row", "dec", "reset", "save", "drop"},
           doc : Doc \cup {NoDoc}, reparse : BOOLEAN, seen : Int]
AtDesk == [at |-> "idle", doc |-> NoDoc, reparse |-> FALSE, seen |-> 0]
Job    == [at : {"new", "mark", "load", "call", "done", "fail", "end"},
           doc : Doc \cup {NoDoc}]

Live(d) == docs[d] = "live"
Do(c, e) == clerk' = [clerk EXCEPT ![c] = e]
Done(c)  == Do(c, AtDesk)
Turn(p, at) == parse' = [parse EXCEPT ![p].at = at]

(* Who is at work on document d. *)
Working(d) == {c \in Clerk : clerk[c].doc = d}
                \cup {p \in Parse : parse[p].doc = d /\ parse[p].at # "end"}

(* Somebody starts to work on d: beside others, the result is nobody's.        *)
Joins(d) == mixed' = IF Working(d) = {} THEN mixed ELSE mixed \cup {d}

(* Something fails that only the log hears of. *)
Fails(d) == trouble < MaxTrouble /\ trouble' = trouble + 1 /\ mixed' = mixed \cup {d}
Works    == UNCHANGED <<trouble, mixed>>

(* An update of the row, if it is not deleted: Updates adds that condition.    *)
Write(d, s, k) ==
  /\ status' = IF Live(d) THEN [status EXCEPT ![d] = s] ELSE status
  /\ chunks' = IF Live(d) THEN [chunks EXCEPT ![d] = k] ELSE chunks

(* Names ending in _Bug are variants of the definition that follows them, each *)
(* with a mistake the code could have; the properties are tried against them.  *)

-----------------------------------------------------------------------------
(* A request finds the base, and its document in it.                           *)
BeginUpload(c) ==
  /\ base = "live"
  /\ Do(c, [AtDesk EXCEPT !.at = "create"])
  /\ UNCHANGED <<baseRow, docRows, store, parse, trouble, skew, mixed>>

BeginOnDocument(c) ==
  /\ base = "live"
  /\ \E d \in Doc, again \in BOOLEAN :
       /\ Live(d)
       /\ Do(c, [AtDesk EXCEPT !.at = "vectors", !.doc = d, !.reparse = again])
       /\ Joins(d)
  /\ UNCHANGED <<baseRow, docRows, store, parse, trouble, skew>>

(* UpdateKnowledgeBase and DeleteKnowledgeBase read the row. *)
BeginOnBase(c) ==
  /\ base = "live"
  /\ \E next \in {"save", "drop"} :
       Do(c, [AtDesk EXCEPT !.at = next, !.seen = count])
  /\ UNCHANGED <<baseRow, docRows, store, parse, trouble, skew, mixed>>

-----------------------------------------------------------------------------
(* UploadDocument: the row, the count, the goroutine.                          *)
CreateDocument(c) ==
  /\ clerk[c].at = "create"
  /\ \/ \E d \in Doc :
          /\ docs[d] = "none"
          /\ docs' = [docs EXCEPT ![d] = "live"]
          /\ status' = [status EXCEPT ![d] = "pending"]
          /\ Do(c, [clerk[c] EXCEPT !.at = "inc", !.doc = d])
          /\ UNCHANGED chunks
     \/ Done(c) /\ UNCHANGED docRows
  /\ UNCHANGED <<baseRow, store, parse, trouble, skew, mixed>>

(* doc_count + n, if the base is not deleted; the error is ignored.            *)
AddToCount(d, n) ==
  \/ /\ base = "live"
     /\ count' = count + n
     /\ UNCHANGED <<skew, trouble, mixed>>
  \/ /\ base = "deleted"
     /\ skew' = skew - n
     /\ UNCHANGED <<count, trouble, mixed>>
  \/ /\ skew' = skew - n
     /\ Fails(d)
     /\ UNCHANGED count

StartParse(d) ==
  \E p \in Parse : /\ parse[p].at = "new"
                   /\ parse' = [parse EXCEPT ![p] = [at |-> "mark", doc |-> d]]

CountUpload_Bug(c) ==        \* the goroutine starts, the upload is not counted
  /\ clerk[c].at = "inc"
  /\ StartParse(clerk[c].doc)
  /\ Done(c)
  /\ UNCHANGED <<base, count, trouble, skew, mixed, docRows, store>>

CountUpload(c) ==
  /\ clerk[c].at = "inc"
  /\ AddToCount(clerk[c].doc, 1)
  /\ StartParse(clerk[c].doc)
  /\ Done(c)
  /\ UNCHANGED <<base, docRows, store>>

(* DeleteDocument and ReparseDocument: the vectors go first, and if they do    *)
(* not, the rest goes on.                                                      *)
DropVectors_Bug(c) ==        \* a reparse keeps the old vectors
  LET d == clerk[c].doc IN
  /\ clerk[c].at = "vectors"
  /\ vectors' = IF clerk[c].reparse THEN vectors ELSE [vectors EXCEPT ![d] = {}]
  /\ Works
  /\ Do(c, [clerk[c] EXCEPT !.at = IF clerk[c].reparse THEN "reset" ELSE "row"])
  /\ UNCHANGED <<baseRow, docRows, late, parse, skew>>

DropVectors(c) ==
  LET d == clerk[c].doc IN
  /\ clerk[c].at = "vectors"
  /\ \/ vectors' = [vectors EXCEPT ![d] = {}] /\ Works
     \/ UNCHANGED vectors /\ Fails(d)
  /\ Do(c, [clerk[c] EXCEPT !.at = IF clerk[c].reparse THEN "reset" ELSE "row"])
  /\ UNCHANGED <<baseRow, docRows, late, parse, skew>>

(* The row, deleted by its id: a second delete deletes nothing, without error. *)
DeleteRow(c) ==
  LET d == clerk[c].doc IN
  /\ clerk[c].at = "row"
  /\ \/ /\ docs' = [docs EXCEPT ![d] = "deleted"]
        /\ skew' = IF Live(d) THEN skew ELSE skew - 1
        /\ Do(c, [clerk[c] EXCEPT !.at = "dec"])
        /\ Works
     \/ /\ Fails(d) /\ Done(c)
        /\ UNCHANGED <<docs, skew>>
  /\ UNCHANGED <<baseRow, status, chunks, store, parse>>

CountDelete(c) ==
  /\ clerk[c].at = "dec"
  /\ AddToCount(clerk[c].doc, -1)
  /\ Done(c)
  /\ UNCHANGED <<base, docRows, store, parse>>

(* ReparseDocument resets the row and starts the goroutine, whether or not the *)
(* row is still there.                                                         *)
Reset(c) ==
  LET d == clerk[c].doc IN
  /\ clerk[c].at = "reset"
  /\ \/ Write(d, "pending", NoParse) /\ StartParse(d) /\ Works
     \/ UNCHANGED <<status, chunks, parse>> /\ Fails(d)
  /\ Done(c)
  /\ UNCHANGED <<baseRow, docs, store, skew>>

(* UpdateKnowledgeBase saves every column as it was read, doc_count too, and   *)
(* puts a deleted row back.                                                    *)
SaveBase(c) ==
  /\ clerk[c].at = "save"
  /\ base' = "live"
  /\ count' = clerk[c].seen
  /\ skew' = skew + clerk[c].seen - count
  /\ Done(c)
  /\ UNCHANGED <<docRows, store, parse, trouble, mixed>>

(* DeleteKnowledgeBase deletes the row; documents and vectors stay.            *)
DropBase(c) ==
  /\ clerk[c].at = "drop"
  /\ base' = "deleted"
  /\ Done(c)
  /\ UNCHANGED <<count, docRows, store, parse, trouble, skew, mixed>>

-----------------------------------------------------------------------------
(* processDocumentAsync *)
Mark(p) ==
  LET d == parse[p].doc IN
  /\ parse[p].at = "mark"
  /\ \/ /\ status' = IF Live(d) THEN [status EXCEPT ![d] = "processing"] ELSE status
        /\ Works
     \/ UNCHANGED status /\ Fails(d)
  /\ Turn(p, "load")
  /\ UNCHANGED <<baseRow, docs, chunks, store, clerk, skew>>

Load(p) ==
  LET d == parse[p].doc IN
  /\ parse[p].at = "load"
  /\ \/ Live(d) /\ Turn(p, "call") /\ Works
     \/ ~Live(d) /\ Turn(p, "end") /\ Works
     \/ Turn(p, "end") /\ Fails(d)
  /\ UNCHANGED <<baseRow, docRows, store, clerk, skew>>

(* The Python service stores the vectors and answers, refuses, or has not      *)
(* answered when the server gives up.                                          *)
Process(p) ==
  LET d == parse[p].doc IN
  /\ parse[p].at = "call"
  /\ \/ /\ vectors' = [vectors EXCEPT ![d] = @ \cup {p}]
        /\ Turn(p, "done") /\ Works
        /\ UNCHANGED late
     \/ Turn(p, "fail") /\ Works /\ UNCHANGED store
     \/ /\ late' = late \cup {p}
        /\ Turn(p, "fail") /\ Fails(d)
        /\ UNCHANGED vectors
  /\ UNCHANGED <<baseRow, docRows, clerk, skew>>

StoreLate(p) ==
  /\ p \in late
  /\ late' = late \ {p}
  /\ vectors' = [vectors EXCEPT ![parse[p].doc] = @ \cup {p}]
  /\ UNCHANGED <<baseRow, docRows, clerk, parse, trouble, skew, mixed>>

Conclude_Bug(p) ==           \* the failure is logged and the row left alone
  LET d == parse[p].doc IN
  /\ parse[p].at \in {"done", "fail"}
  /\ IF parse[p].at = "done" THEN Write(d, "completed", p) ELSE UNCHANGED <<status, chunks>>
  /\ Works
  /\ Turn(p, "end")
  /\ UNCHANGED <<baseRow, docs, store, clerk, skew>>

Conclude(p) ==
  LET d == parse[p].doc IN
  /\ parse[p].at \in {"done", "fail"}
  /\ \/ /\ IF parse[p].at = "done" THEN Write(d, "completed", p)
                                   ELSE Write(d, "failed", chunks[d])
        /\ Works
     \/ UNCHANGED <<status, chunks>> /\ Fails(d)
  /\ Turn(p, "end")
  /\ UNCHANGED <<baseRow, docs, store, clerk, skew>>

-----------------------------------------------------------------------------
(* The process dies.  A document that was counted before its row, or deleted   *)
(* before it was counted, stays so; nothing takes a parse up again.            *)
At(place) == Cardinality({c \in Clerk : clerk[c].at = place})

Crash ==
  /\ trouble < MaxTrouble /\ trouble' = trouble + 1
  /\ skew' = skew + At("dec") - At("inc")
  /\ mixed' = mixed \cup {d \in Doc : Working(d) # {}}
  /\ clerk' = [c \in Clerk |-> AtDesk]
  /\ parse' = [p \in Parse |-> IF parse[p].at = "new" THEN parse[p]
                                ELSE [parse[p] EXCEPT !.at = "end"]]
  /\ UNCHANGED <<baseRow, docRows, store>>

-----------------------------------------------------------------------------
KnowledgeInit ==
  /\ base = "live" /\ count = 0
  /\ docs = [d \in Doc |-> "none"]
  /\ status = [d \in Doc |-> "pending"]
  /\ chunks = [d \in Doc |-> NoParse]
  /\ vectors = [d \in Doc |-> {}] /\ late = {}
  /\ clerk = [c \in Clerk |-> AtDesk]
  /\ parse = [p \in Parse |-> [at |-> "new", doc |-> NoDoc]]
  /\ asked = 0 /\ trouble = 0 /\ skew = 0 /\ mixed = {}

Ask(c) ==
  /\ clerk[c].at = "idle"
  /\ asked < MaxDesk /\ asked' = asked + 1
  /\ BeginUpload(c) \/ BeginOnDocument(c) \/ BeginOnBase(c)

Serve(c) ==
  /\ \/ CreateDocument(c) \/ CountUpload(c) \/ DropVectors(c) \/ DeleteRow(c)
     \/ CountDelete(c) \/ Reset(c) \/ SaveBase(c) \/ DropBase(c)
  /\ UNCHANGED asked

Run(p) ==
  /\ Mark(p) \/ Load(p) \/ Process(p) \/ Conclude(p)
  /\ UNCHANGED asked

KnowledgeNext ==
  \/ \E c \in Clerk : Ask(c) \/ Serve(c)
  \/ \E p \in Parse : Run(p) \/ (StoreLate(p) /\ UNCHANGED asked)
  \/ Crash /\ UNCHANGED asked

KnowledgeSpec == KnowledgeInit /\ [][KnowledgeNext]_knowledgeVars

(* Requests in hand and parses go on. *)
KnowledgeFairness ==
  /\ \A c \in Clerk : WF_knowledgeVars(Serve(c))
  /\ \A p \in Parse : WF_knowledgeVars(Run(p))

-----------------------------------------------------------------------------
(* Every variable keeps its type. *)
KnowledgeTypeOK ==
  /\ base \in {"live", "deleted"} /\ count \in Int /\ skew \in Int
  /\ docs \in [Doc -> {"none", "live", "deleted"}]
  /\ status \in [Doc -> {"pending", "processing", "completed", "failed"}]
  /\ chunks \in [Doc -> Parse \cup {NoParse}]
  /\ vectors \in [Doc -> SUBSET Parse] /\ late \subseteq Parse
  /\ clerk \in [Clerk -> Errand] /\ parse \in [Parse -> Job]
  /\ asked \in Nat /\ trouble \in Nat /\ mixed \subseteq Doc

(* Every unit of doc_count is a live document, less the uploads not yet and    *)
(* plus the deletes not yet counted, plus what was lost or gained by a second  *)
(* delete of one document, an edit of the base in between, a deleted base, an  *)
(* ignored error or a crash (service.go:197, 302, 118).                        *)
CountAccounted ==
  count = Cardinality({d \in Doc : Live(d)}) - At("inc") + At("dec") + skew

(* A document nobody works on, and nobody ever worked on beside another or in  *)
(* trouble, is completed with the vectors of one parse and its counts, or      *)
(* failed without any, or deleted without any.                                 *)
VectorsMatchRows ==
  \A d \in Doc \ mixed :
    docs[d] # "none" /\ Working(d) = {} =>
      IF docs[d] = "deleted" THEN vectors[d] = {}
      ELSE IF status[d] = "completed" THEN chunks[d] # NoParse /\ vectors[d] = {chunks[d]}
      ELSE status[d] = "failed" /\ vectors[d] = {} /\ chunks[d] = NoParse

(* A live document does not stay pending or processing, unless something       *)
(* fails: nothing starts its parse again (service.go:410).                     *)
ParsesSettle ==
  \A d \in Doc :
    (Live(d) /\ status[d] \in {"pending", "processing"})
      ~> (~Live(d) \/ status[d] \in {"completed", "failed"} \/ trouble > 0)
================================================================================
