---------------------------- MODULE Knowledge_proofs ----------------------------
(***************************************************************************)
(* Theorems about Knowledge, for any number of documents, concurrent       *)
(* requests and background parses.                                         *)
(***************************************************************************)
EXTENDS Knowledge, FiniteSetTheorems, TLAPS

USE KnowledgeAssumption

(* Who has a document in hand has one. *)
Holding(c) ==
  IF clerk[c].at \in {"inc", "vectors", "row", "dec", "reset"}
  THEN clerk[c].doc \in Doc ELSE clerk[c].doc = NoDoc
InHand(p) ==
  /\ parse[p].at \in {"mark", "load", "call", "done", "fail"} => parse[p].doc \in Doc
  /\ parse[p].at = "new" => parse[p].doc = NoDoc

BaseInv ==
  /\ KnowledgeTypeOK
  /\ \A c \in Clerk : Holding(c)
  /\ \A p \in Parse : InHand(p)

-----------------------------------------------------------------------------
(* What a step does to the records of clerks and parses. *)
LEMMA DoFacts ==
  ASSUME KnowledgeTypeOK, NEW c \in Clerk, NEW e, Do(c, e)
  PROVE  /\ clerk'[c] = e
         /\ \A b \in Clerk : b # c => clerk'[b] = clerk[b]
         /\ e \in Errand => clerk' \in [Clerk -> Errand]
BY DEF Do, KnowledgeTypeOK

LEMMA DoneFacts ==
  ASSUME KnowledgeTypeOK, NEW c \in Clerk, Done(c)
  PROVE  /\ clerk'[c].at = "idle" /\ clerk'[c].doc = NoDoc
         /\ \A b \in Clerk : b # c => clerk'[b] = clerk[b]
         /\ clerk' \in [Clerk -> Errand]
<1>1. AtDesk \in Errand
  BY DEF AtDesk, Errand
<1>2. QED BY <1>1, DoFacts DEF Done, AtDesk

(* A request goes on with its document. *)
LEMMA GoFacts ==
  ASSUME KnowledgeTypeOK, NEW c \in Clerk,
         NEW at \in {"inc", "row", "reset", "dec"}, Do(c, [clerk[c] EXCEPT !.at = at])
  PROVE  /\ clerk'[c].at = at /\ clerk'[c].doc = clerk[c].doc
         /\ clerk'[c].reparse = clerk[c].reparse
         /\ \A b \in Clerk : b # c => clerk'[b] = clerk[b]
         /\ clerk' \in [Clerk -> Errand]
<1> DEFINE e == [clerk[c] EXCEPT !.at = at]
<1>1. clerk[c] \in Errand
  BY DEF KnowledgeTypeOK
<1>2. e \in Errand /\ e.at = at /\ e.doc = clerk[c].doc /\ e.reparse = clerk[c].reparse
  BY <1>1 DEF Errand
<1>3. Do(c, e)
  OBVIOUS
<1> HIDE DEF e
<1>4. QED BY <1>2, <1>3, DoFacts

LEMMA TurnFacts ==
  ASSUME KnowledgeTypeOK, NEW p \in Parse, NEW at \in {"load", "call", "done", "fail", "end"}, Turn(p, at)
  PROVE  /\ parse'[p].at = at /\ parse'[p].doc = parse[p].doc
         /\ \A q \in Parse : q # p => parse'[q] = parse[q]
         /\ parse' \in [Parse -> Job]
<1>1. parse[p] \in Job
  BY DEF KnowledgeTypeOK
<1>2. [parse[p] EXCEPT !.at = at] \in Job
  BY <1>1 DEF Job
<1>3. QED BY <1>1, <1>2 DEF Turn, KnowledgeTypeOK, Job

LEMMA StartFacts ==
  ASSUME KnowledgeTypeOK, NEW d \in Doc, StartParse(d)
  PROVE  /\ parse' \in [Parse -> Job]
         /\ \E p \in Parse : /\ parse[p].at = "new" /\ parse'[p].at = "mark" /\ parse'[p].doc = d
                             /\ \A q \in Parse : q # p => parse'[q] = parse[q]
<1>1. PICK p \in Parse : parse[p].at = "new" /\ parse' = [parse EXCEPT ![p] = [at |-> "mark", doc |-> d]]
  BY DEF StartParse
<1>2. [at |-> "mark", doc |-> d] \in Job
  BY DEF Job
<1>3. parse' \in [Parse -> Job]
  BY <1>1, <1>2 DEF KnowledgeTypeOK
<1>4. parse'[p] = [at |-> "mark", doc |-> d]
  BY <1>1 DEF KnowledgeTypeOK
<1>5. \A q \in Parse : q # p => parse'[q] = parse[q]
  BY <1>1 DEF KnowledgeTypeOK
<1>6. QED BY <1>1, <1>3, <1>4, <1>5

(* A request that begins: an upload or a request on the base has no document,  *)
(* one on a document has a live one.                                           *)
LEMMA BeginFacts ==
  ASSUME KnowledgeTypeOK, NEW c \in Clerk, BeginUpload(c) \/ BeginOnBase(c)
  PROVE  /\ clerk'[c].at \in {"create", "save", "drop"} /\ clerk'[c].doc = NoDoc
         /\ \A b \in Clerk : b # c => clerk'[b] = clerk[b]
         /\ clerk' \in [Clerk -> Errand]
<1>1. CASE BeginUpload(c)
  <2> DEFINE e == [AtDesk EXCEPT !.at = "create"]
  <2>1. e \in Errand /\ e.at = "create" /\ e.doc = NoDoc
    <3>1. AtDesk \in Errand /\ AtDesk.doc = NoDoc
      BY DEF AtDesk, Errand
    <3>2. QED BY <3>1 DEF Errand
  <2>2. Do(c, e)
    BY <1>1 DEF BeginUpload
  <2> HIDE DEF e
  <2>3. QED BY <2>1, <2>2, DoFacts
<1>2. CASE BeginOnBase(c)
  <2>1. PICK next \in {"save", "drop"} : Do(c, [AtDesk EXCEPT !.at = next, !.seen = count])
    BY <1>2 DEF BeginOnBase
  <2> DEFINE e == [AtDesk EXCEPT !.at = next, !.seen = count]
  <2>2. e \in Errand /\ e.at = next /\ e.doc = NoDoc
    BY DEF AtDesk, Errand, KnowledgeTypeOK
  <2>3. Do(c, e)
    BY <2>1
  <2> HIDE DEF e
  <2>4. QED BY <2>2, <2>3, DoFacts
<1>3. QED BY <1>1, <1>2

LEMMA BeginOnDocumentFacts ==
  ASSUME KnowledgeTypeOK, NEW c \in Clerk, BeginOnDocument(c)
  PROVE  /\ clerk'[c].at = "vectors"
         /\ clerk'[c].doc \in Doc /\ Live(clerk'[c].doc) /\ Joins(clerk'[c].doc)
         /\ \A b \in Clerk : b # c => clerk'[b] = clerk[b]
         /\ clerk' \in [Clerk -> Errand]
<1>1. PICK d \in Doc, again \in BOOLEAN :
        /\ Live(d) /\ Joins(d)
        /\ Do(c, [AtDesk EXCEPT !.at = "vectors", !.doc = d, !.reparse = again])
  BY DEF BeginOnDocument
<1> DEFINE e == [AtDesk EXCEPT !.at = "vectors", !.doc = d, !.reparse = again]
<1>2. e \in Errand /\ e.at = "vectors" /\ e.doc = d
  <2>1. AtDesk \in Errand
    BY DEF AtDesk, Errand
  <2>2. QED BY <2>1 DEF Errand
<1>3. Do(c, e)
  BY <1>1
<1> HIDE DEF e
<1>4. /\ clerk'[c] = e
      /\ \A b \in Clerk : b # c => clerk'[b] = clerk[b]
      /\ clerk' \in [Clerk -> Errand]
  BY <1>2, <1>3, DoFacts
<1>5. QED BY <1>1, <1>2, <1>4

(* The document a request makes. *)
LEMMA CreateFacts ==
  ASSUME BaseInv, NEW c \in Clerk, NEW d \in Doc, Do(c, [clerk[c] EXCEPT !.at = "inc", !.doc = d])
  PROVE  /\ clerk'[c].at = "inc" /\ clerk'[c].doc = d
         /\ \A b \in Clerk : b # c => clerk'[b] = clerk[b]
         /\ clerk' \in [Clerk -> Errand]
<1> DEFINE e == [clerk[c] EXCEPT !.at = "inc", !.doc = d]
<1>1. clerk[c] \in Errand
  BY DEF BaseInv, KnowledgeTypeOK
<1>2. e \in Errand /\ e.at = "inc" /\ e.doc = d
  BY <1>1 DEF Errand
<1>3. Do(c, e)
  OBVIOUS
<1> HIDE DEF e
<1>4. QED BY <1>2, <1>3, DoFacts DEF BaseInv

(* The process dies. *)
LEMMA CrashFacts ==
  ASSUME KnowledgeTypeOK, Crash
  PROVE  /\ clerk' \in [Clerk -> Errand] /\ parse' \in [Parse -> Job]
         /\ \A c \in Clerk : clerk'[c].at = "idle" /\ clerk'[c].doc = NoDoc
         /\ \A p \in Parse : \/ parse[p].at = "new" /\ parse'[p] = parse[p]
                             \/ parse[p].at # "new" /\ parse'[p].at = "end"
<1>1. AtDesk \in Errand
  BY DEF AtDesk, Errand
<1>2. clerk' \in [Clerk -> Errand] /\ \A c \in Clerk : clerk'[c] = AtDesk
  BY <1>1 DEF Crash
<1>3. ASSUME NEW p \in Parse
      PROVE  /\ [parse[p] EXCEPT !.at = "end"] \in Job
             /\ [parse[p] EXCEPT !.at = "end"].at = "end"
  <2>1. parse[p] \in Job
    BY DEF KnowledgeTypeOK
  <2>2. QED BY <2>1 DEF Job
<1>4. /\ parse' \in [Parse -> Job]
      /\ \A p \in Parse : \/ parse[p].at = "new" /\ parse'[p] = parse[p]
                          \/ parse[p].at # "new" /\ parse'[p].at = "end"
  BY <1>3 DEF Crash, KnowledgeTypeOK
<1>5. QED BY <1>2, <1>4 DEF AtDesk

-----------------------------------------------------------------------------
(* Types, and who holds what. *)
LEMMA BaseInit == KnowledgeInit => BaseInv
<1> SUFFICES ASSUME KnowledgeInit PROVE BaseInv
  OBVIOUS
<1>1. AtDesk \in Errand /\ AtDesk.at = "idle" /\ AtDesk.doc = NoDoc
  BY DEF AtDesk, Errand
<1>2. clerk \in [Clerk -> Errand] /\ \A c \in Clerk : Holding(c)
  BY <1>1 DEF KnowledgeInit, Holding
<1>3. [at |-> "new", doc |-> NoDoc] \in Job
  BY DEF Job
<1>4. parse \in [Parse -> Job] /\ \A p \in Parse : InHand(p)
  BY <1>3 DEF KnowledgeInit, InHand
<1>5. KnowledgeTypeOK
  BY <1>2, <1>4 DEF KnowledgeInit, KnowledgeTypeOK
<1>6. QED BY <1>2, <1>4, <1>5 DEF BaseInv

(* A request that leaves the parses alone, and a parse that leaves the         *)
(* requests alone.                                                             *)
LEMMA ClerkBase ==
  ASSUME BaseInv, NEW c \in Clerk, Holding(c)', UNCHANGED parse,
         \A b \in Clerk : b # c => clerk'[b] = clerk[b],
         clerk' \in [Clerk -> Errand],
         base' \in {"live", "deleted"}, count' \in Int, skew' \in Int,
         docs' \in [Doc -> {"none", "live", "deleted"}],
         status' \in [Doc -> {"pending", "processing", "completed", "failed"}],
         chunks' \in [Doc -> Parse \cup {NoParse}],
         vectors' \in [Doc -> SUBSET Parse], late' \subseteq Parse,
         asked' \in Nat, trouble' \in Nat, mixed' \subseteq Doc
  PROVE  BaseInv'
BY DEF BaseInv, KnowledgeTypeOK, Holding, InHand

LEMMA AddTypes ==
  ASSUME BaseInv, NEW d \in Doc, NEW n \in Int, AddToCount(d, n)
  PROVE  count' \in Int /\ skew' \in Int /\ trouble' \in Nat /\ mixed' \subseteq Doc
BY DEF AddToCount, Fails, BaseInv, KnowledgeTypeOK

LEMMA WriteTypes ==
  ASSUME BaseInv, NEW d \in Doc, NEW s \in {"pending", "completed", "failed"},
         NEW k \in Parse \cup {NoParse}, Write(d, s, k)
  PROVE  /\ status' \in [Doc -> {"pending", "processing", "completed", "failed"}]
         /\ chunks' \in [Doc -> Parse \cup {NoParse}]
BY DEF Write, BaseInv, KnowledgeTypeOK

LEMMA AskBase ==
  ASSUME BaseInv, NEW c \in Clerk, Ask(c)
  PROVE  BaseInv'
<1>1. /\ clerk' \in [Clerk -> Errand] /\ Holding(c)'
      /\ \A b \in Clerk : b # c => clerk'[b] = clerk[b]
      /\ mixed' \subseteq Doc
  <2>1. CASE BeginUpload(c) \/ BeginOnBase(c)
    <3>1. UNCHANGED mixed
      BY <2>1 DEF BeginUpload, BeginOnBase
    <3>2. QED BY <2>1, <3>1, BeginFacts DEF Holding, BaseInv, KnowledgeTypeOK
  <2>2. CASE BeginOnDocument(c)
    <3>1. mixed' \subseteq Doc
      BY <2>2 DEF BeginOnDocument, Joins, BaseInv, KnowledgeTypeOK
    <3>2. QED BY <2>2, <3>1, BeginOnDocumentFacts DEF Holding, BaseInv
  <2>3. QED BY <2>1, <2>2 DEF Ask
<1>2. /\ UNCHANGED <<baseRow, docRows, store, parse, trouble, skew>> /\ asked' = asked + 1
  BY DEF Ask, BeginUpload, BeginOnDocument, BeginOnBase
<1>3. QED BY <1>1, <1>2, ClerkBase DEF BaseInv, KnowledgeTypeOK, baseRow, docRows, store

LEMMA StartBase ==
  ASSUME BaseInv, NEW c \in Clerk, NEW d \in Doc, Done(c), StartParse(d),
         UNCHANGED <<base, docs, store, asked>>,
         count' \in Int, skew' \in Int, trouble' \in Nat, mixed' \subseteq Doc,
         status' \in [Doc -> {"pending", "processing", "completed", "failed"}],
         chunks' \in [Doc -> Parse \cup {NoParse}]
  PROVE  BaseInv'
<1>1. clerk' \in [Clerk -> Errand] /\ \A b \in Clerk : Holding(b)'
  BY DoneFacts DEF BaseInv, Holding
<1>2. parse' \in [Parse -> Job] /\ \A p \in Parse : InHand(p)'
  BY StartFacts DEF BaseInv, InHand
<1>3. KnowledgeTypeOK'
  BY <1>1, <1>2 DEF BaseInv, KnowledgeTypeOK, store
<1>4. QED BY <1>1, <1>2, <1>3 DEF BaseInv

LEMMA ServeBase ==
  ASSUME BaseInv, NEW c \in Clerk, Serve(c)
  PROVE  BaseInv'
<1> USE DEF baseRow, docRows, store
<1>1. Holding(c) /\ KnowledgeTypeOK /\ UNCHANGED asked
  BY DEF BaseInv, Serve
<1>2. CASE CreateDocument(c)
  <2>1. CASE Done(c) /\ UNCHANGED docRows
    <3>1. Holding(c)'
      BY <1>1, <2>1, DoneFacts DEF Holding
    <3>2. QED BY <1>1, <1>2, <2>1, <3>1, DoneFacts, ClerkBase DEF CreateDocument, KnowledgeTypeOK
  <2>2. CASE \E d \in Doc :
               /\ docs[d] = "none"
               /\ docs' = [docs EXCEPT ![d] = "live"]
               /\ status' = [status EXCEPT ![d] = "pending"]
               /\ Do(c, [clerk[c] EXCEPT !.at = "inc", !.doc = d])
               /\ UNCHANGED chunks
    <3>1. PICK d \in Doc :
               /\ docs' = [docs EXCEPT ![d] = "live"]
               /\ status' = [status EXCEPT ![d] = "pending"]
               /\ Do(c, [clerk[c] EXCEPT !.at = "inc", !.doc = d])
               /\ UNCHANGED chunks
      BY <2>2
    <3>2. /\ Holding(c)' /\ clerk' \in [Clerk -> Errand]
          /\ \A b \in Clerk : b # c => clerk'[b] = clerk[b]
      BY <3>1, CreateFacts DEF Holding
    <3>3. /\ docs' \in [Doc -> {"none", "live", "deleted"}]
          /\ status' \in [Doc -> {"pending", "processing", "completed", "failed"}]
      BY <1>1, <3>1 DEF KnowledgeTypeOK
    <3>4. QED BY <1>1, <1>2, <3>1, <3>2, <3>3, ClerkBase DEF CreateDocument, KnowledgeTypeOK
  <2>3. QED BY <1>2, <2>1, <2>2 DEF CreateDocument
<1>3. CASE CountUpload(c)
  <2>1. clerk[c].doc \in Doc
    BY <1>1, <1>3 DEF CountUpload, Holding
  <2>2. count' \in Int /\ skew' \in Int /\ trouble' \in Nat /\ mixed' \subseteq Doc
    BY <1>3, <2>1, AddTypes DEF CountUpload
  <2>3. QED BY <1>1, <1>3, <2>1, <2>2, StartBase DEF CountUpload, KnowledgeTypeOK
<1>4. CASE DropVectors(c)
  <2>1. clerk[c].doc \in Doc
    BY <1>1, <1>4 DEF DropVectors, Holding
  <2>2. /\ Holding(c)' /\ clerk' \in [Clerk -> Errand]
        /\ \A b \in Clerk : b # c => clerk'[b] = clerk[b]
    <3>1. PICK at \in {"reset", "row"} : Do(c, [clerk[c] EXCEPT !.at = at])
      BY <1>4 DEF DropVectors
    <3>2. QED BY <1>1, <2>1, <3>1, GoFacts DEF Holding
  <2>3. vectors' \in [Doc -> SUBSET Parse] /\ trouble' \in Nat /\ mixed' \subseteq Doc
    BY <1>1, <1>4, <2>1 DEF DropVectors, Works, Fails, KnowledgeTypeOK
  <2>4. QED BY <1>1, <1>4, <2>2, <2>3, ClerkBase DEF DropVectors, KnowledgeTypeOK
<1>5. CASE DeleteRow(c)
  <2>1. clerk[c].doc \in Doc
    BY <1>1, <1>5 DEF DeleteRow, Holding
  <2>2. /\ Holding(c)' /\ clerk' \in [Clerk -> Errand]
        /\ \A b \in Clerk : b # c => clerk'[b] = clerk[b]
    <3>1. CASE Done(c)
      BY <1>1, <3>1, DoneFacts DEF Holding
    <3>2. CASE Do(c, [clerk[c] EXCEPT !.at = "dec"])
      BY <1>1, <2>1, <3>2, GoFacts DEF Holding
    <3>3. QED BY <1>5, <3>1, <3>2 DEF DeleteRow
  <2>3. /\ docs' \in [Doc -> {"none", "live", "deleted"}] /\ skew' \in Int
        /\ trouble' \in Nat /\ mixed' \subseteq Doc
    BY <1>1, <1>5, <2>1 DEF DeleteRow, Works, Fails, KnowledgeTypeOK
  <2>4. QED BY <1>1, <1>5, <2>2, <2>3, ClerkBase DEF DeleteRow, KnowledgeTypeOK
<1>6. CASE CountDelete(c)
  <2>1. clerk[c].doc \in Doc
    BY <1>1, <1>6 DEF CountDelete, Holding
  <2>2. count' \in Int /\ skew' \in Int /\ trouble' \in Nat /\ mixed' \subseteq Doc
    BY <1>6, <2>1, AddTypes DEF CountDelete
  <2>3. Holding(c)'
    BY <1>1, <1>6, DoneFacts DEF Holding, CountDelete
  <2>4. QED BY <1>1, <1>6, <2>2, <2>3, DoneFacts, ClerkBase DEF CountDelete, KnowledgeTypeOK
<1>7. CASE Reset(c)
  <2>1. clerk[c].doc \in Doc
    BY <1>1, <1>7 DEF Reset, Holding
  <2>2. trouble' \in Nat /\ mixed' \subseteq Doc
    BY <1>1, <1>7, <2>1 DEF Reset, Works, Fails, KnowledgeTypeOK
  <2>3. CASE Write(clerk[c].doc, "pending", NoParse) /\ StartParse(clerk[c].doc)
    BY <1>1, <1>7, <2>1, <2>2, <2>3, WriteTypes, StartBase DEF Reset, KnowledgeTypeOK
  <2>4. CASE UNCHANGED <<status, chunks, parse>>
    <3>1. Holding(c)'
      BY <1>1, <1>7, DoneFacts DEF Holding, Reset
    <3>2. QED BY <1>1, <1>7, <2>2, <2>4, <3>1, DoneFacts, ClerkBase DEF Reset, KnowledgeTypeOK
  <2>5. QED BY <1>7, <2>3, <2>4 DEF Reset
<1>8. CASE SaveBase(c)
  <2>1. clerk[c].seen \in Int
    BY <1>1 DEF KnowledgeTypeOK, Errand
  <2>2. Holding(c)'
    BY <1>1, <1>8, DoneFacts DEF Holding, SaveBase
  <2>3. QED BY <1>1, <1>8, <2>1, <2>2, DoneFacts, ClerkBase DEF SaveBase, KnowledgeTypeOK
<1>9. CASE DropBase(c)
  <2>1. Holding(c)'
    BY <1>1, <1>9, DoneFacts DEF Holding, DropBase
  <2>2. QED BY <1>1, <1>9, <2>1, DoneFacts, ClerkBase DEF DropBase, KnowledgeTypeOK
<1>10. QED BY <1>2, <1>3, <1>4, <1>5, <1>6, <1>7, <1>8, <1>9 DEF Serve

LEMMA RunBase ==
  ASSUME BaseInv, NEW p \in Parse, Run(p)
  PROVE  BaseInv'
<1> USE DEF baseRow, docRows, store
<1>1. KnowledgeTypeOK /\ UNCHANGED <<asked, clerk, base, count, docs, skew>>
  BY DEF BaseInv, Run, Mark, Load, Process, Conclude
<1>2. parse[p].doc \in Doc
  BY DEF BaseInv, InHand, Run, Mark, Load, Process, Conclude
<1>3. PICK at \in {"load", "call", "done", "fail", "end"} : Turn(p, at)
  BY DEF Run, Mark, Load, Process, Conclude
<1>4. parse' \in [Parse -> Job] /\ \A q \in Parse : InHand(q)'
  BY <1>1, <1>2, <1>3, TurnFacts DEF BaseInv, InHand
<1>5. trouble' \in Nat /\ mixed' \subseteq Doc
  BY <1>1, <1>2 DEF Run, Mark, Load, Process, Conclude, Works, Fails, KnowledgeTypeOK
<1>6. /\ status' \in [Doc -> {"pending", "processing", "completed", "failed"}]
      /\ chunks' \in [Doc -> Parse \cup {NoParse}]
      /\ vectors' \in [Doc -> SUBSET Parse] /\ late' \subseteq Parse
  <2>1. CASE Mark(p)
    BY <1>1, <1>2, <2>1 DEF Mark, KnowledgeTypeOK
  <2>2. CASE Load(p)
    BY <1>1, <1>2, <2>2 DEF Load, KnowledgeTypeOK
  <2>3. CASE Process(p)
    BY <1>1, <1>2, <2>3 DEF Process, KnowledgeTypeOK
  <2>4. CASE Conclude(p)
    <3>1. chunks[parse[p].doc] \in Parse \cup {NoParse}
      BY <1>1, <1>2 DEF KnowledgeTypeOK
    <3>2. QED BY <1>1, <1>2, <2>4, <3>1, WriteTypes DEF Conclude, KnowledgeTypeOK
  <2>5. QED BY <2>1, <2>2, <2>3, <2>4 DEF Run
<1>7. KnowledgeTypeOK'
  BY <1>1, <1>4, <1>5, <1>6 DEF KnowledgeTypeOK
<1>8. \A c \in Clerk : Holding(c)'
  BY <1>1 DEF BaseInv, Holding
<1>9. QED BY <1>4, <1>7, <1>8 DEF BaseInv

LEMMA StoreLateBase ==
  ASSUME BaseInv, NEW p \in Parse, StoreLate(p), UNCHANGED asked
  PROVE  BaseInv'
<1>1. vectors' \in [Doc -> SUBSET Parse] /\ late' \subseteq Parse
  BY DEF BaseInv, KnowledgeTypeOK, StoreLate
<1>2. QED BY <1>1 DEF BaseInv, KnowledgeTypeOK, StoreLate, Holding, InHand, baseRow, docRows

(* How many requests are at a place is a number. *)
LEMMA AtIsNat == \A place : At(place) \in Nat
<1>1. \A place : IsFiniteSet({c \in Clerk : clerk[c].at = place})
  BY FS_Subset DEF KnowledgeAssumption
<1>2. QED BY <1>1, FS_CardinalityType DEF At

LEMMA CrashBase ==
  ASSUME BaseInv, Crash, UNCHANGED asked
  PROVE  BaseInv'
<1>1. \A c \in Clerk : Holding(c)'
  BY CrashFacts DEF BaseInv, Holding
<1>2. \A p \in Parse : InHand(p)'
  BY CrashFacts DEF BaseInv, InHand
<1>3. skew' \in Int /\ trouble' \in Nat /\ mixed' \subseteq Doc
  <2>1. At("inc") \in Nat /\ At("dec") \in Nat
    BY AtIsNat
  <2>2. QED BY <2>1 DEF Crash, BaseInv, KnowledgeTypeOK
<1>4. KnowledgeTypeOK'
  BY <1>3, CrashFacts DEF BaseInv, KnowledgeTypeOK, Crash, baseRow, docRows, store
<1>5. QED BY <1>1, <1>2, <1>4 DEF BaseInv

LEMMA BaseStep == BaseInv /\ [KnowledgeNext]_knowledgeVars => BaseInv'
<1> SUFFICES ASSUME BaseInv, [KnowledgeNext]_knowledgeVars PROVE BaseInv'
  OBVIOUS
<1>1. CASE UNCHANGED knowledgeVars
  BY <1>1 DEF knowledgeVars, baseRow, docRows, store, BaseInv, KnowledgeTypeOK, Holding, InHand
<1>2. QED BY <1>1, AskBase, ServeBase, RunBase, StoreLateBase, CrashBase DEF KnowledgeNext

(* Every variable keeps its type, whatever requests, parses, failures and      *)
(* crashes come after each other (service.go:99-430).                          *)
THEOREM KnowledgeTypeCorrect == KnowledgeSpec => []KnowledgeTypeOK
<1>1. BaseInv => KnowledgeTypeOK
  BY DEF BaseInv
<1>2. QED BY <1>1, BaseInit, BaseStep, PTL DEF KnowledgeSpec
-----------------------------------------------------------------------------
(* What the count is made of. *)
Alive == Cardinality({d \in Doc : Live(d)})

(* One request comes to a place or leaves it, and the others stay. *)
LEMMA AtMoves ==
  ASSUME NEW c \in Clerk, NEW place, \A b \in Clerk : b # c => clerk'[b] = clerk[b]
  PROVE  /\ clerk[c].at = place /\ clerk'[c].at # place => At(place)' = At(place) - 1
         /\ clerk[c].at # place /\ clerk'[c].at = place => At(place)' = At(place) + 1
         /\ (clerk[c].at = place <=> clerk'[c].at = place) => At(place)' = At(place)
<1> DEFINE S == {b \in Clerk : clerk[b].at = place}
           T == {b \in Clerk : clerk'[b].at = place}
<1>1. IsFiniteSet(S) /\ IsFiniteSet(T)
  BY FS_Subset DEF KnowledgeAssumption
<1>2. At(place) = Cardinality(S) /\ At(place)' = Cardinality(T)
  BY DEF At
<1>3. ASSUME clerk[c].at = place, clerk'[c].at # place
      PROVE  At(place)' = At(place) - 1
  <2>1. T = S \ {c} /\ c \in S
    BY <1>3
  <2> HIDE DEF S, T
  <2>2. QED BY <1>1, <1>2, <2>1, FS_RemoveElement
<1>4. ASSUME clerk[c].at # place, clerk'[c].at = place
      PROVE  At(place)' = At(place) + 1
  <2>1. T = S \cup {c} /\ c \notin S
    BY <1>4
  <2> HIDE DEF S, T
  <2>2. QED BY <1>1, <1>2, <2>1, FS_AddElement
<1>5. ASSUME clerk[c].at = place <=> clerk'[c].at = place
      PROVE  At(place)' = At(place)
  <2>1. S = T
    BY <1>5
  <2>2. QED BY <1>2, <2>1
<1>6. QED BY <1>3, <1>4, <1>5

(* One document is created or deleted. *)
LEMMA AliveMoves ==
  ASSUME BaseInv, NEW d \in Doc
  PROVE  /\ docs' = [docs EXCEPT ![d] = "deleted"] =>
              Alive' = IF Live(d) THEN Alive - 1 ELSE Alive
         /\ docs[d] = "none" /\ docs' = [docs EXCEPT ![d] = "live"] => Alive' = Alive + 1
<1> DEFINE S == {x \in Doc : docs[x] = "live"}
           T == {x \in Doc : docs'[x] = "live"}
<1>1. IsFiniteSet(S) /\ IsFiniteSet(T)
  BY FS_Subset DEF KnowledgeAssumption
<1>2. Alive = Cardinality(S) /\ Alive' = Cardinality(T)
  BY DEF Alive, Live
<1>3. docs \in [Doc -> {"none", "live", "deleted"}]
  BY DEF BaseInv, KnowledgeTypeOK
<1>4. ASSUME docs' = [docs EXCEPT ![d] = "deleted"]
      PROVE  Alive' = IF Live(d) THEN Alive - 1 ELSE Alive
  <2>1. T = S \ {d} /\ (Live(d) <=> d \in S)
    BY <1>3, <1>4 DEF Live
  <2>2. ~Live(d) => T = S
    BY <2>1
  <2> HIDE DEF S, T
  <2>3. QED BY <1>1, <1>2, <2>1, <2>2, FS_RemoveElement
<1>5. ASSUME docs[d] = "none", docs' = [docs EXCEPT ![d] = "live"]
      PROVE  Alive' = Alive + 1
  <2>1. T = S \cup {d} /\ d \notin S
    BY <1>3, <1>5
  <2> HIDE DEF S, T
  <2>2. QED BY <1>1, <1>2, <2>1, FS_AddElement
<1>6. QED BY <1>4, <1>5

LEMMA AliveStays == docs' = docs => Alive' = Alive
BY DEF Alive, Live

LEMMA AliveIsNat == Alive \in Nat
BY FS_Subset, FS_CardinalityType DEF KnowledgeAssumption, Alive

-----------------------------------------------------------------------------
(* The count, step by step. *)
LEMMA CountInit == KnowledgeInit => CountAccounted
<1> SUFFICES ASSUME KnowledgeInit PROVE CountAccounted
  OBVIOUS
<1>1. {d \in Doc : Live(d)} = {}
  BY DEF KnowledgeInit, Live
<1>2. \A place \in {"inc", "dec"} : {c \in Clerk : clerk[c].at = place} = {}
  BY DEF KnowledgeInit, AtDesk
<1>3. At("inc") = 0 /\ At("dec") = 0
  BY <1>2, FS_EmptySet DEF At
<1>4. QED BY <1>1, <1>3, FS_EmptySet DEF CountAccounted, KnowledgeInit

LEMMA ServeCount ==
  ASSUME BaseInv, CountAccounted, NEW c \in Clerk, Serve(c)
  PROVE  CountAccounted'
<1> USE DEF baseRow, docRows, store
<1>1. /\ At("inc") \in Nat /\ At("dec") \in Nat /\ Alive \in Nat
      /\ count \in Int /\ skew \in Int /\ KnowledgeTypeOK
  BY AtIsNat, AliveIsNat DEF BaseInv, KnowledgeTypeOK
<1>2. count = Alive - At("inc") + At("dec") + skew
  BY DEF CountAccounted, Alive
<1> SUFFICES count' = Alive' - At("inc")' + At("dec")' + skew'
  BY DEF CountAccounted, Alive
<1>3. CASE CreateDocument(c)
  <2>1. CASE Done(c) /\ UNCHANGED docRows
    <3>1. At("inc")' = At("inc") /\ At("dec")' = At("dec")
      BY <1>1, <1>3, <2>1, DoneFacts, AtMoves DEF CreateDocument
    <3>2. QED BY <1>1, <1>2, <1>3, <2>1, <3>1, AliveStays DEF CreateDocument
  <2>2. CASE \E d \in Doc :
               /\ docs[d] = "none"
               /\ docs' = [docs EXCEPT ![d] = "live"]
               /\ Do(c, [clerk[c] EXCEPT !.at = "inc", !.doc = d])
    <3>1. PICK d \in Doc :
               /\ docs[d] = "none"
               /\ docs' = [docs EXCEPT ![d] = "live"]
               /\ Do(c, [clerk[c] EXCEPT !.at = "inc", !.doc = d])
      BY <2>2
    <3>2. At("inc")' = At("inc") + 1 /\ At("dec")' = At("dec")
      BY <1>3, <3>1, CreateFacts, AtMoves DEF CreateDocument
    <3>3. Alive' = Alive + 1
      BY <3>1, AliveMoves
    <3>4. UNCHANGED <<count, skew>>
      BY <1>3 DEF CreateDocument
    <3>5. QED BY <1>1, <1>2, <3>2, <3>3, <3>4
  <2>3. QED BY <1>3, <2>1, <2>2 DEF CreateDocument
<1>4. CASE CountUpload(c)
  <2>1. At("inc")' = At("inc") - 1 /\ At("dec")' = At("dec")
    BY <1>1, <1>4, DoneFacts, AtMoves DEF CountUpload
  <2>2. count' - skew' = count - skew + 1
    BY <1>1, <1>4 DEF CountUpload, AddToCount
  <2>3. count' \in Int /\ skew' \in Int
    BY <1>1, <1>4 DEF CountUpload, AddToCount
  <2>4. Alive' = Alive
    BY <1>4, AliveStays DEF CountUpload
  <2>5. QED BY <1>1, <1>2, <2>1, <2>2, <2>3, <2>4
<1>5. CASE DropVectors(c)
  <2>1. PICK at \in {"reset", "row"} : Do(c, [clerk[c] EXCEPT !.at = at])
    BY <1>5 DEF DropVectors
  <2>2. At("inc")' = At("inc") /\ At("dec")' = At("dec")
    BY <1>1, <1>5, <2>1, GoFacts, AtMoves DEF DropVectors
  <2>3. QED BY <1>1, <1>2, <1>5, <2>2, AliveStays DEF DropVectors
<1>6. CASE DeleteRow(c)
  <2>1. clerk[c].doc \in Doc
    BY <1>6 DEF BaseInv, Holding, DeleteRow
  <2>2. CASE Done(c) /\ UNCHANGED <<docs, skew>>
    <3>1. At("inc")' = At("inc") /\ At("dec")' = At("dec")
      BY <1>1, <1>6, <2>2, DoneFacts, AtMoves DEF DeleteRow
    <3>2. QED BY <1>1, <1>2, <1>6, <2>2, <3>1, AliveStays DEF DeleteRow
  <2>3. CASE /\ docs' = [docs EXCEPT ![clerk[c].doc] = "deleted"]
             /\ skew' = IF Live(clerk[c].doc) THEN skew ELSE skew - 1
             /\ Do(c, [clerk[c] EXCEPT !.at = "dec"])
    <3>1. At("inc")' = At("inc") /\ At("dec")' = At("dec") + 1
      BY <1>1, <1>6, <2>3, GoFacts, AtMoves DEF DeleteRow
    <3>2. Alive' = IF Live(clerk[c].doc) THEN Alive - 1 ELSE Alive
      BY <2>1, <2>3, AliveMoves
    <3>3. QED BY <1>1, <1>2, <1>6, <2>3, <3>1, <3>2 DEF DeleteRow
  <2>4. QED BY <1>6, <2>2, <2>3 DEF DeleteRow
<1>7. CASE CountDelete(c)
  <2>1. At("dec")' = At("dec") - 1 /\ At("inc")' = At("inc")
    BY <1>1, <1>7, DoneFacts, AtMoves DEF CountDelete
  <2>2. count' - skew' = count - skew - 1
    BY <1>1, <1>7 DEF CountDelete, AddToCount
  <2>3. count' \in Int /\ skew' \in Int
    BY <1>1, <1>7 DEF CountDelete, AddToCount
  <2>4. Alive' = Alive
    BY <1>7, AliveStays DEF CountDelete
  <2>5. QED BY <1>1, <1>2, <2>1, <2>2, <2>3, <2>4
<1>8. CASE Reset(c)
  <2>1. At("inc")' = At("inc") /\ At("dec")' = At("dec")
    BY <1>1, <1>8, DoneFacts, AtMoves DEF Reset
  <2>2. QED BY <1>1, <1>2, <1>8, <2>1, AliveStays DEF Reset
<1>9. CASE SaveBase(c)
  <2>1. At("inc")' = At("inc") /\ At("dec")' = At("dec")
    BY <1>1, <1>9, DoneFacts, AtMoves DEF SaveBase
  <2>2. clerk[c].seen \in Int
    BY <1>1 DEF KnowledgeTypeOK, Errand
  <2>3. QED BY <1>1, <1>2, <1>9, <2>1, <2>2, AliveStays DEF SaveBase
<1>10. CASE DropBase(c)
  <2>1. At("inc")' = At("inc") /\ At("dec")' = At("dec")
    BY <1>1, <1>10, DoneFacts, AtMoves DEF DropBase
  <2>2. QED BY <1>1, <1>2, <1>10, <2>1, AliveStays DEF DropBase
<1>11. QED BY <1>3, <1>4, <1>5, <1>6, <1>7, <1>8, <1>9, <1>10 DEF Serve

LEMMA CountStep == BaseInv /\ CountAccounted /\ [KnowledgeNext]_knowledgeVars => CountAccounted'
<1> SUFFICES ASSUME BaseInv, CountAccounted, [KnowledgeNext]_knowledgeVars PROVE CountAccounted'
  OBVIOUS
<1> USE DEF baseRow, docRows, store
<1>1. ASSUME UNCHANGED <<count, docs, clerk, skew>>
      PROVE  CountAccounted'
  BY <1>1 DEF CountAccounted, At, Live
<1>2. CASE UNCHANGED knowledgeVars
  BY <1>1, <1>2 DEF knowledgeVars
<1>3. ASSUME NEW c \in Clerk, Ask(c)
      PROVE  CountAccounted'
  <2>1. At("inc")' = At("inc") /\ At("dec")' = At("dec")
    <3>1. /\ clerk[c].at = "idle" /\ clerk'[c].at \in {"create", "save", "drop", "vectors"}
          /\ \A b \in Clerk : b # c => clerk'[b] = clerk[b]
      BY <1>3, BeginFacts, BeginOnDocumentFacts DEF Ask, BaseInv
    <3>2. QED BY <3>1, AtMoves
  <2>2. UNCHANGED <<count, docs, skew>>
    BY <1>3 DEF Ask, BeginUpload, BeginOnDocument, BeginOnBase
  <2>3. QED BY <2>1, <2>2 DEF CountAccounted, Live
<1>4. ASSUME NEW p \in Parse, Run(p) \/ StoreLate(p)
      PROVE  CountAccounted'
  BY <1>1, <1>4 DEF Run, Mark, Load, Process, Conclude, StoreLate
<1>5. CASE Crash
  <2>1. \A place \in {"inc", "dec"} : {c \in Clerk : clerk'[c].at = place} = {}
    BY <1>5, CrashFacts DEF BaseInv
  <2>2. At("inc")' = 0 /\ At("dec")' = 0
    BY <2>1, FS_EmptySet DEF At
  <2>3. Alive' = Alive /\ Alive \in Nat /\ count' = count
    BY <1>5, AliveStays, AliveIsNat DEF Crash
  <2>4. skew' = skew + At("dec") - At("inc")
    BY <1>5 DEF Crash
  <2>5. At("dec") \in Nat /\ At("inc") \in Nat /\ skew \in Int
    BY AtIsNat DEF BaseInv, KnowledgeTypeOK
  <2>6. count = Alive - At("inc") + At("dec") + skew
    BY DEF CountAccounted, Alive
  <2>7. count' = Alive' - At("inc")' + At("dec")' + skew'
    BY <2>2, <2>3, <2>4, <2>5, <2>6
  <2>8. QED BY <2>7 DEF CountAccounted, Alive
<1>6. QED BY <1>2, <1>3, <1>4, <1>5, ServeCount DEF KnowledgeNext

(* doc_count is the live documents, less the uploads still to count, plus the  *)
(* deletes still to count, plus exactly what a second delete, an edit of the   *)
(* base, a deleted base, an ignored error or a crash took or added             *)
(* (service.go:118, 197, 302).                                                 *)
THEOREM CountAccountedHolds == KnowledgeSpec => []CountAccounted
<1>1. KnowledgeInit => BaseInv /\ CountAccounted
  BY BaseInit, CountInit
<1>2. BaseInv /\ CountAccounted /\ [KnowledgeNext]_knowledgeVars => (BaseInv /\ CountAccounted)'
  BY BaseStep, CountStep
<1>3. QED BY <1>1, <1>2, PTL DEF KnowledgeSpec
-----------------------------------------------------------------------------
(* Rows and vectors.  A document nobody ever worked on beside another, or in   *)
(* trouble, has at most one request or parse at work on it, whose place says   *)
(* what is stored; without one, the row says it.                               *)
Busy(p, d) == parse[p].doc = d /\ parse[p].at # "end"

Asked(c, d) ==
  /\ clerk[c].at = "dec" => docs[d] = "deleted"
  /\ clerk[c].at # "dec" => Live(d)
  /\ clerk[c].at # "vectors" => vectors[d] = {}
  /\ clerk[c].at = "inc" => chunks[d] = NoParse

Parsing(p, d) ==
  /\ Live(d)
  /\ parse[p].at = "done" => vectors[d] = {p}
  /\ parse[p].at # "done" => vectors[d] = {} /\ chunks[d] = NoParse

Match(d) ==
  IF docs[d] = "deleted" THEN vectors[d] = {}
  ELSE IF status[d] = "completed" THEN chunks[d] # NoParse /\ vectors[d] = {chunks[d]}
  ELSE status[d] = "failed" /\ vectors[d] = {} /\ chunks[d] = NoParse

Alone(d) ==
  /\ \A a, b \in Clerk : clerk[a].doc = d /\ clerk[b].doc = d => a = b
  /\ \A p, q \in Parse : Busy(p, d) /\ Busy(q, d) => p = q
  /\ \A c \in Clerk, p \in Parse : ~(clerk[c].doc = d /\ Busy(p, d))

Free(d) ==
  /\ \A c \in Clerk : clerk[c].doc # d
  /\ \A p \in Parse : ~Busy(p, d)

Fresh(d) ==
  docs[d] = "none" =>
    /\ vectors[d] = {} /\ chunks[d] = NoParse
    /\ \A c \in Clerk : clerk[c].doc # d
    /\ \A p \in Parse : parse[p].doc # d

Tidy(d) ==
  /\ Alone(d)
  /\ \A c \in Clerk : clerk[c].doc = d => Asked(c, d)
  /\ \A p \in Parse : Busy(p, d) => Parsing(p, d)
  /\ \A p \in late : parse[p].doc # d
  /\ docs[d] # "none" /\ Free(d) => Match(d)

Good(d) == Fresh(d) /\ (d \notin mixed => Tidy(d))

VecInv ==
  /\ BaseInv
  /\ \A p \in late : parse[p].doc \in Doc
  /\ \A d \in Doc : Good(d)

LEMMA WorkingFree == \A d : Working(d) = {} <=> Free(d)
BY DEF Working, Free, Busy

(* A document the step does not touch. *)
LEMMA Untouched ==
  ASSUME VecInv, NEW d \in Doc,
         docs'[d] = docs[d], status'[d] = status[d], chunks'[d] = chunks[d],
         vectors'[d] = vectors[d], mixed \subseteq mixed', late' \subseteq late,
         \A c \in Clerk : clerk'[c].doc = d <=> clerk[c].doc = d,
         \A c \in Clerk : clerk[c].doc = d => clerk'[c].at = clerk[c].at,
         \A p \in Parse : parse'[p].doc = d <=> parse[p].doc = d,
         \A p \in Parse : parse[p].doc = d => parse'[p].at = parse[p].at
  PROVE  Good(d)'
<1>1. Good(d) /\ late \subseteq Parse
  BY DEF VecInv, BaseInv, KnowledgeTypeOK
<1>2. \A p \in Parse : Busy(p, d)' <=> Busy(p, d)
  BY DEF Busy
<1>3. Fresh(d)'
  BY <1>1 DEF Good, Fresh
<1>4. ASSUME d \notin mixed
      PROVE  Tidy(d)'
  <2>1. Tidy(d)
    BY <1>1, <1>4 DEF Good
  <2>2. Alone(d)' /\ (Free(d)' <=> Free(d))
    BY <1>2, <2>1 DEF Tidy, Alone, Free
  <2>3. \A c \in Clerk : clerk'[c].doc = d => Asked(c, d)'
    BY <2>1 DEF Tidy, Asked, Live
  <2>4. \A p \in Parse : Busy(p, d)' => Parsing(p, d)'
    BY <1>2, <2>1 DEF Tidy, Parsing, Live, Busy
  <2>5. \A p \in late' : parse'[p].doc # d
    BY <1>1, <2>1 DEF Tidy
  <2>6. Match(d)' <=> Match(d)
    BY DEF Match
  <2>7. QED BY <2>1, <2>2, <2>3, <2>4, <2>5, <2>6 DEF Tidy
<1>5. QED BY <1>3, <1>4 DEF Good

(* The same, when a parse of another document is given up. *)
LEMMA UntouchedLate ==
  ASSUME VecInv, NEW d \in Doc, NEW o \in Parse, parse[o].doc # d, parse'[o].doc # d,
         docs'[d] = docs[d], status'[d] = status[d], chunks'[d] = chunks[d],
         vectors'[d] = vectors[d], mixed \subseteq mixed', late' = late \cup {o},
         clerk' = clerk, \A p \in Parse : p # o => parse'[p] = parse[p]
  PROVE  Good(d)'
<1>1. Good(d) /\ late \subseteq Parse
  BY DEF VecInv, BaseInv, KnowledgeTypeOK
<1>2. \A p \in Parse : Busy(p, d)' <=> Busy(p, d)
  BY DEF Busy
<1>3. Fresh(d)'
  BY <1>1 DEF Good, Fresh
<1>4. ASSUME d \notin mixed
      PROVE  Tidy(d)'
  <2>1. Tidy(d)
    BY <1>1, <1>4 DEF Good
  <2>2. Alone(d)' /\ (Free(d)' <=> Free(d))
    BY <1>2, <2>1 DEF Tidy, Alone, Free
  <2>3. \A c \in Clerk : clerk'[c].doc = d => Asked(c, d)'
    BY <2>1 DEF Tidy, Asked, Live
  <2>4. \A p \in Parse : Busy(p, d)' => Parsing(p, d)'
    BY <1>2, <2>1 DEF Tidy, Parsing, Live, Busy
  <2>5. \A p \in late' : parse'[p].doc # d
    BY <1>1, <2>1 DEF Tidy
  <2>6. Match(d)' <=> Match(d)
    BY DEF Match
  <2>7. QED BY <2>1, <2>2, <2>3, <2>4, <2>5, <2>6 DEF Tidy
<1>5. QED BY <1>3, <1>4 DEF Good

(* The document a step is about, which is one nobody has to account for.       *)
LEMMA Given == ASSUME NEW d \in Doc, docs'[d] # "none", d \in mixed' PROVE Good(d)'
BY DEF Good, Fresh

(* The request, or the parse, that holds a document is the only one.           *)
LEMMA Holder ==
  ASSUME VecInv, NEW d \in Doc, d \notin mixed
  PROVE  /\ \A p \in late : parse[p].doc # d
         /\ \A c \in Clerk : clerk[c].doc = d =>
              /\ Asked(c, d) /\ docs[d] # "none"
              /\ \A b \in Clerk : b # c => clerk[b].doc # d
              /\ \A p \in Parse : ~Busy(p, d)
         /\ \A p \in Parse : Busy(p, d) =>
              /\ Parsing(p, d) /\ docs[d] # "none"
              /\ \A c \in Clerk : clerk[c].doc # d
              /\ \A q \in Parse : q # p => ~Busy(q, d)
<1>1. Fresh(d) /\ Tidy(d)
  BY DEF VecInv, Good
<1>2. QED BY <1>1 DEF Tidy, Fresh, Alone, Busy

(* A request goes on with its document, as the only one. *)
LEMMA ClerkKeeps ==
  ASSUME VecInv, NEW d \in Doc, NEW c \in Clerk, clerk[c].doc = d \/ Free(d),
         clerk'[c].doc = d, \A b \in Clerk : b # c => clerk'[b] = clerk[b],
         UNCHANGED <<parse, late>>, docs'[d] # "none", mixed \subseteq mixed',
         d \notin mixed' => Asked(c, d)'
  PROVE  Good(d)'
<1>1. CASE d \in mixed'
  BY <1>1, Given
<1>2. CASE d \notin mixed'
  <2>1. /\ \A p \in late : parse[p].doc # d
        /\ \A b \in Clerk : b # c => clerk[b].doc # d
        /\ \A p \in Parse : ~Busy(p, d)
    BY <1>2, Holder DEF Free
  <2>2. Alone(d)' /\ ~Free(d)' /\ \A p \in Parse : ~Busy(p, d)'
    BY <2>1 DEF Alone, Busy, Free
  <2>3. Tidy(d)'
    BY <1>2, <2>1, <2>2 DEF Tidy
  <2>4. QED BY <2>3 DEF Good, Fresh
<1>3. QED BY <1>1, <1>2

(* A request has done with its document, and nobody else holds it. *)
LEMMA ClerkLeaves ==
  ASSUME VecInv, NEW d \in Doc, NEW c \in Clerk, clerk[c].doc = d,
         clerk'[c].doc = NoDoc, \A b \in Clerk : b # c => clerk'[b] = clerk[b],
         UNCHANGED <<parse, late>>, docs'[d] # "none", mixed \subseteq mixed',
         d \notin mixed' => Match(d)'
  PROVE  Good(d)'
<1>1. CASE d \in mixed'
  BY <1>1, Given
<1>2. CASE d \notin mixed'
  <2>1. /\ \A p \in late : parse[p].doc # d
        /\ \A b \in Clerk : b # c => clerk[b].doc # d
        /\ \A p \in Parse : ~Busy(p, d)
    BY <1>2, Holder
  <2>2. Free(d)' /\ Alone(d)'
    BY <2>1 DEF Alone, Busy, Free, KnowledgeAssumption
  <2>3. Tidy(d)'
    BY <1>2, <2>1, <2>2 DEF Tidy, Free
  <2>4. QED BY <2>3 DEF Good, Fresh
<1>3. QED BY <1>1, <1>2

(* A request hands its document to a parse. *)
LEMMA HandsOver ==
  ASSUME VecInv, NEW d \in Doc, NEW c \in Clerk, clerk[c].doc = d, Done(c), StartParse(d),
         UNCHANGED late, docs'[d] = docs[d], mixed \subseteq mixed',
         d \notin mixed' => vectors'[d] = {} /\ chunks'[d] = NoParse /\ Live(d)
  PROVE  Good(d)'
<1>1. docs[d] # "none"
  BY DEF VecInv, Good, Fresh
<1>2. CASE d \in mixed'
  BY <1>1, <1>2, Given
<1>3. CASE d \notin mixed'
  <2>1. /\ \A p \in late : parse[p].doc # d
        /\ \A b \in Clerk : b # c => clerk[b].doc # d
        /\ \A p \in Parse : ~Busy(p, d)
    BY <1>3, Holder
  <2>2. \A b \in Clerk : clerk'[b].doc # d
    BY <2>1, DoneFacts DEF VecInv, BaseInv, KnowledgeAssumption
  <2>3. PICK p \in Parse : /\ parse[p].at = "new" /\ parse'[p].at = "mark" /\ parse'[p].doc = d
                           /\ \A q \in Parse : q # p => parse'[q] = parse[q]
    BY StartFacts DEF VecInv, BaseInv
  <2>4. \A q \in Parse : Busy(q, d)' <=> q = p
    BY <2>1, <2>3 DEF Busy
  <2>5. Alone(d)' /\ ~Free(d)'
    BY <2>2, <2>4 DEF Alone, Free
  <2>6. Parsing(p, d)'
    BY <1>3, <2>3 DEF Parsing, Live
  <2>7. \A q \in late' : parse'[q].doc # d
    BY <2>1, <2>3 DEF VecInv, BaseInv, KnowledgeTypeOK, InHand, KnowledgeAssumption
  <2>8. QED BY <1>1, <2>2, <2>4, <2>5, <2>6, <2>7 DEF Good, Fresh, Tidy
<1>4. QED BY <1>2, <1>3

(* A request hands another document to a parse. *)
LEMMA StartElsewhere ==
  ASSUME VecInv, NEW d \in Doc, NEW c \in Clerk, clerk[c].doc # d, clerk[c].doc \in Doc,
         Done(c), StartParse(clerk[c].doc), UNCHANGED <<docs, late>>,
         status'[d] = status[d], chunks'[d] = chunks[d], vectors'[d] = vectors[d],
         mixed \subseteq mixed'
  PROVE  Good(d)'
<1>1. clerk'[c].doc = NoDoc /\ \A b \in Clerk : b # c => clerk'[b] = clerk[b]
  BY DoneFacts DEF VecInv, BaseInv
<1>2. PICK p \in Parse : /\ parse[p].at = "new" /\ parse'[p].doc = clerk[c].doc
                         /\ \A q \in Parse : q # p => parse'[q] = parse[q]
  BY StartFacts DEF VecInv, BaseInv
<1>3. parse[p].doc = NoDoc
  BY <1>2 DEF VecInv, BaseInv, InHand
<1>4. QED BY <1>1, <1>2, <1>3, Untouched DEF KnowledgeAssumption

(* A parse goes on with its document, or has done with it. *)
LEMMA ParseKeeps ==
  ASSUME VecInv, NEW p \in Parse, NEW at \in {"load", "call", "done", "fail", "end"}, Turn(p, at),
         NEW d \in Doc, Busy(p, d), UNCHANGED <<clerk, docs>>, mixed \subseteq mixed',
         d \notin mixed' => /\ late' \subseteq late
                            /\ at # "end" => Parsing(p, d)'
                            /\ at = "end" => Match(d)'
  PROVE  Good(d)'
<1>1. docs[d] # "none"
  BY DEF VecInv, Good, Fresh, Busy
<1>2. CASE d \in mixed'
  BY <1>1, <1>2, Given
<1>3. CASE d \notin mixed'
  <2>1. /\ \A q \in late : parse[q].doc # d
        /\ \A c \in Clerk : clerk[c].doc # d
        /\ \A q \in Parse : q # p => ~Busy(q, d)
    BY <1>3, Holder
  <2>2. /\ parse'[p].at = at /\ parse'[p].doc = d
        /\ \A q \in Parse : q # p => parse'[q] = parse[q]
    BY TurnFacts DEF VecInv, BaseInv, Busy
  <2>3. \A q \in Parse : Busy(q, d)' <=> q = p /\ at # "end"
    BY <2>1, <2>2 DEF Busy
  <2>4. Alone(d)' /\ (Free(d)' <=> at = "end")
    BY <2>1, <2>3 DEF Alone, Free
  <2>5. \A q \in late' : parse'[q].doc # d
    BY <1>3, <2>1, <2>2 DEF VecInv, BaseInv, KnowledgeTypeOK, Busy
  <2>6. QED BY <1>1, <1>3, <2>1, <2>3, <2>4, <2>5 DEF Good, Fresh, Tidy
<1>4. QED BY <1>2, <1>3

-----------------------------------------------------------------------------
(* Every action leaves every document good. *)
LEMMA VecInitial == KnowledgeInit => VecInv
<1> SUFFICES ASSUME KnowledgeInit PROVE VecInv
  OBVIOUS
<1>1. BaseInv /\ late = {}
  BY BaseInit DEF KnowledgeInit
<1>2. ASSUME NEW d \in Doc
      PROVE  Good(d)
  <2>1. \A c \in Clerk : clerk[c].doc # d
    BY DEF KnowledgeInit, AtDesk, KnowledgeAssumption
  <2>2. \A p \in Parse : parse[p].doc # d /\ ~Busy(p, d)
    BY DEF KnowledgeInit, Busy, KnowledgeAssumption
  <2>3. docs[d] = "none" /\ vectors[d] = {} /\ chunks[d] = NoParse
    BY DEF KnowledgeInit
  <2>4. QED BY <1>1, <2>1, <2>2, <2>3 DEF Good, Fresh, Tidy, Alone
<1>3. QED BY <1>1, <1>2 DEF VecInv

LEMMA AskGood ==
  ASSUME VecInv, NEW c \in Clerk, Ask(c), NEW d \in Doc
  PROVE  Good(d)'
<1>1. /\ UNCHANGED <<docs, status, chunks, vectors, late, parse>> /\ clerk[c].doc = NoDoc
      /\ BaseInv /\ KnowledgeTypeOK
  BY DEF Ask, BeginUpload, BeginOnDocument, BeginOnBase, docRows, store, VecInv, BaseInv, Holding
<1>2. CASE BeginUpload(c) \/ BeginOnBase(c)
  <2>1. UNCHANGED mixed
    BY <1>2 DEF BeginUpload, BeginOnBase
  <2>2. clerk'[c].doc = NoDoc /\ \A b \in Clerk : b # c => clerk'[b] = clerk[b]
    BY <1>1, <1>2, BeginFacts
  <2>3. QED BY <1>1, <2>1, <2>2, Untouched DEF KnowledgeAssumption
<1>3. CASE BeginOnDocument(c)
  <2>1. /\ clerk'[c].at = "vectors" /\ Live(clerk'[c].doc) /\ Joins(clerk'[c].doc)
        /\ clerk'[c].doc \in Doc
        /\ \A b \in Clerk : b # c => clerk'[b] = clerk[b]
    BY <1>1, <1>3, BeginOnDocumentFacts
  <2>2. mixed \subseteq mixed'
    BY <2>1 DEF Joins
  <2>3. CASE d # clerk'[c].doc
    BY <1>1, <2>1, <2>2, <2>3, Untouched DEF KnowledgeAssumption
  <2>4. CASE d = clerk'[c].doc /\ Free(d)
    BY <1>1, <2>1, <2>2, <2>4, ClerkKeeps DEF Asked, Live
  <2>5. CASE d = clerk'[c].doc /\ ~Free(d)
    BY <1>1, <2>1, <2>5, WorkingFree, Given DEF Joins, Live
  <2>6. QED BY <2>3, <2>4, <2>5
<1>4. QED BY <1>2, <1>3 DEF Ask

LEMMA ServeGood ==
  ASSUME VecInv, NEW c \in Clerk, Serve(c), NEW d \in Doc
  PROVE  Good(d)'
<1> USE DEF baseRow, docRows, store
<1>1. BaseInv /\ KnowledgeTypeOK /\ Holding(c)
  BY DEF VecInv, BaseInv
<1>2. clerk[c].doc = d /\ d \notin mixed => Asked(c, d)
  BY Holder
<1>3. clerk[c].doc = d => docs[d] # "none"
  BY DEF VecInv, Good, Fresh
<1>4. CASE CreateDocument(c)
  <2>1. clerk[c].doc = NoDoc
    BY <1>1, <1>4 DEF CreateDocument, Holding
  <2>2. UNCHANGED <<vectors, late, parse, mixed>>
    BY <1>4 DEF CreateDocument
  <2>3. CASE Done(c) /\ UNCHANGED docRows
    BY <1>1, <2>1, <2>2, <2>3, DoneFacts, Untouched DEF KnowledgeAssumption
  <2>4. CASE \E e \in Doc :
               /\ docs[e] = "none"
               /\ docs' = [docs EXCEPT ![e] = "live"]
               /\ status' = [status EXCEPT ![e] = "pending"]
               /\ Do(c, [clerk[c] EXCEPT !.at = "inc", !.doc = e])
               /\ UNCHANGED chunks
    <3>1. PICK e \in Doc :
               /\ docs[e] = "none"
               /\ docs' = [docs EXCEPT ![e] = "live"]
               /\ status' = [status EXCEPT ![e] = "pending"]
               /\ Do(c, [clerk[c] EXCEPT !.at = "inc", !.doc = e])
               /\ UNCHANGED chunks
      BY <2>4
    <3>2. /\ clerk'[c].at = "inc" /\ clerk'[c].doc = e
          /\ \A b \in Clerk : b # c => clerk'[b] = clerk[b]
      BY <1>1, <3>1, CreateFacts
    <3>3. /\ docs'[e] = "live"
          /\ d # e => docs'[d] = docs[d] /\ status'[d] = status[d]
      BY <1>1, <3>1 DEF KnowledgeTypeOK
    <3>4. CASE d # e
      BY <2>1, <2>2, <3>1, <3>2, <3>3, <3>4, Untouched DEF KnowledgeAssumption
    <3>5. CASE d = e
      <4>1. Free(e) /\ vectors[e] = {} /\ chunks[e] = NoParse
        BY <3>1 DEF VecInv, Good, Fresh, Free, Busy
      <4>2. Asked(c, e)'
        BY <2>2, <3>1, <3>2, <3>3, <4>1 DEF Asked, Live
      <4>3. QED BY <2>2, <3>2, <3>3, <3>5, <4>1, <4>2, ClerkKeeps
    <3>6. QED BY <3>4, <3>5
  <2>5. QED BY <1>4, <2>3, <2>4 DEF CreateDocument
<1>5. CASE CountUpload(c)
  <2>1. clerk[c].doc \in Doc /\ clerk[c].at = "inc"
    BY <1>1, <1>5 DEF CountUpload, Holding
  <2>2. UNCHANGED <<docs, status, chunks, vectors, late>> /\ Done(c) /\ StartParse(clerk[c].doc)
    BY <1>5 DEF CountUpload
  <2>3. mixed \subseteq mixed'
    BY <1>5 DEF CountUpload, AddToCount, Fails
  <2>4. CASE clerk[c].doc = d
    BY <1>2, <2>1, <2>2, <2>3, <2>4, HandsOver DEF Asked
  <2>5. CASE clerk[c].doc # d
    BY <1>1, <2>1, <2>2, <2>3, <2>5, StartElsewhere
  <2>6. QED BY <2>4, <2>5
<1>6. CASE DropVectors(c)
  <2>1. clerk[c].doc \in Doc /\ clerk[c].at = "vectors"
    BY <1>1, <1>6 DEF DropVectors, Holding
  <2>2. UNCHANGED <<docs, status, chunks, late, parse>> /\ mixed \subseteq mixed'
    BY <1>6 DEF DropVectors, Works, Fails
  <2>3. PICK at \in {"reset", "row"} : Do(c, [clerk[c] EXCEPT !.at = at])
    BY <1>6 DEF DropVectors
  <2>4. /\ clerk'[c].at \in {"reset", "row"} /\ clerk'[c].doc = clerk[c].doc
        /\ \A b \in Clerk : b # c => clerk'[b] = clerk[b]
    BY <1>1, <2>3, GoFacts
  <2>5. /\ clerk[c].doc # d => vectors'[d] = vectors[d]
        /\ clerk[c].doc = d => vectors'[d] = {} \/ d \in mixed'
    BY <1>1, <1>6 DEF DropVectors, Fails, KnowledgeTypeOK
  <2>6. CASE clerk[c].doc = d
    <3>1. d \notin mixed' => Asked(c, d)'
      BY <1>2, <2>1, <2>2, <2>4, <2>5, <2>6 DEF Asked, Live
    <3>2. QED BY <1>3, <2>2, <2>4, <2>6, <3>1, ClerkKeeps
  <2>7. CASE clerk[c].doc # d
    BY <2>2, <2>4, <2>5, <2>7, Untouched
  <2>8. QED BY <2>6, <2>7
<1>7. CASE DeleteRow(c)
  <2>1. clerk[c].doc \in Doc /\ clerk[c].at = "row"
    BY <1>1, <1>7 DEF DeleteRow, Holding
  <2>2. UNCHANGED <<status, chunks, vectors, late, parse>> /\ mixed \subseteq mixed'
    BY <1>7 DEF DeleteRow, Works, Fails
  <2>3. CASE Done(c) /\ UNCHANGED docs /\ Fails(clerk[c].doc)
    <3>1. CASE clerk[c].doc = d
      BY <1>3, <2>3, <3>1, Given DEF Fails
    <3>2. CASE clerk[c].doc # d
      BY <1>1, <2>2, <2>3, <3>2, DoneFacts, Untouched DEF KnowledgeAssumption
    <3>3. QED BY <3>1, <3>2
  <2>4. CASE docs' = [docs EXCEPT ![clerk[c].doc] = "deleted"] /\ Do(c, [clerk[c] EXCEPT !.at = "dec"])
    <3>1. /\ clerk'[c].at = "dec" /\ clerk'[c].doc = clerk[c].doc
          /\ \A b \in Clerk : b # c => clerk'[b] = clerk[b]
      BY <1>1, <2>4, GoFacts
    <3>2. docs'[d] = IF clerk[c].doc = d THEN "deleted" ELSE docs[d]
      BY <1>1, <2>4 DEF KnowledgeTypeOK
    <3>3. CASE clerk[c].doc = d
      <4>1. d \notin mixed' => Asked(c, d)'
        BY <1>2, <2>1, <2>2, <3>1, <3>2, <3>3 DEF Asked, Live
      <4>2. QED BY <2>2, <3>1, <3>2, <3>3, <4>1, ClerkKeeps
    <3>4. CASE clerk[c].doc # d
      BY <2>2, <3>1, <3>2, <3>4, Untouched
    <3>5. QED BY <3>3, <3>4
  <2>5. QED BY <1>7, <2>3, <2>4 DEF DeleteRow
<1>8. CASE CountDelete(c)
  <2>1. clerk[c].doc \in Doc /\ clerk[c].at = "dec"
    BY <1>1, <1>8 DEF CountDelete, Holding
  <2>2. UNCHANGED <<docs, status, chunks, vectors, late, parse>> /\ mixed \subseteq mixed'
    BY <1>8 DEF CountDelete, AddToCount, Fails
  <2>3. clerk'[c].doc = NoDoc /\ \A b \in Clerk : b # c => clerk'[b] = clerk[b]
    BY <1>1, <1>8, DoneFacts DEF CountDelete
  <2>4. CASE clerk[c].doc = d
    <3>1. d \notin mixed' => Match(d)'
      BY <1>2, <2>1, <2>2, <2>4 DEF Asked, Match
    <3>2. QED BY <1>3, <2>2, <2>3, <2>4, <3>1, ClerkLeaves
  <2>5. CASE clerk[c].doc # d
    BY <2>2, <2>3, <2>5, Untouched DEF KnowledgeAssumption
  <2>6. QED BY <2>4, <2>5
<1>9. CASE Reset(c)
  <2>1. clerk[c].doc \in Doc /\ clerk[c].at = "reset"
    BY <1>1, <1>9 DEF Reset, Holding
  <2>2. UNCHANGED <<docs, vectors, late>> /\ Done(c) /\ mixed \subseteq mixed'
    BY <1>9 DEF Reset, Works, Fails
  <2>3. CASE Write(clerk[c].doc, "pending", NoParse) /\ StartParse(clerk[c].doc)
    <3>1. /\ clerk[c].doc # d => status'[d] = status[d] /\ chunks'[d] = chunks[d]
          /\ clerk[c].doc = d /\ Live(d) => chunks'[d] = NoParse
      BY <1>1, <2>3 DEF Write, KnowledgeTypeOK
    <3>2. CASE clerk[c].doc = d
      BY <1>2, <2>1, <2>2, <2>3, <3>1, <3>2, HandsOver DEF Asked
    <3>3. CASE clerk[c].doc # d
      BY <1>1, <2>1, <2>2, <2>3, <3>1, <3>3, StartElsewhere
    <3>4. QED BY <3>2, <3>3
  <2>4. CASE UNCHANGED <<status, chunks, parse>> /\ Fails(clerk[c].doc)
    <3>1. CASE clerk[c].doc = d
      BY <1>3, <2>2, <2>4, <3>1, Given DEF Fails
    <3>2. CASE clerk[c].doc # d
      BY <1>1, <2>2, <2>4, <3>2, DoneFacts, Untouched DEF KnowledgeAssumption
    <3>3. QED BY <3>1, <3>2
  <2>5. QED BY <1>9, <2>3, <2>4 DEF Reset
<1>10. CASE SaveBase(c) \/ DropBase(c)
  <2>1. UNCHANGED <<docs, status, chunks, vectors, late, parse, mixed>>
    BY <1>10 DEF SaveBase, DropBase
  <2>2. clerk[c].doc = NoDoc
    BY <1>1, <1>10 DEF SaveBase, DropBase, Holding
  <2>3. clerk'[c].doc = NoDoc /\ \A b \in Clerk : b # c => clerk'[b] = clerk[b]
    BY <1>1, <1>10, DoneFacts DEF SaveBase, DropBase
  <2>4. QED BY <2>1, <2>2, <2>3, Untouched DEF KnowledgeAssumption
<1>11. QED BY <1>4, <1>5, <1>6, <1>7, <1>8, <1>9, <1>10 DEF Serve

LEMMA RunGood ==
  ASSUME VecInv, NEW p \in Parse, Run(p), NEW d \in Doc
  PROVE  Good(d)'
<1> USE DEF baseRow, docRows, store
<1>1. BaseInv /\ KnowledgeTypeOK /\ UNCHANGED <<clerk, docs>>
  BY DEF VecInv, BaseInv, Run, Mark, Load, Process, Conclude
<1>2. parse[p].doc \in Doc /\ Busy(p, parse[p].doc)
  BY DEF VecInv, BaseInv, InHand, Busy, Run, Mark, Load, Process, Conclude
<1>3. mixed \subseteq mixed'
  BY DEF Run, Mark, Load, Process, Conclude, Works, Fails
<1>4. PICK at \in {"load", "call", "done", "fail", "end"} : Turn(p, at)
  BY DEF Run, Mark, Load, Process, Conclude
<1>5. CASE parse[p].doc # d
  <2>1. /\ parse'[p].doc = parse[p].doc
        /\ \A q \in Parse : q # p => parse'[q] = parse[q]
    BY <1>1, <1>4, TurnFacts
  <2>2. /\ status'[d] = status[d] /\ chunks'[d] = chunks[d] /\ vectors'[d] = vectors[d]
    BY <1>1, <1>2, <1>5 DEF Run, Mark, Load, Process, Conclude, Write, KnowledgeTypeOK
  <2>3. late' = late \/ (Process(p) /\ late' = late \cup {p})
    BY DEF Run, Mark, Load, Process, Conclude
  <2>4. CASE late' = late
    BY <1>1, <1>3, <1>5, <2>1, <2>2, <2>4, Untouched
  <2>5. CASE late' = late \cup {p}
    BY <1>1, <1>3, <1>5, <2>1, <2>2, <2>5, UntouchedLate
  <2>6. QED BY <2>3, <2>4, <2>5
<1>6. CASE parse[p].doc = d /\ d \in mixed'
  <2>1. docs[d] # "none"
    BY <1>6 DEF VecInv, Good, Fresh
  <2>2. QED BY <1>1, <1>6, <2>1, Given
<1>7. CASE parse[p].doc = d /\ d \notin mixed'
  <2>1. Parsing(p, d) /\ ~Fails(d)
    BY <1>2, <1>3, <1>7, Holder DEF Fails
  <2>2. parse'[p].at = at
    BY <1>1, <1>4, TurnFacts
  <2>3. /\ late' = late /\ Live(d)'
        /\ at # "end" => Parsing(p, d)'
        /\ at = "end" => Match(d)'
    <3>1. CASE Mark(p)
      <4>1. parse[p].at = "mark" /\ at = "load" /\ UNCHANGED <<chunks, vectors, late>>
        BY <1>1, <2>2, <3>1, TurnFacts DEF Mark
      <4>2. QED BY <1>1, <2>1, <2>2, <4>1 DEF Parsing, Live
    <3>2. CASE Load(p)
      <4>1. parse[p].at = "load" /\ at = "call" /\ UNCHANGED <<chunks, vectors, late>>
        BY <1>1, <1>7, <2>1, <2>2, <3>2, TurnFacts DEF Load, Parsing
      <4>2. QED BY <1>1, <2>1, <2>2, <4>1 DEF Parsing, Live
    <3>3. CASE Process(p)
      <4>1. parse[p].at = "call" /\ UNCHANGED <<chunks, late>>
        BY <1>7, <2>1, <3>3 DEF Process
      <4>2. vectors[d] = {} /\ chunks[d] = NoParse /\ Live(d)
        BY <2>1, <4>1 DEF Parsing
      <4>3. \/ vectors' = [vectors EXCEPT ![d] = @ \cup {p}] /\ at = "done"
            \/ vectors' = vectors /\ at = "fail"
        BY <1>1, <1>7, <2>1, <2>2, <3>3, TurnFacts DEF Process
      <4>4. vectors'[d] = IF at = "done" THEN {p} ELSE {}
        BY <1>1, <4>2, <4>3 DEF KnowledgeTypeOK
      <4>5. QED BY <1>1, <2>2, <4>1, <4>2, <4>3, <4>4 DEF Parsing, Live
    <3>4. CASE Conclude(p)
      <4>1. at = "end" /\ UNCHANGED <<vectors, late>>
        BY <1>1, <2>2, <3>4, TurnFacts DEF Conclude
      <4>2. Live(d)
        BY <2>1 DEF Parsing
      <4>3. CASE parse[p].at = "done"
        <5>1. status'[d] = "completed" /\ chunks'[d] = p
          BY <1>1, <1>7, <2>1, <3>4, <4>2, <4>3 DEF Conclude, Write, KnowledgeTypeOK
        <5>2. vectors[d] = {p}
          BY <2>1, <4>3 DEF Parsing
        <5>3. QED BY <1>1, <4>1, <4>2, <5>1, <5>2 DEF Match, Live, KnowledgeAssumption
      <4>4. CASE parse[p].at # "done"
        <5>1. status'[d] = "failed" /\ chunks'[d] = chunks[d]
          BY <1>1, <1>7, <2>1, <3>4, <4>2, <4>4 DEF Conclude, Write, KnowledgeTypeOK
        <5>2. vectors[d] = {} /\ chunks[d] = NoParse
          BY <2>1, <4>4 DEF Parsing
        <5>3. QED BY <1>1, <4>1, <4>2, <5>1, <5>2 DEF Match, Live
      <4>5. QED BY <4>3, <4>4
    <3>5. QED BY <3>1, <3>2, <3>3, <3>4 DEF Run
  <2>4. QED BY <1>1, <1>2, <1>3, <1>4, <1>7, <2>3, ParseKeeps
<1>8. QED BY <1>5, <1>6, <1>7

(* What the Python service stores late is of a document in trouble. *)
LEMMA StoreLateGood ==
  ASSUME VecInv, NEW p \in Parse, StoreLate(p), NEW d \in Doc
  PROVE  Good(d)'
<1>1. UNCHANGED <<docs, status, chunks, clerk, parse, mixed>> /\ p \in late /\ late' \subseteq late
  BY DEF StoreLate, docRows
<1>2. CASE parse[p].doc # d
  <2>1. vectors'[d] = vectors[d]
    BY <1>2 DEF StoreLate, VecInv, BaseInv, KnowledgeTypeOK
  <2>2. QED BY <1>1, <2>1, Untouched
<1>3. CASE parse[p].doc = d
  <2>1. d \in mixed /\ docs[d] # "none"
    BY <1>1, <1>3 DEF VecInv, Good, Fresh, Tidy
  <2>2. QED BY <1>1, <2>1, Given
<1>4. QED BY <1>2, <1>3

LEMMA CrashGood ==
  ASSUME VecInv, Crash, NEW d \in Doc
  PROVE  Good(d)'
<1>1. /\ UNCHANGED <<docs, status, chunks, vectors, late>>
      /\ mixed' = mixed \cup {e \in Doc : Working(e) # {}}
  BY DEF Crash, docRows, store
<1>2. CASE ~Free(d)
  <2>1. d \in mixed'
    BY <1>1, <1>2, WorkingFree
  <2>2. docs[d] # "none"
    BY <1>2 DEF VecInv, Good, Fresh, Free, Busy
  <2>3. QED BY <1>1, <2>1, <2>2, Given
<1>3. CASE Free(d)
  <2>1. \A c \in Clerk : clerk'[c].doc # d
    BY CrashFacts DEF VecInv, BaseInv, KnowledgeAssumption
  <2>2. \A p \in Parse : parse'[p].doc = parse[p].doc /\ ~Busy(p, d)'
    <3>1. SUFFICES ASSUME NEW p \in Parse PROVE parse'[p].doc = parse[p].doc /\ ~Busy(p, d)'
      OBVIOUS
    <3>2. parse[p] \in Job
      BY DEF VecInv, BaseInv, KnowledgeTypeOK
    <3>3. parse'[p] = IF parse[p].at = "new" THEN parse[p] ELSE [parse[p] EXCEPT !.at = "end"]
      BY DEF Crash
    <3>4. ~Busy(p, d)
      BY <1>3 DEF Free
    <3>5. QED BY <3>2, <3>3, <3>4 DEF Busy, Job
  <2>3. Free(d)' /\ Alone(d)'
    BY <2>1, <2>2 DEF Free, Alone
  <2>4. Fresh(d) /\ (d \notin mixed => Tidy(d)) /\ late \subseteq Parse
    BY DEF VecInv, Good, BaseInv, KnowledgeTypeOK
  <2>5. Fresh(d)'
    BY <1>1, <2>1, <2>2, <2>4 DEF Fresh
  <2>6. d \notin mixed' => Tidy(d)'
    BY <1>1, <1>3, <2>1, <2>2, <2>3, <2>4 DEF Tidy, Match
  <2>7. QED BY <2>5, <2>6 DEF Good
<1>4. QED BY <1>2, <1>3

(* A late parse has a document, and keeps it. *)
LEMMA LateStep ==
  ASSUME VecInv, [KnowledgeNext]_knowledgeVars
  PROVE  \A p \in late' : parse'[p].doc \in Doc
<1> USE DEF baseRow, docRows, store
<1>1. BaseInv /\ KnowledgeTypeOK /\ late \subseteq Parse
  BY DEF VecInv, BaseInv, KnowledgeTypeOK
<1>2. \A p \in late : p \in Parse /\ parse[p].doc \in Doc /\ parse[p].at # "new"
  BY <1>1 DEF VecInv, BaseInv, InHand, KnowledgeAssumption
<1>3. CASE UNCHANGED <<late, parse>>
  BY <1>2, <1>3
<1>4. ASSUME NEW c \in Clerk, Ask(c) \/ Serve(c)
      PROVE  \A p \in late' : parse'[p].doc \in Doc
  <2>1. late' = late
    BY <1>4 DEF Ask, BeginUpload, BeginOnDocument, BeginOnBase, Serve, CreateDocument, CountUpload,
                DropVectors, DeleteRow, CountDelete, Reset, SaveBase, DropBase
  <2>2. CASE UNCHANGED parse
    BY <1>3, <2>1, <2>2
  <2>3. CASE StartParse(clerk[c].doc) /\ clerk[c].doc \in Doc
    BY <1>1, <1>2, <2>1, <2>3, StartFacts
  <2>4. UNCHANGED parse \/ (StartParse(clerk[c].doc) /\ clerk[c].doc \in Doc)
    BY <1>4 DEF Ask, BeginUpload, BeginOnDocument, BeginOnBase, Serve, CreateDocument, CountUpload,
                DropVectors, DeleteRow, CountDelete, Reset, SaveBase, DropBase, VecInv, BaseInv, Holding
  <2>5. QED BY <2>2, <2>3, <2>4
<1>5. ASSUME NEW p \in Parse, Run(p)
      PROVE  \A q \in late' : parse'[q].doc \in Doc
  <2>1. PICK at \in {"load", "call", "done", "fail", "end"} : Turn(p, at)
    BY <1>5 DEF Run, Mark, Load, Process, Conclude
  <2>2. late' \subseteq late \cup {p} /\ parse[p].doc \in Doc
    BY <1>1, <1>5 DEF Run, Mark, Load, Process, Conclude, BaseInv, InHand
  <2>3. QED BY <1>1, <1>2, <2>1, <2>2, TurnFacts
<1>6. ASSUME NEW p \in Parse, StoreLate(p)
      PROVE  \A q \in late' : parse'[q].doc \in Doc
  BY <1>2, <1>6 DEF StoreLate
<1>7. CASE Crash
  <2>1. \A p \in late : parse'[p].doc = parse[p].doc
    <3>1. \A p \in late : parse[p] \in Job /\ parse'[p] = [parse[p] EXCEPT !.at = "end"]
      BY <1>1, <1>2, <1>7 DEF Crash, KnowledgeTypeOK
    <3>2. QED BY <3>1 DEF Job
  <2>2. QED BY <1>2, <1>7, <2>1 DEF Crash
<1>8. QED BY <1>3, <1>4, <1>5, <1>6, <1>7 DEF KnowledgeNext, knowledgeVars

LEMMA VecStep == VecInv /\ [KnowledgeNext]_knowledgeVars => VecInv'
<1> SUFFICES ASSUME VecInv, [KnowledgeNext]_knowledgeVars PROVE VecInv'
  OBVIOUS
<1>1. BaseInv'
  BY BaseStep DEF VecInv
<1>2. ASSUME NEW d \in Doc
      PROVE  Good(d)'
  <2>1. CASE UNCHANGED knowledgeVars
    BY <2>1, Untouched DEF knowledgeVars, baseRow, docRows, store
  <2>2. QED BY <2>1, AskGood, ServeGood, RunGood, StoreLateGood, CrashGood DEF KnowledgeNext
<1>3. QED BY <1>1, <1>2, LateStep DEF VecInv

LEMMA VecMatches == VecInv => VectorsMatchRows
<1> SUFFICES ASSUME VecInv, NEW d \in Doc \ mixed, docs[d] # "none", Working(d) = {}
             PROVE  Match(d)
  BY DEF VectorsMatchRows, Match
<1>1. QED BY WorkingFree DEF VecInv, Good, Tidy

(* However uploads, deletes, reparses, slow answers of the Python service and  *)
(* crashes follow each other, a document that was never worked on by two at    *)
(* once, nor in trouble, has the vectors its row says (service.go:280-430).    *)
THEOREM VectorsMatchRowsHolds == KnowledgeSpec => []VectorsMatchRows
BY VecInitial, VecStep, VecMatches, PTL DEF KnowledgeSpec
================================================================================
