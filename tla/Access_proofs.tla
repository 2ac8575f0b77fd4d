---------------------------- MODULE Access_proofs ----------------------------
(*****************************************************************************)
(* Theorems about Accounts, Roles and PasswordReset, for any number of       *)
(* users, legacy rows, roles, permissions, tokens and concurrent requests.   *)
(*****************************************************************************)
EXTENDS Accounts, Roles, PasswordReset, WellFoundedInduction, TLAPS

-----------------------------------------------------------------------------
(* Accounts.                                                                 *)

USE AccountAssumption

(* What a request holds between its steps. *)
Fits(r) ==
  /\ r.user <= used
  /\ r.at \notin {"idle", "mail", "name", "create"} => r.user # 0
  /\ r.at \in {"mail", "name", "create", "clash", "update"} => r.name \in Name
  /\ r.at \in {"mail", "name", "create"} => r.mail \in Mail

(* What is held between the steps of a startup. *)
Starting ==
  /\ boot.at # "serve" => \A t \in Request : request[t] = NoRequest
  /\ boot.at \in {"admin", "serve"} => indexed /\ boot.todo = {}
  /\ boot.at = "soft" => boot.todo \subseteq Is("deleted")
  /\ boot.at \in {"active", "dup"} => boot.todo \subseteq Is("live")
  /\ boot.at = "dup" => boot.todo # {} /\ users[NextRow].name = Freed /\ users[NextRow].mail = Freed
  /\ \A n \in boot.seen : owner[n] \notin boot.todo
  /\ \A u \in User : u > used => users[u].is = "none"

(* uk_users_name. *)
OneHolder(u) ==
  indexed => \A v \in InTable : users[v].name = users[u].name /\ users[u].name # Freed => v = u

(* Only before the purge, or after one that failed, is the seed in a table   *)
(* without the index.                                                        *)
Spared(u) == boot.at \in {"purge", "migrate", "down"} /\ ~indexed => users[u].mail # SeedMail

(* The name of a live row has an owner: with the index this row, else, but   *)
(* for the seed's, this or an earlier one.                                   *)
HasOwner(u) ==
  users[u].name # Freed =>
    /\ owner[users[u].name] # 0
    /\ Spared(u) => /\ owner[users[u].name] \in 1..u
                    /\ indexed => owner[users[u].name] = u

(* The seed owns a name without the index only if no one else has it.        *)
IsHolder(n) ==
  owner[n] # 0 =>
    /\ users[owner[n]].is = "live" /\ users[owner[n]].name = n
    /\ ~indexed /\ users[owner[n]].mail = SeedMail =>
         \A v \in Is("live") : users[v].name = n => users[v].mail = SeedMail

Named ==
  /\ \A u \in InTable : OneHolder(u)
  /\ \A u \in Is("live") : HasOwner(u)
  /\ \A n \in Name : IsHolder(n)

(* The invariant behind NamesKept. The index, once there, makes names        *)
(* unique; before it, a repaired table has an owner for each name that is    *)
(* the first of its live rows; and what a request or a startup holds fits    *)
(* the rows.                                                                 *)
NamesInv ==
  /\ AccountTypeOK /\ Starting /\ Named
  /\ \A t \in Request : Fits(request[t])

(* A removed account, outside the repair that may still have it to do. *)
IsFreed(u) ==
  users[u].is = "deleted" =>
    /\ users[u].name = Freed \/ boot.at = "purge" \/ (boot.at = "soft" /\ u \in boot.todo)
    /\ u \in old \/ users[u].mail = Freed

(* An account without a name, and one whose removal has one statement to go. *)
InRemoval(u) ==
  users[u].is = "live" /\ users[u].name = Freed
    => Dropping(u) \/ (boot.at = "dup" /\ u = NextRow)
Freeing(t, u) ==
  request[t].at = "drop" /\ request[t].user = u /\ users[u].is = "live"
    => users[u].name = Freed /\ users[u].mail = Freed

FreedAt(u) == IsFreed(u) /\ InRemoval(u) /\ \A t \in Request : Freeing(t, u)
(* The invariant behind RemovedAreFreed, for an account whose removal was    *)
(* not cut off or crossed.                                                   *)
FreedInv == \A u \in User \ (torn \cup crossed) : FreedAt(u)

-----------------------------------------------------------------------------
(* The row the repair turns to next is the smallest of its set.              *)
LEMMA Smallest ==
  ASSUME NEW T, T \subseteq User, T # {}
  PROVE  Earliest(T) \in T /\ \A v \in T : Earliest(T) <= v
<1>0. T \subseteq Nat
  BY DEF User
<1>1. PICK x \in T : \A y \in T : ~(<<y, x>> \in OpToRel(<, Nat))
  BY <1>0, NatLessThanWellFounded, WFMin
<1>2. \A y \in T : ~(y < x)
  BY <1>0, <1>1 DEF OpToRel
<1>3. \A y \in T : x <= y
  BY <1>0, <1>2
<1>4. QED BY <1>3 DEF Earliest

(* The steps of the startup, and those of the requests. *)
Repairs == Purge \/ FreeDeleted \/ KeepFirst \/ DropDuplicate \/ Migrate \/ InitDefaultAdmin

AccountReads(t) ==
  \/ SignUp(t) \/ GetSettings(t) \/ BeginLogin(t) \/ BeginUpdate(t) \/ BeginDelete(t)
  \/ CheckMail(t) \/ CheckName(t) \/ FindClash(t) \/ LookupFails(t)
Aside(t) == CreateSettings(t) \/ StoreSession(t) \/ RevokeSession(t)
AccountWrites(t) == CreateUser(t) \/ Update(t) \/ Free(t) \/ DeleteUser(t)

(* Every step is one of the startup, or one of a request while the server    *)
(* serves.                                                                   *)
LEMMA AccountSteps ==
  ASSUME AccountNext
  PROVE  /\ UNCHANGED old
         /\ \/ Repairs /\ UNCHANGED <<request, served, failures>>
            \/ RepairFails /\ UNCHANGED <<request, served>>
            \/ StartAgain /\ UNCHANGED served
            \/ /\ Serving /\ UNCHANGED boot
               /\ served' \in {served, served + 1} /\ failures' \in {failures, failures + 1}
               /\ \E t \in Request : AccountReads(t) \/ Aside(t) \/ AccountWrites(t) \/ Refuse(t)
<1>1. CASE StartUp /\ UNCHANGED old
  BY <1>1 DEF StartUp, Repairs
<1>2. CASE Serving /\ (\E t \in Request : Comes(t) \/ Continue(t)) /\ UNCHANGED <<boot, failures, old>>
  BY <1>2 DEF Comes, Continue, AccountReads, Aside, AccountWrites
<1>3. CASE Serving /\ (\E t \in Request : LookupFails(t)) /\ UNCHANGED <<boot, served, old>>
  BY <1>3 DEF LookupFails, Fail, AccountReads
<1>4. QED BY <1>1, <1>2, <1>3 DEF AccountNext

-----------------------------------------------------------------------------
(* Types. *)
AccountRows == /\ users \in [User -> UserRow] /\ used \in 0..MaxUser /\ indexed \in BOOLEAN
        /\ settings \subseteq User /\ session \in [User -> {"none", "active", "revoked"}]
        /\ owner \in [Name -> 0..MaxUser] /\ torn \subseteq User /\ crossed \subseteq User

LEMMA NothingIsPending == NoRequest \in Pending /\ NoRow \in UserRow
BY DEF NoRequest, Pending, NoRow, UserRow

LEMMA UserFacts == /\ User \subseteq 0..MaxUser /\ User \subseteq Nat /\ 0 \notin User
               /\ \A u \in 0..MaxUser : u # 0 => u \in User
BY DEF User

(* A statement on one row. *)
LEMMA RowsEdited ==
  ASSUME AccountTypeOK, NEW u \in User, NEW n \in Name \cup {Freed}, NEW m \in Mail \cup {Freed},
         NEW a \in BOOLEAN
  PROVE  /\ [users EXCEPT ![u].name = n] \in [User -> UserRow]
         /\ [users EXCEPT ![u].name = n, ![u].mail = m] \in [User -> UserRow]
         /\ [users EXCEPT ![u].name = n, ![u].admin = a] \in [User -> UserRow]
         /\ [users EXCEPT ![u].is = "deleted"] \in [User -> UserRow]
<1>0. users \in [User -> UserRow] /\ users[u] \in UserRow
  BY DEF AccountTypeOK
<1>1. [users[u] EXCEPT !.name = n] \in UserRow
  BY <1>0 DEF UserRow
<1>2. [users[u] EXCEPT !.is = "deleted"] \in UserRow
  BY <1>0 DEF UserRow
<1>3. \A r \in UserRow : [r EXCEPT !.mail = m] \in UserRow /\ [r EXCEPT !.admin = a] \in UserRow
  BY DEF UserRow
<1>4. \A f \in [User -> UserRow], r \in UserRow : [f EXCEPT ![u] = r] \in [User -> UserRow]
  OBVIOUS
<1>5. [users EXCEPT ![u].name = n] \in [User -> UserRow] /\ [users EXCEPT ![u].name = n][u] \in UserRow
  BY <1>0, <1>1, <1>4
<1>6. QED BY <1>0, <1>2, <1>3, <1>4, <1>5

(* AccountRows stay rows when a name, an address or a state in them is changed.     *)
LEMMA RowsFreed ==
  ASSUME AccountTypeOK, NEW u \in User
  PROVE  /\ [users EXCEPT ![u].name = Freed] \in [User -> UserRow]
         /\ [users EXCEPT ![u].name = Freed, ![u].mail = Freed] \in [User -> UserRow]
         /\ [users EXCEPT ![u].is = "deleted"] \in [User -> UserRow]
<1>1. Freed \in Name \cup {Freed} /\ Freed \in Mail \cup {Freed} /\ FALSE \in BOOLEAN
  OBVIOUS
<1>2. QED BY ONLY <1>1, RowsEdited, AccountTypeOK

LEMMA ReleaseType ==
  ASSUME AccountTypeOK, NEW u
  PROVE  Release(u) \in [Name -> 0..MaxUser]
BY DEF Release, AccountTypeOK

LEMMA AnswersType ==
  ASSUME AccountTypeOK, NEW t \in Request, NEW r \in Pending, Proceed(t, r)
  PROVE  request' \in [Request -> Pending]
BY DEF Proceed, AccountTypeOK

LEMMA RowsType ==
  ASSUME AccountTypeOK, UNCHANGED accountRows
  PROVE  /\ users' \in [User -> UserRow] /\ used' \in 0..MaxUser /\ indexed' \in BOOLEAN
         /\ settings' \subseteq User /\ session' \in [User -> {"none", "active", "revoked"}]
BY DEF AccountTypeOK, accountRows

LEMMA RequestFor ==
  ASSUME NEW u \in 0..MaxUser, NEW a \in {"defaults", "session", "free", "settings"}
  PROVE  [NoRequest EXCEPT !.at = a, !.user = u] \in Pending
BY NothingIsPending DEF Pending

LEMMA UpdateFor ==
  ASSUME NEW u \in 0..MaxUser, NEW n \in Name, NEW b \in BOOLEAN
  PROVE  [NoRequest EXCEPT !.at = "clash", !.user = u, !.name = n, !.admin = b] \in Pending
BY NothingIsPending DEF Pending

LEMMA Created ==
  ASSUME AccountTypeOK, NEW n \in Name, NEW m \in Mail, NEW a \in BOOLEAN, Create(n, m, a)
  PROVE  /\ used + 1 \in User /\ used' \in 0..MaxUser
         /\ users' \in [User -> UserRow] /\ owner' \in [Name -> 0..MaxUser]
<1>1. used + 1 \in User /\ used + 1 \in 0..MaxUser
  BY DEF Create, AccountTypeOK, User
<1>2. [is |-> "live", name |-> n, mail |-> m, admin |-> a] \in UserRow
  BY DEF UserRow
<1>3. QED BY <1>1, <1>2 DEF Create, AccountTypeOK

(* A request that reads moves on, to a place that suits it. *)
LEMMA ReadsMove ==
  ASSUME AccountTypeOK, NEW t \in Request, Fits(request[t]), AccountReads(t),
         \A u \in User : u > used => users[u].is = "none"
  PROVE  /\ SameRows
         /\ \E r \in Pending : Proceed(t, r) /\ Fits(r) /\ r.at # "drop" /\ request[t].at # "drop"
<1> USE NothingIsPending, UserFacts
<1>0. \A u \in Is("live") : u \in User /\ u # 0 /\ u <= used
  BY DEF Is, AccountTypeOK
<1>b. \A u \in Is("live") : u \in 0..MaxUser
  BY <1>0
<1>a. request[t] \in Pending /\ used \in Nat
  BY DEF AccountTypeOK
<1>1. CASE SignUp(t)
  BY <1>1, <1>a DEF SignUp, Fits, Pending
<1>2. CASE GetSettings(t)
  <2>1. PICK u \in Is("live") : Proceed(t, [NoRequest EXCEPT !.at = "defaults", !.user = u])
    BY <1>2 DEF GetSettings
  <2>3. [NoRequest EXCEPT !.at = "defaults", !.user = u] \in Pending
    BY <1>b, RequestFor
  <2>4. SameRows /\ request[t].at = "idle"
    BY <1>2 DEF GetSettings
  <2>5. Fits([NoRequest EXCEPT !.at = "defaults", !.user = u])
        /\ [NoRequest EXCEPT !.at = "defaults", !.user = u].at = "defaults"
    BY <1>0 DEF Fits, NoRequest
  <2>6. QED BY <2>1, <2>3, <2>4, <2>5
<1>3. CASE BeginLogin(t)
  <2>1. PICK u \in Is("live") : Proceed(t, [NoRequest EXCEPT !.at = "session", !.user = u])
    BY <1>3 DEF BeginLogin
  <2>3. [NoRequest EXCEPT !.at = "session", !.user = u] \in Pending
    BY <1>b, RequestFor
  <2>4. SameRows /\ request[t].at = "idle"
    BY <1>3 DEF BeginLogin
  <2>5. Fits([NoRequest EXCEPT !.at = "session", !.user = u])
        /\ [NoRequest EXCEPT !.at = "session", !.user = u].at = "session"
    BY <1>0 DEF Fits, NoRequest
  <2>6. QED BY <2>1, <2>3, <2>4, <2>5
<1>4. CASE BeginUpdate(t)
  <2>1. PICK u \in Is("live"), n \in Name, a \in BOOLEAN :
          Proceed(t, [NoRequest EXCEPT !.at = "clash", !.user = u, !.name = n, !.admin = a])
    BY <1>4 DEF BeginUpdate
  <2>3. [NoRequest EXCEPT !.at = "clash", !.user = u, !.name = n, !.admin = a] \in Pending
    BY <1>b, UpdateFor
  <2>4. SameRows /\ request[t].at = "idle"
    BY <1>4 DEF BeginUpdate
  <2>5. Fits([NoRequest EXCEPT !.at = "clash", !.user = u, !.name = n, !.admin = a])
        /\ [NoRequest EXCEPT !.at = "clash", !.user = u, !.name = n, !.admin = a].at = "clash"
    BY <1>0 DEF Fits, NoRequest
  <2>6. QED BY <2>1, <2>3, <2>4, <2>5
<1>5. CASE BeginDelete(t)
  <2>1. PICK u \in Is("live") : Proceed(t, [NoRequest EXCEPT !.at = "free", !.user = u])
    BY <1>5 DEF BeginDelete
  <2>3. [NoRequest EXCEPT !.at = "free", !.user = u] \in Pending
    BY <1>b, RequestFor
  <2>4. SameRows /\ request[t].at = "idle"
    BY <1>5 DEF BeginDelete
  <2>5. Fits([NoRequest EXCEPT !.at = "free", !.user = u])
        /\ [NoRequest EXCEPT !.at = "free", !.user = u].at = "free"
    BY <1>0 DEF Fits, NoRequest
  <2>6. QED BY <2>1, <2>3, <2>4, <2>5
<1>6. CASE CheckMail(t)
  BY <1>6, <1>a DEF CheckMail, Fits, Pending
<1>7. CASE CheckName(t)
  BY <1>7, <1>a DEF CheckName, Fits, Pending
<1>8. CASE FindClash(t)
  BY <1>8, <1>a DEF FindClash, Fits, Pending
<1>9. CASE LookupFails(t)
  <2>1. CASE request[t].at = "mail"
    BY <1>9, <1>a, <2>1 DEF LookupFails, Fits, Pending
  <2>2. CASE request[t].at = "name"
    BY <1>9, <1>a, <2>2 DEF LookupFails, Fits, Pending
  <2>3. CASE request[t].at = "clash"
    BY <1>9, <1>a, <2>3 DEF LookupFails, Fits, Pending
  <2>4. QED BY <1>9, <2>1, <2>2, <2>3 DEF LookupFails
<1>10. QED BY <1>1, <1>2, <1>3, <1>4, <1>5, <1>6, <1>7, <1>8, <1>9 DEF AccountReads

(* What is done beside the table: to settings and to sessions. *)
LEMMA AsideMoves ==
  ASSUME AccountTypeOK, NEW t \in Request, Fits(request[t]), Aside(t)
  PROVE  /\ UNCHANGED <<users, used, indexed, owner, torn, crossed>>
         /\ settings' \subseteq User /\ session' \in [User -> {"none", "active", "revoked"}]
         /\ (Answer(t) /\ request[t].at # "drop") \/ UNCHANGED request
<1>0. request[t] \in Pending
  BY DEF AccountTypeOK
<1>a. request[t].at \in {"settings", "defaults", "session"} => request[t].user \in User
  BY <1>0, UserFacts DEF Fits, Pending
<1>1. CASE CreateSettings(t)
  BY <1>a, <1>1 DEF CreateSettings, AccountTypeOK
<1>2. CASE StoreSession(t)
  BY <1>a, <1>2 DEF StoreSession, AccountTypeOK
<1>3. CASE RevokeSession(t)
  BY <1>0, <1>3 DEF RevokeSession, AccountTypeOK
<1>4. QED BY <1>1, <1>2, <1>3 DEF Aside

LEMMA Registered ==
  ASSUME AccountTypeOK, NEW t \in Request, Fits(request[t]), CreateUser(t)
  PROVE  /\ request[t].name \in Name /\ request[t].mail \in Mail /\ request[t].admin \in BOOLEAN
         /\ [NoRequest EXCEPT !.at = "settings", !.user = used + 1] \in Pending
         /\ request' = [request EXCEPT ![t] = [NoRequest EXCEPT !.at = "settings", !.user = used + 1]]
         /\ Create(request[t].name, request[t].mail, request[t].admin)
<1>1. request[t] \in Pending
  BY DEF AccountTypeOK
<1>2. request[t].name \in Name /\ request[t].mail \in Mail /\ request[t].admin \in BOOLEAN
  BY <1>1 DEF CreateUser, Fits, Pending
<1>3. used + 1 \in 0..MaxUser
  BY DEF CreateUser, Create, AccountTypeOK
<1>4. [NoRequest EXCEPT !.at = "settings", !.user = used + 1] \in Pending
  BY <1>3, RequestFor
<1>5. QED BY <1>2, <1>4 DEF CreateUser, Proceed

LEMMA WritesType ==
  ASSUME AccountTypeOK, NEW t \in Request, Fits(request[t]), AccountWrites(t)
  PROVE  AccountRows' /\ request' \in [Request -> Pending]
<1> USE NothingIsPending, UserFacts
<1>0. request[t] \in Pending /\ \A r \in Pending : Proceed(t, r) => request' \in [Request -> Pending]
  BY AnswersType DEF AccountTypeOK
<1>1. CASE CreateUser(t)
  <2>1. request' \in [Request -> Pending]
    BY <1>1, Registered DEF AccountTypeOK
  <2>2. Create(request[t].name, request[t].mail, request[t].admin) /\ UNCHANGED settings
    BY <1>1 DEF CreateUser
  <2>3. used' \in 0..MaxUser /\ users' \in [User -> UserRow] /\ owner' \in [Name -> 0..MaxUser]
    BY <1>1, Registered, Created
  <2>4. QED BY <2>1, <2>2, <2>3 DEF AccountRows, Create, AccountTypeOK
<1>2. CASE Update(t)
  <2>1. request[t].user \in User /\ request[t].name \in Name /\ request[t].admin \in BOOLEAN
    BY <1>0, <1>2 DEF Update, Fits, Pending
  <2>2. users' \in [User -> UserRow]
    <3>1. [users EXCEPT ![request[t].user].name = request[t].name,
                        ![request[t].user].admin = request[t].admin] \in [User -> UserRow]
      BY <2>1, RowsEdited
    <3>2. QED BY <1>2, <3>1 DEF Update, AccountTypeOK
  <2>3. Release(request[t].user) \in [Name -> 0..MaxUser]
    BY ReleaseType
  <2>4. owner' \in [Name -> 0..MaxUser]
    BY <1>2, <2>1, <2>3 DEF Update, AccountTypeOK
  <2>5. crossed' \subseteq User
    BY <1>2, <2>1 DEF Update, AccountTypeOK
  <2>6. Answer(t) /\ UNCHANGED <<used, indexed, settings, session, torn>>
    BY <1>2 DEF Update
  <2>7. QED BY <1>0, <2>2, <2>4, <2>5, <2>6 DEF AccountRows, Answer, AccountTypeOK
<1>3. CASE Free(t)
  <2>1. request[t].user \in User
    BY <1>0, <1>3 DEF Free, Fits, Pending
  <2>2. users' \in [User -> UserRow]
    <3>1. [users EXCEPT ![request[t].user].name = Freed, ![request[t].user].mail = Freed] \in [User -> UserRow]
      BY <2>1, RowsFreed
    <3>2. QED BY <1>3, <3>1 DEF Free, AccountTypeOK
  <2>3. owner' \in [Name -> 0..MaxUser]
    BY <1>3, <2>1, ReleaseType DEF Free, AccountTypeOK
  <2>4. [request[t] EXCEPT !.at = "drop"] \in Pending
    BY <1>0 DEF Pending
  <2>5. Proceed(t, [request[t] EXCEPT !.at = "drop"])
        /\ UNCHANGED <<used, indexed, settings, session, torn, crossed>>
    BY <1>3 DEF Free
  <2>6. QED BY <1>0, <2>2, <2>3, <2>4, <2>5 DEF AccountRows, AccountTypeOK
<1>4. CASE DeleteUser(t)
  <2>1. request[t].user \in User
    BY <1>0, <1>4 DEF DeleteUser, Fits, Pending
  <2>2. users' \in [User -> UserRow]
    <3>1. [users EXCEPT ![request[t].user].is = "deleted"] \in [User -> UserRow]
      BY <2>1, RowsFreed
    <3>2. QED BY <1>4, <3>1 DEF DeleteUser, AccountTypeOK
  <2>3. owner' \in [Name -> 0..MaxUser]
    BY <1>4, <2>1, ReleaseType DEF DeleteUser, AccountTypeOK
  <2>4. Answer(t) /\ UNCHANGED <<used, indexed, settings, session, torn, crossed>>
    BY <1>4 DEF DeleteUser
  <2>5. QED BY <1>0, <2>2, <2>3, <2>4 DEF AccountRows, Answer, AccountTypeOK
<1>5. QED BY <1>1, <1>2, <1>3, <1>4 DEF AccountWrites

LEMMA RepairsType ==
  ASSUME AccountTypeOK, Starting, Repairs
  PROVE  AccountRows' /\ boot' \in Boot
<1> USE NothingIsPending, UserFacts
<1>0. boot \in Boot /\ boot.todo \subseteq User /\ boot.seen \subseteq Name
  BY DEF AccountTypeOK, Boot
<1>1. CASE Purge
  <2> DEFINE seed == {u \in InTable : users[u].mail = SeedMail}
  <2>1. users' \in [User -> UserRow]
    <3>1. [NoRow EXCEPT !.is = "purged"] \in UserRow
      BY DEF NoRow, UserRow
    <3>2. QED BY <1>1, <3>1 DEF Purge, AccountTypeOK
  <2>2. owner' \in [Name -> 0..MaxUser]
    BY <1>1 DEF Purge, AccountTypeOK
  <2>3. boot' \in Boot
    <3>1. {u \in Is("deleted") \ seed : users[u].name # Freed} \subseteq User
      BY DEF Is
    <3>2. QED BY <1>0, <1>1, <3>1 DEF Purge, Boot
  <2>4. UNCHANGED <<used, indexed, settings, session, torn, crossed>>
    BY <1>1 DEF Purge
  <2>5. QED BY <2>1, <2>2, <2>3, <2>4 DEF AccountRows, AccountTypeOK
<1>2. CASE FreeDeleted
  <2>1. users' \in [User -> UserRow]
    <3>1. \A u \in boot.todo : [users EXCEPT ![u].name = Freed] \in [User -> UserRow]
      BY <1>0, RowsFreed
    <3>2. QED BY <1>2, <3>1 DEF FreeDeleted, AccountTypeOK
  <2>2. boot' \in Boot
    <3>1. Is("live") \subseteq User
      BY DEF Is
    <3>2. QED BY <1>0, <1>2, <3>1 DEF FreeDeleted, Boot
  <2>3. UNCHANGED <<used, indexed, settings, session, owner, torn, crossed>>
    BY <1>2 DEF FreeDeleted
  <2>4. QED BY <2>1, <2>2, <2>3 DEF AccountRows, AccountTypeOK
<1>3. CASE KeepFirst
  <2>1. NextRow \in User
    BY <1>0, <1>3, Smallest DEF KeepFirst, NextRow
  <2>2. users' \in [User -> UserRow]
    <3>1. [users EXCEPT ![NextRow].name = Freed, ![NextRow].mail = Freed] \in [User -> UserRow]
      BY <2>1, RowsFreed
    <3>2. QED BY <1>3, <3>1 DEF KeepFirst, AccountTypeOK
  <2>3. users[NextRow].name \in Name \cup {Freed}
    BY <2>1 DEF AccountTypeOK, UserRow
  <2>4. boot' \in Boot
    <3>1. boot.todo \ {NextRow} \subseteq User
          /\ boot.seen \cup ({users[NextRow].name} \ {Freed}) \subseteq Name
      BY <1>0, <2>3
    <3>2. [boot EXCEPT !.at = "dup"] \in Boot
      BY <1>0 DEF Boot
    <3>3. [boot EXCEPT !.todo = @ \ {NextRow}, !.seen = @ \cup ({users[NextRow].name} \ {Freed})] \in Boot
      BY <1>0, <3>1 DEF Boot
    <3>4. QED BY <1>3, <3>2, <3>3 DEF KeepFirst
  <2>5. UNCHANGED <<used, indexed, settings, session, owner, torn, crossed>>
    BY <1>3 DEF KeepFirst
  <2>6. QED BY <2>2, <2>4, <2>5 DEF AccountRows, AccountTypeOK
<1>4. CASE DropDuplicate
  <2>1. NextRow \in User
    BY <1>0, <1>4, Smallest DEF DropDuplicate, NextRow, Starting
  <2>2. users' \in [User -> UserRow]
    <3>1. [users EXCEPT ![NextRow].is = "deleted"] \in [User -> UserRow]
      BY <2>1, RowsFreed
    <3>2. QED BY <1>4, <3>1 DEF DropDuplicate, AccountTypeOK
  <2>3. boot' \in Boot
    BY <1>0, <1>4 DEF DropDuplicate, Boot
  <2>4. UNCHANGED <<used, indexed, settings, session, owner, torn, crossed>>
    BY <1>4 DEF DropDuplicate
  <2>5. QED BY <2>2, <2>3, <2>4 DEF AccountRows, AccountTypeOK
<1>5. CASE Migrate
  <2>1. boot' \in Boot /\ indexed' \in BOOLEAN
    BY <1>0, <1>5 DEF Migrate, Boot
  <2>2. UNCHANGED <<users, used, settings, session, owner, torn, crossed>>
    BY <1>5 DEF Migrate
  <2>3. QED BY <2>1, <2>2 DEF AccountRows, AccountTypeOK
<1>6. CASE InitDefaultAdmin
  <2>1. boot' \in Boot
    BY <1>0, <1>6 DEF InitDefaultAdmin, Boot
  <2>2. CASE SameRows
    BY <2>1, <2>2 DEF SameRows, accountRows, AccountRows, AccountTypeOK
  <2>3. CASE Create(AdminName, SeedMail, TRUE)
             /\ \E kept \in SUBSET {used + 1} : settings' = settings \cup kept
    <3>1. /\ used + 1 \in User /\ used' \in 0..MaxUser
          /\ users' \in [User -> UserRow] /\ owner' \in [Name -> 0..MaxUser]
      BY <2>3, Created
    <3>2. settings' \subseteq User
      BY <2>3, <3>1 DEF AccountTypeOK
    <3>3. QED BY <2>1, <2>3, <3>1, <3>2 DEF Create, AccountRows, AccountTypeOK
  <2>4. QED BY <1>6, <2>2, <2>3 DEF InitDefaultAdmin
<1>7. QED BY <1>1, <1>2, <1>3, <1>4, <1>5, <1>6 DEF Repairs

LEMMA TypeKept ==
  ASSUME AccountTypeOK, Starting, \A t \in Request : Fits(request[t]), [AccountNext]_accountVars
  PROVE  AccountTypeOK'
<1> USE NothingIsPending, UserFacts
<1>0. AccountTypeOK' <=> /\ AccountRows' /\ boot' \in Boot /\ request' \in [Request -> Pending]
                         /\ served' \in Nat /\ failures' \in Nat /\ old' \subseteq User
  BY DEF AccountTypeOK, AccountRows
<1>1. CASE UNCHANGED accountVars
  BY <1>0, <1>1 DEF accountVars, accountRows, AccountTypeOK, AccountRows
<1> SUFFICES ASSUME AccountNext PROVE AccountTypeOK'
  BY <1>1
<1>2. UNCHANGED old
  BY AccountSteps
<1>3. ASSUME Repairs, UNCHANGED <<request, served, failures>> PROVE AccountTypeOK'
  BY <1>0, <1>2, <1>3, RepairsType DEF AccountTypeOK
<1>4. ASSUME RepairFails, UNCHANGED <<request, served>> PROVE AccountTypeOK'
  <2>1. boot.at = "dup" => NextRow \in User
    BY Smallest DEF NextRow, Starting, AccountTypeOK, Boot
  <2>2. torn' \subseteq User /\ crossed' \subseteq User
    BY <1>4, <2>1 DEF RepairFails, AccountTypeOK, Boot, Is
  <2>3. boot' \in Boot /\ failures' \in Nat
    BY <1>4 DEF RepairFails, Fail, AccountTypeOK, Boot
  <2>4. UNCHANGED <<accountRows, owner>>
    BY <1>4 DEF RepairFails
  <2>5. AccountRows'
    BY <2>2, <2>4, RowsType DEF AccountRows, AccountTypeOK
  <2>6. QED BY <1>0, <1>2, <1>4, <2>3, <2>5 DEF AccountTypeOK
<1>5. ASSUME StartAgain, UNCHANGED served PROVE AccountTypeOK'
  <2>1. boot.at = "dup" => NextRow \in User
    BY Smallest DEF NextRow, Starting, AccountTypeOK, Boot
  <2>2. torn' \subseteq User
    BY <1>5, <2>1 DEF StartAgain, AccountTypeOK, Is
  <2>3. boot' \in Boot /\ failures' \in Nat
    BY <1>5 DEF StartAgain, Fail, AccountTypeOK, Boot
  <2>4. UNCHANGED <<accountRows, owner, crossed>> /\ request' \in [Request -> Pending]
    BY <1>5 DEF StartAgain
  <2>5. AccountRows'
    BY <2>2, <2>4, RowsType DEF AccountRows, AccountTypeOK
  <2>6. QED BY <1>0, <1>2, <1>5, <2>3, <2>4, <2>5 DEF AccountTypeOK
<1>6. ASSUME NEW t \in Request, UNCHANGED boot,
             served' \in {served, served + 1}, failures' \in {failures, failures + 1},
             AccountReads(t) \/ Aside(t) \/ AccountWrites(t) \/ Refuse(t)
      PROVE  AccountTypeOK'
  <2>0. Fits(request[t]) /\ \A u \in User : u > used => users[u].is = "none"
    BY DEF Starting
  <2>a. served' \in Nat /\ failures' \in Nat /\ boot' \in Boot /\ old' \subseteq User
    BY <1>2, <1>6 DEF AccountTypeOK
  <2>1. CASE AccountReads(t)
    <3>1. SameRows /\ \E r \in Pending : Proceed(t, r)
      BY <2>0, <2>1, ReadsMove
    <3>2. AccountRows'
      BY <3>1, RowsType DEF SameRows, AccountRows, AccountTypeOK
    <3>3. QED BY <1>0, <2>a, <3>1, <3>2, AnswersType
  <2>2. CASE Aside(t)
    <3>1. /\ UNCHANGED <<users, used, indexed, owner, torn, crossed>>
          /\ settings' \subseteq User /\ session' \in [User -> {"none", "active", "revoked"}]
          /\ Answer(t) \/ UNCHANGED request
      BY <2>0, <2>2, AsideMoves
    <3>2. request' \in [Request -> Pending]
      BY <3>1, AnswersType DEF Answer, AccountTypeOK
    <3>3. AccountRows'
      BY <3>1 DEF AccountRows, AccountTypeOK
    <3>4. QED BY <1>0, <2>a, <3>2, <3>3
  <2>3. CASE AccountWrites(t)
    BY <1>0, <2>0, <2>a, <2>3, WritesType
  <2>4. CASE Refuse(t)
    <3>1. request' \in [Request -> Pending] /\ UNCHANGED <<accountRows, owner, crossed>>
      BY <2>4, AnswersType DEF Refuse, Answer
    <3>2. torn' \subseteq User
      <4>1. request[t].at = "drop" => request[t].user \in User
        BY <2>0 DEF Fits, AccountTypeOK, Pending
      <4>2. QED BY <2>4, <4>1 DEF Refuse, AccountTypeOK
    <3>3. AccountRows'
      BY <3>1, <3>2, RowsType DEF AccountRows, AccountTypeOK
    <3>4. QED BY <1>0, <2>a, <3>1, <3>3
  <2>5. QED BY <1>6, <2>1, <2>2, <2>3, <2>4
<1>7. QED BY <1>3, <1>4, <1>5, <1>6, AccountSteps

-----------------------------------------------------------------------------
(* Names. *)
LEMMA SameTable ==
  ASSUME Named, UNCHANGED <<users, indexed, owner>>,
         boot.at \in {"purge", "migrate", "down"} /\ ~indexed
           => boot'.at \in {"purge", "migrate", "down"}
  PROVE  Named'
BY DEF Named, OneHolder, HasOwner, IsHolder, Spared, InTable, Is

(* One row is written while the index is there: its name, if it has one, is    *)
(* no other's, and it takes it over or gives its own up.                       *)
Others(u) == \A v \in User \ {u} : users'[v] = users[v]
Unshared(u) ==
  users'[u].name # Freed => \A v \in InTable \ {u} : users[v].name # users'[u].name
TakenOver(u) ==
  \A n \in Name : owner'[n] = IF users'[u].is = "live" /\ users'[u].name = n THEN u
                              ELSE IF owner[n] = u THEN 0 ELSE owner[n]

LEMMA RowWritten ==
  ASSUME AccountTypeOK, AccountTypeOK', Named, indexed, indexed', NEW u \in User,
         Others(u), Unshared(u), TakenOver(u)
  PROVE  Named'
<1> USE UserFacts DEF Others, Unshared, TakenOver
<1>0. \A v \in User : users'[v].name \in Name \cup {Freed}
  BY DEF AccountTypeOK, UserRow
<1>1. \A v \in InTable' : OneHolder(v)'
  <2>1. ASSUME NEW v \in InTable', NEW w \in InTable', users'[w].name = users'[v].name, users'[v].name # Freed
        PROVE  w = v
    <3>1. v \in User /\ w \in User /\ (v # u => v \in InTable) /\ (w # u => w \in InTable)
      BY DEF InTable, Is
    <3>2. CASE v = u
      BY <2>1, <3>1, <3>2
    <3>3. CASE w = u
      BY <2>1, <3>1, <3>3
    <3>4. CASE v # u /\ w # u
      BY <2>1, <3>1, <3>4 DEF Named, OneHolder
    <3>5. QED BY <3>2, <3>3, <3>4
  <2>2. QED BY <2>1 DEF OneHolder
<1>2. \A v \in Is("live")' : HasOwner(v)'
  <2>1. ASSUME NEW v \in Is("live")', users'[v].name # Freed
        PROVE  owner'[users'[v].name] = v
    <3>1. v \in User /\ users'[v].name \in Name /\ users'[v].is = "live"
      BY <1>0, <2>1 DEF Is
    <3>2. CASE v = u
      BY <3>1, <3>2
    <3>3. CASE v # u
      <4>1. users[v].is = "live" /\ v \in InTable \ {u} /\ v \in Is("live")
        BY <3>1, <3>3 DEF InTable, Is
      <4>2. owner[users[v].name] = v
        BY <2>1, <3>1, <3>3, <4>1 DEF Named, HasOwner, Spared
      <4>3. users'[u].name # users[v].name
        BY <2>1, <3>1, <3>3, <4>1
      <4>4. QED BY <3>1, <3>3, <4>2, <4>3
    <3>4. QED BY <3>2, <3>3
  <2>2. \A v \in Is("live")' : v \in 1..v
    BY DEF Is, User
  <2>3. QED BY <2>1, <2>2 DEF HasOwner
<1>3. \A n \in Name : IsHolder(n)'
  <2>1. ASSUME NEW n \in Name, owner'[n] # 0
        PROVE  users'[owner'[n]].is = "live" /\ users'[owner'[n]].name = n
    <3>1. CASE users'[u].is = "live" /\ users'[u].name = n
      BY <3>1
    <3>2. CASE ~(users'[u].is = "live" /\ users'[u].name = n)
      <4>1. owner'[n] = owner[n] /\ owner[n] # u /\ owner[n] # 0
        BY <2>1, <3>2
      <4>2. owner[n] \in User
        BY <4>1 DEF AccountTypeOK
      <4>3. users[owner[n]].is = "live" /\ users[owner[n]].name = n
        BY <4>1 DEF Named, IsHolder
      <4>4. users'[owner[n]] = users[owner[n]]
        BY <4>1, <4>2
      <4>5. QED BY <4>1, <4>3, <4>4
    <3>3. QED BY <3>1, <3>2
  <2>2. indexed'
    OBVIOUS
  <2> HIDE DEF TakenOver
  <2>3. QED BY <2>1, <2>2, Zenon DEF IsHolder
<1>4. QED BY <1>1, <1>2, <1>3 DEF Named

(* The repair frees the name of a row that does not own it. *)
LEMMA RowRetired ==
  ASSUME AccountTypeOK, AccountTypeOK', Named, NEW u \in User, UNCHANGED <<indexed, owner>>,
         boot.at \in {"soft", "active", "dup"}, boot'.at \in {"soft", "active", "dup"},
         \A v \in User \ {u} : users'[v] = users[v], users'[u].name = Freed,
         \A n \in Name : owner[n] # u
  PROVE  Named'
<1> USE UserFacts
<1>1. \A v \in InTable' : OneHolder(v)'
  BY DEF Named, OneHolder, InTable, Is
<1>2. \A v \in Is("live")' : HasOwner(v)'
  BY DEF Named, HasOwner, Spared, Is
<1>3. \A n \in Name : IsHolder(n)'
  <2>1. ASSUME NEW n \in Name, NEW v \in Is("live")', users'[v].name = n
        PROVE  v \in Is("live") /\ users'[v] = users[v]
    BY <2>1 DEF Is
  <2>2. ASSUME NEW n \in Name, owner[n] # 0
        PROVE  owner[n] \in User /\ users'[owner[n]] = users[owner[n]]
    BY <2>2 DEF AccountTypeOK
  <2>3. ASSUME NEW n \in Name PROVE IsHolder(n)'
    BY <2>1, <2>2 DEF Named, IsHolder
  <2>4. QED BY <2>3
<1>4. QED BY <1>1, <1>2, <1>3 DEF Named

(* No write of a request lets two live accounts have one name, or takes a    *)
(* name from the one that owns it: the unique index refuses it.              *)
LEMMA WritesName ==
  ASSUME AccountTypeOK, AccountTypeOK', Starting, Named, indexed, UNCHANGED boot,
         NEW t \in Request, Fits(request[t]), AccountWrites(t)
  PROVE  Named' /\ indexed' /\ used' >= used
         /\ \A u \in User : users'[u].is # users[u].is => u <= used'
<1> USE UserFacts
<1>0. request[t] \in Pending /\ used \in Nat
  BY DEF AccountTypeOK
<1>o. \A n \in Name : owner[n] # 0 => owner[n] \in User /\ users[owner[n]].is = "live"
         /\ users[owner[n]].name = n
  BY DEF Named, IsHolder, AccountTypeOK
<1>1. CASE CreateUser(t)
  <2> DEFINE u == used + 1
  <2>1. /\ request[t].name \in Name /\ request[t].mail \in Mail /\ request[t].admin \in BOOLEAN
        /\ Create(request[t].name, request[t].mail, request[t].admin)
    BY <1>1, Registered
  <2>2. u \in User
    BY <2>1, Created
  <2>3. users[u].is = "none" /\ used' = used + 1 /\ UNCHANGED indexed
    BY <1>0, <2>1, <2>2 DEF Starting, Create
  <2>4. /\ users'[u] = [is |-> "live", name |-> request[t].name, mail |-> request[t].mail, admin |-> request[t].admin]
        /\ \A v \in User \ {u} : users'[v] = users[v]
    BY <2>1, <2>2 DEF Create, AccountTypeOK
  <2>5. users'[u].is = "live" /\ users'[u].name = request[t].name
    BY <2>4
  <2>6. \A v \in InTable \ {u} : users[v].name # request[t].name
    BY <1>1, <2>1, <2>3 DEF CreateUser, Taken, InTable, Is
  <2>7. ASSUME NEW n \in Name
        PROVE  owner'[n] = IF users'[u].is = "live" /\ users'[u].name = n THEN u
                           ELSE IF owner[n] = u THEN 0 ELSE owner[n]
    <3>1. owner[n] # u
      BY <1>o, <2>2, <2>3
    <3>2. QED BY <2>1, <2>5, <3>1 DEF Create, AccountTypeOK
  <2> HIDE DEF u
  <2>8. Others(u) /\ Unshared(u) /\ TakenOver(u) /\ indexed'
    BY <2>3, <2>4, <2>5, <2>6, <2>7 DEF Others, Unshared, TakenOver
  <2>a. Named'
    BY <2>2, <2>8, RowWritten
  <2>9. QED BY <1>0, <2>3, <2>4, <2>8, <2>a DEF u
<1>2. CASE Update(t) /\ users[request[t].user].is = "live"
  <2>0. request[t].user \in User /\ request[t].name \in Name
    BY <1>0, <1>2 DEF Update, Fits, Pending
  <2>1. PICK u \in User, n \in Name : u = request[t].user /\ n = request[t].name
    BY <2>0
  <2>2. /\ ~Taken(n, Freed, u) /\ UNCHANGED <<used, indexed>>
        /\ users' = [users EXCEPT ![u].name = n, ![u].admin = request[t].admin]
        /\ owner' = [Release(u) EXCEPT ![n] = u]
    BY <1>2, <2>1 DEF Update
  <2>3. /\ users'[u].name = n /\ users'[u].is = "live"
        /\ \A v \in User \ {u} : users'[v] = users[v]
    BY <1>2, <2>1, <2>2 DEF AccountTypeOK, UserRow
  <2>4. \A v \in InTable \ {u} : users[v].name # n
    BY <2>1, <2>2 DEF Taken
  <2>5. \A m \in Name : owner'[m] = IF users'[u].is = "live" /\ users'[u].name = m THEN u
                                   ELSE IF owner[m] = u THEN 0 ELSE owner[m]
    BY <2>1, <2>2, <2>3 DEF Release
  <2>u. users[u].is = "live" /\ u <= used
    BY <1>0, <2>1, <1>2 DEF Fits
  <2>a. Others(u) /\ Unshared(u) /\ TakenOver(u) /\ indexed'
    BY <2>1, <2>2, <2>3, <2>4, <2>5 DEF Others, Unshared, TakenOver
  <2>6. Named'
    BY <2>a, RowWritten
  <2>b. UNCHANGED <<used, indexed>>
    BY <2>2
  <2>c. \A v \in User : users'[v].is # users[v].is => v <= used'
    BY <1>0, <2>a, <2>b, <2>u DEF Others
  <2>d. used' >= used
    BY <1>0, <2>b
  <2>7. QED BY <2>a, <2>c, <2>d, <2>6
<1>3. CASE Free(t) /\ users[request[t].user].is = "live"
  <2>0. request[t].user \in User
    BY <1>0, <1>3 DEF Free, Fits, Pending
  <2>1. PICK u \in User : u = request[t].user
    BY <2>0
  <2>2. /\ UNCHANGED <<used, indexed>>
        /\ users' = [users EXCEPT ![u].name = Freed, ![u].mail = Freed]
        /\ owner' = Release(u)
    BY <1>3, <2>1 DEF Free
  <2>3. /\ users'[u].name = Freed /\ users'[u].is = "live"
        /\ \A v \in User \ {u} : users'[v] = users[v]
    BY <1>3, <2>1, <2>2 DEF AccountTypeOK, UserRow
  <2>5. \A m \in Name : owner'[m] = IF users'[u].is = "live" /\ users'[u].name = m THEN u
                                   ELSE IF owner[m] = u THEN 0 ELSE owner[m]
    BY <2>1, <2>2, <2>3 DEF Release
  <2>u. users[u].is = "live" /\ u <= used
    BY <1>0, <2>1, <1>3 DEF Fits
  <2>a. Others(u) /\ Unshared(u) /\ TakenOver(u) /\ indexed'
    BY <2>1, <2>2, <2>3, <2>5 DEF Others, Unshared, TakenOver
  <2>6. Named'
    BY <2>a, RowWritten
  <2>b. UNCHANGED <<used, indexed>>
    BY <2>2
  <2>c. \A v \in User : users'[v].is # users[v].is => v <= used'
    BY <1>0, <2>a, <2>b, <2>u DEF Others
  <2>d. used' >= used
    BY <1>0, <2>b
  <2>7. QED BY <2>a, <2>c, <2>d, <2>6
<1>4. CASE DeleteUser(t) /\ users[request[t].user].is = "live"
  <2>0. request[t].user \in User
    BY <1>0, <1>4 DEF DeleteUser, Fits, Pending
  <2>1. PICK u \in User : u = request[t].user
    BY <2>0
  <2>2. /\ UNCHANGED <<used, indexed>>
        /\ users' = [users EXCEPT ![u].is = "deleted"]
        /\ owner' = Release(u)
    BY <1>4, <2>1 DEF DeleteUser
  <2>3. /\ users'[u].name = users[u].name /\ users'[u].is = "deleted"
        /\ \A v \in User \ {u} : users'[v] = users[v]
    BY <1>4, <2>1, <2>2 DEF AccountTypeOK, UserRow
  <2>4. users[u].name # Freed => \A v \in InTable \ {u} : users[v].name # users[u].name
    BY <1>4, <2>1 DEF Named, OneHolder, InTable, Is
  <2>5. \A m \in Name : owner'[m] = IF users'[u].is = "live" /\ users'[u].name = m THEN u
                                   ELSE IF owner[m] = u THEN 0 ELSE owner[m]
    BY <2>1, <2>2, <2>3 DEF Release
  <2>u. users[u].is = "live" /\ u <= used
    BY <1>0, <2>1, <1>4 DEF Fits
  <2>a. Others(u) /\ Unshared(u) /\ TakenOver(u) /\ indexed'
    BY <2>1, <2>2, <2>3, <2>4, <2>5 DEF Others, Unshared, TakenOver
  <2>6. Named'
    BY <2>a, RowWritten
  <2>b. UNCHANGED <<used, indexed>>
    BY <2>2
  <2>c. \A v \in User : users'[v].is # users[v].is => v <= used'
    BY <1>0, <2>a, <2>b, <2>u DEF Others
  <2>d. used' >= used
    BY <1>0, <2>b
  <2>7. QED BY <2>a, <2>c, <2>d, <2>6
<1>5. CASE (Update(t) \/ Free(t) \/ DeleteUser(t)) /\ users[request[t].user].is # "live"
  <2>1. UNCHANGED <<users, used, indexed, owner>>
    BY <1>5 DEF Update, Free, DeleteUser
  <2>2. QED BY <1>0, <2>1, SameTable
<1>6. QED BY <1>1, <1>2, <1>3, <1>4, <1>5 DEF AccountWrites

(* Named after a step of the startup, and what the next step builds on. *)
LEMMA RepairsName ==
  ASSUME AccountTypeOK, AccountTypeOK', Starting, Named, Repairs
  PROVE  Named'
<1> USE UserFacts
<1>b. boot \in Boot
  BY DEF AccountTypeOK
<1>0. boot.todo \subseteq User /\ boot.seen \subseteq Name /\ used \in Nat
  BY DEF AccountTypeOK, Boot
<1>o. \A n \in Name : owner[n] # 0 => owner[n] \in User /\ users[owner[n]].is = "live"
         /\ users[owner[n]].name = n
  BY DEF Named, IsHolder, AccountTypeOK
<1>n. \A u \in User : users[u].name \in Name \cup {Freed}
  BY DEF AccountTypeOK, UserRow
<1>1. CASE Purge
  <2> DEFINE seed == {u \in InTable : users[u].mail = SeedMail}
  <2>1. /\ users' = [u \in User |-> IF u \in seed THEN [NoRow EXCEPT !.is = "purged"] ELSE users[u]]
        /\ owner' = [n \in Name |-> IF owner[n] \in seed THEN 0 ELSE owner[n]]
        /\ boot'.at = "soft" /\ UNCHANGED indexed /\ boot.at = "purge"
    BY <1>1 DEF Purge, AccountTypeOK, Boot
  <2>2. \A u \in User : /\ u \in seed => users'[u].is = "purged"
                        /\ u \notin seed => users'[u] = users[u]
    BY <2>1 DEF NoRow
  <2>3. \A u \in InTable' : u \in InTable \ seed
    BY <2>2 DEF InTable, Is
  <2>4. \A u \in InTable' : OneHolder(u)'
    BY <2>1, <2>2, <2>3 DEF Named, OneHolder, InTable, Is
  <2>5. ASSUME NEW u \in Is("live")', users'[u].name # Freed
        PROVE  /\ owner'[users'[u].name] # 0 /\ owner'[users'[u].name] \in 1..u
               /\ indexed' => owner'[users'[u].name] = u
    <3>1. u \in InTable \ seed /\ u \in User /\ users'[u] = users[u] /\ u \in Is("live")
      BY <2>2, <2>3 DEF InTable, Is
    <3>2. /\ owner[users[u].name] \in 1..u
          /\ indexed => owner[users[u].name] = u
      BY <2>5, <3>1 DEF Named, HasOwner, Spared
    <3>3. owner[users[u].name] \notin seed
      <4> DEFINE w == owner[users[u].name]
      <4>0. users[u].name \in Name
        BY <1>n, <2>5, <3>1
      <4>1. users[u].name \in Name /\ w # 0
        BY <3>1, <3>2, <4>0
      <4>2. w \in User /\ w \in Is("live") /\ users[w].name = users[u].name
        BY <1>o, <4>1 DEF Is
      <4>3. CASE indexed
        BY <3>1, <3>2, <4>3
      <4>4. CASE ~indexed
        BY <1>o, <2>1, <3>1, <4>1, <4>4 DEF Named, IsHolder, InTable
      <4>5. QED BY <4>3, <4>4
    <3>4. QED BY <1>n, <2>1, <2>5, <3>1, <3>2, <3>3
  <2>6. \A u \in Is("live")' : HasOwner(u)'
    BY <2>5 DEF HasOwner
  <2>7. \A n \in Name : IsHolder(n)'
    <3>1. ASSUME NEW n \in Name, owner'[n] # 0
          PROVE  owner'[n] = owner[n] /\ owner[n] # 0 /\ owner[n] \in User \ seed
      BY <1>o, <2>1, <3>1
    <3>2. ASSUME NEW n \in Name, owner'[n] # 0
          PROVE  /\ users'[owner'[n]].is = "live" /\ users'[owner'[n]].name = n
                 /\ users'[owner'[n]].mail # SeedMail
      <4>1. /\ owner'[n] = owner[n] /\ owner[n] # 0 /\ owner[n] \in User \ seed
            /\ users'[owner[n]] = users[owner[n]]
        BY <2>2, <3>1, <3>2
      <4>2. users[owner[n]].is = "live" /\ users[owner[n]].name = n
        BY <1>o, <4>1
      <4>3. owner[n] \in InTable
        BY <4>1, <4>2 DEF InTable, Is
      <4>4. QED BY <4>1, <4>2, <4>3
    <3>3. QED BY <3>2 DEF IsHolder
  <2>8. QED BY <2>4, <2>6, <2>7 DEF Named
<1>2. CASE FreeDeleted
  <2>1. CASE boot.todo = {}
    <3>1. UNCHANGED <<users, indexed, owner>> /\ boot.at = "soft"
      BY <1>2, <2>1 DEF FreeDeleted
    <3>2. QED BY <3>1, SameTable
  <2>2. CASE boot.todo # {}
    <3>1. PICK u \in boot.todo : users' = [users EXCEPT ![u].name = Freed]
      BY <1>2, <2>2 DEF FreeDeleted
    <3>2. u \in User /\ users[u].is = "deleted"
      BY <1>0, <1>2 DEF FreeDeleted, Starting, Is
    <3>3. users'[u].name = Freed /\ Others(u)
      BY <3>1, <3>2 DEF Others, AccountTypeOK, UserRow
    <3>4. UNCHANGED <<indexed, owner>> /\ boot.at = "soft" /\ boot'.at = "soft"
      BY <1>2, <2>2 DEF FreeDeleted, AccountTypeOK, Boot
    <3>5. \A n \in Name : owner[n] # u
      BY <1>o, <3>2
    <3>6. QED BY <3>2, <3>3, <3>4, <3>5, RowRetired DEF Others
  <2>3. QED BY <2>1, <2>2
<1>3. CASE KeepFirst
  <2>1. NextRow \in boot.todo /\ NextRow \in User
    BY <1>0, <1>3, Smallest DEF KeepFirst, NextRow
  <2>2. UNCHANGED <<indexed, owner>> /\ boot.at = "active" /\ boot'.at \in {"active", "dup"}
    BY <1>b, <1>3 DEF KeepFirst, Boot
  <2>3. CASE users[NextRow].name \in boot.seen
    <3>1. PICK u \in User : u = NextRow
      BY <2>1
    <3>2. users' = [users EXCEPT ![u].name = Freed, ![u].mail = Freed]
      BY <1>3, <2>3, <3>1 DEF KeepFirst
    <3>3. users'[u].name = Freed /\ Others(u)
      BY <3>2 DEF Others, AccountTypeOK, UserRow
    <3>4. ASSUME NEW n \in Name, owner[n] = u PROVE FALSE
      <4>1. users[u].name = n
        BY <1>o, <3>4, UserFacts
      <4>2. QED BY <2>1, <2>3, <3>1, <3>4, <4>1 DEF Starting
    <3>5. QED BY <2>2, <3>3, <3>4, RowRetired DEF Others
  <2>4. CASE users[NextRow].name \notin boot.seen
    BY <1>3, <2>2, <2>4, SameTable DEF KeepFirst
  <2>5. QED BY <2>3, <2>4
<1>4. CASE DropDuplicate
  <2>1. NextRow \in User /\ boot.at = "dup" /\ users[NextRow].name = Freed
    BY <1>0, <1>4, Smallest DEF DropDuplicate, NextRow, Starting
  <2>2. PICK u \in User : u = NextRow
    BY <2>1
  <2>3. users' = [users EXCEPT ![u].is = "deleted"]
    BY <1>4, <2>2 DEF DropDuplicate
  <2>4. users'[u].name = Freed /\ Others(u)
    BY <2>1, <2>2, <2>3 DEF Others, AccountTypeOK, UserRow
  <2>5. UNCHANGED <<indexed, owner>> /\ boot'.at = "active"
    BY <1>4 DEF DropDuplicate, AccountTypeOK, Boot
  <2>6. \A n \in Name : owner[n] # u
    BY <1>o, <2>1, <2>2
  <2>7. QED BY <2>1, <2>4, <2>5, <2>6, RowRetired DEF Others
<1>5. CASE Migrate
  <2>0. /\ UNCHANGED <<users, owner>> /\ boot.at \in {"migrate", "active"}
    BY <1>b, <1>5 DEF Migrate, Boot
  <2>1. CASE indexed' = indexed
    <3>1. ~indexed => boot'.at = "down"
      BY <1>b, <1>5, <2>1 DEF Migrate, Boot
    <3>2. QED BY <2>0, <2>1, <3>1, SameTable
  <2>2. CASE indexed' # indexed
    <3>1. /\ indexed' = TRUE
          /\ \A u, v \in InTable : users[u].name = users[v].name /\ users[u].name # Freed => u = v
      BY <1>5, <2>2 DEF Migrate, AccountTypeOK
    <3>2. \A u \in InTable' : OneHolder(u)'
      BY <2>0, <3>1 DEF OneHolder, InTable, Is
    <3>3. ASSUME NEW u \in Is("live"), users[u].name # Freed
          PROVE  owner[users[u].name] = u
      <4> DEFINE w == owner[users[u].name]
      <4>1. u \in User /\ u \in InTable /\ users[u].name \in Name
        BY <1>n, <3>3 DEF InTable, Is
      <4>2. w # 0
        BY <2>0, <3>3, <4>1 DEF Named, HasOwner
      <4>3. w \in InTable /\ users[w].name = users[u].name
        BY <1>o, <4>1, <4>2 DEF InTable, Is
      <4>4. QED BY <3>1, <3>3, <4>1, <4>3
    <3>4. \A u \in Is("live")' : HasOwner(u)'
      <4>1. \A u \in Is("live") : u \in 1..u
        BY DEF Is, User
      <4>2. QED BY <2>0, <3>3, <4>1 DEF HasOwner, Is
    <3>5. \A n \in Name : IsHolder(n)'
      BY <2>0, <3>1 DEF Named, IsHolder
    <3>6. QED BY <3>2, <3>4, <3>5 DEF Named
  <2>3. QED BY <2>1, <2>2
<1>6. CASE InitDefaultAdmin
  <2>0. boot.at = "admin" /\ boot'.at = "serve" /\ indexed
    BY <1>6 DEF InitDefaultAdmin, AccountTypeOK, Boot, Starting
  <2>1. CASE SameRows
    BY <2>0, <2>1, SameTable DEF SameRows, accountRows
  <2>2. CASE Create(AdminName, SeedMail, TRUE) /\ ~Taken(AdminName, SeedMail, 0)
    <3>1. used + 1 \in User /\ UNCHANGED indexed
      BY <2>2, Created DEF Create
    <3>2. PICK u \in User : u = used + 1
      BY <3>1
    <3>3. /\ users'[u] = [is |-> "live", name |-> AdminName, mail |-> SeedMail, admin |-> TRUE]
          /\ Others(u) /\ users[u].is = "none"
      BY <1>0, <2>2, <3>2 DEF Create, Others, AccountTypeOK, Starting
    <3>4. users'[u].is = "live" /\ users'[u].name = AdminName
      BY <3>3
    <3>5. Unshared(u)
      BY <2>0, <2>2, <3>4 DEF Unshared, Taken, InTable, Is
    <3>6. TakenOver(u)
      <4>1. \A n \in Name : owner[n] # u
        BY <1>o, <3>3
      <4>2. owner' = [owner EXCEPT ![AdminName] = u]
        BY <2>2, <3>2 DEF Create
      <4>3. QED BY <3>4, <4>1, <4>2 DEF TakenOver, AccountTypeOK
    <3>7. indexed'
      BY <2>0, <3>1
    <3>8. QED BY <2>0, <3>3, <3>5, <3>6, <3>7, RowWritten
  <2>3. QED BY <1>6, <2>1, <2>2 DEF InitDefaultAdmin
<1>7. QED BY <1>1, <1>2, <1>3, <1>4, <1>5, <1>6 DEF Repairs

(* Where the startup is. *)
LEMMA RepairsStart ==
  ASSUME AccountTypeOK, AccountTypeOK', Starting, Named, Repairs, UNCHANGED request
  PROVE  Starting'
<1> USE UserFacts
<1>b. boot \in Boot /\ boot.todo \subseteq User /\ used \in Nat
  BY DEF AccountTypeOK, Boot
<1>r. boot.at # "serve" /\ \A t \in Request : request'[t] = NoRequest
  BY DEF Repairs, Purge, FreeDeleted, KeepFirst, DropDuplicate, Migrate, InitDefaultAdmin, Starting
<1>u. \A u \in User : u > used => users[u].is = "none"
  BY DEF Starting
<1>1. CASE Purge
  <2> DEFINE seed == {u \in InTable : users[u].mail = SeedMail}
             left == {u \in Is("deleted") \ seed : users[u].name # Freed}
  <2>1. /\ users' = [u \in User |-> IF u \in seed THEN [NoRow EXCEPT !.is = "purged"] ELSE users[u]]
        /\ boot' = [boot EXCEPT !.at = "soft", !.todo = left] /\ boot.at = "purge"
        /\ owner' = [n \in Name |-> IF owner[n] \in seed THEN 0 ELSE owner[n]]
        /\ UNCHANGED <<indexed, used>>
    BY <1>1 DEF Purge
  <2>2. \A u \in left : u \in User /\ users'[u] = users[u] /\ users[u].is = "deleted"
    BY <2>1 DEF Is
  <2>3. left \subseteq Is("deleted")'
    BY <2>2 DEF Is
  <2>4. \A u \in User : u > used => users'[u].is = "none"
    BY <1>u, <2>1 DEF InTable, Is
  <2>5. boot'.at = "soft" /\ boot'.todo = left /\ boot'.seen = boot.seen
    BY <1>b, <2>1 DEF Boot
  <2>6. \A n \in boot.seen : owner'[n] \notin left
    <3>1. boot.seen \subseteq Name
      BY <1>b DEF Boot
    <3>2. ASSUME NEW n \in boot.seen, owner'[n] \in left PROVE FALSE
      <4>1. owner'[n] \in User /\ owner'[n] # 0 /\ n \in Name
        BY <2>2, <3>1, <3>2
      <4>2. owner'[n] = owner[n]
        BY <2>1, <4>1
      <4>3. users[owner[n]].is = "live"
        BY <4>1, <4>2 DEF Named, IsHolder
      <4>4. QED BY <2>2, <3>2, <4>2, <4>3
    <3>3. QED BY <3>2
  <2> HIDE DEF left
  <2>7. QED BY <1>r, <2>1, <2>3, <2>4, <2>5, <2>6 DEF Starting
<1>2. CASE FreeDeleted
  <2>0. boot.at = "soft" /\ UNCHANGED <<used, indexed, owner>>
    BY <1>2 DEF FreeDeleted
  <2>1. CASE boot.todo = {}
    <3>1. boot' = [at |-> "active", todo |-> Is("live"), seen |-> {}] /\ UNCHANGED users
      BY <1>2, <2>1 DEF FreeDeleted
    <3>2. Is("live")' = Is("live") /\ boot'.at = "active" /\ boot'.todo = Is("live") /\ boot'.seen = {}
      BY <3>1 DEF Is
    <3>3. QED BY <1>r, <1>u, <2>0, <3>1, <3>2 DEF Starting
  <2>2. CASE boot.todo # {}
    <3>1. PICK u \in boot.todo : /\ users' = [users EXCEPT ![u].name = Freed]
                                /\ boot' = [boot EXCEPT !.todo = @ \ {u}]
      BY <1>2, <2>2 DEF FreeDeleted
    <3>2. boot'.at = "soft" /\ boot'.todo = boot.todo \ {u} /\ boot'.seen = boot.seen
      BY <1>b, <2>0, <3>1 DEF Boot
    <3>3. \A v \in User : users'[v].is = users[v].is
      BY <1>b, <3>1 DEF AccountTypeOK, UserRow
    <3>4. Is("deleted")' = Is("deleted")
      BY <3>3 DEF Is
    <3>5. QED BY <1>r, <1>u, <2>0, <3>2, <3>3, <3>4 DEF Starting
  <2>3. QED BY <2>1, <2>2
<1>3. CASE KeepFirst
  <2>1. /\ NextRow \in boot.todo /\ NextRow \in User /\ \A v \in boot.todo : NextRow <= v
        /\ boot.at = "active" /\ UNCHANGED <<used, indexed, owner>>
    BY <1>b, <1>3, Smallest DEF KeepFirst, NextRow
  <2>2. PICK u \in User : u = NextRow
    BY <2>1
  <2>3. CASE users[u].name \in boot.seen
    <3>1. /\ users' = [users EXCEPT ![u].name = Freed, ![u].mail = Freed]
          /\ boot' = [boot EXCEPT !.at = "dup"]
      BY <1>3, <2>2, <2>3 DEF KeepFirst
    <3>2. boot'.at = "dup" /\ boot'.todo = boot.todo /\ boot'.seen = boot.seen
      BY <1>b, <3>1 DEF Boot
    <3>3. users'[u].name = Freed /\ users'[u].mail = Freed /\ \A v \in User : users'[v].is = users[v].is
      BY <3>1 DEF AccountTypeOK, UserRow
    <3>4. Is("live")' = Is("live") /\ NextRow' = u
      BY <2>2, <3>2, <3>3 DEF Is, NextRow
    <3>5. boot.todo \subseteq Is("live") /\ \A n \in boot.seen : owner[n] \notin boot.todo
      BY <2>1 DEF Starting
    <3>6. QED BY <1>r, <1>u, <2>1, <3>2, <3>3, <3>4, <3>5 DEF Starting
  <2>4. CASE users[u].name \notin boot.seen
    <3>1. /\ boot' = [boot EXCEPT !.todo = @ \ {u}, !.seen = @ \cup ({users[u].name} \ {Freed})]
          /\ UNCHANGED users
      BY <1>3, <2>2, <2>4 DEF KeepFirst
    <3>2. /\ boot'.at = "active" /\ boot'.todo = boot.todo \ {u}
          /\ boot'.seen = boot.seen \cup ({users[u].name} \ {Freed})
      BY <1>b, <2>1, <3>1 DEF Boot
    <3>3. Is("live")' = Is("live")
      BY <3>1 DEF Is
    <3>4. ASSUME users[u].name # Freed PROVE owner[users[u].name] \notin boot.todo \ {u}
      <4>1. owner[users[u].name] \in 1..u
        BY <2>1, <2>2, <3>4 DEF Named, HasOwner, Spared, Starting
      <4>2. QED BY <1>b, <2>1, <2>2, <4>1
    <3>5. boot.todo \subseteq Is("live") /\ \A n \in boot.seen : owner[n] \notin boot.todo
      BY <2>1 DEF Starting
    <3>6. QED BY <1>r, <1>u, <2>1, <3>1, <3>2, <3>3, <3>4, <3>5 DEF Starting
  <2>5. QED BY <2>3, <2>4
<1>4. CASE DropDuplicate
  <2>1. /\ NextRow \in boot.todo /\ NextRow \in User /\ boot.at = "dup"
        /\ UNCHANGED <<used, indexed, owner>>
    BY <1>b, <1>4, Smallest DEF DropDuplicate, NextRow, Starting
  <2>2. PICK u \in User : u = NextRow
    BY <2>1
  <2>3. /\ users' = [users EXCEPT ![u].is = "deleted"]
        /\ boot' = [boot EXCEPT !.at = "active", !.todo = @ \ {u}]
    BY <1>4, <2>2 DEF DropDuplicate
  <2>4. boot'.at = "active" /\ boot'.todo = boot.todo \ {u} /\ boot'.seen = boot.seen
    BY <1>b, <2>3 DEF Boot
  <2>5. /\ \A v \in User \ {u} : users'[v] = users[v]
        /\ users[u].is = "live"
    BY <2>1, <2>2, <2>3 DEF AccountTypeOK, Starting, Is
  <2>6. boot.todo \ {u} \subseteq Is("live")'
    BY <1>b, <2>1, <2>5 DEF Starting, Is
  <2>7. \A v \in User : v > used => users'[v].is = "none"
    BY <1>u, <2>5
  <2>8. QED BY <1>r, <2>1, <2>4, <2>6, <2>7 DEF Starting
<1>5. CASE Migrate
  <2>1. /\ boot'.todo = {} /\ boot'.seen = {} /\ boot'.at \in {"admin", "down"}
        /\ boot'.at = "admin" => indexed'
    BY <1>b, <1>5 DEF Migrate, Boot
  <2>2. UNCHANGED <<users, used>>
    BY <1>5 DEF Migrate
  <2>3. QED BY <1>r, <1>u, <2>1, <2>2 DEF Starting
<1>6. CASE InitDefaultAdmin
  <2>1. boot'.at = "serve" /\ boot'.todo = {} /\ boot'.seen = boot.seen /\ indexed
    BY <1>b, <1>6 DEF InitDefaultAdmin, Boot, Starting
  <2>2. \A u \in User : u > used' => users'[u].is = "none"
    <3>1. CASE SameRows
      BY <1>u, <3>1 DEF SameRows, accountRows
    <3>2. CASE Create(AdminName, SeedMail, TRUE)
      BY <1>b, <1>u, <3>2 DEF Create, AccountTypeOK
    <3>3. QED BY <1>6, <3>1, <3>2 DEF InitDefaultAdmin
  <2>3. UNCHANGED indexed
    BY <1>6 DEF InitDefaultAdmin, Create, SameRows, accountRows
  <2>4. QED BY <2>1, <2>2, <2>3 DEF Starting
<1>7. QED BY <1>1, <1>2, <1>3, <1>4, <1>5, <1>6 DEF Repairs

(* What a request holds fits the rows later on too: rows are only added.     *)
LEMMA FitsLater ==
  ASSUME AccountTypeOK, AccountTypeOK', NEW r \in Pending, Fits(r), used' >= used
  PROVE  Fits(r)'
BY UserFacts DEF Fits, AccountTypeOK, Pending

(* What a step of a request leaves the others. *)
LEMMA FitsKept ==
  ASSUME AccountTypeOK, AccountTypeOK', used' >= used, \A s \in Request : Fits(request[s]),
         NEW t \in Request, NEW r \in Pending, Fits(r)', Proceed(t, r)
  PROVE  \A s \in Request : Fits(request[s])'
<1>1. ASSUME NEW s \in Request PROVE Fits(request[s])'
  <2>1. CASE s = t
    BY <2>1 DEF Proceed, AccountTypeOK, Fits
  <2>2. CASE s # t
    <3>1. request'[s] = request[s] /\ request[s] \in Pending
      BY <2>2 DEF Proceed, AccountTypeOK
    <3>2. PICK q \in Pending : q = request[s]
      BY <3>1
    <3>3. Fits(q)'
      BY <3>2, FitsLater
    <3>4. QED BY <3>1, <3>2, <3>3 DEF Fits
  <2>3. QED BY <2>1, <2>2
<1>2. QED BY <1>1

(* What is held after a write of a request fits the rows.                    *)
LEMMA WritesFit ==
  ASSUME AccountTypeOK, AccountTypeOK', used' >= used, \A s \in Request : Fits(request[s]),
         NEW t \in Request, AccountWrites(t)
  PROVE  \A s \in Request : Fits(request[s])'
<1> USE NothingIsPending
<1>0. request[t] \in Pending /\ Fits(request[t]) /\ used \in Nat /\ used' \in Nat
  BY DEF AccountTypeOK
<1>n. Fits(NoRequest)'
  BY <1>0 DEF Fits, NoRequest
<1>1. CASE CreateUser(t)
  <2>1. PICK r \in Pending : r = [NoRequest EXCEPT !.at = "settings", !.user = used + 1]
    BY <1>0, <1>1, Registered
  <2>2. r.at = "settings" /\ r.user = used + 1 /\ used' = used + 1 /\ Proceed(t, r)
    BY <1>1, <2>1 DEF NoRequest, CreateUser, Create
  <2>3. Fits(r)'
    BY <1>0, <2>2 DEF Fits
  <2>4. QED BY <2>2, <2>3, FitsKept
<1>2. CASE Free(t)
  <2>1. PICK r \in Pending : r = [request[t] EXCEPT !.at = "drop"]
    BY <1>0 DEF Pending
  <2>2. r.at = "drop" /\ r.user = request[t].user /\ UNCHANGED used /\ Proceed(t, r)
    BY <1>0, <1>2, <2>1 DEF Pending, Free
  <2>3. Fits(r)'
    BY <1>0, <1>2, <2>2 DEF Fits, Free
  <2>4. QED BY <2>2, <2>3, FitsKept
<1>3. CASE Update(t) \/ DeleteUser(t)
  BY <1>3, <1>n, FitsKept DEF Update, DeleteUser, Answer
<1>4. QED BY <1>1, <1>2, <1>3 DEF AccountWrites

(* Every step keeps the invariant of names: a repair that goes on, fails or  *)
(* starts again at any of its steps, and every request.                      *)
LEMMA NamesStep ==
  ASSUME NamesInv, [AccountNext]_accountVars
  PROVE  NamesInv'
<1> USE NothingIsPending DEF NamesInv
<1>t. AccountTypeOK'
  BY TypeKept
<1>1. CASE UNCHANGED accountVars
  <2>1. UNCHANGED <<users, used, indexed, boot, request, owner>>
    BY <1>1 DEF accountVars, accountRows
  <2>2. Named'
    BY <2>1, SameTable
  <2>3. Starting'
    BY <2>1 DEF Starting, Is, NextRow
  <2>4. QED BY <1>t, <2>1, <2>2, <2>3 DEF Fits
<1> SUFFICES ASSUME AccountNext PROVE NamesInv'
  BY <1>1
<1>n. Fits(NoRequest)' /\ used \in Nat /\ used' \in Nat
  BY <1>t DEF Fits, NoRequest, AccountTypeOK
<1>b. boot \in Boot
  BY DEF AccountTypeOK
<1>2. ASSUME Repairs, UNCHANGED request PROVE NamesInv'
  <2>1. Starting' /\ Named'
    BY <1>t, <1>2, RepairsStart, RepairsName
  <2>2. ASSUME NEW t \in Request PROVE Fits(request[t])'
    <3>1. request'[t] = NoRequest
      BY <1>2 DEF Repairs, Purge, FreeDeleted, KeepFirst, DropDuplicate, Migrate,
                  InitDefaultAdmin, Starting
    <3>2. QED BY <1>n, <3>1 DEF Fits
  <2>3. QED BY <1>t, <2>1, <2>2
<1>3. ASSUME RepairFails, UNCHANGED request PROVE NamesInv'
  <2>1. /\ UNCHANGED <<users, used, indexed, owner>>
        /\ boot.at \in {"purge", "soft", "active", "dup"}
        /\ boot'.at = "migrate" /\ boot'.todo = boot.todo /\ boot'.seen = boot.seen
    BY <1>b, <1>3 DEF RepairFails, accountRows, Boot
  <2>2. Named'
    BY <2>1, SameTable
  <2>3. Starting'
    BY <1>3, <2>1 DEF Starting
  <2>4. \A t \in Request : Fits(request[t])'
    BY <1>3, <2>1 DEF Fits
  <2>5. QED BY <1>t, <2>2, <2>3, <2>4
<1>4. ASSUME StartAgain PROVE NamesInv'
  <2>1. /\ UNCHANGED <<users, used, indexed, owner>>
        /\ boot'.at = "purge" /\ boot'.todo = {} /\ boot'.seen = {}
        /\ \A t \in Request : request'[t] = NoRequest
    BY <1>4 DEF StartAgain, accountRows
  <2>2. Named'
    BY <2>1, SameTable
  <2>3. Starting'
    BY <2>1 DEF Starting
  <2>4. \A t \in Request : Fits(request[t])'
    BY <1>n, <2>1 DEF Fits
  <2>5. QED BY <1>t, <2>2, <2>3, <2>4
<1>5. ASSUME NEW t \in Request, Serving, UNCHANGED boot,
             AccountReads(t) \/ Aside(t) \/ AccountWrites(t) \/ Refuse(t)
      PROVE  NamesInv'
  <2>0. /\ boot.at = "serve" /\ indexed /\ Fits(request[t]) /\ boot.todo = {}
        /\ \A u \in User : u > used => users[u].is = "none"
    BY <1>5 DEF Serving, Starting
  <2>1. CASE AccountWrites(t)
    <3>1. Named' /\ indexed' /\ used' >= used /\ \A u \in User : users'[u].is # users[u].is => u <= used'
      BY <1>t, <1>5, <2>0, <2>1, WritesName
    <3>2. \A s \in Request : Fits(request[s])'
      BY <1>t, <2>1, <3>1, WritesFit
    <3>3. \A u \in User : u > used' => users'[u].is = "none"
      <4>1. ASSUME NEW u \in User, u > used' PROVE users'[u].is = "none"
        <5>1. u \in Nat /\ u > used
          BY <1>n, <3>1, <4>1, UserFacts
        <5>2. users[u].is = "none"
          BY <2>0, <5>1
        <5>3. ~(u <= used')
          BY <1>n, <4>1, <5>1
        <5>4. QED BY <3>1, <5>2, <5>3
      <4>2. QED BY <4>1
    <3>4. Starting'
      BY <1>5, <2>0, <3>1, <3>3 DEF Starting
    <3>5. QED BY <1>t, <3>1, <3>2, <3>4
  <2>2. CASE AccountReads(t) \/ Aside(t) \/ Refuse(t)
    <3>1. UNCHANGED <<users, used, indexed, owner>>
      BY <2>0, <2>2, ReadsMove, AsideMoves DEF SameRows, accountRows, Refuse
    <3>2. Named'
      BY <1>5, <3>1, SameTable
    <3>3. Starting'
      BY <1>5, <2>0, <3>1 DEF Starting
    <3>4. used' >= used
      BY <1>n, <3>1
    <3>5. CASE AccountReads(t)
      <4>1. PICK r \in Pending : Proceed(t, r) /\ Fits(r)
        BY <2>0, <3>5, ReadsMove
      <4>2. Fits(r)'
        BY <1>t, <3>4, <4>1, FitsLater
      <4>3. \A s \in Request : Fits(request[s])'
        BY <1>t, <3>4, <4>1, <4>2, FitsKept
      <4>4. QED BY <1>t, <3>2, <3>3, <4>3
    <3>6. CASE Answer(t)
      <4>1. \A s \in Request : Fits(request[s])'
        BY <1>t, <1>n, <3>4, <3>6, FitsKept DEF Answer
      <4>2. QED BY <1>t, <3>2, <3>3, <4>1
    <3>7. CASE UNCHANGED request
      BY <1>t, <3>1, <3>2, <3>3, <3>7 DEF Fits
    <3>8. QED BY <2>0, <2>2, <3>5, <3>6, <3>7, AsideMoves DEF Refuse
  <2>3. QED BY <1>5, <2>1, <2>2
<1>6. QED BY <1>2, <1>3, <1>4, <1>5, AccountSteps

(* The owner of a name in an old database is a live row with the name, the   *)
(* seed only where no other has it, else the first.                          *)
LEMMA FirstHolderFacts ==
  ASSUME NEW table \in [User -> UserRow], NEW n \in Name
  PROVE  /\ FirstHolder(table, n) \in 0..MaxUser
         /\ FirstHolder(table, n) # 0 =>
              /\ table[FirstHolder(table, n)].is = "live" /\ table[FirstHolder(table, n)].name = n
              /\ table[FirstHolder(table, n)].mail = SeedMail =>
                   \A v \in User : table[v].is = "live" /\ table[v].name = n
                                    => table[v].mail = SeedMail
         /\ \A u \in User : table[u].is = "live" /\ table[u].name = n =>
              /\ FirstHolder(table, n) # 0
              /\ table[u].mail # SeedMail => FirstHolder(table, n) \in 1..u
<1> DEFINE holders == {u \in User : table[u].is = "live" /\ table[u].name = n}
           stay    == {u \in holders : table[u].mail # SeedMail}
<1>0. holders \subseteq User /\ stay \subseteq holders
  OBVIOUS
<1>e. ASSUME NEW T, T \subseteq User, T # {}
      PROVE  Earliest(T) \in T /\ \A v \in T : Earliest(T) \in 1..v
  <2>1. Earliest(T) \in T /\ \A v \in T : Earliest(T) <= v
    BY <1>e, Smallest
  <2>2. PICK h \in User : h = Earliest(T)
    BY <1>e, <2>1
  <2>3. \A v \in User : h <= v => h \in 1..v
    BY DEF User
  <2>4. QED BY <1>e, <2>1, <2>2, <2>3
<1>1. CASE holders = {}
  <2>1. FirstHolder(table, n) = 0
    BY <1>1 DEF FirstHolder
  <2>2. QED BY <1>1, <2>1
<1>2. CASE holders # {} /\ stay = {}
  <2>1. FirstHolder(table, n) = Earliest(holders)
    BY <1>2 DEF FirstHolder
  <2>2. PICK h \in User : h = Earliest(holders) /\ h \in holders
    <3> HIDE DEF holders, stay
    <3>1. QED BY <1>0, <1>2, <1>e
  <2>3. \A v \in holders : table[v].mail = SeedMail
    BY <1>2
  <2>4. h # 0 /\ h \in 0..MaxUser
    BY DEF User
  <2>5. QED BY <2>1, <2>2, <2>3, <2>4
<1>3. CASE stay # {}
  <2>1. FirstHolder(table, n) = Earliest(stay)
    BY <1>3 DEF FirstHolder
  <2>2. PICK h \in User : h = Earliest(stay) /\ h \in stay /\ \A v \in stay : h \in 1..v
    <3> HIDE DEF holders, stay
    <3>1. QED BY <1>0, <1>3, <1>e
  <2>3. h # 0 /\ h \in 0..MaxUser
    BY DEF User
  <2>4. QED BY <2>1, <2>2, <2>3
<1>4. QED BY <1>1, <1>2, <1>3

(* A database of an older version, whatever names and addresses its rows     *)
(* share, is a start.                                                        *)
LEMMA NamesInit == AccountInit => NamesInv
<1> SUFFICES ASSUME AccountInit PROVE NamesInv
  OBVIOUS
<1> USE UserFacts, NothingIsPending
<1>0. /\ used \in 0..MaxLegacy /\ used \in 0..MaxUser /\ indexed = FALSE /\ settings = {}
         /\ session = [u \in User |-> "none"]
      /\ boot = [at |-> "purge", todo |-> {}, seen |-> {}] /\ request = [t \in Request |-> NoRequest]
      /\ served = 0 /\ failures = 0 /\ torn = {} /\ crossed = {} /\ old = Is("deleted")
  BY DEF AccountInit
<1>1. PICK table \in [1..used -> [is : {"live", "deleted"}, name : Name, mail : Mail, admin : BOOLEAN]] :
        /\ users = [u \in User |-> IF u <= used THEN table[u] ELSE NoRow]
        /\ owner = [n \in Name |-> FirstHolder(users, n)]
  BY DEF AccountInit
<1>2. users \in [User -> UserRow]
  <2>1. ASSUME NEW u \in User PROVE (IF u <= used THEN table[u] ELSE NoRow) \in UserRow
    <3>1. CASE u <= used
      <4>1. u \in 1..used
        BY <1>0, <3>1 DEF User
      <4>2. QED BY <1>1, <3>1, <4>1 DEF UserRow
    <3>2. QED BY <1>0, <3>1
  <2>2. QED BY <1>1, <2>1
<1>3. \A n \in Name : owner[n] = FirstHolder(users, n)
  BY <1>1
<1>4. AccountTypeOK
  <2>1. owner \in [Name -> 0..MaxUser]
    BY <1>1, <1>2, FirstHolderFacts
  <2>2. boot \in Boot
    BY <1>0 DEF Boot
  <2>3. QED BY <1>0, <1>2, <2>1, <2>2 DEF AccountTypeOK, Is
<1>5. \A u \in User : u > used => users[u].is = "none"
  BY <1>0, <1>1 DEF NoRow
<1>6. Starting
  BY <1>0, <1>5 DEF Starting
<1>7. Named
  <2>1. \A u \in Is("live") : HasOwner(u)
    <3>1. ASSUME NEW u \in Is("live"), users[u].name # Freed
          PROVE  /\ owner[users[u].name] # 0
                 /\ users[u].mail # SeedMail => owner[users[u].name] \in 1..u
      <4>1. u \in User /\ users[u].is = "live" /\ users[u].name \in Name
        BY <1>2, <3>1 DEF Is, UserRow
      <4>2. QED BY <1>2, <1>3, <3>1, <4>1, FirstHolderFacts
    <3>2. QED BY <1>0, <3>1 DEF HasOwner, Spared
  <2>2. \A n \in Name : IsHolder(n)
    BY <1>2, <1>3, FirstHolderFacts DEF IsHolder, Is
  <2>3. QED BY <1>0, <2>1, <2>2 DEF Named, OneHolder
<1>8. \A t \in Request : Fits(request[t])
  BY <1>0 DEF Fits, NoRequest
<1>9. QED BY <1>4, <1>6, <1>7, <1>8 DEF NamesInv

LEMMA NamesInvariant == AccountSpec => []NamesInv
BY NamesInit, NamesStep, PTL DEF AccountSpec

(* Every variable of the accounts keeps its type, for any number of          *)
(* accounts, rows of an older version, names, addresses and requests at      *)
(* once.                                                                     *)
THEOREM AccountTypeCorrect == AccountSpec => []AccountTypeOK
<1>1. NamesInv => AccountTypeOK
  BY DEF NamesInv
<1>2. QED BY <1>1, NamesInvariant, PTL

(* An account keeps its name: the first live row of an old database that has *)
(* it stays live and keeps it, through a repair that is cut off at any       *)
(* statement and begun again, and through every later request; and once the  *)
(* server serves, no other live account has the name (auth/service.go:66,    *)
(* user/service.go:101).                                                     *)
THEOREM NamesKeptHolds == AccountSpec => []NamesKept
<1>1. NamesInv => NamesKept
  <2> SUFFICES ASSUME NamesInv, NEW n \in Name
               PROVE  /\ owner[n] # 0 => users[owner[n]].is = "live" /\ users[owner[n]].name = n
                      /\ Serving => {u \in Is("live") : users[u].name = n} = {owner[n]} \ {0}
    BY DEF NamesKept
  <2>1. owner[n] # 0 => owner[n] \in User /\ users[owner[n]].is = "live" /\ users[owner[n]].name = n
    BY DEF NamesInv, Named, IsHolder, AccountTypeOK, User
  <2>2. ASSUME Serving, NEW u \in Is("live"), users[u].name = n
        PROVE  owner[n] = u /\ u # 0
    BY <2>2, UserFacts DEF NamesInv, Named, HasOwner, Starting, Spared, Serving, Is
  <2>3. ASSUME Serving, owner[n] # 0 PROVE owner[n] \in Is("live")
    BY <2>1, <2>3 DEF Is
  <2>4. QED BY <2>1, <2>2, <2>3
<1>2. QED BY <1>1, NamesInvariant, PTL

-----------------------------------------------------------------------------
(* Removals. *)
OnlyOne(t) == \A s \in Request \ {t} : request'[s] = request[s]
Drops(t, u) == request[t].at = "drop" /\ request[t].user = u

(* A step of a request leaves a row as it is, and its removals as they are. *)
LEMMA RowLeft ==
  ASSUME AccountTypeOK, AccountTypeOK', boot.at = "serve", UNCHANGED <<boot, old>>,
         NEW u \in User, users'[u] = users[u], FreedAt(u), NEW t \in Request, OnlyOne(t),
         users[u].is = "live" => (Drops(t, u) <=> Drops(t, u)')
  PROVE  FreedAt(u)'
<1>1. IsFreed(u)'
  BY DEF FreedAt, IsFreed
<1>2. ASSUME NEW s \in Request, users[u].is = "live" PROVE Drops(s, u) <=> Drops(s, u)'
  BY <1>2 DEF OnlyOne, Drops
<1>3. InRemoval(u)'
  <2>1. ASSUME users[u].is = "live", users[u].name = Freed PROVE Dropping(u)'
    <3>1. Dropping(u)
      BY <2>1 DEF FreedAt, InRemoval
    <3>2. PICK s \in Request : Drops(s, u)
      BY <3>1 DEF Dropping, Drops
    <3>3. Drops(s, u)'
      BY <1>2, <2>1, <3>2
    <3>4. QED BY <3>3 DEF Dropping, Drops
  <2>2. QED BY <2>1 DEF InRemoval
<1>4. \A s \in Request : Freeing(s, u)'
  <2>1. ASSUME NEW s \in Request, users[u].is = "live", Drops(s, u)'
        PROVE  users[u].name = Freed /\ users[u].mail = Freed
    <3>1. Drops(s, u)
      BY <1>2, <2>1
    <3>2. QED BY <2>1, <3>1 DEF FreedAt, Freeing, Drops
  <2>2. QED BY <2>1 DEF Freeing, Drops
<1>5. QED BY <1>1, <1>3, <1>4 DEF FreedAt

(* The writes of requests keep the invariant of removals: each frees name    *)
(* and address first and deletes next, and an update between the two is told *)
(* by crossed.                                                               *)
LEMMA WritesFree ==
  ASSUME NamesInv, AccountTypeOK', FreedInv, boot.at = "serve", UNCHANGED <<boot, old>>,
         NEW t \in Request, AccountWrites(t)
  PROVE  FreedInv'
<1> USE UserFacts
<1>0. /\ request[t] \in Pending /\ Fits(request[t]) /\ AccountTypeOK
      /\ used \in Nat /\ request \in [Request -> Pending] /\ users \in [User -> UserRow]
  BY DEF NamesInv, AccountTypeOK
<1>1. CASE CreateUser(t)
  <2>1. /\ request[t].name \in Name /\ request[t].mail \in Mail /\ request[t].admin \in BOOLEAN
        /\ request' = [request EXCEPT ![t] = [NoRequest EXCEPT !.at = "settings", !.user = used + 1]]
        /\ Create(request[t].name, request[t].mail, request[t].admin)
    BY <1>0, <1>1, Registered
  <2>2. used + 1 \in User /\ UNCHANGED <<torn, crossed>>
    BY <1>0, <2>1, Created DEF Create
  <2>3. PICK n \in User : n = used + 1
    BY <2>2
  <2>4. /\ users'[n] = [is |-> "live", name |-> request[t].name, mail |-> request[t].mail, admin |-> request[t].admin]
        /\ \A v \in User \ {n} : users'[v] = users[v]
    BY <1>0, <2>1, <2>3 DEF Create
  <2>5. OnlyOne(t) /\ request[t].at = "create" /\ request'[t].at = "settings"
    <3>1. request'[t] = [NoRequest EXCEPT !.at = "settings", !.user = used + 1]
      BY <1>0, <2>1
    <3>2. QED BY <1>0, <1>1, <2>1, <3>1 DEF OnlyOne, CreateUser, NoRequest
  <2>6. FreedAt(n)'
    <3>1. users'[n].is = "live" /\ users'[n].name \in Name
      BY <2>1, <2>4
    <3>2. ASSUME NEW s \in Request PROVE ~Drops(s, n)'
      <4>1. s # t => request[s] \in Pending /\ request[s].user <= used
        BY <1>0 DEF NamesInv, Fits
      <4>2. QED BY <1>0, <2>3, <2>5, <4>1 DEF OnlyOne, Drops, Pending
    <3>3. QED BY <3>1, <3>2 DEF FreedAt, IsFreed, InRemoval, Freeing, Drops
  <2>7. ASSUME NEW u \in User \ (torn \cup crossed), u # n PROVE FreedAt(u)'
    BY <1>0, <2>4, <2>5, <2>7, RowLeft DEF FreedInv, Drops
  <2>8. QED BY <2>2, <2>6, <2>7 DEF FreedInv
<1>2. CASE (Update(t) \/ Free(t) \/ DeleteUser(t)) /\ users[request[t].user].is # "live"
  <2>1. UNCHANGED <<users, torn, crossed>>
    BY <1>2 DEF Update, Free, DeleteUser
  <2>2. OnlyOne(t) /\ (request'[t].at = "drop" => request'[t].user = request[t].user)
    BY <1>0, <1>2 DEF Update, Free, DeleteUser, Answer, Proceed, OnlyOne, Pending, NoRequest
  <2>3. ASSUME NEW u \in User \ (torn \cup crossed) PROVE FreedAt(u)'
    <3>1. users[u].is = "live" => ~Drops(t, u) /\ ~Drops(t, u)'
      BY <1>2, <2>2 DEF Drops
    <3>2. QED BY <1>0, <2>1, <2>2, <3>1, RowLeft DEF FreedInv
  <2>4. QED BY <2>1, <2>3 DEF FreedInv
<1>3. CASE Update(t) /\ users[request[t].user].is = "live"
  <2>0. request[t].user \in User /\ request[t].name \in Name
    BY <1>0, <1>3 DEF Update, Fits, Pending
  <2>1. PICK n \in User : n = request[t].user
    BY <2>0
  <2>2. /\ users' = [users EXCEPT ![n].name = request[t].name, ![n].admin = request[t].admin]
        /\ crossed' = IF Dropping(n) THEN crossed \cup {n} ELSE crossed
        /\ UNCHANGED torn /\ request[t].at = "update" /\ Answer(t)
    BY <1>3, <2>1 DEF Update
  <2>3. /\ users'[n].name = request[t].name /\ users'[n].is = "live"
        /\ \A v \in User \ {n} : users'[v] = users[v]
    BY <1>0, <1>3, <2>1, <2>2 DEF UserRow
  <2>4. OnlyOne(t) /\ request'[t].at = "idle"
    BY <1>0, <2>2 DEF Answer, Proceed, OnlyOne, NoRequest
  <2>5. ASSUME ~Dropping(n) PROVE FreedAt(n)'
    <3>1. \A s \in Request : ~Drops(s, n)'
      BY <2>4, <2>5 DEF OnlyOne, Drops, Dropping
    <3>2. QED BY <2>0, <2>3, <3>1 DEF FreedAt, IsFreed, InRemoval, Freeing, Drops
  <2>6. ASSUME NEW u \in User \ (torn \cup crossed), u # n PROVE FreedAt(u)'
    BY <1>0, <2>2, <2>3, <2>4, <2>6, RowLeft DEF FreedInv, Drops
  <2>7. QED BY <2>2, <2>5, <2>6 DEF FreedInv
<1>4. CASE Free(t) /\ users[request[t].user].is = "live"
  <2>0. request[t].user \in User
    BY <1>0, <1>4 DEF Free, Fits, Pending
  <2>1. PICK n \in User : n = request[t].user
    BY <2>0
  <2>2. /\ users' = [users EXCEPT ![n].name = Freed, ![n].mail = Freed]
        /\ UNCHANGED <<torn, crossed>> /\ request[t].at = "free"
        /\ request' = [request EXCEPT ![t] = [request[t] EXCEPT !.at = "drop"]]
    BY <1>4, <2>1 DEF Free, Proceed
  <2>3. /\ users'[n].name = Freed /\ users'[n].mail = Freed /\ users'[n].is = "live"
        /\ \A v \in User \ {n} : users'[v] = users[v]
    BY <1>0, <1>4, <2>1, <2>2 DEF UserRow
  <2>4. OnlyOne(t) /\ request'[t].at = "drop" /\ request'[t].user = n
    BY <1>0, <2>1, <2>2 DEF OnlyOne, Pending
  <2>5. FreedAt(n)'
    <3>1. Dropping(n)'
      BY <2>4 DEF Dropping
    <3>2. QED BY <2>3, <3>1 DEF FreedAt, IsFreed, InRemoval, Freeing
  <2>6. ASSUME NEW u \in User \ (torn \cup crossed), u # n PROVE FreedAt(u)'
    BY <1>0, <2>2, <2>3, <2>4, <2>6, RowLeft DEF FreedInv, Drops
  <2>7. QED BY <2>2, <2>5, <2>6 DEF FreedInv
<1>5. CASE DeleteUser(t) /\ users[request[t].user].is = "live"
  <2>0. request[t].user \in User
    BY <1>0, <1>5 DEF DeleteUser, Fits, Pending
  <2>1. PICK n \in User : n = request[t].user
    BY <2>0
  <2>2. /\ users' = [users EXCEPT ![n].is = "deleted"]
        /\ UNCHANGED <<torn, crossed>> /\ request[t].at = "drop" /\ Answer(t)
    BY <1>5, <2>1 DEF DeleteUser
  <2>3. /\ users'[n].name = users[n].name /\ users'[n].mail = users[n].mail /\ users'[n].is = "deleted"
        /\ \A v \in User \ {n} : users'[v] = users[v]
    BY <1>0, <1>5, <2>1, <2>2 DEF UserRow
  <2>4. OnlyOne(t) /\ request'[t].at = "idle"
    BY <1>0, <2>2 DEF Answer, Proceed, OnlyOne, NoRequest
  <2>5. ASSUME n \notin torn \cup crossed PROVE FreedAt(n)'
    <3>1. users[n].name = Freed /\ users[n].mail = Freed
      BY <1>5, <2>1, <2>2, <2>5 DEF FreedInv, FreedAt, Freeing
    <3>2. QED BY <2>3, <3>1 DEF FreedAt, IsFreed, InRemoval, Freeing
  <2>6. ASSUME NEW u \in User \ (torn \cup crossed), u # n PROVE FreedAt(u)'
    <3>1. ~Drops(t, u) /\ ~Drops(t, u)'
      BY <2>1, <2>4, <2>6 DEF Drops
    <3>2. QED BY <1>0, <2>3, <2>4, <2>6, <3>1, RowLeft DEF FreedInv
  <2>7. QED BY <2>2, <2>5, <2>6 DEF FreedInv
<1>6. QED BY <1>1, <1>2, <1>3, <1>4, <1>5 DEF AccountWrites

(* The steps of the repair keep the invariant of removals: a duplicate is    *)
(* deleted only after its name and address are freed.                        *)
LEMMA RepairsFree ==
  ASSUME NamesInv, AccountTypeOK', FreedInv, Repairs, UNCHANGED <<request, old>>
  PROVE  FreedInv'
<1> USE UserFacts
<1>0. /\ boot \in Boot /\ boot.todo \subseteq User /\ used \in Nat /\ users \in [User -> UserRow]
      /\ Starting /\ AccountTypeOK
  BY DEF NamesInv, AccountTypeOK, Boot
<1>r. boot.at # "serve" /\ \A t \in Request : request[t] = NoRequest /\ request'[t] = NoRequest
  BY <1>0 DEF Repairs, Purge, FreeDeleted, KeepFirst, DropDuplicate, Migrate, InitDefaultAdmin, Starting
<1>d. /\ \A u : ~Dropping(u) /\ ~Dropping(u)'
      /\ \A t \in Request, u \in User : Freeing(t, u)'
  BY <1>r DEF Dropping, Freeing, NoRequest
<1>f. /\ \A u \in User \ (torn \cup crossed) : IsFreed(u)
      /\ \A u \in User \ (torn \cup crossed) : users[u].is = "live" /\ users[u].name = Freed
           => boot.at = "dup" /\ u = NextRow
  BY <1>d DEF FreedInv, FreedAt, InRemoval
<1>g. ASSUME UNCHANGED <<torn, crossed>>,
             \A u \in User \ (torn \cup crossed) : IsFreed(u)' /\ InRemoval(u)'
      PROVE  FreedInv'
  BY <1>d, <1>g DEF FreedInv, FreedAt
<1>1. CASE Purge
  <2> DEFINE seed == {u \in InTable : users[u].mail = SeedMail}
             left == {u \in Is("deleted") \ seed : users[u].name # Freed}
  <2>1. /\ users' = [u \in User |-> IF u \in seed THEN [NoRow EXCEPT !.is = "purged"] ELSE users[u]]
        /\ boot' = [boot EXCEPT !.at = "soft", !.todo = left] /\ boot.at = "purge"
        /\ UNCHANGED <<torn, crossed>>
    BY <1>1 DEF Purge
  <2>2. boot'.at = "soft" /\ boot'.todo = left
    BY <1>0, <2>1 DEF Boot
  <2>3. ASSUME NEW u \in User \ (torn \cup crossed) PROVE IsFreed(u)' /\ InRemoval(u)'
    <3>1. CASE u \in seed
      <4>1. users'[u].is = "purged"
        BY <2>1, <3>1 DEF NoRow
      <4>2. QED BY <4>1 DEF IsFreed, InRemoval
    <3>2. CASE u \notin seed
      <4>1. users'[u] = users[u]
        BY <2>1, <3>2
      <4>2. users[u].is = "deleted" /\ users[u].name # Freed => u \in left
        BY <3>2 DEF Is
      <4> HIDE DEF left
      <4>3. IsFreed(u)'
        BY <1>f, <2>2, <4>1, <4>2 DEF IsFreed
      <4>4. InRemoval(u)'
        BY <1>f, <2>1, <4>1 DEF InRemoval
      <4>5. QED BY <4>3, <4>4
    <3>3. QED BY <3>1, <3>2
  <2>4. QED BY <1>g, <2>1, <2>3
<1>2. CASE FreeDeleted
  <2>0. boot.at = "soft" /\ UNCHANGED <<torn, crossed>>
    BY <1>2 DEF FreeDeleted
  <2>1. CASE boot.todo = {}
    <3>1. boot' = [at |-> "active", todo |-> Is("live"), seen |-> {}] /\ UNCHANGED users
      BY <1>2, <2>1 DEF FreeDeleted
    <3>2. \A u \in User \ (torn \cup crossed) : IsFreed(u)' /\ InRemoval(u)'
      BY <1>f, <2>0, <2>1, <3>1 DEF IsFreed, InRemoval
    <3>3. QED BY <1>g, <2>0, <3>2
  <2>2. CASE boot.todo # {}
    <3>1. PICK n \in boot.todo : /\ users' = [users EXCEPT ![n].name = Freed]
                                /\ boot' = [boot EXCEPT !.todo = @ \ {n}]
      BY <1>2, <2>2 DEF FreeDeleted
    <3>2. boot'.at = "soft" /\ boot'.todo = boot.todo \ {n}
      BY <1>0, <2>0, <3>1 DEF Boot
    <3>3. n \in User /\ users[n].is = "deleted"
      BY <1>0, <2>0 DEF Starting, Is
    <3>4. /\ users'[n].name = Freed /\ users'[n].mail = users[n].mail /\ users'[n].is = "deleted"
          /\ \A v \in User \ {n} : users'[v] = users[v]
      BY <1>0, <3>1, <3>3 DEF UserRow
    <3>5. ASSUME NEW u \in User \ (torn \cup crossed) PROVE IsFreed(u)' /\ InRemoval(u)'
      <4>1. CASE u = n
        BY <1>f, <3>3, <3>4, <4>1 DEF IsFreed, InRemoval
      <4>2. CASE u # n
        BY <1>f, <2>0, <3>2, <3>4, <4>2 DEF IsFreed, InRemoval
      <4>3. QED BY <4>1, <4>2
    <3>6. QED BY <1>g, <2>0, <3>5
  <2>3. QED BY <2>1, <2>2
<1>3. CASE KeepFirst
  <2>1. /\ NextRow \in User /\ boot.at = "active" /\ UNCHANGED <<torn, crossed>>
    BY <1>0, <1>3, Smallest DEF KeepFirst, NextRow
  <2>2. PICK n \in User : n = NextRow
    BY <2>1
  <2>3. CASE users[n].name \in boot.seen
    <3>1. /\ users' = [users EXCEPT ![n].name = Freed, ![n].mail = Freed]
          /\ boot' = [boot EXCEPT !.at = "dup"]
      BY <1>3, <2>2, <2>3 DEF KeepFirst
    <3>2. boot'.at = "dup" /\ boot'.todo = boot.todo
      BY <1>0, <3>1 DEF Boot
    <3>3. NextRow' = n
      BY <2>2, <3>2 DEF NextRow
    <3>4. /\ users'[n].name = Freed /\ users'[n].mail = Freed
          /\ \A v \in User \ {n} : users'[v] = users[v]
      BY <1>0, <3>1 DEF UserRow
    <3>5. ASSUME NEW u \in User \ (torn \cup crossed) PROVE IsFreed(u)' /\ InRemoval(u)'
      <4>1. CASE u = n
        BY <3>2, <3>3, <3>4, <4>1 DEF IsFreed, InRemoval
      <4>2. CASE u # n
        BY <1>f, <2>1, <3>4, <4>2 DEF IsFreed, InRemoval
      <4>3. QED BY <4>1, <4>2
    <3>6. QED BY <1>g, <2>1, <3>5
  <2>4. CASE users[n].name \notin boot.seen
    <3>1. boot'.at = "active" /\ UNCHANGED users
      BY <1>0, <1>3, <2>1, <2>2, <2>4 DEF KeepFirst, Boot
    <3>2. \A u \in User \ (torn \cup crossed) : IsFreed(u)' /\ InRemoval(u)'
      BY <1>f, <2>1, <3>1 DEF IsFreed, InRemoval
    <3>3. QED BY <1>g, <2>1, <3>2
  <2>5. QED BY <2>3, <2>4
<1>4. CASE DropDuplicate
  <2>1. /\ NextRow \in User /\ boot.at = "dup" /\ UNCHANGED <<torn, crossed>>
        /\ users[NextRow].name = Freed /\ users[NextRow].mail = Freed
    BY <1>0, <1>4, Smallest DEF DropDuplicate, NextRow, Starting
  <2>2. PICK n \in User : n = NextRow
    BY <2>1
  <2>3. /\ users' = [users EXCEPT ![n].is = "deleted"]
        /\ boot' = [boot EXCEPT !.at = "active", !.todo = @ \ {n}]
    BY <1>4, <2>2 DEF DropDuplicate
  <2>4. boot'.at = "active"
    BY <1>0, <2>3 DEF Boot
  <2>5. /\ users'[n].name = Freed /\ users'[n].mail = Freed /\ users'[n].is = "deleted"
        /\ \A v \in User \ {n} : users'[v] = users[v]
    BY <1>0, <2>1, <2>2, <2>3 DEF UserRow
  <2>6. ASSUME NEW u \in User \ (torn \cup crossed) PROVE IsFreed(u)' /\ InRemoval(u)'
    <3>1. CASE u = n
      BY <2>5, <3>1 DEF IsFreed, InRemoval
    <3>2. CASE u # n
      BY <1>f, <2>1, <2>2, <2>5, <3>2 DEF IsFreed, InRemoval
    <3>3. QED BY <3>1, <3>2
  <2>7. QED BY <1>g, <2>1, <2>6
<1>5. CASE Migrate
  <2>1. boot.at \in {"migrate", "active"} /\ UNCHANGED <<users, torn, crossed>>
    BY <1>5 DEF Migrate
  <2>2. \A u \in User \ (torn \cup crossed) : IsFreed(u)' /\ InRemoval(u)'
    BY <1>f, <2>1 DEF IsFreed, InRemoval
  <2>3. QED BY <1>g, <2>1, <2>2
<1>6. CASE InitDefaultAdmin
  <2>1. boot.at = "admin" /\ UNCHANGED <<torn, crossed>>
    BY <1>6 DEF InitDefaultAdmin, Create, SameRows
  <2>2. ASSUME NEW u \in User
        PROVE  users'[u] = users[u] \/ (users'[u].is = "live" /\ users'[u].name = AdminName)
    <3>1. CASE SameRows
      BY <3>1 DEF SameRows, accountRows
    <3>2. CASE Create(AdminName, SeedMail, TRUE)
      <4>1. users' = [users EXCEPT ![used + 1] = [is |-> "live", name |-> AdminName, mail |-> SeedMail,
                                                  admin |-> TRUE]]
        BY <3>2 DEF Create
      <4>2. CASE u = used + 1
        BY <1>0, <4>1, <4>2
      <4>3. CASE u # used + 1
        BY <1>0, <4>1, <4>3
      <4>4. QED BY <4>2, <4>3
    <3>3. QED BY <1>6, <3>1, <3>2 DEF InitDefaultAdmin
  <2>3. \A u \in User \ (torn \cup crossed) : IsFreed(u)' /\ InRemoval(u)'
    BY <1>f, <2>1, <2>2 DEF IsFreed, InRemoval
  <2>4. QED BY <1>g, <2>1, <2>3
<1>7. QED BY <1>1, <1>2, <1>3, <1>4, <1>5, <1>6 DEF Repairs

(* Every step keeps the invariant of removals.                               *)
LEMMA FreedStep ==
  ASSUME NamesInv, FreedInv, [AccountNext]_accountVars
  PROVE  FreedInv'
<1>t. AccountTypeOK' /\ AccountTypeOK /\ Starting /\ \A s \in Request : Fits(request[s])
  BY TypeKept DEF NamesInv
<1>1. CASE UNCHANGED accountVars
  <2>1. UNCHANGED <<users, boot, request, old, torn, crossed>>
    BY <1>1 DEF accountVars, accountRows
  <2>2. QED BY <2>1 DEF FreedInv, FreedAt, IsFreed, InRemoval, Freeing, Dropping, NextRow
<1> SUFFICES ASSUME AccountNext PROVE FreedInv'
  BY <1>1
<1>o. UNCHANGED old
  BY AccountSteps
<1>2. ASSUME Repairs, UNCHANGED request PROVE FreedInv'
  BY <1>o, <1>t, <1>2, RepairsFree
<1>3. ASSUME RepairFails, UNCHANGED request PROVE FreedInv'
  <2>1. /\ UNCHANGED users /\ boot'.at = "migrate"
        /\ torn' = IF boot.at = "dup" THEN torn \cup {NextRow} ELSE torn
        /\ crossed' = crossed \cup {u \in Is("deleted") : users[u].name # Freed}
    BY <1>3, <1>t DEF RepairFails, accountRows, AccountTypeOK, Boot
  <2>2. \A u : Dropping(u) <=> Dropping(u)'
    BY <1>3 DEF Dropping
  <2>3. ASSUME NEW u \in User \ (torn' \cup crossed') PROVE FreedAt(u)'
    <3>1. u \in User \ (torn \cup crossed) /\ FreedAt(u)
      BY <2>1 DEF FreedInv
    <3>2. IsFreed(u)'
      BY <1>o, <2>1, <2>3, <3>1 DEF FreedAt, IsFreed, Is
    <3>3. InRemoval(u)'
      BY <2>1, <2>2, <2>3, <3>1 DEF FreedAt, InRemoval
    <3>4. \A s \in Request : Freeing(s, u)'
      BY <1>3, <2>1, <3>1 DEF FreedAt, Freeing
    <3>5. QED BY <3>2, <3>3, <3>4 DEF FreedAt
  <2>4. QED BY <2>3 DEF FreedInv
<1>4. ASSUME StartAgain PROVE FreedInv'
  <2>1. /\ UNCHANGED <<users, crossed>> /\ boot'.at = "purge"
        /\ torn' = torn \cup {u \in Is("live") : Dropping(u)}
                       \cup (IF boot.at = "dup" THEN {NextRow} ELSE {})
        /\ \A t \in Request : request'[t] = NoRequest
    BY <1>4 DEF StartAgain, accountRows
  <2>2. ASSUME NEW u \in User \ (torn' \cup crossed') PROVE FreedAt(u)'
    <3>1. u \in User \ (torn \cup crossed) /\ FreedAt(u)
      BY <2>1, <2>2 DEF FreedInv
    <3>2. IsFreed(u)'
      BY <1>o, <2>1, <3>1 DEF FreedAt, IsFreed
    <3>3. InRemoval(u)'
      BY <2>1, <2>2, <3>1 DEF FreedAt, InRemoval, Is
    <3>4. \A s \in Request : Freeing(s, u)'
      BY <2>1 DEF Freeing, NoRequest
    <3>5. QED BY <3>2, <3>3, <3>4 DEF FreedAt
  <2>3. QED BY <2>2 DEF FreedInv
<1>5. ASSUME NEW t \in Request, Serving, UNCHANGED boot,
             AccountReads(t) \/ Aside(t) \/ AccountWrites(t) \/ Refuse(t)
      PROVE  FreedInv'
  <2>0. /\ boot.at = "serve" /\ Fits(request[t]) /\ UNCHANGED <<boot, old>>
        /\ \A u \in User : u > used => users[u].is = "none"
    BY <1>t, <1>o, <1>5 DEF Serving, Starting
  <2>1. CASE AccountWrites(t)
    BY <1>t, <2>0, <2>1, WritesFree
  <2>2. CASE AccountReads(t) \/ Aside(t) \/ Refuse(t)
    <3>1. /\ UNCHANGED <<users, crossed>> /\ OnlyOne(t)
          /\ torn' = torn \/ Refuse(t)
          /\ \/ (request'[t].at # "drop" /\ (request[t].at # "drop" \/ Refuse(t)))
             \/ request' = request
      <4>1. CASE AccountReads(t)
        <5>1. PICK r \in Pending : Proceed(t, r) /\ r.at # "drop" /\ request[t].at # "drop"
          BY <1>t, <2>0, <4>1, ReadsMove
        <5>2. SameRows
          BY <1>t, <2>0, <4>1, ReadsMove
        <5>3. QED BY <1>t, <5>1, <5>2 DEF Proceed, OnlyOne, SameRows, accountRows, AccountTypeOK
      <4>2. CASE Aside(t)
        <5>1. /\ UNCHANGED <<users, crossed, torn>>
              /\ (Answer(t) /\ request[t].at # "drop") \/ UNCHANGED request
          BY <1>t, <2>0, <4>2, AsideMoves
        <5>2. QED BY <1>t, <5>1 DEF Answer, Proceed, OnlyOne, NoRequest, AccountTypeOK
      <4>3. CASE Refuse(t)
        BY <1>t, <4>3 DEF Refuse, Answer, Proceed, OnlyOne, NoRequest, accountRows, AccountTypeOK
      <4>4. QED BY <2>2, <4>1, <4>2, <4>3
    <3>2. ASSUME NEW u \in User \ (torn' \cup crossed') PROVE FreedAt(u)'
      <4>1. u \in User \ (torn \cup crossed) /\ FreedAt(u)
        BY <3>1, <3>2 DEF FreedInv, Refuse
      <4>2. users[u].is = "live" => (Drops(t, u) <=> Drops(t, u)')
        BY <3>1, <3>2 DEF Drops, Refuse
      <4>3. QED BY <1>t, <2>0, <3>1, <4>1, <4>2, RowLeft
    <3>3. QED BY <3>2 DEF FreedInv
  <2>3. QED BY <1>5, <2>1, <2>2
<1>6. QED BY <1>2, <1>3, <1>4, <1>5, AccountSteps

(* Removing an account frees its name and its address for others, and a live *)
(* account keeps both, unless the removal was cut off between its statements *)
(* or an update came between them (user/service.go:199).                     *)
THEOREM RemovedAreFreedHolds == AccountSpec => []RemovedAreFreed
<1>1. AccountInit => FreedInv
  <2>1. ASSUME AccountInit PROVE FreedInv
    <3>1. /\ boot = [at |-> "purge", todo |-> {}, seen |-> {}] /\ request = [t \in Request |-> NoRequest]
          /\ old = Is("deleted")
      BY <2>1 DEF AccountInit
    <3>2. \A u \in User : users[u].is = "live" => users[u].name # Freed
      <4>1. PICK table \in [1..used -> [is : {"live", "deleted"}, name : Name, mail : Mail, admin : BOOLEAN]] :
              users = [u \in User |-> IF u <= used THEN table[u] ELSE NoRow]
        BY <2>1 DEF AccountInit
      <4>2. used \in Nat
        BY <2>1 DEF AccountInit
      <4>3. ASSUME NEW u \in User, users[u].is = "live" PROVE users[u].name \in Name
        <5>1. u <= used /\ u \in 1..used
          BY <4>1, <4>2, <4>3 DEF NoRow, User
        <5>2. QED BY <4>1, <5>1
      <4>4. QED BY <4>3
    <3>3. \A u \in User : IsFreed(u) /\ InRemoval(u)
      BY <3>1, <3>2 DEF IsFreed, InRemoval, Is
    <3>4. \A t \in Request, u \in User : Freeing(t, u)
      BY <3>1 DEF Freeing, NoRequest
    <3>5. QED BY <3>3, <3>4 DEF FreedInv, FreedAt
  <2>2. QED BY <2>1
<1>2. NamesInv /\ FreedInv /\ [AccountNext]_accountVars => FreedInv'
  BY FreedStep
<1>3. FreedInv => RemovedAreFreed
  BY DEF FreedInv, FreedAt, IsFreed, InRemoval, RemovedAreFreed, Serving
<1>4. QED BY <1>1, <1>2, <1>3, NamesInvariant, PTL DEF AccountSpec

HIDE AccountAssumption

-----------------------------------------------------------------------------
(* Roles.                                                                    *)

USE RoleAssumption

(* The steps of one goroutine. *)
LEMMA RoleSteps ==
  ASSUME RoleNext
  PROVE  \E t \in Guard :
           \/ CreatePermission(t) \/ BeginDeletePermission(t) \/ BeginCreateRole(t)
           \/ BeginOnRole(t) \/ BeginAssign(t)
           \/ DeletePermission(t) \/ CreateRole(t) \/ ClearGrants(t) \/ AddGrant(t)
           \/ DeleteRole(t) \/ AssignRole(t) \/ BreakOff(t)
BY DEF RoleNext, Enter, Advance

(* What a request holds that has read a live role: one that exists, and        *)
(* permissions that exist.                                                     *)
Served(t) ==
  /\ call[t].at \in {"exists", "clear", "add", "drop"} => call[t].role \in Role
  /\ call[t].at \in {"clear", "add", "drop"} => roles[call[t].role] # "none"
  /\ call[t].at = "assign" => call[t].role \in Role \cup {Admin}
  /\ call[t].at \in {"exists", "clear", "add"} => call[t].new \subseteq Made
  /\ call[t].at = "clear" => call[t].todo = call[t].new

(* Edit t has inserted all but its todo list. *)
Inserted(t, r) ==
  call[t].at = "add" /\ call[t].role = r
     => call[t].todo \subseteq call[t].new /\ grants[r] = call[t].new \ call[t].todo

Alone(t, s, r) ==
  /\ call[t].at = "add" /\ call[t].role = r
  /\ call[s].at = "add" /\ call[s].role = r
  => t = s

Settled(r) ==
  (\A t \in Guard : ~(call[t].at = "add" /\ call[t].role = r)) => grants[r] = asked[r]

Existing(r) ==
  /\ asked[r] \subseteq Made
  /\ roles[r] = "none" => grants[r] = {} /\ asked[r] = {}

GrantsInv ==
  /\ RoleTypeOK
  /\ \A t \in Guard : Served(t)
  /\ \A r \in Role : Existing(r)
  /\ \A r \in Role \ tangled :
       /\ Settled(r)
       /\ \A t \in Guard : Inserted(t, r)
       /\ \A t, s \in Guard : Alone(t, s, r)

-----------------------------------------------------------------------------
(* A goroutine's record is replaced by another. *)
LEMMA BeginType ==
  ASSUME RoleTypeOK, NEW t \in Guard, NEW e \in Call, Begins(t, e)
  PROVE  call' \in [Guard -> Call]
BY DEF RoleTypeOK, Begins

LEMMA EndType ==
  ASSUME RoleTypeOK, NEW t \in Guard, Ends(t)
  PROVE  call' \in [Guard -> Call]
BY DEF RoleTypeOK, Ends, NoCall, Call

LEMMA TypeStep ==
  ASSUME RoleTypeOK, \A t \in Guard : Served(t), [RoleNext]_roleVars
  PROVE  RoleTypeOK'
<1> USE DEF Sound, Faulty
<1>1. ASSUME NEW t \in Guard, Enter(t) PROVE RoleTypeOK'
  <2>0. received' \in Nat
    BY <1>1 DEF Enter, RoleTypeOK
  <2>1. CASE CreatePermission(t)
    BY <2>0, <2>1 DEF CreatePermission, RoleTypeOK
  <2>2. CASE BeginDeletePermission(t)
    <3>1. PICK p \in Permission : Begins(t, [NoCall EXCEPT !.at = "dropPerm", !.todo = {p}])
      BY <2>2 DEF BeginDeletePermission
    <3>2. [NoCall EXCEPT !.at = "dropPerm", !.todo = {p}] \in Call
      BY DEF NoCall, Call
    <3>3. call' \in [Guard -> Call]
      BY <3>1, <3>2, BeginType
    <3>4. QED BY <2>0, <2>2, <3>3 DEF BeginDeletePermission, RoleTypeOK
  <2>3. CASE BeginCreateRole(t)
    <3>1. PICK r \in Role, new \in SUBSET Made :
            Begins(t, [NoCall EXCEPT !.at = "exists", !.role = r, !.new = new])
      BY <2>3 DEF BeginCreateRole
    <3>2. [NoCall EXCEPT !.at = "exists", !.role = r, !.new = new] \in Call
      BY DEF NoCall, Call, Made
    <3>3. call' \in [Guard -> Call]
      BY <3>1, <3>2, BeginType
    <3>4. QED BY <2>0, <2>3, <3>3 DEF BeginCreateRole, RoleTypeOK
  <2>4. CASE BeginOnRole(t)
    <3>1. \E e \in Call : Begins(t, e)
      BY <2>4 DEF BeginOnRole, NoCall, Call, Made
    <3>2. call' \in [Guard -> Call]
      BY <3>1, BeginType
    <3>3. QED BY <2>0, <2>4, <3>2 DEF BeginOnRole, RoleTypeOK
  <2>5. CASE BeginAssign(t)
    <3>1. PICK r \in Role \cup {Admin} : Begins(t, [NoCall EXCEPT !.at = "assign", !.role = r])
      BY <2>5 DEF BeginAssign
    <3>2. [NoCall EXCEPT !.at = "assign", !.role = r] \in Call
      BY DEF NoCall, Call
    <3>3. call' \in [Guard -> Call]
      BY <3>1, <3>2, BeginType
    <3>4. QED BY <2>0, <2>5, <3>3 DEF BeginAssign, RoleTypeOK
  <2>6. QED BY <1>1, <2>1, <2>2, <2>3, <2>4, <2>5 DEF Enter
<1>2. ASSUME NEW t \in Guard, Advance(t) PROVE RoleTypeOK'
  <2>0. received' = received
    BY <1>2 DEF Advance
  <2>e. call[t] \in Call
    BY DEF RoleTypeOK
  <2>1. CASE DeletePermission(t)
    BY <2>0, <2>1, EndType DEF DeletePermission, RoleTypeOK
  <2>2. CASE CreateRole(t)
    <3>1. call[t].role \in Role /\ call[t].new \in SUBSET Permission
      BY <2>2, <2>e DEF CreateRole, Served, Call
    <3>2. QED BY <2>0, <2>2, <3>1, EndType DEF CreateRole, RoleTypeOK
  <2>3. CASE ClearGrants(t)
    <3>1. call[t].role \in Role
      BY <2>3 DEF ClearGrants, Served
    <3>2. [call[t] EXCEPT !.at = "add"] \in Call
      BY <2>e DEF Call
    <3>3. call' \in [Guard -> Call]
      BY <2>3, <3>2 DEF ClearGrants, Goes, RoleTypeOK
    <3>4. QED BY <2>0, <2>3, <3>1, <3>3 DEF ClearGrants, RoleTypeOK
  <2>4. CASE AddGrant(t)
    <3>1. call[t].role \in Role /\ call[t].new \in SUBSET Permission
      BY <2>4, <2>e DEF AddGrant, Served, Call
    <3>2. CASE call[t].todo = {}
      BY <2>0, <2>4, <3>1, <3>2, EndType DEF AddGrant, RoleTypeOK
    <3>3. CASE call[t].todo # {}
      <4>1. PICK p \in call[t].todo : /\ grants' = [grants EXCEPT ![call[t].role] = @ \cup {p}]
                                      /\ call' = [call EXCEPT ![t].todo = @ \ {p}]
        BY <2>4, <3>3 DEF AddGrant
      <4>2. p \in Permission
        BY <2>e DEF Call
      <4>3. [call[t] EXCEPT !.todo = @ \ {p}] \in Call
        BY <2>e DEF Call
      <4>4. call' \in [Guard -> Call]
        BY <4>1, <4>3 DEF RoleTypeOK
      <4>5. grants' \in [Role -> SUBSET Permission]
        BY <4>1, <4>2, <3>1 DEF RoleTypeOK
      <4>6. QED BY <2>0, <2>4, <3>3, <4>4, <4>5 DEF AddGrant, RoleTypeOK
    <3>4. QED BY <3>2, <3>3
  <2>5. CASE DeleteRole(t)
    BY <2>0, <2>5, EndType DEF DeleteRole, RoleTypeOK
  <2>6. CASE AssignRole(t)
    <3>1. call[t].role \in Role \cup {Admin}
      BY <2>6 DEF AssignRole, Served
    <3>2. QED BY <2>0, <2>6, <3>1, EndType DEF AssignRole, RoleTypeOK
  <2>7. CASE BreakOff(t)
    <3>1. call[t].at = "add" => call[t].role \in Role
      BY DEF Served
    <3>2. QED BY <2>0, <2>7, <3>1, EndType DEF BreakOff, RoleTypeOK
  <2>8. QED BY <1>2, <2>1, <2>2, <2>3, <2>4, <2>5, <2>6, <2>7 DEF Advance
<1>3. CASE UNCHANGED roleVars
  BY <1>3 DEF roleVars, RoleTypeOK
<1>4. QED BY <1>1, <1>2, <1>3 DEF RoleNext

-----------------------------------------------------------------------------
(* The rows only ever grow: what exists goes on to exist, if deleted.          *)
LEMMA RowsStay ==
  ASSUME RoleTypeOK, \A t \in Guard : Served(t), RoleNext
  PROVE  /\ Made \subseteq Made'
         /\ \A r \in Role : roles[r] # "none" => roles'[r] # "none"
<1>1. PICK t \in Guard :
           \/ CreatePermission(t) \/ BeginDeletePermission(t) \/ BeginCreateRole(t)
           \/ BeginOnRole(t) \/ BeginAssign(t)
           \/ DeletePermission(t) \/ CreateRole(t) \/ ClearGrants(t) \/ AddGrant(t)
           \/ DeleteRole(t) \/ AssignRole(t) \/ BreakOff(t)
  BY RoleSteps
<1>2. Made \subseteq Made'
  <2> SUFFICES ASSUME NEW p \in Permission, perms[p] # "none" PROVE perms'[p] # "none"
    BY DEF Made
  <2> QED
    BY <1>1 DEF RoleTypeOK, CreatePermission, BeginDeletePermission, BeginCreateRole,
       BeginOnRole, BeginAssign, DeletePermission, CreateRole, ClearGrants, AddGrant,
       DeleteRole, AssignRole, BreakOff
<1>3. ASSUME NEW r \in Role, roles[r] # "none" PROVE roles'[r] # "none"
  BY <1>1, <1>3 DEF RoleTypeOK, CreatePermission, BeginDeletePermission, BeginCreateRole,
       BeginOnRole, BeginAssign, DeletePermission, CreateRole, ClearGrants, AddGrant,
       DeleteRole, AssignRole, BreakOff
<1>4. QED BY <1>2, <1>3

(* A request goes on holding what it has read. *)
LEMMA ServedStep ==
  ASSUME GrantsInv, RoleNext
  PROVE  \A s \in Guard : Served(s)'
<1> SUFFICES ASSUME NEW s \in Guard PROVE Served(s)'
  OBVIOUS
<1>1. PICK t \in Guard :
           \/ CreatePermission(t) \/ BeginDeletePermission(t) \/ BeginCreateRole(t)
           \/ BeginOnRole(t) \/ BeginAssign(t)
           \/ DeletePermission(t) \/ CreateRole(t) \/ ClearGrants(t) \/ AddGrant(t)
           \/ DeleteRole(t) \/ AssignRole(t) \/ BreakOff(t)
  BY RoleSteps
<1>2. RoleTypeOK /\ Served(s) /\ Served(t)
  BY DEF GrantsInv
<1>3. /\ Made \subseteq Made'
      /\ \A r \in Role : roles[r] # "none" => roles'[r] # "none"
  BY RowsStay DEF GrantsInv
<1>4. CASE call'[s] = call[s]
  BY <1>2, <1>3, <1>4 DEF Served
<1>5. CASE call'[s] # call[s]
  <2>1. call'[s].at \notin {"exists", "clear", "add", "drop", "assign"} => Served(s)'
    BY DEF Served
  <2>2. CASE BeginCreateRole(t)
    <3>1. s = t /\ call'[s].at = "exists" /\ call'[s].role \in Role /\ call'[s].new \subseteq Made
      BY <1>2, <1>5, <2>2 DEF BeginCreateRole, Begins, RoleTypeOK, NoCall
    <3>2. QED BY <1>3, <3>1 DEF Served
  <2>3. CASE BeginOnRole(t)
    <3>1. PICK r \in Role :
            /\ roles[r] = "live"
            /\ \/ \E new \in (SUBSET Made) \ {{}} :
                    Begins(t, [at |-> "clear", role |-> r, todo |-> new, new |-> new])
               \/ Begins(t, [NoCall EXCEPT !.at = "drop", !.role = r])
      BY <2>3 DEF BeginOnRole
    <3>2. /\ call'[s].at \in {"clear", "drop"} /\ call'[s].role = r
          /\ call'[s].at = "clear" => call'[s].todo = call'[s].new /\ call'[s].new \subseteq Made
      <4>1. CASE Begins(t, [NoCall EXCEPT !.at = "drop", !.role = r])
        BY <1>2, <1>5, <4>1 DEF Begins, RoleTypeOK, NoCall
      <4>2. ASSUME NEW new \in SUBSET Made,
                   Begins(t, [at |-> "clear", role |-> r, todo |-> new, new |-> new])
            PROVE  /\ call'[s].at = "clear" /\ call'[s].role = r
                   /\ call'[s].todo = new /\ call'[s].new = new
        BY <1>2, <1>5, <4>2 DEF Begins, RoleTypeOK
      <4>3. QED BY <3>1, <4>1, <4>2
    <3>3. QED BY <1>3, <3>1, <3>2 DEF Served
  <2>4. CASE BeginAssign(t)
    <3>1. PICK r \in Role \cup {Admin} : Begins(t, [NoCall EXCEPT !.at = "assign", !.role = r])
      BY <2>4 DEF BeginAssign
    <3>2. call'[s].at = "assign" /\ call'[s].role = r
      BY <1>2, <1>5, <3>1 DEF Begins, RoleTypeOK, NoCall
    <3>3. QED BY <1>3, <3>1, <3>2 DEF Served
  <2>5. CASE ClearGrants(t)
    <3>1. /\ s = t /\ call[s].at = "clear" /\ call'[s].at = "add"
          /\ call'[s].role = call[s].role /\ call'[s].new = call[s].new
      BY <1>2, <1>5, <2>5 DEF ClearGrants, Goes, RoleTypeOK, Call
    <3>2. QED BY <1>2, <1>3, <3>1 DEF Served
  <2>6. CASE AddGrant(t)
    <3>1. CASE call[t].todo = {}
      BY <1>2, <1>5, <2>1, <2>6, <3>1 DEF AddGrant, Ends, NoCall, RoleTypeOK
    <3>2. CASE call[t].todo # {}
      <4>1. /\ s = t /\ call[s].at = "add" /\ call'[s].at = "add"
            /\ call'[s].role = call[s].role /\ call'[s].new = call[s].new
        BY <1>2, <1>5, <2>6, <3>2 DEF AddGrant, RoleTypeOK, Call
      <4>2. QED BY <1>2, <1>3, <4>1 DEF Served
    <3>3. QED BY <3>1, <3>2
  <2>7. CASE BeginDeletePermission(t)
    BY <1>2, <1>5, <2>1, <2>7 DEF BeginDeletePermission, Begins, NoCall, RoleTypeOK
  <2>8. CASE \/ DeletePermission(t) \/ CreateRole(t) \/ DeleteRole(t) \/ AssignRole(t) \/ BreakOff(t)
    <3>1. Ends(t)
      BY <2>8 DEF DeletePermission, CreateRole, DeleteRole, AssignRole, BreakOff
    <3>2. call'[s].at = "idle"
      BY <1>2, <1>5, <3>1 DEF Ends, NoCall, RoleTypeOK
    <3>3. QED BY <2>1, <3>2
  <2>9. CASE CreatePermission(t)
    BY <1>5, <2>9 DEF CreatePermission
  <2>10. QED BY <1>1, <2>2, <2>3, <2>4, <2>5, <2>6, <2>7, <2>8, <2>9
<1>6. QED BY <1>4, <1>5

(* A role that does not exist has no permissions, and one's last edit asked    *)
(* for permissions that exist.                                                 *)
LEMMA ExistingStep ==
  ASSUME GrantsInv, RoleNext
  PROVE  \A r \in Role : Existing(r)'
<1> SUFFICES ASSUME NEW r \in Role PROVE Existing(r)'
  OBVIOUS
<1>1. PICK t \in Guard :
           \/ CreatePermission(t) \/ BeginDeletePermission(t) \/ BeginCreateRole(t)
           \/ BeginOnRole(t) \/ BeginAssign(t)
           \/ DeletePermission(t) \/ CreateRole(t) \/ ClearGrants(t) \/ AddGrant(t)
           \/ DeleteRole(t) \/ AssignRole(t) \/ BreakOff(t)
  BY RoleSteps
<1>2. RoleTypeOK /\ Served(t) /\ Existing(r)
  BY DEF GrantsInv
<1>3. /\ Made \subseteq Made'
      /\ roles[r] # "none" => roles'[r] # "none"
  BY RowsStay DEF GrantsInv
<1>4. CASE grants'[r] = grants[r] /\ asked'[r] = asked[r]
  BY <1>2, <1>3, <1>4 DEF Existing
<1>5. CASE CreateRole(t) /\ ~(grants'[r] = grants[r] /\ asked'[r] = asked[r])
  <2>1. /\ r = call[t].role /\ roles'[r] = "live" /\ asked'[r] = call[t].new
        /\ call[t].at = "exists"
    BY <1>2, <1>5 DEF CreateRole, RoleTypeOK
  <2>2. QED BY <1>2, <1>3, <2>1 DEF Existing, Served
<1>6. CASE ClearGrants(t) /\ ~(grants'[r] = grants[r] /\ asked'[r] = asked[r])
  <2>1. r = call[t].role /\ asked'[r] = asked[r] /\ roles[r] # "none"
    BY <1>2, <1>6 DEF ClearGrants, RoleTypeOK, Served
  <2>2. QED BY <1>2, <1>3, <2>1 DEF Existing
<1>7. CASE AddGrant(t) /\ ~(grants'[r] = grants[r] /\ asked'[r] = asked[r])
  <2>1. /\ r = call[t].role /\ call[t].at = "add" /\ roles[r] # "none"
        /\ asked'[r] = asked[r] \/ asked'[r] = call[t].new
    BY <1>2, <1>7 DEF AddGrant, RoleTypeOK, Served
  <2>2. call[t].new \subseteq Made
    BY <1>2, <2>1 DEF Served
  <2>3. QED BY <1>2, <1>3, <2>1, <2>2 DEF Existing
<1>8. QED
  BY <1>1, <1>4, <1>5, <1>6, <1>7 DEF CreatePermission, BeginDeletePermission, BeginCreateRole,
     BeginOnRole, BeginAssign, DeletePermission, DeleteRole, AssignRole, BreakOff

(* A step that begins or ends no edit of r, and leaves its permissions alone,  *)
(* leaves its edits alone.                                                     *)
Edits(t, r) == call[t].at = "add" /\ call[t].role = r

LEMMA Undisturbed ==
  ASSUME GrantsInv, NEW r \in Role \ tangled,
         grants'[r] = grants[r], asked'[r] = asked[r],
         \A s \in Guard : call'[s] = call[s] \/ (~Edits(s, r) /\ ~Edits(s, r)')
  PROVE  /\ Settled(r)'
         /\ \A s \in Guard : Inserted(s, r)'
         /\ \A s, u \in Guard : Alone(s, u, r)'
<1>1. /\ Settled(r)
      /\ \A s \in Guard : Inserted(s, r)
      /\ \A s, u \in Guard : Alone(s, u, r)
  BY DEF GrantsInv
<1>2. \A s \in Guard : Edits(s, r)' <=> Edits(s, r)
  BY DEF Edits
<1>3. Settled(r)'
  BY <1>1, <1>2 DEF Settled, Edits
<1>4. \A s \in Guard : Inserted(s, r)'
  BY <1>1, <1>2 DEF Inserted, Edits
<1>5. \A s, u \in Guard : Alone(s, u, r)'
  BY <1>1, <1>2 DEF Alone, Edits
<1>6. QED BY <1>3, <1>4, <1>5

(* The edit at work on a role nobody tangled is alone at it, and when it ends  *)
(* the role has what it asked for.                                             *)
LEMMA EditStep ==
  ASSUME GrantsInv, RoleNext, NEW r \in Role, r \notin tangled'
  PROVE  /\ Settled(r)'
         /\ \A s \in Guard : Inserted(s, r)'
         /\ \A s, u \in Guard : Alone(s, u, r)'
<1>1. PICK t \in Guard :
           \/ CreatePermission(t) \/ BeginDeletePermission(t) \/ BeginCreateRole(t)
           \/ BeginOnRole(t) \/ BeginAssign(t)
           \/ DeletePermission(t) \/ CreateRole(t) \/ ClearGrants(t) \/ AddGrant(t)
           \/ DeleteRole(t) \/ AssignRole(t) \/ BreakOff(t)
  BY RoleSteps
<1>2. /\ RoleTypeOK
      /\ \A s \in Guard : Served(s)
      /\ Existing(r)
      /\ call \in [Guard -> Call]
  BY DEF GrantsInv, RoleTypeOK
<1>3. r \in Role \ tangled
  BY <1>1 DEF CreatePermission, BeginDeletePermission, BeginCreateRole,
     BeginOnRole, BeginAssign, DeletePermission, CreateRole, ClearGrants, AddGrant,
     DeleteRole, AssignRole, BreakOff
<1>4. /\ Settled(r)
      /\ \A s \in Guard : Inserted(s, r)
      /\ \A s, u \in Guard : Alone(s, u, r)
  BY <1>3 DEF GrantsInv
<1>5. CASE CreatePermission(t)
  BY <1>3, <1>5, Undisturbed DEF CreatePermission
<1>6. CASE \/ BeginDeletePermission(t) \/ BeginCreateRole(t) \/ BeginOnRole(t) \/ BeginAssign(t)
  <2>1. /\ grants' = grants /\ asked' = asked
        /\ \A s \in Guard : call'[s] = call[s]
                            \/ (call[s].at = "idle" /\ call'[s].at # "add")
    <3>1. grants' = grants /\ asked' = asked
      BY <1>6 DEF BeginDeletePermission, BeginCreateRole, BeginOnRole, BeginAssign
    <3>2. \A s \in Guard : call'[s] = call[s]
                          \/ (call[s].at = "idle" /\ call'[s].at # "add")
      <4>1. CASE BeginDeletePermission(t)
        BY <1>2, <4>1 DEF BeginDeletePermission, Begins, NoCall
      <4>2. CASE BeginCreateRole(t)
        BY <1>2, <4>2 DEF BeginCreateRole, Begins, NoCall
      <4>3. CASE BeginOnRole(t)
        <5>1. ASSUME NEW q \in Role, Begins(t, [NoCall EXCEPT !.at = "drop", !.role = q])
              PROVE  call[t].at = "idle" /\ call'[t].at = "drop"
          BY <1>2, <5>1 DEF Begins, NoCall
        <5>2. ASSUME NEW q \in Role, NEW new \in SUBSET Made,
                     Begins(t, [at |-> "clear", role |-> q, todo |-> new, new |-> new])
              PROVE  call[t].at = "idle" /\ call'[t].at = "clear"
          BY <1>2, <5>2 DEF Begins
        <5>3. call[t].at = "idle" /\ call'[t].at # "add"
          BY <4>3, <5>1, <5>2 DEF BeginOnRole
        <5>4. \A s \in Guard : s # t => call'[s] = call[s]
          BY <1>2, <4>3 DEF BeginOnRole, Begins
        <5>5. QED BY <5>3, <5>4
      <4>4. CASE BeginAssign(t)
        BY <1>2, <4>4 DEF BeginAssign, Begins, NoCall
      <4>5. QED BY <1>6, <4>1, <4>2, <4>3, <4>4
    <3>3. QED BY <3>1, <3>2
  <2>2. QED BY <1>3, <2>1, Undisturbed DEF Edits
<1>7. CASE DeletePermission(t) \/ DeleteRole(t) \/ AssignRole(t)
  <2>1. /\ grants' = grants /\ asked' = asked
        /\ \A s \in Guard : call'[s] = call[s]
                            \/ (call[s].at # "add" /\ call'[s].at = "idle")
    BY <1>2, <1>7 DEF DeletePermission, DeleteRole, AssignRole, Ends, NoCall
  <2>2. QED BY <1>3, <2>1, Undisturbed DEF Edits
<1>8. CASE BreakOff(t)
  <2>1. /\ grants' = grants /\ asked' = asked /\ ~Edits(t, r)
        /\ \A s \in Guard : call'[s] = call[s] \/ (s = t /\ call'[s].at = "idle")
    BY <1>2, <1>8 DEF BreakOff, Ends, NoCall, Edits
  <2>2. QED BY <1>3, <2>1, Undisturbed DEF Edits
<1>9. CASE CreateRole(t)
  <2>1. \A s \in Guard : call'[s] = call[s]
                          \/ (call[s].at # "add" /\ call'[s].at = "idle")
    BY <1>2, <1>9 DEF CreateRole, Ends, NoCall
  <2>2. CASE grants'[r] = grants[r] /\ asked'[r] = asked[r]
    BY <1>3, <2>1, <2>2, Undisturbed DEF Edits
  <2>3. CASE ~(grants'[r] = grants[r] /\ asked'[r] = asked[r])
    <3>1. /\ r = call[t].role /\ roles[r] = "none"
          /\ grants'[r] = call[t].new /\ asked'[r] = call[t].new
      BY <1>2, <1>9, <2>3 DEF CreateRole, RoleTypeOK
    <3>2. \A s \in Guard : ~Edits(s, r)
      BY <1>2, <3>1 DEF Served, Edits
    <3>3. \A s \in Guard : ~Edits(s, r)'
      BY <2>1, <3>2 DEF Edits
    <3>4. QED BY <3>1, <3>3 DEF Settled, Inserted, Alone, Edits
  <2>4. QED BY <2>2, <2>3
<1>10. CASE ClearGrants(t)
  <2>1. /\ asked' = asked /\ call[t].at = "clear"
        /\ call' = [call EXCEPT ![t].at = "add"]
    BY <1>10 DEF ClearGrants, Goes
  <2>2. CASE call[t].role # r
    <3>1. grants'[r] = grants[r]
      BY <1>2, <1>10, <2>2 DEF ClearGrants, RoleTypeOK
    <3>2. \A s \in Guard : call'[s] = call[s] \/ (s = t /\ call'[s].role = call[s].role)
      BY <1>2, <2>1 DEF Call
    <3>3. QED BY <1>3, <2>1, <2>2, <3>1, <3>2, Undisturbed DEF Edits
  <2>3. CASE call[t].role = r
    <3>1. grants'[r] = {} /\ Adding(r) = {}
      BY <1>2, <1>10, <2>3 DEF ClearGrants, RoleTypeOK
    <3>2. \A s \in Guard : s # t => call'[s] = call[s] /\ ~Edits(s, r)
      BY <1>2, <2>1, <3>1 DEF Adding, Edits
    <3>3. /\ Edits(t, r)' /\ call'[t].todo = call[t].todo /\ call'[t].new = call[t].new
          /\ call[t].todo = call[t].new
      BY <1>2, <2>1, <2>3 DEF Edits, Served, Call
    <3>4. Settled(r)'
      BY <3>3 DEF Settled, Edits
    <3>5. \A s \in Guard : Inserted(s, r)'
      BY <3>1, <3>2, <3>3 DEF Inserted, Edits
    <3>6. \A s, u \in Guard : Alone(s, u, r)'
      BY <3>2 DEF Alone, Edits
    <3>7. QED BY <3>4, <3>5, <3>6
  <2>4. QED BY <2>2, <2>3
<1>11. CASE AddGrant(t)
  <2>1. \A s \in Guard : s # t => call'[s] = call[s]
    BY <1>2, <1>11 DEF AddGrant, Ends
  <2>2. CASE call[t].role # r
    <3>1. grants'[r] = grants[r] /\ asked'[r] = asked[r]
      BY <1>2, <1>11, <2>2 DEF AddGrant, RoleTypeOK
    <3>2. call'[t].at = "idle" \/ call'[t].role = call[t].role
      BY <1>2, <1>11 DEF AddGrant, Ends, NoCall, Call
    <3>3. QED BY <1>3, <2>1, <2>2, <3>1, <3>2, Undisturbed DEF Edits
  <2>3. CASE call[t].role = r
    <3>1. Edits(t, r)
      BY <1>11, <2>3 DEF AddGrant, Edits
    <3>2. \A s \in Guard : s # t => ~Edits(s, r) /\ ~Edits(s, r)'
      BY <1>4, <2>1, <3>1 DEF Alone, Edits
    <3>3. call[t].todo \subseteq call[t].new /\ grants[r] = call[t].new \ call[t].todo
      BY <1>4, <3>1 DEF Inserted, Edits
    <3>4. \A s, u \in Guard : Alone(s, u, r)'
      BY <3>2 DEF Alone, Edits
    <3>5. CASE call[t].todo = {}
      <4>1. call'[t].at = "idle" /\ grants'[r] = grants[r] /\ asked'[r] = call[t].new
        BY <1>2, <1>11, <2>3, <3>5 DEF AddGrant, Ends, NoCall, RoleTypeOK
      <4>2. QED BY <3>2, <3>3, <3>4, <3>5, <4>1 DEF Settled, Inserted, Edits
    <3>6. CASE call[t].todo # {}
      <4>1. PICK p \in call[t].todo : /\ grants' = [grants EXCEPT ![r] = @ \cup {p}]
                                      /\ call' = [call EXCEPT ![t].todo = @ \ {p}]
        BY <1>11, <2>3, <3>6 DEF AddGrant
      <4>2. /\ Edits(t, r)' /\ call'[t].todo = call[t].todo \ {p} /\ call'[t].new = call[t].new
        BY <1>2, <3>1, <4>1 DEF Edits, Call
      <4>3. grants'[r] = grants[r] \cup {p}
        BY <1>2, <4>1 DEF RoleTypeOK
      <4>4. QED BY <3>2, <3>3, <3>4, <4>2, <4>3 DEF Settled, Inserted, Edits
    <3>7. QED BY <3>5, <3>6
  <2>4. QED BY <2>2, <2>3
<1>12. QED BY <1>1, <1>5, <1>6, <1>7, <1>8, <1>9, <1>10, <1>11

-----------------------------------------------------------------------------
(* The invariant holds in every reachable state. *)
LEMMA GrantsInvariant == RoleSpec => []GrantsInv
<1>1. RoleInit => GrantsInv
  <2> SUFFICES ASSUME RoleInit PROVE GrantsInv
    OBVIOUS
  <2>1. RoleTypeOK
    BY DEF RoleInit, RoleTypeOK, Call, NoCall
  <2>2. QED BY <2>1 DEF RoleInit, GrantsInv, Served, Existing, Settled, Inserted, Alone, NoCall
<1>2. GrantsInv /\ [RoleNext]_roleVars => GrantsInv'
  <2> SUFFICES ASSUME GrantsInv, [RoleNext]_roleVars PROVE GrantsInv'
    OBVIOUS
  <2>1. RoleTypeOK'
    BY TypeStep DEF GrantsInv
  <2>2. CASE RoleNext
    BY <2>1, <2>2, ServedStep, ExistingStep, EditStep DEF GrantsInv
  <2>3. CASE UNCHANGED roleVars
    BY <2>1, <2>3 DEF GrantsInv, roleVars, Served, Existing, Settled, Inserted, Alone, Made
  <2>4. QED BY <2>2, <2>3
<1>3. QED BY <1>1, <1>2, PTL DEF RoleSpec

(* Every variable of the model keeps its type. *)
THEOREM RoleTypeCorrect == RoleSpec => []RoleTypeOK
<1>1. GrantsInv => RoleTypeOK
  BY DEF GrantsInv
<1>2. QED BY <1>1, GrantsInvariant, PTL

(* A user who is no administrator passes exactly what the last edit of the     *)
(* role that ended asked for, and during an edit nothing else than what it     *)
(* asks for, unless two edits ran at once or one broke off.                    *)
THEOREM GrantsAreAskedHolds == RoleSpec => []GrantsAreAsked
<1>1. GrantsInv => GrantsAreAsked
  <2> SUFFICES ASSUME GrantsInv, NEW u \in Member, roleOf[u] \in Role \ tangled
               PROVE  LET passes == {p \in Permission : Passes(u, p)}
                      IN IF Adding(roleOf[u]) = {} THEN passes = asked[roleOf[u]]
                         ELSE passes \subseteq UNION {call[t].new : t \in Adding(roleOf[u])}
    BY DEF GrantsAreAsked
  <2> DEFINE r == roleOf[u]
             passes == {p \in Permission : Passes(u, p)}
  <2>1. /\ Settled(r) /\ Existing(r)
        /\ \A t \in Guard : Inserted(t, r)
    BY DEF GrantsInv
  <2>2. passes = grants[r] \cap Made
    BY DEF Passes, Granted, Made
  <2>3. CASE Adding(r) = {}
    <3>1. grants[r] = asked[r]
      BY <2>1, <2>3 DEF Settled, Adding
    <3>2. QED BY <2>1, <2>2, <2>3, <3>1 DEF Existing
  <2>4. CASE Adding(r) # {}
    <3>1. PICK t \in Adding(r) : TRUE
      BY <2>4
    <3>2. t \in Guard /\ call[t].at = "add" /\ call[t].role = r
      BY <3>1 DEF Adding
    <3>3. grants[r] \subseteq call[t].new
      BY <2>1, <3>2 DEF Inserted
    <3>4. passes \subseteq UNION {call[s].new : s \in Adding(r)}
      BY <2>2, <3>1, <3>3
    <3>5. QED BY <2>4, <3>4
  <2>5. QED BY <2>3, <2>4
<1>2. QED BY <1>1, GrantsInvariant, PTL

HIDE RoleAssumption

-----------------------------------------------------------------------------
(* Password reset.                                                           *)

USE ResetAssumption

Ats == {"idle", "count", "expire", "look", "old", "delOld", "store", "mail",
        "get", "set", "delTok", "delUid", "write"}

(* What a request holds at each of its places. *)
InHand(t) ==
  /\ visit[t].at \notin {"idle", "get"} => visit[t].who \in Person
  /\ visit[t].at \in {"old", "delOld", "store", "mail"} => visit[t].tok \in drawn
  /\ visit[t].at \in {"get", "set", "delTok", "delUid"} => visit[t].tok \in mailed
  /\ visit[t].at = "delOld" => visit[t].old \in Token
  /\ visit[t].at \in {"get", "set", "write"} => visit[t].new \in Password

(* A token nobody has stored yet is in no key, and was used for nothing.       *)
Unused(k) == tokKey[k] = NoPerson /\ uses[k] = 0 /\ \A u \in Person : uidKey[u] # k
Storing(t) == visit[t].at \in {"old", "delOld", "store"}
Unstored(t) == Storing(t) => Unused(visit[t].tok) /\ visit[t].tok \notin mailed
Own(t, s) == Storing(t) /\ (Storing(s) \/ visit[s].at = "mail") /\ visit[t].tok = visit[s].tok
               => t = s

(* A token never changes its user. *)
Owned(t) ==
  visit[t].at \in {"set", "delTok", "delUid"} => tokKey[visit[t].tok] \in {visit[t].who, NoPerson}

-----------------------------------------------------------------------------
(* The record of a request after a step. *)
LEMMA MoveFacts ==
  ASSUME visit \in [Caller -> Visit], NEW t \in Caller, NEW at, Moves(t, at)
  PROVE  /\ visit'[t].at = at /\ visit'[t].who = visit[t].who /\ visit'[t].tok = visit[t].tok
         /\ visit'[t].old = visit[t].old /\ visit'[t].new = visit[t].new
         /\ \A s \in Caller : s # t => visit'[s] = visit[s]
         /\ at \in Ats => visit' \in [Caller -> Visit]
<1>1. visit[t] \in Visit
  OBVIOUS
<1>2. at \in Ats => [visit[t] EXCEPT !.at = at] \in Visit
  BY <1>1 DEF Visit, Ats
<1>3. QED BY <1>1, <1>2 DEF Moves, Visit

LEMMA ReturnFacts ==
  ASSUME visit \in [Caller -> Visit], NEW t \in Caller, Returns(t)
  PROVE  /\ visit'[t].at = "idle"
         /\ \A s \in Caller : s # t => visit'[s] = visit[s]
         /\ visit' \in [Caller -> Visit]
<1>1. NoVisit \in Visit
  BY DEF NoVisit, Visit
<1>2. QED BY <1>1 DEF Returns, NoVisit

LEMMA EnterFacts ==
  ASSUME visit \in [Caller -> Visit], NEW t \in Caller, NEW r, Enters(t, r)
  PROVE  /\ visit[t].at = "idle" /\ visit'[t] = r
         /\ \A s \in Caller : s # t => visit'[s] = visit[s]
         /\ r \in Visit => visit' \in [Caller -> Visit]
BY DEF Enters

LEMMA ForgotFacts ==
  ASSUME ResetTypeOK, NEW t \in Caller, Forgot(t)
  PROVE  /\ visit[t].at = "idle" /\ visit'[t].at = "count" /\ visit'[t].who \in Person
         /\ \A s \in Caller : s # t => visit'[s] = visit[s]
         /\ visit' \in [Caller -> Visit]
<1>1. PICK u \in Person : Enters(t, [NoVisit EXCEPT !.at = "count", !.who = u])
  BY DEF Forgot
<1> DEFINE r == [NoVisit EXCEPT !.at = "count", !.who = u]
<1>2. r \in Visit /\ r.at = "count" /\ r.who = u
  BY DEF NoVisit, Visit
<1>3. /\ visit[t].at = "idle" /\ visit'[t] = r
      /\ \A s \in Caller : s # t => visit'[s] = visit[s]
      /\ visit' \in [Caller -> Visit]
  <2> HIDE DEF r
  <2>1. Enters(t, r)
    BY <1>1 DEF r
  <2>2. QED BY <1>2, <2>1, EnterFacts DEF ResetTypeOK
<1>4. QED BY <1>2, <1>3

LEMMA BeginResetFacts ==
  ASSUME ResetTypeOK, NEW t \in Caller, BeginReset(t)
  PROVE  /\ visit[t].at = "idle" /\ visit'[t].at = "get" /\ visit'[t].tok \in mailed
         /\ visit'[t].who = NoPerson /\ visit'[t].new \in Password
         /\ \A s \in Caller : s # t => visit'[s] = visit[s]
         /\ visit' \in [Caller -> Visit]
<1>1. PICK k \in mailed, w \in Password :
        Enters(t, [NoVisit EXCEPT !.at = "get", !.tok = k, !.new = w])
  BY DEF BeginReset
<1> DEFINE r == [NoVisit EXCEPT !.at = "get", !.tok = k, !.new = w]
<1>2. r \in Visit /\ r.at = "get" /\ r.tok = k /\ r.who = NoPerson /\ r.new = w
  BY DEF NoVisit, Visit, ResetTypeOK
<1>3. /\ visit[t].at = "idle" /\ visit'[t] = r
      /\ \A s \in Caller : s # t => visit'[s] = visit[s]
      /\ visit' \in [Caller -> Visit]
  <2> HIDE DEF r
  <2>1. Enters(t, r)
    BY <1>1 DEF r
  <2>2. QED BY <1>2, <2>1, EnterFacts DEF ResetTypeOK
<1>4. QED BY <1>2, <1>3

LEMMA BeginChangeFacts ==
  ASSUME ResetTypeOK, NEW t \in Caller, BeginChange(t)
  PROVE  /\ visit[t].at = "idle" /\ visit'[t].at = "write" /\ visit'[t].who \in Person
         /\ visit'[t].new \in Password
         /\ \A s \in Caller : s # t => visit'[s] = visit[s]
         /\ visit' \in [Caller -> Visit]
<1>1. PICK u \in Person, w \in Password :
        Enters(t, [NoVisit EXCEPT !.at = "write", !.who = u, !.new = w])
  BY DEF BeginChange
<1> DEFINE r == [NoVisit EXCEPT !.at = "write", !.who = u, !.new = w]
<1>2. r \in Visit /\ r.at = "write" /\ r.who = u /\ r.new = w
  BY DEF NoVisit, Visit
<1>3. /\ visit[t].at = "idle" /\ visit'[t] = r
      /\ \A s \in Caller : s # t => visit'[s] = visit[s]
      /\ visit' \in [Caller -> Visit]
  <2> HIDE DEF r
  <2>1. Enters(t, r)
    BY <1>1 DEF r
  <2>2. QED BY <1>2, <2>1, EnterFacts DEF ResetTypeOK
<1>4. QED BY <1>2, <1>3

LEMMA DrawFacts ==
  ASSUME ResetTypeOK, NEW t \in Caller, DrawToken(t)
  PROVE  /\ visit[t].at = "look" /\ visit'[t].at = "old" /\ visit'[t].who = visit[t].who
         /\ visit'[t].tok \in Token \ drawn /\ drawn' = drawn \cup {visit'[t].tok}
         /\ \A s \in Caller : s # t => visit'[s] = visit[s]
         /\ visit' \in [Caller -> Visit]
<1>1. PICK k \in Token \ drawn : /\ drawn' = drawn \cup {k}
                                 /\ visit' = [visit EXCEPT ![t].at = "old", ![t].tok = k]
  BY DEF DrawToken
<1>2. visit[t] \in Visit
  BY DEF ResetTypeOK
<1>3. [visit[t] EXCEPT !.at = "old", !.tok = k] \in Visit
  BY <1>2 DEF Visit
<1>4. visit' = [visit EXCEPT ![t] = [visit[t] EXCEPT !.at = "old", !.tok = k]]
  BY <1>1
<1>5. visit'[t] = [visit[t] EXCEPT !.at = "old", !.tok = k]
  BY <1>4 DEF ResetTypeOK
<1>6. QED BY <1>1, <1>2, <1>3, <1>4, <1>5 DEF ResetTypeOK, Visit, DrawToken

LEMMA ReadFacts ==
  ASSUME ResetTypeOK, NEW t \in Caller, ReadOld(t), visit[t].who \in Person
  PROVE  /\ visit[t].at = "old" /\ visit'[t].who = visit[t].who /\ visit'[t].tok = visit[t].tok
         /\ visit'[t].at \in {"store", "delOld"}
         /\ visit'[t].at = "delOld" => visit'[t].old \in Token
         /\ visit[t].who \notin raced' =>
              /\ visit'[t].at = "store" => uidKey[visit[t].who] = NoToken
              /\ visit'[t].at = "delOld" => visit'[t].old = uidKey[visit[t].who]
         /\ \A s \in Caller : s # t => visit'[s] = visit[s]
         /\ visit' \in [Caller -> Visit]
<1> DEFINE u == visit[t].who
           new == [visit[t] EXCEPT !.at = IF uidKey[u] = NoToken THEN "store" ELSE "delOld",
                                   !.old = uidKey[u]]
<1>1. visit[t] \in Visit /\ visit[t].at = "old" /\ uidKey[u] \in Token \cup {NoToken}
  BY DEF ResetTypeOK, ReadOld
<1>2. CASE Moves(t, "store") /\ Lost(u)
  BY <1>1, <1>2, MoveFacts DEF ResetTypeOK, Lost, Ats
<1>3. CASE visit' = [visit EXCEPT ![t].at = IF uidKey[u] = NoToken THEN "store" ELSE "delOld",
                                  ![t].old = uidKey[u]]
  <2>1. new \in Visit
    BY <1>1 DEF Visit
  <2>2. visit' = [visit EXCEPT ![t] = new]
    BY <1>3
  <2>3. visit'[t] = new
    BY <2>2 DEF ResetTypeOK
  <2>4. QED BY <1>1, <2>1, <2>2, <2>3 DEF ResetTypeOK, Visit
<1>4. QED BY <1>2, <1>3 DEF ReadOld

LEMMA GetFacts ==
  ASSUME ResetTypeOK, NEW t \in Caller, GetToken(t), visit[t].tok \in Token
  PROVE  /\ visit[t].at = "get" /\ visit'[t].at = "set" /\ visit'[t].tok = visit[t].tok
         /\ visit'[t].who = tokKey[visit[t].tok] /\ visit'[t].who \in Person
         /\ visit'[t].new = visit[t].new
         /\ \A s \in Caller : s # t => visit'[s] = visit[s]
         /\ visit' \in [Caller -> Visit]
<1> DEFINE u == tokKey[visit[t].tok]
           new == [visit[t] EXCEPT !.at = "set", !.who = u]
<1>1. visit[t] \in Visit /\ u \in Person
  BY DEF ResetTypeOK, GetToken
<1>2. new \in Visit
  BY <1>1 DEF Visit
<1>3. visit' = [visit EXCEPT ![t] = new]
  BY DEF GetToken
<1>4. visit'[t] = new
  BY <1>3 DEF ResetTypeOK
<1>5. QED BY <1>1, <1>2, <1>3, <1>4 DEF ResetTypeOK, Visit, GetToken

-----------------------------------------------------------------------------
(* The inductive invariant.  Keys of a user nobody raced for are worked on by  *)
(* one request at a time, and the tokens stored for the user are known at each *)
(* of its places.                                                              *)
Keys == {"delOld", "store", "set", "delTok", "delUid"}
At(t, u) == visit[t].who = u /\ visit[t].at \in Keys
Using(k) == \E t \in Caller : visit[t].at = "delTok" /\ visit[t].tok = k

Known(t, u, k) ==
  visit[t].who = u /\ tokKey[k] = u =>
    /\ visit[t].at \notin {"store", "delUid"}
    /\ visit[t].at = "delOld" => k = visit[t].old
    /\ visit[t].at \in {"set", "delTok"} => k = visit[t].tok

Single(u, k) ==
  tokKey[k] = u => /\ uidKey[u] = k
                   /\ Using(k) => uses[k] = 1
                   /\ ~Using(k) => uses[k] = 0

UserInv(u) ==
  /\ \A k \in Token : Single(u, k)
  /\ \A t, s \in Caller : At(t, u) /\ At(s, u) => t = s
  /\ \A t \in Caller, k \in Token : Known(t, u, k)

ResetInv ==
  /\ ResetTypeOK
  /\ \A t \in Caller : InHand(t) /\ Unstored(t) /\ Owned(t)
  /\ \A t, s \in Caller : Own(t, s)
  /\ \A k \in Token \ drawn : Unused(k)
  /\ \A u \in Person \ raced : UserInv(u)

KeyExpires == TokenExpires \/ UidExpires \/ CounterExpires

(* What becomes of the request of a goroutine that has a step; the others'     *)
(* stay as they are.                                                           *)
LEMMA VisitFacts ==
  ASSUME ResetTypeOK, NEW t \in Caller, InHand(t), Arrives(t) \/ Works(t)
  PROVE  /\ visit' \in [Caller -> Visit]
         /\ \A s \in Caller : s # t => visit'[s] = visit[s]
         /\ \/ visit'[t].at = "idle"
            \/ Forgot(t) \/ BeginReset(t) \/ BeginChange(t) \/ DrawToken(t) \/ ReadOld(t) \/ GetToken(t)
            \/ /\ visit'[t].who = visit[t].who /\ visit'[t].tok = visit[t].tok
               /\ visit'[t].old = visit[t].old /\ visit'[t].new = visit[t].new
               /\ <<visit[t].at, visit'[t].at>> \in
                    {<<"count", "expire">>, <<"count", "look">>, <<"expire", "look">>,
                     <<"delOld", "store">>, <<"store", "mail">>, <<"set", "delTok">>,
                     <<"delTok", "delUid">>}
<1> USE DEF Ats
<1>0. visit \in [Caller -> Visit]
  BY DEF ResetTypeOK
<1>1. CASE Forgot(t)
  BY <1>1, ForgotFacts
<1>2. CASE BeginReset(t)
  BY <1>2, BeginResetFacts
<1>3. CASE BeginChange(t)
  BY <1>3, BeginChangeFacts
<1>4. CASE CountRequest(t)
  BY <1>0, <1>4, MoveFacts, ReturnFacts DEF CountRequest
<1>5. CASE ExpireCounter(t)
  BY <1>0, <1>5, MoveFacts DEF ExpireCounter
<1>6. CASE DrawToken(t)
  BY <1>6, DrawFacts
<1>7. CASE ReadOld(t)
  BY <1>7, ReadFacts DEF ReadOld, InHand
<1>8. CASE DeleteOld(t)
  BY <1>0, <1>8, MoveFacts DEF DeleteOld
<1>9. CASE StoreToken(t)
  BY <1>0, <1>9, MoveFacts, ReturnFacts DEF StoreToken
<1>10. CASE GetToken(t)
  BY <1>10, GetFacts DEF GetToken, InHand, ResetTypeOK
<1>11. CASE SetPassword(t)
  BY <1>0, <1>11, MoveFacts DEF SetPassword
<1>12. CASE DeleteToken(t)
  BY <1>0, <1>12, MoveFacts DEF DeleteToken
<1>13. CASE CountLost(t) \/ SendMail(t) \/ DeleteUid(t) \/ WritePassword(t) \/ Abandon(t)
  BY <1>0, <1>13, ReturnFacts DEF CountLost, SendMail, DeleteUid, WritePassword, Abandon
<1>14. QED BY <1>1, <1>2, <1>3, <1>4, <1>5, <1>6, <1>7, <1>8, <1>9, <1>10, <1>11, <1>12, <1>13
           DEF Arrives, Works

LEMMA ResetTypeStep ==
  ASSUME ResetTypeOK, NEW t \in Caller, InHand(t), Arrives(t) \/ Works(t)
  PROVE  ResetTypeOK'
<1>1. visit' \in [Caller -> Visit]
  BY VisitFacts
<1>2. visits' \in Nat
  BY DEF Arrives, Works, ResetTypeOK
<1> USE <1>1, <1>2 DEF ResetTypeOK, redisKeys, Answered, Lost, Meets, InHand
<1>3. CASE Forgot(t)
  BY <1>3 DEF Forgot
<1>4. CASE BeginReset(t)
  BY <1>4 DEF BeginReset
<1>5. CASE BeginChange(t)
  BY <1>5 DEF BeginChange
<1>6. CASE CountRequest(t)
  <2>1. rate' \in [Person -> Nat]
    BY <1>6 DEF CountRequest
  <2>2. QED BY <1>6, <2>1 DEF CountRequest
<1>6a. CASE CountLost(t)
  <2>1. rate' \in [Person -> Nat]
    BY <1>6a DEF CountLost
  <2>2. QED BY <1>6a, <2>1 DEF CountLost
<1>7. CASE ExpireCounter(t)
  BY <1>7 DEF ExpireCounter
<1>8. CASE DrawToken(t)
  BY <1>8 DEF DrawToken
<1>9. CASE ReadOld(t)
  BY <1>9 DEF ReadOld
<1>10. CASE DeleteOld(t)
  BY <1>10 DEF DeleteOld
<1>11. CASE StoreToken(t)
  BY <1>11 DEF StoreToken
<1>12. CASE SendMail(t)
  BY <1>12 DEF SendMail
<1>13. CASE GetToken(t)
  BY <1>13 DEF GetToken
<1>14. CASE SetPassword(t)
  BY <1>14 DEF SetPassword
<1>15. CASE DeleteToken(t)
  BY <1>15 DEF DeleteToken
<1>16. CASE DeleteUid(t)
  BY <1>16 DEF DeleteUid
<1>17. CASE WritePassword(t)
  BY <1>17 DEF WritePassword
<1>18. CASE Abandon(t)
  BY <1>18 DEF Abandon
<1>19. QED BY <1>3, <1>4, <1>5, <1>6, <1>6a, <1>7, <1>8, <1>9, <1>10, <1>11, <1>12, <1>13, <1>14,
              <1>15, <1>16, <1>17, <1>18
           DEF Arrives, Works

(* Tokens that were drawn or mailed stay so. *)
LEMMA TokensGrow ==
  ASSUME ResetTypeOK, NEW t \in Caller, Arrives(t) \/ Works(t)
  PROVE  drawn \subseteq drawn' /\ mailed \subseteq mailed'
BY DEF Arrives, Works, Forgot, BeginReset, BeginChange, CountRequest, CountLost, ExpireCounter, DrawToken,
   ReadOld, DeleteOld, StoreToken, SendMail, GetToken, SetPassword, DeleteToken, DeleteUid,
   WritePassword, Abandon

LEMMA ServingStep ==
  ASSUME ResetInv, NEW t \in Caller, Arrives(t) \/ Works(t)
  PROVE  \A s \in Caller : InHand(s)'
<1> SUFFICES ASSUME NEW s \in Caller PROVE InHand(s)'
  OBVIOUS
<1>1. ResetTypeOK /\ InHand(s) /\ InHand(t)
  BY DEF ResetInv
<1>2. drawn \subseteq drawn' /\ mailed \subseteq mailed'
  BY <1>1, TokensGrow
<1>3. CASE s # t
  <2>1. visit'[s] = visit[s]
    BY <1>1, <1>3, VisitFacts
  <2>2. QED BY <1>1, <1>2, <2>1 DEF InHand
<1>4. CASE s = t
  <2>1. CASE visit'[t].at = "idle"
    BY <1>4, <2>1 DEF InHand
  <2>2. CASE Forgot(t)
    BY <1>1, <1>4, <2>2, ForgotFacts DEF InHand
  <2>3. CASE BeginReset(t)
    BY <1>1, <1>2, <1>4, <2>3, BeginResetFacts DEF InHand
  <2>4. CASE BeginChange(t)
    BY <1>1, <1>4, <2>4, BeginChangeFacts DEF InHand
  <2>5. CASE DrawToken(t)
    BY <1>1, <1>4, <2>5, DrawFacts DEF InHand
  <2>6. CASE ReadOld(t)
    <3>1. visit[t].at = "old" /\ visit[t].who \in Person
      BY <1>1, <2>6 DEF InHand, ReadOld
    <3>2. QED BY <1>1, <1>2, <1>4, <2>6, <3>1, ReadFacts DEF InHand
  <2>7. CASE GetToken(t)
    <3>1. visit[t].tok \in mailed /\ visit[t].tok \in Token /\ visit[t].at = "get"
      BY <1>1, <2>7 DEF InHand, GetToken, ResetTypeOK
    <3>2. QED BY <1>1, <1>2, <1>4, <2>7, <3>1, GetFacts DEF InHand
  <2>8. CASE /\ visit'[t].who = visit[t].who /\ visit'[t].tok = visit[t].tok
             /\ visit'[t].old = visit[t].old /\ visit'[t].new = visit[t].new
             /\ <<visit[t].at, visit'[t].at>> \in
                  {<<"count", "expire">>, <<"count", "look">>, <<"expire", "look">>,
                   <<"delOld", "store">>, <<"store", "mail">>, <<"set", "delTok">>,
                   <<"delTok", "delUid">>}
    BY <1>1, <1>2, <1>4, <2>8 DEF InHand
  <2>9. QED BY <1>1, <2>1, <2>2, <2>3, <2>4, <2>5, <2>6, <2>7, <2>8, VisitFacts
<1>5. QED BY <1>3, <1>4

(* What the steps do to the tokens: their keys, their uses.                    *)
LEMMA KeyFacts ==
  ASSUME ResetTypeOK, NEW t \in Caller, InHand(t), Arrives(t) \/ Works(t)
  PROVE  /\ ~StoreToken(t) => \A k \in Token : tokKey'[k] \in {tokKey[k], NoPerson}
         /\ ~StoreToken(t) => \A u \in Person : uidKey'[u] \in {uidKey[u], NoToken}
         /\ ~SetPassword(t) => uses' = uses
         /\ ~DrawToken(t) => drawn' = drawn
         /\ ~SendMail(t) => mailed' = mailed
<1> USE DEF redisKeys, ResetTypeOK
<1>0. visit[t].at \in {"delTok", "delUid"} => visit[t].tok \in Token /\ visit[t].who \in Person
  BY DEF InHand
<1>1. CASE Forgot(t) \/ BeginReset(t) \/ BeginChange(t)
  BY <1>1 DEF Forgot, BeginReset, BeginChange
<1>2. CASE CountRequest(t) \/ CountLost(t) \/ ExpireCounter(t) \/ DrawToken(t) \/ ReadOld(t)
  BY <1>2 DEF CountRequest, CountLost, ExpireCounter, DrawToken, ReadOld
<1>3. CASE DeleteOld(t)
  BY <1>3 DEF DeleteOld
<1>4. CASE StoreToken(t)
  BY <1>4 DEF StoreToken
<1>5. CASE SendMail(t) \/ GetToken(t) \/ SetPassword(t) \/ WritePassword(t) \/ Abandon(t)
  BY <1>5 DEF SendMail, GetToken, SetPassword, WritePassword, Abandon
<1>6. CASE DeleteToken(t)
  BY <1>0, <1>6 DEF DeleteToken
<1>7. CASE DeleteUid(t)
  BY <1>0, <1>7 DEF DeleteUid
<1>8. QED BY <1>1, <1>2, <1>3, <1>4, <1>5, <1>6, <1>7 DEF Arrives, Works

(* A token in nobody's hands but its drawer's stays unused until it is stored. *)
LEMMA UnusedStep ==
  ASSUME ResetInv, NEW t \in Caller, Arrives(t) \/ Works(t),
         NEW k \in Token, Unused(k), k \notin mailed,
         ~(visit[t].at = "store" /\ visit[t].tok = k)
  PROVE  Unused(k)'
<1>1. ResetTypeOK /\ InHand(t)
  BY DEF ResetInv
<1>2. CASE StoreToken(t)
  BY <1>1, <1>2 DEF StoreToken, Unused, ResetTypeOK
<1>3. CASE SetPassword(t)
  <2>1. visit[t].tok \in mailed
    BY <1>1, <1>3 DEF SetPassword, InHand
  <2>2. QED BY <1>1, <1>3, <2>1 DEF SetPassword, Unused, ResetTypeOK, redisKeys
<1>4. CASE ~StoreToken(t) /\ ~SetPassword(t)
  <2>1. /\ tokKey'[k] \in {tokKey[k], NoPerson} /\ uses' = uses
        /\ \A u \in Person : uidKey'[u] \in {uidKey[u], NoToken}
    BY <1>1, <1>4, KeyFacts
  <2>2. QED BY <2>1 DEF Unused
<1>5. QED BY <1>2, <1>3, <1>4

LEMMA PendingStep ==
  ASSUME ResetInv, NEW t \in Caller, Arrives(t) \/ Works(t)
  PROVE  /\ \A s \in Caller : Unstored(s)'
         /\ \A s, r \in Caller : Own(s, r)'
         /\ \A k \in Token \ drawn' : Unused(k)'
<1>1. /\ ResetTypeOK /\ visit' \in [Caller -> Visit]
      /\ \A s \in Caller : InHand(s) /\ Unstored(s)
      /\ \A s, r \in Caller : Own(s, r)
      /\ \A k \in Token \ drawn : Unused(k)
      /\ \A s \in Caller : s # t => visit'[s] = visit[s]
      /\ drawn \subseteq drawn' /\ mailed \subseteq drawn
  BY VisitFacts, TokensGrow DEF ResetInv, ResetTypeOK
<1>2. ASSUME NEW k \in Token \ drawn' PROVE Unused(k)'
  <2>1. k \notin drawn /\ k \notin mailed /\ Unused(k)
    BY <1>1, <1>2
  <2>2. ~(visit[t].at = "store" /\ visit[t].tok = k)
    BY <1>1, <2>1 DEF InHand
  <2>3. QED BY <1>2, <2>1, <2>2, UnusedStep
<1>3. CASE DrawToken(t)
  <2>1. /\ visit'[t].at = "old" /\ visit'[t].tok \in Token \ drawn
        /\ mailed' = mailed /\ tokKey' = tokKey /\ uidKey' = uidKey /\ uses' = uses
    BY <1>1, <1>3, DrawFacts DEF DrawToken, redisKeys
  <2>2. Unused(visit'[t].tok) /\ visit'[t].tok \notin mailed
    BY <1>1, <2>1
  <2>3. \A s \in Caller : Unstored(s)'
    BY <1>1, <2>1, <2>2 DEF Unstored, Storing, Unused
  <2>4. \A s, r \in Caller : Own(s, r)'
    BY <1>1, <2>1 DEF Own, Storing, InHand
  <2>5. QED BY <1>2, <2>3, <2>4
<1>4. CASE ~DrawToken(t)
  <2>1. /\ Storing(t)' => Storing(t) /\ visit'[t].tok = visit[t].tok
        /\ visit'[t].at = "mail" => Storing(t) /\ visit'[t].tok = visit[t].tok
    <3>1. CASE Forgot(t)
      BY <1>1, <3>1, ForgotFacts DEF Storing
    <3>2. CASE BeginReset(t)
      BY <1>1, <3>2, BeginResetFacts DEF Storing
    <3>3. CASE BeginChange(t)
      BY <1>1, <3>3, BeginChangeFacts DEF Storing
    <3>4. CASE ReadOld(t)
      BY <1>1, <3>4, ReadFacts DEF Storing, ReadOld, InHand
    <3>5. CASE GetToken(t)
      BY <1>1, <3>5, GetFacts DEF Storing, GetToken, InHand, ResetTypeOK
    <3>6. QED BY <1>1, <1>4, <3>1, <3>2, <3>3, <3>4, <3>5, VisitFacts DEF Storing
  <2>2. \A s, r \in Caller : Own(s, r)'
    BY <1>1, <2>1 DEF Own, Storing
  <2>3. ASSUME NEW s \in Caller, Storing(s)' PROVE Unused(visit[s].tok)' /\ visit[s].tok \notin mailed'
    <3>1. /\ Storing(s) /\ visit'[s].tok = visit[s].tok /\ visit[s].tok \in Token
          /\ Unused(visit[s].tok) /\ visit[s].tok \notin mailed
      BY <1>1, <2>1, <2>3 DEF Storing, InHand, Unstored, ResetTypeOK
    <3>2. ~(visit[t].at = "store" /\ visit[t].tok = visit[s].tok)
      <4>1. SUFFICES ASSUME visit[t].at = "store", visit[t].tok = visit[s].tok PROVE FALSE
        OBVIOUS
      <4>2. s = t
        BY <1>1, <3>1, <4>1 DEF Own, Storing
      <4>3. ~Storing(t)'
        <5>1. StoreToken(t) \/ Abandon(t)
          BY <4>1 DEF Arrives, Works, Forgot, BeginReset, BeginChange, CountRequest, CountLost,
             ExpireCounter, Enters,
             DrawToken, ReadOld, DeleteOld, SendMail, GetToken, SetPassword, DeleteToken, DeleteUid,
             WritePassword
        <5>2. QED BY <1>1, <5>1, MoveFacts, ReturnFacts DEF StoreToken, Abandon, Storing, ResetTypeOK
      <4>4. QED BY <2>3, <4>2, <4>3
    <3>3. Unused(visit[s].tok)'
      BY <3>1, <3>2, UnusedStep
    <3>4. visit[s].tok \notin mailed'
      <4>1. CASE SendMail(t)
        BY <1>1, <3>1, <4>1, <2>3, ReturnFacts DEF SendMail, Own, Storing
      <4>2. CASE ~SendMail(t)
        BY <1>1, <3>1, <4>2, KeyFacts
      <4>3. QED BY <4>1, <4>2
    <3>5. QED BY <3>3, <3>4
  <2>4. \A s \in Caller : Unstored(s)'
    <3>1. \A s \in Caller : Storing(s)' => visit'[s].tok = visit[s].tok
      BY <1>1, <2>1 DEF Storing
    <3>2. QED BY <2>3, <3>1 DEF Unstored, Unused
  <2>5. QED BY <1>2, <2>2, <2>4
<1>5. QED BY <1>3, <1>4

LEMMA OwnedStep ==
  ASSUME ResetInv, NEW t \in Caller, Arrives(t) \/ Works(t)
  PROVE  \A s \in Caller : Owned(s)'
<1> SUFFICES ASSUME NEW s \in Caller, visit'[s].at \in {"set", "delTok", "delUid"}
             PROVE  tokKey'[visit'[s].tok] \in {visit'[s].who, NoPerson}
  BY DEF Owned
<1>1. /\ ResetTypeOK /\ visit' \in [Caller -> Visit]
      /\ InHand(s) /\ InHand(t) /\ Owned(s) /\ Unstored(t)
      /\ s # t => visit'[s] = visit[s]
  BY VisitFacts DEF ResetInv
<1>2. CASE GetToken(t) /\ s = t
  <2>1. visit[t].tok \in Token
    BY <1>1, <1>2 DEF GetToken, InHand, ResetTypeOK
  <2>2. QED BY <1>1, <1>2, <2>1, GetFacts DEF GetToken, redisKeys
<1>3. CASE ~(GetToken(t) /\ s = t)
  <2>1. /\ visit'[s].who = visit[s].who /\ visit'[s].tok = visit[s].tok
        /\ visit[s].at \in {"set", "delTok", "delUid"}
    <3>1. CASE s # t
      BY <1>1, <3>1
    <3>2. CASE s = t
      <4>1. ~Forgot(t) /\ ~BeginReset(t) /\ ~BeginChange(t) /\ ~DrawToken(t)
        BY <1>1, <3>2, ForgotFacts, BeginResetFacts, BeginChangeFacts, DrawFacts
      <4>2. ~ReadOld(t)
        BY <1>1, <3>2, ReadFacts DEF ReadOld, InHand
      <4>3. QED BY <1>1, <1>3, <3>2, <4>1, <4>2, VisitFacts
    <3>3. QED BY <3>1, <3>2
  <2>2. visit[s].tok \in mailed /\ visit[s].tok \in Token
    BY <1>1, <2>1 DEF InHand, ResetTypeOK
  <2>3. CASE StoreToken(t)
    <3>1. visit[t].tok # visit[s].tok
      BY <1>1, <2>2, <2>3 DEF StoreToken, Unstored, Storing
    <3>2. QED BY <1>1, <2>1, <2>2, <2>3, <3>1 DEF StoreToken, Owned, ResetTypeOK
  <2>4. CASE ~StoreToken(t)
    BY <1>1, <2>1, <2>2, <2>4, KeyFacts DEF Owned
  <2>5. QED BY <2>3, <2>4
<1>4. QED BY <1>2, <1>3

(* What disturbs a user's keys is not forgotten, and who begins to work on     *)
(* them beside another disturbs them.                                          *)
LEMMA RacedStep ==
  ASSUME ResetTypeOK, NEW t \in Caller, Arrives(t) \/ Works(t)
  PROVE  /\ raced \subseteq raced'
         /\ ReadOld(t) /\ visit[t].who \notin raced' => AtKeysOf(visit[t].who) = {}
         /\ GetToken(t) /\ tokKey[visit[t].tok] \notin raced' => AtKeysOf(tokKey[visit[t].tok]) = {}
<1> USE DEF Answered, Lost, Meets
<1>1. raced \subseteq raced'
  <2>1. CASE Arrives(t)
    BY <2>1 DEF Arrives, Forgot, BeginReset, BeginChange
  <2>2. CASE CountRequest(t) \/ CountLost(t) \/ ExpireCounter(t) \/ DrawToken(t) \/ ReadOld(t) \/ DeleteOld(t)
    BY <2>2 DEF CountRequest, CountLost, ExpireCounter, DrawToken, ReadOld, DeleteOld
  <2>3. CASE StoreToken(t) \/ SendMail(t) \/ GetToken(t) \/ SetPassword(t) \/ DeleteToken(t)
    BY <2>3 DEF StoreToken, SendMail, GetToken, SetPassword, DeleteToken
  <2>4. CASE DeleteUid(t) \/ WritePassword(t) \/ Abandon(t)
    BY <2>4 DEF DeleteUid, WritePassword, Abandon
  <2>5. QED BY <2>1, <2>2, <2>3, <2>4 DEF Works
<1>2. QED BY <1>1 DEF ReadOld, GetToken

(* One request at a time works on the keys of a user nobody raced for. *)
LEMMA AtStep ==
  ASSUME ResetInv, NEW t \in Caller, Arrives(t) \/ Works(t), NEW u \in Person, u \notin raced'
  PROVE  /\ \A s, r \in Caller : At(s, u)' /\ At(r, u)' => s = r
         /\ At(t, u)' => At(t, u) \/ \A s \in Caller : ~At(s, u)
<1>1. /\ ResetTypeOK /\ InHand(t)
      /\ \A s \in Caller : s # t => visit'[s] = visit[s]
      /\ u \notin raced /\ \A s, r \in Caller : At(s, u) /\ At(r, u) => s = r
  BY VisitFacts, RacedStep DEF ResetInv, UserInv
<1>2. At(t, u)' => At(t, u) \/ \A s \in Caller : ~At(s, u)
  <2> SUFFICES ASSUME At(t, u)' PROVE At(t, u) \/ \A s \in Caller : ~At(s, u)
    OBVIOUS
  <2>1. ~Forgot(t) /\ ~BeginReset(t) /\ ~BeginChange(t) /\ ~DrawToken(t)
    BY <1>1, ForgotFacts, BeginResetFacts, BeginChangeFacts, DrawFacts DEF At, Keys
  <2>2. CASE ReadOld(t)
    <3>1. visit[t].who = u
      BY <1>1, <2>2, ReadFacts DEF ReadOld, InHand, At
    <3>2. AtKeysOf(u) = {}
      BY <1>1, <2>2, <3>1, RacedStep
    <3>3. QED BY <3>2 DEF AtKeysOf, At, Keys
  <2>3. CASE GetToken(t)
    <3>1. tokKey[visit[t].tok] = u
      BY <1>1, <2>3, GetFacts DEF GetToken, InHand, At, ResetTypeOK
    <3>2. AtKeysOf(u) = {}
      BY <1>1, <2>3, <3>1, RacedStep
    <3>3. QED BY <3>2 DEF AtKeysOf, At, Keys
  <2>4. CASE ~ReadOld(t) /\ ~GetToken(t)
    BY <1>1, <2>1, <2>4, VisitFacts DEF At, Keys
  <2>5. QED BY <2>2, <2>3, <2>4
<1>3. \A s, r \in Caller : At(s, u)' /\ At(r, u)' => s = r
  BY <1>1, <1>2 DEF At
<1>4. QED BY <1>2, <1>3

(* The tokens of such a user.                                                  *)
LEMMA KnownStep ==
  ASSUME ResetInv, NEW t \in Caller, Arrives(t) \/ Works(t), NEW u \in Person, u \notin raced',
         NEW s \in Caller, NEW k \in Token
  PROVE  Known(s, u, k)'
<1> SUFFICES ASSUME visit'[s].who = u, tokKey'[k] = u, visit'[s].at \in Keys
             PROVE  Known(s, u, k)'
  BY DEF Known, Keys
<1>1. /\ ResetTypeOK /\ InHand(t)
      /\ \A q \in Caller : q # t => visit'[q] = visit[q]
      /\ u \notin raced /\ Known(s, u, k) /\ Known(t, u, k) /\ Single(u, k)
      /\ visit \in [Caller -> Visit]
  BY VisitFacts, RacedStep DEF ResetInv, UserInv, ResetTypeOK
<1>2. /\ \A q, r \in Caller : At(q, u) /\ At(r, u) => q = r
      /\ \A q, r \in Caller : At(q, u)' /\ At(r, u)' => q = r
      /\ At(t, u)' => At(t, u) \/ \A r \in Caller : ~At(r, u)
      /\ At(s, u)'
  BY <1>1, AtStep DEF ResetInv, UserInv, At
<1>3. CASE StoreToken(t)
  <2>1. visit'[t].at \in {"mail", "idle"} /\ visit[t].at = "store"
    BY <1>1, <1>3, MoveFacts, ReturnFacts DEF StoreToken
  <2>2. s # t /\ At(s, u)
    BY <1>1, <1>2, <2>1 DEF At, Keys
  <2>3. visit[t].who # u
    BY <1>2, <2>1, <2>2 DEF At, Keys
  <2>4. tokKey[k] = u
    BY <1>1, <1>3, <2>3 DEF StoreToken, ResetTypeOK
  <2>5. QED BY <1>1, <2>2, <2>4 DEF Known
<1>4. CASE ~StoreToken(t)
  <2>1. tokKey[k] = u
    BY <1>1, <1>4, KeyFacts
  <2>2. CASE s # t
    BY <1>1, <2>1, <2>2 DEF Known
  <2>3. CASE s = t
    <3>1. ~Forgot(t) /\ ~BeginReset(t) /\ ~BeginChange(t) /\ ~DrawToken(t)
      BY <1>1, <2>3, ForgotFacts, BeginResetFacts, BeginChangeFacts, DrawFacts DEF Keys
    <3>2. CASE ReadOld(t)
      <4>1. visit[t].who \in Person /\ visit[t].who = u
        BY <1>1, <2>3, <3>2, ReadFacts DEF ReadOld, InHand
      <4>2. /\ visit'[t].at = "store" => uidKey[u] = NoToken
            /\ visit'[t].at = "delOld" => visit'[t].old = uidKey[u]
            /\ visit'[t].at \in {"store", "delOld"}
        BY <1>1, <3>2, <4>1, ReadFacts
      <4>3. uidKey[u] = k
        BY <1>1, <2>1 DEF Single
      <4>4. QED BY <1>1, <2>3, <4>2, <4>3 DEF Known
    <3>3. CASE GetToken(t)
      <4>1. /\ visit[t].tok \in Token /\ visit'[t].tok = visit[t].tok /\ visit'[t].at = "set"
            /\ tokKey[visit[t].tok] = u
        BY <1>1, <2>3, <3>3, GetFacts DEF GetToken, InHand, ResetTypeOK
      <4>2. uidKey[u] = k /\ uidKey[u] = visit[t].tok
        BY <1>1, <2>1, <4>1 DEF Single, ResetInv, UserInv
      <4>3. QED BY <2>3, <4>1, <4>2 DEF Known
    <3>4. CASE DeleteOld(t)
      <4>1. visit[t].at = "delOld" /\ visit'[t].at = "store" /\ visit[t].who = u
        BY <1>1, <2>3, <3>4, MoveFacts DEF DeleteOld
      <4>2. k = visit[t].old
        BY <1>1, <2>1, <4>1 DEF Known
      <4>3. tokKey'[k] = NoPerson
        BY <1>1, <3>4, <4>1, <4>2 DEF DeleteOld, Lost, ResetTypeOK
      <4>4. QED BY <4>3
    <3>5. CASE DeleteToken(t)
      <4>1. visit[t].at = "delTok" /\ visit'[t].at = "delUid" /\ visit[t].who = u
        BY <1>1, <2>3, <3>5, MoveFacts DEF DeleteToken
      <4>2. k = visit[t].tok
        BY <1>1, <2>1, <4>1 DEF Known
      <4>3. tokKey'[k] = NoPerson
        BY <1>1, <3>5, <4>1, <4>2 DEF DeleteToken, Lost, ResetTypeOK
      <4>4. QED BY <4>3
    <3>6. CASE SetPassword(t)
      <4>1. /\ visit[t].at = "set" /\ visit'[t].at = "delTok" /\ visit[t].who = u
            /\ visit'[t].tok = visit[t].tok
        BY <1>1, <2>3, <3>6, MoveFacts DEF SetPassword
      <4>2. QED BY <1>1, <2>1, <2>3, <4>1 DEF Known
    <3>7. CASE CountRequest(t) \/ ExpireCounter(t)
      BY <1>1, <2>3, <3>7, MoveFacts, ReturnFacts DEF CountRequest, ExpireCounter, Keys
    <3>8. CASE CountLost(t) \/ SendMail(t) \/ DeleteUid(t) \/ WritePassword(t) \/ Abandon(t)
      BY <1>1, <2>3, <3>8, ReturnFacts DEF CountLost, SendMail, DeleteUid, WritePassword, Abandon, Keys
    <3>9. QED BY <1>4, <3>1, <3>2, <3>3, <3>4, <3>5, <3>6, <3>7, <3>8 DEF Arrives, Works
  <2>4. QED BY <2>2, <2>3
<1>5. QED BY <1>3, <1>4

LEMMA SingleStep ==
  ASSUME ResetInv, NEW t \in Caller, Arrives(t) \/ Works(t), NEW u \in Person, u \notin raced',
         NEW k \in Token
  PROVE  Single(u, k)'
<1> SUFFICES ASSUME tokKey'[k] = u
             PROVE  /\ uidKey'[u] = k
                    /\ Using(k)' => uses'[k] = 1
                    /\ ~Using(k)' => uses'[k] = 0
  BY DEF Single
<1>1. /\ ResetTypeOK /\ InHand(t) /\ Unstored(t) /\ Owned(t)
      /\ visit \in [Caller -> Visit]
      /\ \A q \in Caller : q # t => visit'[q] = visit[q]
      /\ u \notin raced /\ Single(u, k) /\ Known(t, u, k)
      /\ \A q, r \in Caller : At(q, u) /\ At(r, u) => q = r
      /\ \A q \in Caller : Owned(q) /\ InHand(q)
  BY VisitFacts, RacedStep DEF ResetInv, UserInv, ResetTypeOK
<1>2. CASE StoreToken(t)
  <2>1. /\ visit[t].at = "store" /\ visit[t].tok \in Token /\ visit[t].tok \notin mailed
        /\ Unused(visit[t].tok) /\ visit[t].who \in Person
    BY <1>1, <1>2 DEF StoreToken, Unstored, Storing, InHand, ResetTypeOK
  <2>2. visit'[t].at \in {"mail", "idle"} /\ uses' = uses
    BY <1>1, <1>2, MoveFacts, ReturnFacts DEF StoreToken
  <2>3. Using(k)' <=> Using(k)
    BY <1>1, <2>1, <2>2 DEF Using
  <2>4. CASE visit[t].who = u
    <3>1. k = visit[t].tok
      BY <1>1, <1>2, <2>1, <2>4 DEF StoreToken, Known, ResetTypeOK
    <3>2. uidKey'[u] = k
      BY <1>1, <1>2, <2>1, <2>4, <3>1 DEF StoreToken, Lost, ResetTypeOK
    <3>3. ~Using(k)
      BY <1>1, <2>1, <3>1 DEF Using, InHand
    <3>4. QED BY <2>1, <2>2, <2>3, <3>1, <3>2, <3>3 DEF Unused
  <2>5. CASE visit[t].who # u
    <3>1. tokKey[k] = u /\ uidKey'[u] = uidKey[u]
      BY <1>1, <1>2, <2>1, <2>5 DEF StoreToken, ResetTypeOK
    <3>2. QED BY <1>1, <2>2, <2>3, <3>1 DEF Single
  <2>6. QED BY <2>4, <2>5
<1>3. CASE SetPassword(t)
  <2>1. /\ visit[t].at = "set" /\ visit'[t].at = "delTok" /\ visit'[t].tok = visit[t].tok
        /\ tokKey[k] = u /\ uidKey' = uidKey
        /\ visit[t].tok \in Token /\ visit[t].who \in Person
    BY <1>1, <1>3, MoveFacts DEF SetPassword, redisKeys, InHand, ResetTypeOK
  <2>2. uidKey'[u] = k
    BY <1>1, <2>1 DEF Single
  <2>3. CASE visit[t].tok = k
    <3>1. visit[t].who = u
      BY <1>1, <2>1, <2>3 DEF Owned
    <3>2. ~Using(k)
      <4>1. SUFFICES ASSUME NEW q \in Caller, visit[q].at = "delTok", visit[q].tok = k PROVE FALSE
        BY DEF Using
      <4>2. visit[q].who = u
        BY <1>1, <2>1, <4>1 DEF Owned
      <4>3. q = t
        BY <1>1, <2>1, <3>1, <4>1, <4>2 DEF At, Keys
      <4>4. QED BY <2>1, <4>1, <4>3
    <3>3. uses[k] = 0 /\ uses'[k] = 1
      BY <1>1, <1>3, <2>1, <2>3, <3>2 DEF Single, SetPassword, ResetTypeOK
    <3>4. Using(k)'
      BY <2>1, <2>3 DEF Using
    <3>5. QED BY <2>2, <3>3, <3>4
  <2>4. CASE visit[t].tok # k
    <3>1. uses'[k] = uses[k] /\ (Using(k)' <=> Using(k))
      BY <1>1, <1>3, <2>1, <2>4 DEF SetPassword, ResetTypeOK, Using
    <3>2. QED BY <1>1, <2>1, <2>2, <3>1 DEF Single
  <2>5. QED BY <2>3, <2>4
<1>4. CASE ~StoreToken(t) /\ ~SetPassword(t)
  <2>1. /\ tokKey[k] = u /\ uses' = uses /\ uidKey'[u] \in {uidKey[u], NoToken}
    BY <1>1, <1>4, KeyFacts
  <2>2. uidKey'[u] = uidKey[u]
    <3>1. CASE DeleteUid(t)
      <4>1. visit[t].who # u
        BY <1>1, <2>1, <3>1 DEF DeleteUid, Known
      <4>2. QED BY <1>1, <3>1, <4>1 DEF DeleteUid, ResetTypeOK
    <3>2. CASE ~DeleteUid(t)
      BY <1>4, <3>2 DEF Arrives, Works, Forgot, BeginReset, BeginChange, CountRequest, CountLost,
         ExpireCounter,
         DrawToken, ReadOld, DeleteOld, SendMail, GetToken, DeleteToken, WritePassword, Abandon, redisKeys
    <3>3. QED BY <3>1, <3>2
  <2>3. Using(k)' <=> Using(k)
    <3>1. visit'[t].at # "delTok"
      <4>1. ~Forgot(t) \/ visit'[t].at = "count"
        BY <1>1, ForgotFacts
      <4>2. ~BeginReset(t) \/ visit'[t].at = "get"
        BY <1>1, BeginResetFacts
      <4>3. ~BeginChange(t) \/ visit'[t].at = "write"
        BY <1>1, BeginChangeFacts
      <4>4. ~DrawToken(t) \/ visit'[t].at = "old"
        BY <1>1, DrawFacts
      <4>5. ~ReadOld(t) \/ visit'[t].at \in {"store", "delOld"}
        BY <1>1, ReadFacts DEF ReadOld, InHand
      <4>6. ~GetToken(t) \/ visit'[t].at = "set"
        BY <1>1, GetFacts DEF GetToken, InHand, ResetTypeOK
      <4>7. (~CountRequest(t) /\ ~ExpireCounter(t) /\ ~DeleteOld(t) /\ ~DeleteToken(t)) \/ visit'[t].at # "delTok"
        BY <1>1, MoveFacts, ReturnFacts DEF CountRequest, ExpireCounter, DeleteOld, DeleteToken
      <4>8. (~CountLost(t) /\ ~SendMail(t) /\ ~DeleteUid(t) /\ ~WritePassword(t) /\ ~Abandon(t)) \/ visit'[t].at = "idle"
        BY <1>1, ReturnFacts DEF CountLost, SendMail, DeleteUid, WritePassword, Abandon
      <4>9. QED BY <1>4, <4>1, <4>2, <4>3, <4>4, <4>5, <4>6, <4>7, <4>8 DEF Arrives, Works
    <3>2. CASE visit[t].at = "delTok" /\ visit[t].tok = k
      <4>1. visit[t].who = u
        BY <1>1, <2>1, <3>2 DEF Owned
      <4>2. DeleteToken(t) \/ Abandon(t)
        BY <1>4, <3>2 DEF Arrives, Works, Forgot, BeginReset, BeginChange, Enters, CountRequest,
           CountLost, ExpireCounter,
           DrawToken, ReadOld, DeleteOld, SendMail, GetToken, DeleteUid, WritePassword
      <4>3. tokKey'[k] = NoPerson
        BY <1>1, <3>2, <4>1, <4>2 DEF DeleteToken, Abandon, Lost, ResetTypeOK
      <4>4. QED BY <4>3
    <3>3. CASE ~(visit[t].at = "delTok" /\ visit[t].tok = k)
      BY <1>1, <3>1, <3>3 DEF Using
    <3>4. QED BY <3>2, <3>3
  <2>4. QED BY <1>1, <2>1, <2>2, <2>3 DEF Single
<1>5. QED BY <1>2, <1>3, <1>4

(* A key expires. *)
LEMMA ExpiryStep ==
  ASSUME ResetInv, KeyExpires,
         UNCHANGED <<drawn, mailed, password, visit, visits, losses, uses, raced, stuck>>
  PROVE  ResetInv'
<1>1. /\ ResetTypeOK' /\ ResetTypeOK
      /\ \A k \in Token : tokKey'[k] \in {tokKey[k], NoPerson}
      /\ \A u \in Person : uidKey'[u] \in {uidKey[u], NoToken}
  <2>1. CASE TokenExpires
    BY <2>1 DEF TokenExpires, ResetInv, ResetTypeOK
  <2>2. CASE UidExpires
    BY <2>2 DEF UidExpires, ResetInv, ResetTypeOK
  <2>3. CASE CounterExpires
    BY <2>3 DEF CounterExpires, ResetInv, ResetTypeOK
  <2>4. QED BY <2>1, <2>2, <2>3 DEF KeyExpires
<1>2. \A k \in Token : Unused(k) => Unused(k)'
  BY <1>1 DEF Unused
<1>3. \A t \in Caller : InHand(t)' /\ Unstored(t)' /\ Owned(t)'
  <2> SUFFICES ASSUME NEW t \in Caller PROVE InHand(t)' /\ Unstored(t)' /\ Owned(t)'
    OBVIOUS
  <2>1. InHand(t) /\ Unstored(t) /\ Owned(t)
    BY DEF ResetInv
  <2>2. InHand(t)'
    BY <2>1 DEF InHand
  <2>3. Unstored(t)'
    BY <1>1, <1>2, <2>1 DEF Unstored, Unused, Storing, InHand, ResetTypeOK
  <2>4. Owned(t)'
    BY <1>1, <2>1 DEF Owned, InHand, ResetTypeOK
  <2>5. QED BY <2>2, <2>3, <2>4
<1>4. ASSUME NEW u \in Person \ raced PROVE UserInv(u)'
  <2>1. UserInv(u)
    BY DEF ResetInv
  <2>2. \A k \in Token : Single(u, k)'
    <3> SUFFICES ASSUME NEW k \in Token, tokKey'[k] = u PROVE Single(u, k)'
      BY DEF Single
    <3>1. tokKey[k] = u /\ uidKey[u] = k
      BY <1>1, <2>1 DEF UserInv, Single
    <3>2. uidKey'[u] = uidKey[u]
      <4>1. CASE UidExpires
        BY <1>1, <3>1, <4>1 DEF UidExpires, ResetTypeOK
      <4>2. CASE TokenExpires \/ CounterExpires
        BY <4>2 DEF TokenExpires, CounterExpires
      <4>3. QED BY <4>1, <4>2 DEF KeyExpires
    <3>3. QED BY <2>1, <3>1, <3>2 DEF UserInv, Single, Using
  <2>3. \A t, s \in Caller : At(t, u)' /\ At(s, u)' => t = s
    BY <2>1 DEF UserInv, At
  <2>4. \A t \in Caller, k \in Token : Known(t, u, k)'
    BY <1>1, <2>1 DEF UserInv, Known
  <2>5. QED BY <2>2, <2>3, <2>4 DEF UserInv
<1>5. \A t, s \in Caller : Own(t, s)'
  BY DEF ResetInv, Own, Storing
<1>6. QED BY <1>1, <1>2, <1>3, <1>4, <1>5 DEF ResetInv

-----------------------------------------------------------------------------
LEMMA ResetInvariant == ResetSpec => []ResetInv
<1>1. ResetInit => ResetInv
  <2> SUFFICES ASSUME ResetInit PROVE ResetInv
    OBVIOUS
  <2>1. ResetTypeOK
    BY DEF ResetInit, ResetTypeOK, Visit, NoVisit
  <2>2. \A t \in Caller : visit[t].at = "idle" /\ visit[t].who = NoPerson
    BY DEF ResetInit, NoVisit
  <2>3. \A k \in Token : Unused(k)
    BY DEF ResetInit, Unused
  <2>4. \A u \in Person : UserInv(u)
    BY <2>2, <2>3 DEF UserInv, Single, At, Keys, Known, Unused
  <2>5. QED BY <2>1, <2>2, <2>3, <2>4 DEF ResetInv, InHand, Unstored, Owned, Own, Storing
<1>2. ResetInv /\ [ResetNext]_resetVars => ResetInv'
  <2> SUFFICES ASSUME ResetInv, [ResetNext]_resetVars PROVE ResetInv'
    OBVIOUS
  <2>1. ASSUME NEW t \in Caller, Arrives(t) \/ Works(t) PROVE ResetInv'
    <3>1. ResetTypeOK'
      BY <2>1, ResetTypeStep DEF ResetInv
    <3>2. \A s \in Caller : InHand(s)'
      BY <2>1, ServingStep
    <3>3. /\ \A s \in Caller : Unstored(s)'
          /\ \A s, r \in Caller : Own(s, r)'
          /\ \A k \in Token \ drawn' : Unused(k)'
      BY <2>1, PendingStep
    <3>4. \A s \in Caller : Owned(s)'
      BY <2>1, OwnedStep
    <3>5. ASSUME NEW u \in Person, u \notin raced' PROVE UserInv(u)'
      <4>1. \A k \in Token : Single(u, k)'
        BY <2>1, <3>5, SingleStep
      <4>2. \A s, r \in Caller : At(s, u)' /\ At(r, u)' => s = r
        BY <2>1, <3>5, AtStep
      <4>3. \A s \in Caller, k \in Token : Known(s, u, k)'
        BY <2>1, <3>5, KnownStep
      <4>4. QED BY <4>1, <4>2, <4>3 DEF UserInv
    <3>6. QED BY <3>1, <3>2, <3>3, <3>4, <3>5 DEF ResetInv
  <2>2. CASE KeyExpires /\ UNCHANGED <<drawn, mailed, password, visit, visits, losses, uses, raced, stuck>>
    BY <2>2, ExpiryStep
  <2>3. CASE UNCHANGED resetVars
    BY <2>3 DEF ResetInv, resetVars, redisKeys, ResetTypeOK, InHand, Unstored, Unused, Storing, Own, Owned,
       UserInv, Single, Using, At, Known
  <2>4. QED BY <2>1, <2>2, <2>3 DEF ResetNext, KeyExpires
<1>3. QED BY <1>1, <1>2, PTL DEF ResetSpec

(* Every variable of the model keeps its type. *)
THEOREM ResetTypeCorrect == ResetSpec => []ResetTypeOK
<1>1. ResetInv => ResetTypeOK
  BY DEF ResetInv
<1>2. QED BY <1>1, ResetInvariant, PTL

(* A user has at most one valid token, the one issued last, and a token sets   *)
(* one password, as long as no two requests work on the user's keys at once    *)
(* and no command fails.                                                       *)
THEOREM TokensSingleHolds == ResetSpec => []TokensSingle
<1>1. ResetInv => TokensSingle
  <2> SUFFICES ASSUME ResetInv, NEW u \in Person \ raced
               PROVE  /\ Valid(u) \subseteq {uidKey[u]}
                      /\ \A k \in Token : tokKey[k] = u =>
                           uses[k] = IF \E t \in Caller : visit[t].at = "delTok" /\ visit[t].tok = k
                                     THEN 1 ELSE 0
    BY DEF TokensSingle
  <2>1. \A k \in Token : Single(u, k)
    BY DEF ResetInv, UserInv
  <2>2. Valid(u) \subseteq {uidKey[u]}
    BY <2>1 DEF Valid, Single
  <2>3. QED BY <2>1, <2>2 DEF Single, Using
<1>2. QED BY <1>1, ResetInvariant, PTL

(* An address is locked out for good only by a command, or a process, that     *)
(* failed where it was to give the counter its time to live.                   *)
THEOREM LockoutsEndHolds == ResetSpec => []LockoutsEnd
<1>1. ResetInit => LockoutsEnd
  BY DEF ResetInit, LockoutsEnd
<1>2. ResetInv /\ LockoutsEnd /\ [ResetNext]_resetVars => LockoutsEnd'
  <2> SUFFICES ASSUME ResetInv, LockoutsEnd, [ResetNext]_resetVars,
                      NEW u \in Person, u \notin stuck', rate'[u] > 0
               PROVE  \/ u \in expires'
                      \/ \E t \in Caller : visit'[t].at = "expire" /\ visit'[t].who = u
    BY DEF LockoutsEnd
  <2>0. ResetTypeOK /\ visit \in [Caller -> Visit]
    BY DEF ResetInv, ResetTypeOK
  <2>1. ASSUME NEW t \in Caller, Arrives(t) \/ Works(t)
        PROVE  \/ u \in expires'
               \/ \E s \in Caller : visit'[s].at = "expire" /\ visit'[s].who = u
    <3>0. InHand(t) /\ \A s \in Caller : s # t => visit'[s] = visit[s]
      BY <2>0, <2>1, VisitFacts DEF ResetInv
    <3>1. CASE CountRequest(t)
      <4>1. visit[t].at = "count" /\ visit[t].who \in Person /\ expires' = expires /\ stuck' = stuck
        BY <3>0, <3>1 DEF CountRequest, InHand
      <4>2. CASE visit[t].who = u /\ rate[u] = 0
        BY <2>0, <3>1, <4>2, MoveFacts DEF CountRequest
      <4>3. CASE visit[t].who = u /\ rate[u] # 0
        BY <2>0, <3>0, <4>1, <4>3 DEF LockoutsEnd, ResetTypeOK
      <4>4. CASE visit[t].who # u
        BY <2>0, <3>0, <3>1, <4>1, <4>4 DEF CountRequest, LockoutsEnd, ResetTypeOK
      <4>5. QED BY <4>2, <4>3, <4>4
    <3>2. CASE ExpireCounter(t)
      <4>1. /\ visit[t].at = "expire" /\ rate' = rate /\ expires \subseteq expires'
            /\ stuck \subseteq stuck' /\ visit[t].who \in expires' \cup stuck'
        BY <3>2 DEF ExpireCounter
      <4>2. QED BY <3>0, <4>1 DEF LockoutsEnd
    <3>3. CASE Abandon(t)
      <4>1. /\ rate' = rate /\ expires' = expires /\ stuck \subseteq stuck'
            /\ visit[t].at = "expire" => visit[t].who \in stuck'
        BY <3>3 DEF Abandon, redisKeys
      <4>2. QED BY <3>0, <4>1 DEF LockoutsEnd
    <3>3a. CASE CountLost(t)
      <4>1. /\ visit[t].at = "count" /\ visit[t].who \in Person /\ expires' = expires
            /\ stuck \subseteq stuck' /\ (rate[visit[t].who] = 0 => visit[t].who \in stuck')
        BY <3>0, <3>3a DEF CountLost, InHand
      <4>2. rate[u] > 0
        BY <2>0, <3>3a, <4>1 DEF CountLost, ResetTypeOK
      <4>3. QED BY <3>0, <4>1, <4>2 DEF LockoutsEnd
    <3>4. CASE ~CountRequest(t) /\ ~CountLost(t) /\ ~ExpireCounter(t) /\ ~Abandon(t)
      <4>1. rate' = rate /\ expires' = expires /\ stuck' = stuck /\ visit[t].at # "expire"
        BY <2>1, <3>4 DEF Arrives, Works, Forgot, BeginReset, BeginChange, Enters, DrawToken,
           ReadOld, DeleteOld,
           StoreToken, SendMail, GetToken, SetPassword, DeleteToken, DeleteUid, WritePassword, redisKeys
      <4>2. QED BY <3>0, <4>1 DEF LockoutsEnd
    <3>5. QED BY <3>1, <3>2, <3>3, <3>3a, <3>4
  <2>2. CASE KeyExpires /\ UNCHANGED <<drawn, mailed, password, visit, visits, losses, uses, raced, stuck>>
    BY <2>0, <2>2 DEF KeyExpires, TokenExpires, UidExpires, CounterExpires, LockoutsEnd, ResetTypeOK
  <2>3. CASE UNCHANGED resetVars
    BY <2>3 DEF resetVars, redisKeys, LockoutsEnd
  <2>4. QED BY <2>1, <2>2, <2>3 DEF ResetNext, KeyExpires
<1>3. QED BY <1>1, <1>2, ResetInvariant, PTL DEF ResetSpec
==============================================================================
