------------------------------- MODULE Accounts -------------------------------
(***************************************************************************)
(* The table of users: the repair of names at startup, registration, and the   *)
(* operations of users and administrators.  internal/auth/service.go,      *)
(* internal/user/service.go, and their order in cmd/server/main.go.        *)
(*                                                                         *)
(* Each query and each statement is an action; requests run between those  *)
(* of another, and the process may die between any two.  A user is known   *)
(* by its rank in creation order.  Freed stands for any name or address    *)
(* made unique by a suffix with the row's id.  Of the roles only "admin"   *)
(* matters here; passwords are in PasswordReset.                           *)
(***************************************************************************)
EXTENDS Integers, FiniteSets

CONSTANTS
  Request,     \* goroutines that serve requests
  MaxUser,     \* users are 1..MaxUser in the order of their creation
  MaxLegacy,   \* how many of them an old database may hold
  Name, AdminName,    \* login names; the default administrator's
  Mail, SeedMail,     \* addresses; the default administrator's
  Freed,
  MaxRequests, MaxFailures    \* bounds

ASSUME AccountAssumption ==
  /\ MaxUser \in Nat /\ MaxLegacy \in 0..MaxUser
  /\ AdminName \in Name /\ SeedMail \in Mail
  /\ Freed \notin Name \cup Mail
  /\ MaxRequests \in Nat /\ MaxFailures \in Nat

User == 1..MaxUser

VARIABLES
  users,      \* the table users, soft-deleted rows included
  used,       \* users created so far
  indexed,    \* uk_users_name exists
  settings,   \* users with a row of settings
  session,    \* user -> its one session row: its token_id is the user's id
  boot,       \* the process: where its startup is
  request,    \* goroutine -> its request
  served, failures,
  (* history *)
  owner,      \* name -> the account it belongs to, 0 for none
  torn,       \* accounts whose removal stopped between its two statements
  crossed,    \* accounts updated between those two, or a failing repair left out
  old         \* accounts the old database had soft-deleted, without renaming them

accountRows == <<users, used, indexed, settings, session>>
accountVars == <<accountRows, boot, request, served, failures, owner, torn, crossed,
                 old>>

UserRow == [is : {"none", "live", "deleted", "purged"}, name : Name \cup {Freed},
            mail : Mail \cup {Freed}, admin : BOOLEAN]
NoRow   == [is |-> "none", name |-> Freed, mail |-> Freed, admin |-> FALSE]
Boot    == [at : {"purge", "soft", "active", "dup", "migrate", "admin", "serve", "down"},
            todo : SUBSET User, seen : SUBSET Name]
Pending == [at : {"idle", "mail", "name", "create", "settings", "clash", "update",
                  "free", "drop", "session", "defaults"},
            user : 0..MaxUser, name : Name \cup {Freed}, mail : Mail \cup {Freed},
            admin : BOOLEAN]
NoRequest == [at |-> "idle", user |-> 0, name |-> Freed, mail |-> Freed, admin |-> FALSE]

Is(what)  == {u \in User : users[u].is = what}
InTable   == Is("live") \cup Is("deleted")
Earliest(S) == CHOOSE u \in S : \A v \in S : u <= v

(* What the two unique indexes refuse: they hold soft-deleted rows too.        *)
Taken(n, m, u) == \E v \in InTable \ {u} :
  \/ indexed /\ n # Freed /\ users[v].name = n
  \/ m # Freed /\ users[v].mail = m

Serving     == boot.at = "serve"
Proceed(t, r)  == request' = [request EXCEPT ![t] = r]
Answer(t)      == Proceed(t, NoRequest)
Dropping(u) == \E t \in Request : request[t].at = "drop" /\ request[t].user = u
Release(u)  == [n \in Name |-> IF owner[n] = u THEN 0 ELSE owner[n]]
Fail        == failures < MaxFailures /\ failures' = failures + 1
SameRows    == UNCHANGED <<accountRows, owner, torn, crossed>>

(* Names ending in _Bug are variants of the definition that follows them, each *)
(* with a mistake the code could have; the properties are tried against them.  *)

-----------------------------------------------------------------------------
(* Startup, one process at a time: PrepareUserNameUniqueness, AutoMigrate,     *)
(* InitDefaultAdmin.  Each list is read once and then worked through.          *)
Purge ==
  /\ boot.at = "purge"
  /\ LET seed == {u \in InTable : users[u].mail = SeedMail} IN
     /\ users' = [u \in User |-> IF u \in seed THEN [NoRow EXCEPT !.is = "purged"]
                                                ELSE users[u]]
     /\ owner' = [n \in Name |-> IF owner[n] \in seed THEN 0 ELSE owner[n]]
     /\ boot' = [boot EXCEPT !.at = "soft",
                             !.todo = {u \in Is("deleted") \ seed : users[u].name # Freed}]
  /\ UNCHANGED <<used, indexed, settings, session, torn, crossed>>

FreeDeleted ==
  /\ boot.at = "soft"
  /\ IF boot.todo = {}
     THEN /\ boot' = [at |-> "active", todo |-> Is("live"), seen |-> {}]
          /\ UNCHANGED users
     ELSE \E u \in boot.todo :
            /\ users' = [users EXCEPT ![u].name = Freed]
            /\ boot' = [boot EXCEPT !.todo = @ \ {u}]
  /\ UNCHANGED <<used, indexed, settings, session, owner, torn, crossed>>

(* Active rows are taken in the order of their creation; of those with one     *)
(* name the first keeps it.                                                    *)
NextRow_Bug == CHOOSE u \in boot.todo : \A v \in boot.todo : v <= u    \* the latest first

NextRow == Earliest(boot.todo)

KeepFirst ==
  LET u == NextRow IN
  /\ boot.at = "active" /\ boot.todo # {}
  /\ IF users[u].name \in boot.seen
     THEN /\ users' = [users EXCEPT ![u].name = Freed, ![u].mail = Freed]
          /\ boot' = [boot EXCEPT !.at = "dup"]
     ELSE /\ boot' = [boot EXCEPT !.todo = @ \ {u},
                                  !.seen = @ \cup ({users[u].name} \ {Freed})]
          /\ UNCHANGED users
  /\ UNCHANGED <<used, indexed, settings, session, owner, torn, crossed>>

DropDuplicate ==
  LET u == NextRow IN
  /\ boot.at = "dup"
  /\ users' = [users EXCEPT ![u].is = "deleted"]
  /\ boot' = [boot EXCEPT !.at = "active", !.todo = @ \ {u}]
  /\ UNCHANGED <<used, indexed, settings, session, owner, torn, crossed>>

(* AutoMigrate adds the index, or cannot, and the process ends.                *)
Migrate ==
  /\ boot.at = "migrate" \/ (boot.at = "active" /\ boot.todo = {})
  /\ LET clash == \E u, v \in InTable : u # v /\ users[u].name = users[v].name
                                              /\ users[u].name # Freed
     IN IF indexed \/ ~clash
        THEN indexed' = TRUE /\ boot' = [boot EXCEPT !.at = "admin", !.todo = {}, !.seen = {}]
        ELSE indexed' = FALSE /\ boot' = [boot EXCEPT !.at = "down", !.todo = {}, !.seen = {}]
  /\ UNCHANGED <<users, used, settings, session, owner, torn, crossed>>

(* A new row, and its settings: a second statement whose error is ignored.     *)
Create(n, m, admin) ==
  /\ used < MaxUser /\ used' = used + 1
  /\ users' = [users EXCEPT ![used + 1] = [is |-> "live", name |-> n, mail |-> m,
                                           admin |-> admin]]
  /\ owner' = [owner EXCEPT ![n] = used + 1]
  /\ UNCHANGED <<indexed, session, torn, crossed>>

InitDefaultAdmin ==
  /\ boot.at = "admin"
  /\ boot' = [boot EXCEPT !.at = "serve"]
  /\ IF Is("live") = {} /\ ~Taken(AdminName, SeedMail, 0) /\ used < MaxUser
     THEN /\ Create(AdminName, SeedMail, TRUE)
          /\ \E kept \in SUBSET {used + 1} : settings' = settings \cup kept
     ELSE SameRows

(* A statement of the repair fails, the purge among them: the rest is left     *)
(* out, startup goes on.                                                       *)
RepairFails ==
  /\ boot.at \in {"purge", "soft", "active", "dup"}
  /\ Fail
  /\ torn' = IF boot.at = "dup" THEN torn \cup {NextRow} ELSE torn
  /\ crossed' = crossed \cup {u \in Is("deleted") : users[u].name # Freed}
  /\ boot' = [boot EXCEPT !.at = "migrate"]
  /\ UNCHANGED <<accountRows, owner>>

(* The process dies, or has ended, and is started again.                       *)
StartAgain ==
  /\ \/ boot.at = "down" /\ UNCHANGED failures
     \/ boot.at # "down" /\ Fail
  /\ boot' = [at |-> "purge", todo |-> {}, seen |-> {}]
  /\ request' = [t \in Request |-> NoRequest]
  /\ torn' = torn \cup {u \in Is("live") : Dropping(u)}
                  \cup (IF boot.at = "dup" THEN {NextRow} ELSE {})
  /\ UNCHANGED <<accountRows, owner, crossed>>

-----------------------------------------------------------------------------
(* Register, or an administrator's CreateUser: the address is looked up, then  *)
(* the name, among live rows.   RequireAdmin reads the caller's row first.      *)
Admitted == \E a \in Is("live") : users[a].admin

SignUp(t) ==
  /\ request[t].at = "idle"
  /\ \E n \in Name, m \in Mail, admin \in BOOLEAN :
       /\ admin => Admitted
       /\ Proceed(t, [at |-> "mail", user |-> 0, name |-> n, mail |-> m, admin |-> admin])
  /\ SameRows

CheckMail(t) ==
  /\ request[t].at = "mail"
  /\ \A u \in Is("live") : users[u].mail # request[t].mail
  /\ Proceed(t, [request[t] EXCEPT !.at = "name"])
  /\ SameRows

CheckName(t) ==
  /\ request[t].at = "name"
  /\ \A u \in Is("live") : users[u].name # request[t].name
  /\ Proceed(t, [request[t] EXCEPT !.at = "create"])
  /\ SameRows

CreateUser(t) ==
  /\ request[t].at = "create"
  /\ ~Taken(request[t].name, request[t].mail, 0)
  /\ Create(request[t].name, request[t].mail, request[t].admin)
  /\ Proceed(t, [NoRequest EXCEPT !.at = "settings", !.user = used + 1])
  /\ UNCHANGED settings

(* The row of settings: at creation, and where a user who has none looks for   *)
(* them.  There is one per user.                                               *)
CreateSettings(t) ==
  /\ request[t].at \in {"settings", "defaults"}
  /\ settings' = settings \cup {request[t].user}
  /\ Answer(t)
  /\ UNCHANGED <<users, used, indexed, session, owner, torn, crossed>>

GetSettings(t) ==
  /\ request[t].at = "idle"
  /\ \E u \in Is("live") \ settings :
       Proceed(t, [NoRequest EXCEPT !.at = "defaults", !.user = u])
  /\ SameRows

(* Login finds the row by address or name, RevokeSession closes the session.   *)
(* The row of a second login has the token_id of the first and is refused.     *)
BeginLogin(t) ==
  /\ request[t].at = "idle"
  /\ \E u \in Is("live") : Proceed(t, [NoRequest EXCEPT !.at = "session", !.user = u])
  /\ SameRows

StoreSession(t) ==
  LET u == request[t].user IN
  /\ request[t].at = "session"
  /\ session' = [session EXCEPT ![u] = IF @ = "none" THEN "active" ELSE @]
  /\ Answer(t)
  /\ UNCHANGED <<users, used, indexed, settings, owner, torn, crossed>>

RevokeSession(t) ==
  /\ request[t].at = "idle"
  /\ \E u \in User : session[u] = "active" /\ session' = [session EXCEPT ![u] = "revoked"]
  /\ UNCHANGED <<users, used, indexed, settings, request, owner, torn, crossed>>

-----------------------------------------------------------------------------
(* UpdateUser, UpdateCurrentUser: the row, the name's other holders, the       *)
(* update.  DeleteUser: the row, the update that frees name and address, the   *)
(* delete.                                                                     *)
BeginUpdate(t) ==
  /\ request[t].at = "idle"
  /\ \E u \in Is("live"), n \in Name, admin \in BOOLEAN :
       /\ admin # users[u].admin => Admitted
       /\ Proceed(t, [NoRequest EXCEPT !.at = "clash", !.user = u, !.name = n,
                                       !.admin = admin])
  /\ SameRows

FindClash(t) ==
  /\ request[t].at = "clash"
  /\ \A u \in Is("live") \ {request[t].user} : users[u].name # request[t].name
  /\ Proceed(t, [request[t] EXCEPT !.at = "update"])
  /\ SameRows

(* A look-up that fails is taken for one that finds nobody: only the unique    *)
(* indexes are left to refuse.                                                 *)
LookupFails(t) ==
  /\ request[t].at \in {"mail", "name", "clash"}
  /\ Fail
  /\ Proceed(t, [request[t] EXCEPT
                   !.at = [mail |-> "name", name |-> "create", clash |-> "update"][@]])
  /\ SameRows

Update(t) ==
  LET u == request[t].user
      n == request[t].name
  IN
  /\ request[t].at = "update"
  /\ IF users[u].is = "live"
     THEN /\ ~Taken(n, Freed, u)
          /\ users' = [users EXCEPT ![u].name = n, ![u].admin = request[t].admin]
          /\ owner' = [Release(u) EXCEPT ![n] = u]
          /\ crossed' = IF Dropping(u) THEN crossed \cup {u} ELSE crossed
     ELSE UNCHANGED <<users, owner, crossed>>
  /\ Answer(t)
  /\ UNCHANGED <<used, indexed, settings, session, torn>>

BeginDelete(t) ==
  /\ request[t].at = "idle" /\ Admitted
  /\ \E u \in Is("live") : Proceed(t, [NoRequest EXCEPT !.at = "free", !.user = u])
  /\ SameRows

Free_Bug(t) ==               \* the address stays
  LET u == request[t].user IN
  /\ request[t].at = "free"
  /\ IF users[u].is = "live"
     THEN /\ users' = [users EXCEPT ![u].name = Freed]
          /\ owner' = Release(u)
     ELSE UNCHANGED <<users, owner>>
  /\ Proceed(t, [request[t] EXCEPT !.at = "drop"])
  /\ UNCHANGED <<used, indexed, settings, session, torn, crossed>>

Free(t) ==
  LET u == request[t].user IN
  /\ request[t].at = "free"
  /\ IF users[u].is = "live"
     THEN /\ users' = [users EXCEPT ![u].name = Freed, ![u].mail = Freed]
          /\ owner' = Release(u)
     ELSE UNCHANGED <<users, owner>>
  /\ Proceed(t, [request[t] EXCEPT !.at = "drop"])
  /\ UNCHANGED <<used, indexed, settings, session, torn, crossed>>

DeleteUser(t) ==
  LET u == request[t].user IN
  /\ request[t].at = "drop"
  /\ IF users[u].is = "live"
     THEN users' = [users EXCEPT ![u].is = "deleted"] /\ owner' = Release(u)
     ELSE UNCHANGED <<users, owner>>
  /\ Answer(t)
  /\ UNCHANGED <<used, indexed, settings, session, torn, crossed>>

(* A request is refused, or its next statement fails.                          *)
Refuse(t) ==
  /\ request[t].at # "idle"
  /\ torn' = IF request[t].at = "drop" /\ users[request[t].user].is = "live"
             THEN torn \cup {request[t].user} ELSE torn
  /\ Answer(t)
  /\ UNCHANGED <<accountRows, owner, crossed>>

-----------------------------------------------------------------------------
(* An old database, without uk_users_name: an address was always unique.       *)
FirstHolder(table, n) ==
  LET holders == {u \in User : table[u].is = "live" /\ table[u].name = n}
      stay    == {u \in holders : table[u].mail # SeedMail}
  IN CASE stay # {}    -> Earliest(stay)
       [] holders = {} -> 0
       [] OTHER        -> Earliest(holders)

AccountInit ==
  /\ used \in 0..MaxLegacy
  /\ \E table \in [1..used -> [is : {"live", "deleted"}, name : Name, mail : Mail,
                             admin : BOOLEAN]] :
       /\ \A u, v \in 1..used : table[u].mail = table[v].mail => u = v
       /\ users = [u \in User |-> IF u <= used THEN table[u] ELSE NoRow]
       /\ owner = [n \in Name |-> FirstHolder(users, n)]
  /\ indexed = FALSE
  /\ settings = {} /\ session = [u \in User |-> "none"]
  /\ boot = [at |-> "purge", todo |-> {}, seen |-> {}]
  /\ request = [t \in Request |-> NoRequest]
  /\ served = 0 /\ failures = 0 /\ torn = {} /\ crossed = {}
  /\ old = Is("deleted")

StartUp ==
  /\ \/ (Purge \/ FreeDeleted \/ KeepFirst \/ DropDuplicate \/ Migrate \/ InitDefaultAdmin)
          /\ UNCHANGED failures
     \/ RepairFails
  /\ UNCHANGED <<request, served>>

Comes(t) ==
  /\ served < MaxRequests /\ served' = served + 1
  /\ \/ SignUp(t) \/ GetSettings(t) \/ BeginLogin(t) \/ RevokeSession(t)
     \/ BeginUpdate(t) \/ BeginDelete(t)

Continue(t) ==
  /\ UNCHANGED served
  /\ \/ CheckMail(t) \/ CheckName(t) \/ CreateUser(t) \/ CreateSettings(t)
     \/ StoreSession(t) \/ FindClash(t) \/ Update(t) \/ Free(t) \/ DeleteUser(t)
     \/ Refuse(t)

AccountNext ==
  /\ \/ StartUp
     \/ Serving /\ (\E t \in Request : Comes(t) \/ Continue(t)) /\ UNCHANGED <<boot, failures>>
     \/ Serving /\ (\E t \in Request : LookupFails(t)) /\ UNCHANGED <<boot, served>>
     \/ StartAgain /\ UNCHANGED served
  /\ UNCHANGED old

AccountSpec == AccountInit /\ [][AccountNext]_accountVars

-----------------------------------------------------------------------------
(* Every variable keeps its type. *)
AccountTypeOK ==
  /\ users \in [User -> UserRow] /\ used \in 0..MaxUser /\ indexed \in BOOLEAN
  /\ settings \subseteq User /\ session \in [User -> {"none", "active", "revoked"}]
  /\ boot \in Boot /\ request \in [Request -> Pending]
  /\ served \in Nat /\ failures \in Nat
  /\ owner \in [Name -> 0..MaxUser] /\ torn \subseteq User /\ crossed \subseteq User
  /\ old \subseteq User

(* A name belongs to the account that was given it last, in an old database to *)
(* the earliest of those that share it, the seed last, until it is renamed,    *)
(* removed or purged as the seed: that account is live and has it, and once    *)
(* the server serves no other live account has (the repair survives a crash    *)
(* at any point).                                                              *)
NamesKept ==
  \A n \in Name :
    /\ owner[n] # 0 => users[owner[n]].is = "live" /\ users[owner[n]].name = n
    /\ Serving => {u \in Is("live") : users[u].name = n} = {owner[n]} \ {0}

(* Removing an account frees its name and its address for others, unless it    *)
(* was updated between the two statements; and a live account keeps both,      *)
(* unless a removal stopped between them (user/service.go:199).                *)
RemovedAreFreed ==
  Serving => \A u \in User \ (torn \cup crossed) :
    /\ users[u].is = "deleted" => users[u].name = Freed
                                 /\ (u \in old \/ users[u].mail = Freed)
    /\ users[u].is = "live" /\ users[u].name = Freed => Dropping(u)
================================================================================
