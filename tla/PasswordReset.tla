---------------------------- MODULE PasswordReset ----------------------------
(***************************************************************************)
(* Password reset by mail, and the other two ways to change a password.    *)
(* internal/auth/password_reset.go, internal/user/service.go:416-530.      *)
(*                                                                         *)
(* Redis holds three kinds of keys: token -> user, user -> token, and the  *)
(* number of requests for an address.  Each command is an action, may      *)
(* fail, and keys expire.  An address is known by its user.                *)
(***************************************************************************)
EXTENDS Integers, FiniteSets

CONSTANTS
  Caller,     \* goroutines that serve requests
  Person,     \* users
  Token,      \* random tokens that may be drawn
  Password,
  NoPerson, NoToken, NoPassword,
  RateMax,    \* pwdResetRateMax
  MaxVisits, MaxLosses    \* bounds: requests; Redis commands that fail

ASSUME ResetAssumption ==
  /\ NoPerson \notin Person /\ NoToken \notin Token /\ NoPassword \notin Password
  /\ RateMax \in Nat \ {0} /\ MaxVisits \in Nat /\ MaxLosses \in Nat

VARIABLES
  tokKey,     \* token -> its user, while the key exists
  uidKey,     \* user -> the token issued last, while the key exists
  rate,       \* user -> the counter of requests for its address
  expires,    \* users whose counter has a time to live
  drawn,      \* tokens drawn so far
  mailed,     \* tokens that reached their user
  password,   \* user -> its password
  visit,      \* goroutine -> its request
  visits, losses,
  (* history *)
  uses,       \* token -> passwords set with it
  raced,      \* users two requests worked for at once, or a command failed for
  stuck       \* users whose counter was never given a time to live

redisKeys == <<tokKey, uidKey, rate, expires>>
resetVars == <<redisKeys, drawn, mailed, password, visit, visits, losses, uses, raced, stuck>>

Visit == [at : {"idle", "count", "expire", "look", "old", "delOld", "store", "mail",
                "get", "set", "delTok", "delUid", "write"},
          who : Person \cup {NoPerson}, tok : Token \cup {NoToken},
          old : Token \cup {NoToken}, new : Password \cup {NoPassword}]
NoVisit == [at |-> "idle", who |-> NoPerson, tok |-> NoToken, old |-> NoToken,
            new |-> NoPassword]

Enters(t, r)   == visit[t].at = "idle" /\ visit' = [visit EXCEPT ![t] = r]
Moves(t, at)   == visit' = [visit EXCEPT ![t].at = at]
Returns(t)     == visit' = [visit EXCEPT ![t] = NoVisit]
Valid(u)       == {k \in Token : tokKey[k] = u}

(* Goroutines that have read a token key of u and not written their last one.  *)
AtKeysOf(u) == {t \in Caller : visit[t].who = u
                  /\ visit[t].at \in {"delOld", "store", "set", "delTok", "delUid"}}
Meets(u) == raced' = IF AtKeysOf(u) = {} THEN raced ELSE raced \cup {u}

(* A command fails: the caller of Del and Expire ignores it.                   *)
Lost(u)  == losses < MaxLosses /\ losses' = losses + 1 /\ raced' = raced \cup {u}
Answered == UNCHANGED <<losses, raced>>

(* Names ending in _Bug are variants of the definition that follows them, each *)
(* with a mistake the code could have; the properties are tried against them.  *)

-----------------------------------------------------------------------------
(* RequestPasswordReset *)
Forgot(t) ==
  /\ \E u \in Person : Enters(t, [NoVisit EXCEPT !.at = "count", !.who = u])
  /\ UNCHANGED <<redisKeys, drawn, mailed, password, uses, stuck>> /\ Answered

(* checkResetRate: increment; the first gives the key its time to live; those  *)
(* over the limit are refused.                                                 *)
CountRequest_Bug(t) ==       \* no request gives the key a time to live
  LET u == visit[t].who
      n == rate[u] + 1
  IN
  /\ visit[t].at = "count"
  /\ rate' = [rate EXCEPT ![u] = n]
  /\ IF n > RateMax THEN Returns(t) ELSE Moves(t, "look")
  /\ UNCHANGED <<tokKey, uidKey, expires, drawn, mailed, password, uses, stuck>> /\ Answered

CountRequest(t) ==
  LET u == visit[t].who
      n == rate[u] + 1
  IN
  /\ visit[t].at = "count"
  /\ rate' = [rate EXCEPT ![u] = n]
  /\ CASE n = 1      -> Moves(t, "expire")
       [] n > RateMax -> Returns(t)
       [] OTHER      -> Moves(t, "look")
  /\ UNCHANGED <<tokKey, uidKey, expires, drawn, mailed, password, uses, stuck>> /\ Answered

(* The answer of the increment is lost: the request ends, but has counted.     *)
CountLost(t) ==
  LET u == visit[t].who IN
  /\ visit[t].at = "count"
  /\ rate' = [rate EXCEPT ![u] = @ + 1]
  /\ stuck' = IF rate[u] = 0 THEN stuck \cup {u} ELSE stuck
  /\ losses < MaxLosses /\ losses' = losses + 1
  /\ Returns(t)
  /\ UNCHANGED <<tokKey, uidKey, expires, drawn, mailed, password, uses, raced>>

ExpireCounter(t) ==
  LET u == visit[t].who IN
  /\ visit[t].at = "expire"
  /\ \/ expires' = expires \cup {u} /\ UNCHANGED stuck /\ Answered
     \/ UNCHANGED expires /\ stuck' = stuck \cup {u} /\ Lost(u)
  /\ Moves(t, "look")
  /\ UNCHANGED <<tokKey, uidKey, rate, drawn, mailed, password, uses>>

(* The row, if there is an active one, and a random token.                     *)
DrawToken(t) ==
  /\ visit[t].at = "look"
  /\ \E k \in Token \ drawn :
       /\ drawn' = drawn \cup {k}
       /\ visit' = [visit EXCEPT ![t].at = "old", ![t].tok = k]
  /\ UNCHANGED <<redisKeys, mailed, password, uses, stuck>> /\ Answered

(* storeResetToken reads the user's token, deletes it, stores the new one.     *)
ReadOld(t) ==
  LET u == visit[t].who IN
  /\ visit[t].at = "old"
  /\ \/ /\ visit' = [visit EXCEPT ![t].at = IF uidKey[u] = NoToken THEN "store" ELSE "delOld",
                                ![t].old = uidKey[u]]
        /\ Meets(u) /\ UNCHANGED losses
     \/ Moves(t, "store") /\ Lost(u)
  /\ UNCHANGED <<redisKeys, drawn, mailed, password, uses, stuck>>

DeleteOld(t) ==
  LET u == visit[t].who IN
  /\ visit[t].at = "delOld"
  /\ \/ tokKey' = [tokKey EXCEPT ![visit[t].old] = NoPerson] /\ Answered
     \/ UNCHANGED tokKey /\ Lost(u)
  /\ Moves(t, "store")
  /\ UNCHANGED <<uidKey, rate, expires, drawn, mailed, password, uses, stuck>>

StoreToken(t) ==
  LET u == visit[t].who
      k == visit[t].tok
  IN
  /\ visit[t].at = "store"
  /\ tokKey' = [tokKey EXCEPT ![k] = u]
  /\ \/ uidKey' = [uidKey EXCEPT ![u] = k] /\ Moves(t, "mail") /\ Answered
     \/ UNCHANGED uidKey /\ Returns(t) /\ Lost(u)
  /\ UNCHANGED <<rate, expires, drawn, mailed, password, uses, stuck>>

SendMail_Bug(t) ==           \* what the user's key holds by now is sent
  /\ visit[t].at = "mail"
  /\ mailed' = mailed \cup {uidKey[visit[t].who]}
  /\ Returns(t)
  /\ UNCHANGED <<redisKeys, drawn, password, uses, stuck>> /\ Answered

SendMail(t) ==
  /\ visit[t].at = "mail"
  /\ mailed' = mailed \cup {visit[t].tok}
  /\ Returns(t)
  /\ UNCHANGED <<redisKeys, drawn, password, uses, stuck>> /\ Answered

-----------------------------------------------------------------------------
(* ResetPasswordWithToken: the token's user, the password, the two deletes.    *)
BeginReset(t) ==
  /\ \E k \in mailed, w \in Password :
       Enters(t, [NoVisit EXCEPT !.at = "get", !.tok = k, !.new = w])
  /\ UNCHANGED <<redisKeys, drawn, mailed, password, uses, stuck>> /\ Answered

GetToken(t) ==
  LET u == tokKey[visit[t].tok] IN
  /\ visit[t].at = "get"
  /\ u # NoPerson
  /\ visit' = [visit EXCEPT ![t].at = "set", ![t].who = u]
  /\ Meets(u)
  /\ UNCHANGED <<redisKeys, drawn, mailed, password, losses, uses, stuck>>

SetPassword(t) ==
  /\ visit[t].at = "set"
  /\ password' = [password EXCEPT ![visit[t].who] = visit[t].new]
  /\ uses' = [uses EXCEPT ![visit[t].tok] = @ + 1]
  /\ Moves(t, "delTok")
  /\ UNCHANGED <<redisKeys, drawn, mailed, stuck>> /\ Answered

DeleteToken_Bug(t) ==        \* the user's key goes, the token's stays
  /\ visit[t].at = "delTok"
  /\ Moves(t, "delUid")
  /\ UNCHANGED <<redisKeys, drawn, mailed, password, uses, stuck>> /\ Answered

DeleteToken(t) ==
  /\ visit[t].at = "delTok"
  /\ \/ tokKey' = [tokKey EXCEPT ![visit[t].tok] = NoPerson] /\ Answered
     \/ UNCHANGED tokKey /\ Lost(visit[t].who)
  /\ Moves(t, "delUid")
  /\ UNCHANGED <<uidKey, rate, expires, drawn, mailed, password, uses, stuck>>

DeleteUid(t) ==
  /\ visit[t].at = "delUid"
  /\ \/ uidKey' = [uidKey EXCEPT ![visit[t].who] = NoToken] /\ Answered
     \/ UNCHANGED uidKey /\ Lost(visit[t].who)
  /\ Returns(t)
  /\ UNCHANGED <<tokKey, rate, expires, drawn, mailed, password, uses, stuck>>

(* A request ends with an error: a key that is not there, a query or the mail  *)
(* that fails, the process that dies.                                          *)
Abandon(t) ==
  LET u == visit[t].who IN
  /\ visit[t].at # "idle"
  /\ raced' = IF visit[t].at \in {"delTok", "delUid"} THEN raced \cup {u} ELSE raced
  /\ stuck' = IF visit[t].at = "expire" THEN stuck \cup {u} ELSE stuck
  /\ Returns(t)
  /\ UNCHANGED <<redisKeys, drawn, mailed, password, losses, uses>>

-----------------------------------------------------------------------------
(* ChangePassword compares the old password with the row it reads and writes   *)
(* the new one later; AdminResetPassword writes without comparing.             *)
BeginChange(t) ==
  /\ \E u \in Person, w \in Password :
       w # password[u] /\ Enters(t, [NoVisit EXCEPT !.at = "write", !.who = u, !.new = w])
  /\ UNCHANGED <<redisKeys, drawn, mailed, password, uses, stuck>> /\ Answered

WritePassword(t) ==
  /\ visit[t].at = "write"
  /\ password' = [password EXCEPT ![visit[t].who] = visit[t].new]
  /\ Returns(t)
  /\ UNCHANGED <<redisKeys, drawn, mailed, uses, stuck>> /\ Answered

(* A token and its user's key are set together, the token first, with one time *)
(* to live.                                                                    *)
TokenExpires ==
  /\ \E k \in Token : tokKey[k] # NoPerson /\ tokKey' = [tokKey EXCEPT ![k] = NoPerson]
  /\ UNCHANGED <<uidKey, rate, expires>>

UidExpires ==
  /\ \E u \in Person : /\ uidKey[u] # NoToken /\ tokKey[uidKey[u]] = NoPerson
                       /\ uidKey' = [uidKey EXCEPT ![u] = NoToken]
  /\ UNCHANGED <<tokKey, rate, expires>>

CounterExpires ==
  /\ \E u \in expires : rate' = [rate EXCEPT ![u] = 0] /\ expires' = expires \ {u}
  /\ UNCHANGED <<tokKey, uidKey>>

-----------------------------------------------------------------------------
ResetInit ==
  /\ tokKey = [k \in Token |-> NoPerson] /\ uidKey = [u \in Person |-> NoToken]
  /\ rate = [u \in Person |-> 0] /\ expires = {}
  /\ drawn = {} /\ mailed = {}
  /\ password \in [Person -> Password]
  /\ visit = [t \in Caller |-> NoVisit] /\ visits = 0 /\ losses = 0
  /\ uses = [k \in Token |-> 0] /\ raced = {} /\ stuck = {}

Arrives(t) ==
  /\ visits < MaxVisits /\ visits' = visits + 1
  /\ Forgot(t) \/ BeginReset(t) \/ BeginChange(t)

Works(t) ==
  /\ UNCHANGED visits
  /\ \/ CountRequest(t) \/ CountLost(t) \/ ExpireCounter(t) \/ DrawToken(t) \/ ReadOld(t)
     \/ DeleteOld(t) \/ StoreToken(t) \/ SendMail(t) \/ GetToken(t) \/ SetPassword(t) \/ DeleteToken(t)
     \/ DeleteUid(t) \/ WritePassword(t) \/ Abandon(t)

ResetNext ==
  \/ \E t \in Caller : Arrives(t) \/ Works(t)
  \/ /\ TokenExpires \/ UidExpires \/ CounterExpires
     /\ UNCHANGED <<drawn, mailed, password, visit, visits, losses, uses, raced, stuck>>

ResetSpec == ResetInit /\ [][ResetNext]_resetVars

-----------------------------------------------------------------------------
(* Every variable keeps its type. *)
ResetTypeOK ==
  /\ tokKey \in [Token -> Person \cup {NoPerson}]
  /\ uidKey \in [Person -> Token \cup {NoToken}]
  /\ rate \in [Person -> Nat] /\ expires \subseteq Person
  /\ mailed \subseteq drawn /\ drawn \subseteq Token
  /\ password \in [Person -> Password]
  /\ visit \in [Caller -> Visit] /\ visits \in Nat /\ losses \in Nat
  /\ uses \in [Token -> Nat] /\ raced \subseteq Person /\ stuck \subseteq Person

(* A user has at most one valid token, the one issued last, and a token sets   *)
(* one password; unless two requests worked on the user's keys at once, one    *)
(* broke off after it had set the password, or a command failed                *)
(* (password_reset.go:117, 163).                                               *)
TokensSingle ==
  \A u \in Person \ raced :
    /\ Valid(u) \subseteq {uidKey[u]}
    /\ \A k \in Token : tokKey[k] = u =>
         uses[k] = IF \E t \in Caller : visit[t].at = "delTok" /\ visit[t].tok = k THEN 1 ELSE 0

(* A counter lasts for ever only if the command or the process that was to     *)
(* give it a time to live failed (password_reset.go:153).                      *)
LockoutsEnd ==
  \A u \in Person \ stuck :
    rate[u] > 0 => \/ u \in expires
                   \/ \E t \in Caller : visit[t].at = "expire" /\ visit[t].who = u
================================================================================
