---------------------------- MODULE MemoryWindow ----------------------------
(***************************************************************************)
(* What of a list of messages is sent to the model.                        *)
(* internal/memory/window.go.  A message has a role, an id and a size in   *)
(* tokens; size 0 stands for empty content.  Text and images are left out. *)
(***************************************************************************)
EXTENDS Integers, Sequences, FiniteSets, FiniteSetsExt

MessageRoles == {"user", "assistant", "system"}
Message      == [role : MessageRoles, id : Nat, size : Nat]

Tokens(msgs) == MapThenSumSet(LAMBDA i : msgs[i].size, DOMAIN msgs)

(* The last index in S, 0 if there is none. *)
Latest(S)      == IF S = {} THEN 0 ELSE CHOOSE i \in S : \A j \in S : j <= i
Users(msgs)    == {i \in DOMAIN msgs : msgs[i].role = "user"}
LastUser(msgs) == Latest(Users(msgs))

FilterEmpty(msgs) ==
  LET kept    == {i \in DOMAIN msgs : msgs[i].size > 0}
      upTo(i) == Cardinality({j \in kept : j <= i})
  IN [k \in 1..Cardinality(kept) |-> msgs[CHOOSE i \in kept : upTo(i) = k]]

(* The last 2 * turns messages; if they begin with an answer, from the user's  *)
(* message before it on.                                                       *)
TrimToTurns_Bug(msgs, turns) ==     \* the oldest ones are kept
  SubSeq(msgs, 1, IF Len(msgs) <= 2 * turns THEN Len(msgs) ELSE 2 * turns)

TrimToTurns(msgs, turns) ==
  LET start  == Len(msgs) - 2 * turns + 1
      before == Latest({i \in Users(msgs) : i < start})
  IN IF start <= 1 THEN msgs
     ELSE IF msgs[start].role = "assistant" /\ before > 0
     THEN SubSeq(msgs, before, Len(msgs))
     ELSE SubSeq(msgs, start, Len(msgs))

(* While there are too many tokens the oldest message is deleted, except the   *)
(* last one of the user, behind which deleting goes on.                        *)
TrimByToken(msgs, maxTokens) ==
  LET saved   == LastUser(msgs)
      After(k) == SubSeq(msgs, k + 1, Len(msgs))
      Left(k) == IF saved \in 1..k THEN <<msgs[saved]>> \o After(k) ELSE After(k)
      enough  == {k \in 0..Len(msgs) : Tokens(Left(k)) <= maxTokens \/ k = Len(msgs)}
      cut     == CHOOSE k \in enough : \A j \in enough : k <= j
  IN IF maxTokens <= 0 THEN msgs ELSE Left(cut)

Apply(msgs, turns, maxTokens) ==
  TrimByToken(TrimToTurns(FilterEmpty(msgs), turns), maxTokens)

(* Below 0 turns the list is left as it is; 0 stands for the default of 10.    *)
ApplyWindow(msgs, turns, maxTokens) ==
  IF turns < 0 THEN msgs ELSE Apply(msgs, IF turns = 0 THEN 10 ELSE turns, maxTokens)
=============================================================================
