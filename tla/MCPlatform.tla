------------------------------ MODULE MCPlatform ------------------------------
(***************************************************************************)
(* Nine components that share no state, one at a time: a behaviour chooses*)
(* the component whose requests it serves.  Ids, tokens and goroutines are *)
(* interchangeable in each of them, and their instances are drawn from the *)
(* same sets of model values, so that one small group of permutations is   *)
(* sound for all.                                                          *)
(***************************************************************************)
EXTENDS Prompts, Accounts, Roles, PasswordReset, ProviderRows, Conversation,
        McpRegistry, Evaluation, LoopNode, TLC

CONSTANTS Thread, Id, Key, vendor, word, index

VARIABLE part

Part == {"prompts", "accounts", "roles", "reset", "providers", "conversation",
         "tools", "evaluation", "loops"}

BuiltInProviders == <<vendor>>

LoopLimits == {-1, 0, 2}
LoopCounts == {-1, 1, 4}
LoopTerms  == {[field |-> index, op |-> "<",  value |-> 1],
               [field |-> index, op |-> ">=", value |-> 1],
               [field |-> word,  op |-> "==", value |-> word],
               [field |-> word,  op |-> "!=", value |-> 0]}

Symmetry == Permutations(Thread) \cup Permutations(Id) \cup Permutations(Key)

platformVars == <<part, promptVars, accountVars, roleVars, resetVars, providerVars, convVars,
                  registryVars, evalVars, loopVars>>

PlatformInit ==
  /\ part \in Part
  /\ PromptInit /\ AccountInit /\ RoleInit /\ ResetInit /\ ProviderInit /\ ConvInit
  /\ RegistryInit /\ EvalInit /\ LoopInit
  (* those of several initial states have them when it is their turn            *)
  /\ part # "accounts" => used = 0
  /\ \A u \in 1..used : ~users[u].admin
  /\ part # "conversation" => conv.messages = <<>>
  /\ part # "roles" => \A m \in Member : roleOf[m] = NoRole
  /\ part # "reset" => \A m \in Person : password[m] = word

(* Only component p has a step. *)
Only(p) ==
  /\ part = p /\ UNCHANGED part
  /\ p # "prompts"      => UNCHANGED promptVars
  /\ p # "accounts"     => UNCHANGED accountVars
  /\ p # "roles"        => UNCHANGED roleVars
  /\ p # "reset"        => UNCHANGED resetVars
  /\ p # "providers"    => UNCHANGED providerVars
  /\ p # "conversation" => UNCHANGED convVars
  /\ p # "tools"        => UNCHANGED registryVars
  /\ p # "evaluation"   => UNCHANGED evalVars
  /\ p # "loops"        => UNCHANGED loopVars

PlatformNext ==
  \/ Only("prompts") /\ PromptNext
  \/ Only("accounts") /\ AccountNext
  \/ Only("roles") /\ RoleNext
  \/ Only("reset") /\ ResetNext
  \/ Only("providers") /\ ProviderNext
  \/ Only("conversation") /\ ConvNext
  \/ Only("tools") /\ RegistryNext
  \/ Only("evaluation") /\ EvalNext
  \/ Only("loops") /\ LoopNext

PlatformSpec == PlatformInit /\ [][PlatformNext]_platformVars

TypeOK ==
  /\ PromptTypeOK /\ AccountTypeOK /\ RoleTypeOK /\ ResetTypeOK /\ ProviderTypeOK
  /\ ConvTypeOK /\ RegistryTypeOK /\ EvalTypeOK /\ LoopTypeOK
==============================================================================
