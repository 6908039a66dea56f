----------------------------- MODULE MCPlugins -----------------------------
(* SASL with the context of the Cyrus plugin, and the stores of two others.  *)
(*   SASL: two sessions, as client or server, restarted or reset at any time.*)
(*   TokenStores: two tokens that come and go, two threads that use a key on *)
(*   one of them, and no more ids than tokens.                               *)
(*   SoftStore: the list of the store, while the configuration changes.      *)
(* They have nothing to do with each other: one moves while the others are as *)
(* they were created.                                                        *)
EXTENDS SASL, TokenStores

CONSTANTS k1, k2, u1, u2, Parallel, MaxConfig

VARIABLES config, version, entries, updating, queued, known, shown, told

softVars == <<config, version, entries, updating, queued, known, shown, told>>

SL == INSTANCE SoftStore WITH last_id <- version, posted <- queued

Still(moving) ==
  /\ moving # "session" => SaslInit /\ UNCHANGED saslVars
  /\ moving # "tokens" => TokenInit /\ UNCHANGED tokenVars
  /\ moving # "list" => SL!Init /\ UNCHANGED softVars

PluginsInit == SaslInit /\ TokenInit /\ SL!Init
PluginsNext ==
  \/ Still("session") /\ SaslNext
  \/ Still("tokens") /\ TokenNext
  \/ Still("list") /\ SL!Next

PluginsSpec ==
  /\ PluginsInit /\ [][PluginsNext]_<<saslVars, tokenVars, softVars>>
  /\ SaslFairness /\ TokenFairness /\ SL!Fairness

\* The lists of PKCS#11 and qca-softstore follow what there is.
ListsFollow == SL!ListFollows /\ TokensFollow

\* Every operation of a SASL session, and every use of a token's key, ends.
EveryOperationEnds == OperationsEnd /\ KeyUsesEnd

Low == -2
=============================================================================
