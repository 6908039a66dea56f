--------------------------- MODULE MCEventSystem ---------------------------
(* EventSystem with two handlers, so that a question can go on to another   *)
(* one, and two askers, one of which cancels; KeyLoader, with a provider of  *)
(* each kind, that asks in a thread; and KeyGenerator, which shares nothing  *)
(* with the two but that it has threads and an end that is told.  One moves  *)
(* while the others are as they were created.                                *)
EXTENDS EventSystem

CONSTANTS Contexts, MaxNumber, Careful, Providers

ThreeProviders == <<"ossl", "exact", "none">>

VARIABLES gen, ctx, number, ended, crashed, active, in, out, thread, call

generatorVars == <<gen, ctx, number, ended, crashed>>
loaderVars == <<active, in, out, thread, call>>

KG == INSTANCE KeyGenerator WITH next <- number
KL == INSTANCE KeyLoader

QuestionsInit == Init /\ KG!Init /\ KL!Init
QuestionsNext ==
  \/ KG!Init /\ KL!Init /\ Next /\ UNCHANGED <<generatorVars, loaderVars>>
  \/ Init /\ KL!Init /\ KG!Next /\ UNCHANGED <<vars, loaderVars>>
  \/ Init /\ KG!Init /\ KL!Next /\ UNCHANGED <<vars, generatorVars>>

QuestionsSpec ==
  /\ QuestionsInit /\ [][QuestionsNext]_<<vars, generatorVars, loaderVars>>
  /\ Fairness /\ KG!Fairness /\ KL!Fairness

\* Of KeyGenerator and KeyLoader: what they tell is so, and of the operation
\* that has ended; and they tell it.
KeysConsistent == KG!GeneratorConsistent /\ KL!LoaderConsistent
KeysArrive == KG!GeneratorEnds /\ KL!LoadEnds
=============================================================================
