--------------------------- MODULE KeyStoreTracker --------------------------
(***************************************************************************)
(* KeyStoreTracker (src/src/qca_keystore.cpp): the object in the tracker   *)
(* thread that starts the keystore providers, listens to their contexts,   *)
(* keeps the list of the stores that are there, and announces changes with *)
(* the queued signal updated_p.                                            *)
(*                                                                         *)
(* A slot of the tracker is one action.  Other threads read busy and then  *)
(* items, each under the mutex m; that ksl_busyEnd() writes items first    *)
(* and busy afterwards, under m each, shows them nothing that they cannot  *)
(* also see when both are written at once.  Names and the read-only flag   *)
(* of a store, and the diagnostic text, are left out.                      *)
(***************************************************************************)
EXTENDS Naturals, FiniteSets

CONSTANTS
  Providers,     \* the providers with the feature "keystorelist"
  StoreIds,      \* the stores, by the id that outlives their presence
  Owner,         \* the provider that lists each store
  Again,         \* the providers that emit busyStart() later on
  MaxContexts,   \* bound on the context ids
  MaxContent,    \* bound on the changes of a store's entries
  MaxQueued      \* bound on the updated_p events that are queued at a time

ASSUME TrackerAssumption ==
  /\ IsFiniteSet(StoreIds)
  /\ Owner \in [StoreIds -> Providers]
  /\ Again \subseteq Providers
  /\ MaxContexts \in Nat
  /\ MaxContent \in Nat
  /\ MaxQueued \in Nat

VARIABLES
  \* the providers' contexts
  contextOf,     \* the context id of each store that is there, or 0
  content,       \* the version of each store's entries
  contexts,      \* the number of context ids given so far
  \* the tracker
  sources, busySources,
  busy,
  items,         \* the known stores
  tracker_id_at,
  updated_p      \* how many updated_p events are in the tracker thread's queue

storeVars == <<contextOf, content, contexts>>
trackerVars == <<contextOf, content, contexts, sources, busySources, busy,
                  items, tracker_id_at, updated_p>>

TrackerInit ==
  /\ contextOf = [s \in StoreIds |-> 0]
  /\ content = [s \in StoreIds |-> 0]
  /\ contexts = 0
  /\ sources = {}
  /\ busySources = {}
  /\ busy = TRUE
  /\ items = {}
  /\ tracker_id_at = 0
  /\ updated_p = 0

----------------------------------------------------------------------------
\* Mutant: an item is kept when its store has a new context.
KeptById(c, context) ==
  {i \in items : Owner[i.storeId] = c => context[i.storeId] # 0}

\* The items after updateStores(c): those of contexts that are gone are removed,
\* a store with a new context id is a new item.
Kept(c, context) ==
  {i \in items : Owner[i.storeId] = c => context[i.storeId] = i.storeContextId}

NewStores(c, context) ==
  {s \in StoreIds : /\ Owner[s] = c
                    /\ context[s] # 0
                    /\ \A i \in items : i.storeContextId # context[s]}

Changed(c, context) == Kept(c, context) # items \/ NewStores(c, context) # {}

\* Mutant: the counter is not advanced.
updateStoresUncounted(c, context) ==
  LET new == NewStores(c, context)
      ids == tracker_id_at .. tracker_id_at + Cardinality(new) - 1
  IN  \E id \in [new -> ids] :
        /\ \A s, t \in new : id[s] = id[t] => s = t
        /\ items' = Kept(c, context) \cup
             {[trackerId |-> id[s], storeContextId |-> context[s], storeId |-> s,
               updateCount |-> 0] : s \in new}
        /\ UNCHANGED tracker_id_at

updateStores(c, context) ==
  LET new == NewStores(c, context)
      ids == tracker_id_at .. tracker_id_at + Cardinality(new) - 1
  IN  \E id \in [new -> ids] :
        /\ \A s, t \in new : id[s] = id[t] => s = t
        /\ items' = Kept(c, context) \cup
             {[trackerId |-> id[s], storeContextId |-> context[s], storeId |-> s,
               updateCount |-> 0] : s \in new}
        /\ tracker_id_at' = tracker_id_at + Cardinality(new)

----------------------------------------------------------------------------
(* The tracker thread.                                                      *)

\* The slots start() and start(provider), asked for by KeyStoreManager::start():
\* those of ps that have no context yet get one, and it begins to look for
\* stores.  Each emits busyEnd() in a later turn of the event loop.
start(ps) ==
  /\ sources' = sources \cup ps
  /\ busySources' = busySources \cup (ps \ sources)
  /\ UNCHANGED <<storeVars, busy, items, tracker_id_at, updated_p>>

ksl_busyEnd(c) ==
  /\ c \in busySources
  /\ busySources' = busySources \ {c}
  /\ updateStores(c, contextOf)
  /\ busy' = (busy /\ busySources' # {})
  /\ updated_p' = IF busySources' = {} \/ Changed(c, contextOf)
                    THEN updated_p + 1 ELSE updated_p
  /\ UNCHANGED <<storeVars, sources>>

ksl_busyStart(c) ==
  /\ c \in Again \cap sources
  /\ c \notin busySources
  /\ busySources' = busySources \cup {c}
  /\ updated_p' = updated_p + 1
  /\ UNCHANGED <<storeVars, sources, busy, items, tracker_id_at>>

\* What follows a change of c's stores: ksl_updated() if c is not busy, and
\* otherwise nothing until it has finished.
Announced(c, context) ==
  IF c \in sources \ busySources
    THEN /\ updateStores(c, context)
         /\ updated_p' = IF Changed(c, context) THEN updated_p + 1 ELSE updated_p
    ELSE UNCHANGED <<items, tracker_id_at, updated_p>>

\* A store comes, with a context id never used before, or goes.
StoreAppears(s) ==
  /\ contextOf[s] = 0
  /\ contexts < MaxContexts
  /\ contexts' = contexts + 1
  /\ contextOf' = [contextOf EXCEPT ![s] = contexts + 1]
  /\ Announced(Owner[s], contextOf')
  /\ UNCHANGED <<content, sources, busySources, busy>>

StoreGoes(s) ==
  /\ contextOf[s] # 0
  /\ contextOf' = [contextOf EXCEPT ![s] = 0]
  /\ Announced(Owner[s], contextOf')
  /\ UNCHANGED <<content, contexts, sources, busySources, busy>>

\* The entries of a store change, and its context emits storeUpdated().
ksl_storeUpdated(s) ==
  /\ contextOf[s] # 0 /\ Owner[s] \in sources
  /\ content[s] < MaxContent
  /\ content' = [content EXCEPT ![s] = @ + 1]
  /\ LET known == {i \in items : i.storeContextId = contextOf[s]}
     IN  /\ items' = (items \ known) \cup
                       {[i EXCEPT !.updateCount = @ + 1] : i \in known}
         /\ updated_p' = IF known # {} THEN updated_p + 1 ELSE updated_p
  /\ UNCHANGED <<contextOf, contexts, sources, busySources, busy, tracker_id_at>>

\* updated_p arrives and updated() goes to the managers.
updated_locked ==
  /\ updated_p > 0
  /\ updated_p' = updated_p - 1
  /\ UNCHANGED <<storeVars, sources, busySources, busy, items, tracker_id_at>>

Slots ==
  /\ updated_p < MaxQueued
  /\ \/ \E ps \in {Providers} \cup {{p} : p \in Providers} : start(ps)
     \/ \E p \in Providers : ksl_busyEnd(p) \/ ksl_busyStart(p)
     \/ \E s \in StoreIds : StoreAppears(s) \/ StoreGoes(s) \/ ksl_storeUpdated(s)

TrackerNext == Slots \/ updated_locked

TrackerSpec == TrackerInit /\ [][TrackerNext]_trackerVars

----------------------------------------------------------------------------
(* Properties.                                                              *)

TrackerTypeOK ==
  /\ contextOf \in [StoreIds -> 0 .. MaxContexts]
  /\ content \in [StoreIds -> 0 .. MaxContent]
  /\ contexts \in 0 .. MaxContexts
  /\ busySources \subseteq sources /\ sources \subseteq Providers
  /\ busy \in BOOLEAN
  /\ items \subseteq [trackerId : Nat, storeContextId : 1 .. MaxContexts,
                      storeId : StoreIds, updateCount : 0 .. MaxContent]
  /\ tracker_id_at \in Nat
  /\ updated_p \in 0 .. MaxQueued

\* The list has each present store of the contexts that have finished, under its
\* current context, and no store that is gone, nor the same store twice.
ItemsArePresent ==
  \A p \in sources \ busySources :
    {<<i.storeId, i.storeContextId>> : i \in {j \in items : Owner[j.storeId] = p}}
      = {<<s, contextOf[s]>> : s \in {t \in StoreIds : Owner[t] = p /\ contextOf[t] # 0}}

OneItemEach ==
  \A i, j \in items : i # j => i.trackerId # j.trackerId /\ i.storeId # j.storeId

\* No step gives a tracker id from one presence of a store to another: a
\* KeyStore that looks its id up again never finds a different store, though
\* the old and the new one are exchanged in one update.
IdsNotReused ==
  [][\A i \in items, j \in items' :
       i.trackerId = j.trackerId => i.storeContextId = j.storeContextId]_trackerVars

\* The tracker says that it is busy as long as a provider looks for stores.
BusyWhileSearching == busySources # {} => busy
=============================================================================
