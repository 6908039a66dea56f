---------------------------- MODULE EntryWatcher ----------------------------
(***************************************************************************)
(* KeyStoreEntryWatcher of qca_keystore.cpp: it has a KeyStoreManager of    *)
(* its own, opens a KeyStore for the store of one entry whenever that store *)
(* is there, and tells by available() and unavailable() whether the entry   *)
(* is in it.                                                               *)
(*                                                                         *)
(* The modules below it stand for the rest; the application's thread either *)
(* has a watcher, and does nothing beside, or uses KeyStoreManager itself.  *)
(***************************************************************************)
EXTENDS KeyStoreManager

CONSTANTS
  Watches,       \* whether the application has a watcher: a set of Booleans
  storeId,       \* the store of the watched entry
  WithEntry,     \* the versions of a store's content that the entry is in
  AppKeyStores   \* the KeyStore objects of an application without a watcher

ASSUME WatcherAssumption == /\ Watches \subseteq BOOLEAN
                            /\ storeId \in StoreIds
                            /\ WithEntry \subseteq Nat
                            /\ AppKeyStores \subseteq KeyStores

VARIABLES
  watching,
  ks,      \* the watcher's KeyStore, or "none"
  avail,
  todo     \* keyStoreAvailable() that do_update(), or start(), has still to emit

watcherVars == <<watching, ks, avail, todo>>

WatcherInit ==
  /\ Init
  /\ watching \in Watches
  /\ ks = "none"
  /\ avail = FALSE
  /\ todo = FALSE

\* The constructor is that of its manager, and then start().
WatcherStarts ==
  /\ sync_items
  /\ todo' = \E i \in items : i.storeId = storeId
  /\ UNCHANGED <<ks, avail>>

\* What do_update() finds: stores that are new are announced after the rest.
WatcherUpdates ==
  /\ update_signals
  /\ todo' = \E i \in newitems : /\ i.storeId = storeId
                                 /\ \A j \in mitems : i.trackerId # j.trackerId
  /\ UNCHANGED <<ks, avail>>

\* ksm_available(): the KeyStore there was is left as it is.
ksm_available ==
  /\ app = "loop" /\ todo
  /\ todo' = FALSE
  /\ \E k \in KeyStores, i \in {x \in mitems : x.storeId = storeId} :
       /\ keystore[k].state = "none"
       /\ ks' = k
       /\ registered' = Registered(k, i.trackerId)
       /\ keystore' = [keystore EXCEPT ![k] = async_entryList(
            [NoKeyStore EXCEPT !.state = "valid", !.trackerId = i.trackerId, !.async = TRUE])]
  /\ UNCHANGED <<trackerVars, app, mbusy, mitems, pending, waiting, newbusy, newitems, avail>>

\* Mutant: the entry is looked for in the KeyStore that says updated().
ks_updatedOfSender(k) ==
  /\ op_finished(k)
  /\ avail' = (keystore'[k].latest \in WithEntry)
  /\ UNCHANGED <<ks, todo>>

\* ks_updated(), which follows op_finished() of any of the KeyStores there were.
ks_updated(k) ==
  /\ op_finished(k)
  /\ avail' = (keystore'[ks].latest \in WithEntry)
  /\ UNCHANGED <<ks, todo>>

----------------------------------------------------------------------------
WatcherNext ==
  \/ /\ \/ Slots /\ UNCHANGED managerVars
        \/ Announce
        \/ \E k \in KeyStores : KeyStoreOperation(k)
        \/ KeyStoreManager \/ sync_busy \/ update_busy \/ update_items
        \/ ~todo /\ update
     /\ UNCHANGED <<ks, avail, todo>>
  \/ WatcherStarts
  \/ WatcherUpdates
  \/ ksm_available
  \/ ~todo /\ \E k \in KeyStores : ks_updated(k)

SystemNext ==
  \/ /\ ~watching
     /\ Next
     /\ \A k \in KeyStores \ AppKeyStores : keystore'[k] = NoKeyStore
     /\ UNCHANGED watcherVars
  \/ /\ watching
     /\ WatcherNext
     /\ sources' \subseteq {Owner[storeId]}  \* only the provider of the store is started
     /\ UNCHANGED <<watching, absorbed>>

SystemSpec == WatcherInit /\ [][SystemNext]_<<vars, watcherVars>> /\ Fairness

----------------------------------------------------------------------------
\* With nothing on its way, the watcher's KeyStore has the tracker's last word.
AtRest ==
  /\ watching /\ Quiet /\ ~todo
  /\ \A k \in KeyStores : keystore[k].op = "none"

\* While the store of the entry is there, the watcher is of the right mind: the
\* entry is available if and only if it is in the store, however often the store
\* went and came back while its KeyStores were reading it.
WatcherFollows ==
  AtRest => \A i \in items :
    i.storeId = storeId /\ contextOf[storeId] = i.storeContextId
      => (avail <=> content[storeId] \in WithEntry)

\* When the store of an entry has gone, the entry has become unavailable.
EntryGoneIsTold ==
  AtRest /\ avail => \E i \in items : i.storeId = storeId
=============================================================================
