--------------------------- MODULE KeyStoreManager --------------------------
(***************************************************************************)
(* KeyStoreManager, KeyStore and KeyStoreOperation                         *)
(* (src/src/qca_keystore.cpp), on top of KeyStoreTracker: a manager in the *)
(* application's thread keeps a copy of the tracker's busy flag and items, *)
(* learns of changes by tracker_updated(), which runs in the tracker       *)
(* thread and posts update(), and passes them on to its KeyStore objects.  *)
(* A KeyStore in asynchronous mode reads its entries with operations that  *)
(* run in threads of their own.                                            *)
(*                                                                         *)
(* A section under the manager's m is one action; the two reads of the     *)
(* tracker's state, isBusy() and getItems(), are actions of their own.     *)
(***************************************************************************)
EXTENDS KeyStoreTracker, Integers

CONSTANTS
  KeyStores      \* the KeyStore objects the application uses

VARIABLES
  app,           \* where the application's thread is
  mbusy, mitems, \* the manager's busy and items
  pending, waiting,
  newbusy, newitems,  \* locals of do_update()
  registered,    \* keyStoreForTrackerId: for each object in it, those of its id inserted before
  keystore,      \* the KeyStore objects
  absorbed       \* history: a sync() or a wait has replaced the copies by itself

managerVars == <<app, mbusy, mitems, pending, waiting, newbusy, newitems,
                 registered, keystore>>
progVars == <<trackerVars, managerVars>>
vars == <<progVars, absorbed>>

Nothing == -1    \* no entries, no tracker id

\* No object; a KeyStore is "valid" until invalidate() makes it "gone".
NoKeyStore ==
  [state |-> "none", trackerId |-> Nothing, async |-> FALSE, need_update |-> FALSE,
   latest |-> Nothing, op |-> "none", opId |-> Nothing, result |-> Nothing]

Init ==
  /\ TrackerInit
  /\ app = "none"
  /\ mbusy = FALSE /\ mitems = {}
  /\ pending = FALSE /\ waiting = FALSE
  /\ newbusy = FALSE /\ newitems = {}
  /\ registered = [k \in {} |-> {}]
  /\ keystore = [k \in KeyStores |-> NoKeyStore]
  /\ absorbed = FALSE

----------------------------------------------------------------------------
(* tracker_updated(), called in the tracker thread.                         *)

\* Mutant: a manager that waits is not woken.
tracker_updatedSilent ==
  /\ pending' = TRUE
  /\ UNCHANGED <<app, mbusy, mitems, waiting, newbusy, newitems, registered, keystore>>

tracker_updated ==
  /\ pending' = TRUE
  /\ IF waiting /\ ~busy
       THEN /\ mbusy' = FALSE
            /\ mitems' = items
            /\ app' = IF app = "wait" THEN "woken" ELSE app
       ELSE UNCHANGED <<mbusy, mitems, app>>
  /\ UNCHANGED <<waiting, newbusy, newitems, registered, keystore>>

Announce ==
  /\ updated_locked
  /\ IF app = "none" THEN UNCHANGED managerVars ELSE tracker_updated

----------------------------------------------------------------------------
(* The manager's slots and methods.                                         *)

\* The constructor: addTarget(), then sync().
KeyStoreManager ==
  /\ app = "none"
  /\ app' = "sync_busy"
  /\ UNCHANGED <<trackerVars, mbusy, mitems, pending, waiting, newbusy, newitems,
                 registered, keystore>>

sync ==
  /\ app = "loop"
  /\ app' = "sync_busy"
  /\ UNCHANGED <<trackerVars, mbusy, mitems, pending, waiting, newbusy, newitems,
                 registered, keystore>>

sync_busy ==
  /\ app = "sync_busy"
  /\ mbusy' = busy
  /\ app' = "sync_items"
  /\ UNCHANGED <<trackerVars, mitems, pending, waiting, newbusy, newitems, registered,
                 keystore>>

sync_items ==
  /\ app = "sync_items"
  /\ mitems' = items
  /\ app' = "loop"
  /\ UNCHANGED <<trackerVars, mbusy, pending, waiting, newbusy, newitems, registered,
                 keystore>>

waitForBusyFinished ==
  /\ app = "loop"
  /\ mbusy' = busy
  /\ waiting' = busy
  /\ app' = IF busy THEN "wait" ELSE "waited"
  /\ UNCHANGED <<trackerVars, mitems, pending, newbusy, newitems, registered, keystore>>

wait_return ==
  /\ app = "woken"
  /\ waiting' = FALSE
  /\ app' = "waited"
  /\ UNCHANGED <<trackerVars, mbusy, mitems, pending, newbusy, newitems, registered,
                 keystore>>

\* waitForBusyFinished() has returned and the application goes on.
go_on ==
  /\ app = "waited"
  /\ app' = "loop"
  /\ UNCHANGED <<trackerVars, mbusy, mitems, pending, waiting, newbusy, newitems,
                 registered, keystore>>

update ==
  /\ app = "loop"
  /\ pending
  /\ pending' = FALSE
  /\ app' = "update_busy"
  /\ UNCHANGED <<trackerVars, mbusy, mitems, waiting, newbusy, newitems, registered,
                 keystore>>

update_busy ==
  /\ app = "update_busy"
  /\ newbusy' = busy
  /\ app' = "update_items"
  /\ UNCHANGED <<trackerVars, mbusy, mitems, pending, waiting, newitems, registered,
                 keystore>>

\* The signals busyStarted() and busyFinished(), whose slots run now.
update_items ==
  /\ app = "update_items"
  /\ newitems' = items
  /\ app' = "slots"
  /\ UNCHANGED <<trackerVars, mbusy, mitems, pending, waiting, newbusy, registered, keystore>>

----------------------------------------------------------------------------
(* The KeyStore objects.                                                    *)

\* async_entryList(): a new operation, whose thread starts.
async_entryList(ks) ==
  [ks EXCEPT !.op = "run", !.opId = ks.trackerId, !.need_update = FALSE]

handle_updated(ks) ==
  IF ~ks.async THEN ks
  ELSE IF ks.op = "none" THEN async_entryList(ks)
  ELSE [ks EXCEPT !.need_update = TRUE]

\* invalidate() makes the object forget its tracker id; unavailable() follows.
invalidate(ks) == [ks EXCEPT !.state = "gone", !.trackerId = Nothing]

\* The objects in the hash with a tracker id.
With(id) == {k \in DOMAIN registered : keystore[k].trackerId = id}

\* QMultiHash::value(id): of several objects with the id, the last inserted.
Found(id) == {k \in With(id) : With(id) \ {k} \subseteq registered[k]}

\* reg()
Registered(k, id) ==
  [j \in DOMAIN registered \cup {k} |-> IF j = k THEN With(id) ELSE registered[j]]

\* unreg() of objects of different ids: the others with the same id are inserted
\* again, the last first.
Unregistered(ks) ==
  [k \in DOMAIN registered \ ks |->
     LET others == With(keystore[k].trackerId)
     IN  IF others \cap ks = {} THEN registered[k]
         ELSE {j \in others \ ks : k \in registered[j]}]

\* Mutant: the store's id is looked for, which outlives its presence.
GoneByStoreId ==
  {id \in {i.trackerId : i \in mitems} :
     \A i \in mitems, j \in newitems : i.trackerId = id => i.storeId # j.storeId}

Gone == {id \in {i.trackerId : i \in mitems} : \A i \in newitems : i.trackerId # id}

Updated ==
  {id \in {i.trackerId : i \in mitems} :
     \E i \in mitems, j \in newitems :
       i.trackerId = id /\ j.trackerId = id /\ i.updateCount < j.updateCount}

\* The rest of do_update(): the copies are replaced, and the differences are
\* told to one object for each tracker id.
update_signals ==
  /\ app = "slots"
  /\ mbusy' = newbusy
  /\ mitems' = newitems
  /\ LET gone == UNION {Found(id) : id \in Gone}
         updated == UNION {Found(id) : id \in Updated}
     IN  /\ keystore' = [k \in KeyStores |->
              IF k \in gone THEN invalidate(keystore[k])
              ELSE IF k \in updated THEN handle_updated(keystore[k])
              ELSE keystore[k]]
         /\ registered' = Unregistered(gone)
  /\ newbusy' = FALSE /\ newitems' = {}
  /\ app' = "loop"
  /\ UNCHANGED <<trackerVars, pending, waiting>>

\* The constructor of KeyStore finds the store among the manager's items.
KeyStore(k, i) ==
  /\ app = "loop"
  /\ keystore[k].state = "none"
  /\ i \in mitems
  /\ keystore' = [keystore EXCEPT ![k] =
                    [NoKeyStore EXCEPT !.state = "valid", !.trackerId = i.trackerId]]
  /\ registered' = Registered(k, i.trackerId)
  /\ UNCHANGED <<trackerVars, app, mbusy, mitems, pending, waiting, newbusy, newitems>>

\* The destructor, which waits for the thread of an operation to finish.
KeyStoreDeleted(k) ==
  /\ app = "loop"
  /\ keystore[k].state # "none"
  /\ keystore[k].op # "run"
  /\ keystore' = [keystore EXCEPT ![k] = NoKeyStore]
  /\ registered' = IF keystore[k].state = "valid" THEN Unregistered({k})
                   ELSE registered
  /\ UNCHANGED <<trackerVars, app, mbusy, mitems, pending, waiting, newbusy, newitems>>

startAsynchronousMode(k) ==
  /\ app = "loop"
  /\ keystore[k].state # "none"
  /\ ~keystore[k].async
  /\ keystore' = [keystore EXCEPT ![k] = async_entryList([@ EXCEPT !.async = TRUE])]
  /\ UNCHANGED <<trackerVars, app, mbusy, mitems, pending, waiting, newbusy, newitems,
                 registered>>

\* The entries of the store with a tracker id, or none if it is gone.
entryList(id) ==
  LET known == {i \in items : i.trackerId = id /\ contextOf[i.storeId] = i.storeContextId}
  IN  IF known = {} THEN Nothing ELSE content[(CHOOSE i \in known : TRUE).storeId]

\* The operation's thread: its trackercall(), and its end.
KeyStoreOperation(k) ==
  /\ keystore[k].op = "run"
  /\ keystore' = [keystore EXCEPT ![k].op = "done", ![k].result = entryList(keystore[k].opId)]
  /\ UNCHANGED <<trackerVars, app, mbusy, mitems, pending, waiting, newbusy, newitems,
                 registered>>

op_finished(k) ==
  /\ app = "loop"
  /\ keystore[k].op = "done"
  /\ LET ks == [keystore[k] EXCEPT !.latest = keystore[k].result, !.op = "none", !.opId = Nothing,
                                   !.result = Nothing]
     IN  keystore' = [keystore EXCEPT ![k] =
                        IF ks.need_update THEN async_entryList(ks) ELSE ks]
  /\ UNCHANGED <<trackerVars, app, mbusy, mitems, pending, waiting, newbusy, newitems,
                 registered>>

----------------------------------------------------------------------------
Manager ==
  \/ KeyStoreManager \/ sync \/ sync_busy \/ sync_items
  \/ waitForBusyFinished \/ wait_return \/ go_on
  \/ update \/ update_busy \/ update_items \/ update_signals

KeyStoreObject(k) ==
  \/ \E i \in mitems : KeyStore(k, i)
  \/ KeyStoreDeleted(k)
  \/ startAsynchronousMode(k)
  \/ KeyStoreOperation(k)
  \/ op_finished(k)

Absorbs == app = "loop" /\ app' \in {"sync_busy", "wait"}

Next ==
  /\ \/ Slots /\ UNCHANGED managerVars
     \/ Announce
     \/ Manager
     \/ \E k \in KeyStores : KeyStoreObject(k)
  /\ absorbed' = (absorbed \/ Absorbs)

Spec == Init /\ [][Next]_vars

(* Threads that can run do run, an event that is posted is delivered, and a *)
(* provider that has been started finds its stores and says so.             *)
Fairness ==
  /\ \A p \in Providers : WF_progVars(ksl_busyEnd(p) /\ UNCHANGED managerVars)
  /\ WF_progVars(Announce)
  /\ WF_progVars(sync_busy \/ sync_items \/ wait_return \/ go_on
             \/ update_busy \/ update_items \/ update_signals)

FairSpec == Spec /\ Fairness

----------------------------------------------------------------------------
(* Properties.                                                              *)

TypeOK ==
  /\ TrackerTypeOK
  /\ app \in {"none", "loop", "sync_busy", "sync_items", "wait", "woken", "waited",
              "update_busy", "update_items", "slots"}
  /\ {mbusy, pending, waiting, newbusy, absorbed} \subseteq BOOLEAN
  /\ waiting <=> app \in {"wait", "woken"}
  /\ DOMAIN registered = {k \in KeyStores : keystore[k].state = "valid"}
  /\ \A k \in KeyStores :
       /\ keystore[k].state \in {"none", "valid", "gone"}
       /\ keystore[k].op \in {"none", "run", "done"}
       /\ keystore[k].op # "none" => keystore[k].async
       /\ keystore[k].need_update => keystore[k].op # "none"
       /\ keystore[k].state # "valid" <=> keystore[k].trackerId = Nothing

\* The hash has, of the objects with one tracker id, each once: one of two was
\* inserted before the other.
HashInOrder ==
  \A k \in DOMAIN registered :
    /\ k \notin registered[k] /\ registered[k] \subseteq With(keystore[k].trackerId)
    /\ \A j \in With(keystore[k].trackerId) \ {k} : j \in registered[k] <=> k \notin registered[j]

\* The tracker's list is right after every slot, and the manager's hash of
\* KeyStore objects agrees with the objects.
Consistent == TypeOK /\ HashInOrder /\ ItemsArePresent /\ OneItemEach

\* Nothing is on its way from the tracker to the manager.
Quiet == app = "loop" /\ updated_p = 0 /\ ~pending

\* No change is lost: when nothing is on its way, the manager has the tracker's
\* state, whatever changed while update(), sync() or a wait was reading it.
UpToDate == Quiet => mbusy = busy /\ mitems = items

\* A KeyStore whose store is gone has been told so, if it is the only one for
\* the store and no sync() or wait has hidden the change from update().
UnavailableTold ==
  Quiet /\ ~absorbed => \A k \in KeyStores : keystore[k].state = "valid" =>
    \E i \in items : i.trackerId = keystore[k].trackerId

\* An asynchronous KeyStore with no operation under way has the store's current
\* entries, also if they changed during its last operation; under the same
\* conditions.
EntriesFresh ==
  Quiet /\ ~absorbed => \A k \in KeyStores : \A i \in items :
    /\ keystore[k].state = "valid" /\ keystore[k].async /\ keystore[k].op = "none"
    /\ i.trackerId = keystore[k].trackerId
    /\ contextOf[i.storeId] = i.storeContextId
    => keystore[k].latest = content[i.storeId]

\* The manager follows the tracker, and a KeyStore its store: its presence and
\* its entries.
KeyStoresFollow == UpToDate /\ UnavailableTold /\ EntriesFresh

\* When waitForBusyFinished() returns at once, because the tracker is done,
\* keyStores() lists the stores that the tracker has found.
WaitLists ==
  [][app = "loop" /\ app' = "waited" => items \subseteq mitems']_vars

\* A slot that is called for busyFinished() finds that isBusy() is false.
FinishedIsNotBusy == app = "slots" /\ ~newbusy => ~mbusy

\* waitForBusyFinished() returns if any provider has been started.
WaitReturns == app = "wait" /\ sources # {} ~> app = "waited"
=============================================================================
