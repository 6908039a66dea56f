----------------------------- MODULE TokenStores -----------------------------
(***************************************************************************)
(* plugins/qca-pkcs11: a key store for each token that is there, and the    *)
(* keys on them.                                                            *)
(*                                                                         *)
(* The list lives in the tracker thread.  A thread of pkcs11-helper tells   *)
(* of slots that change; threads of the application use keys, and register  *)
(* the token when they have to ask for it.  Of pkcs11-helper there is what  *)
(* this takes: the tokens, the slot events, and a session with each token,  *)
(* which one thread can lock at a time.                                     *)
(***************************************************************************)
EXTENDS Naturals, FiniteSets, FiniteSetsExt

CONSTANTS
  Tokens, Users,   \* Users: the threads that use keys
  KeyTokens,       \* the tokens whose keys are used
  Nobody,
  Overlap,         \* whether a listing may delete an item that a prompt is using
  MaxId,           \* the id after which _last_id starts again
  MaxChanges, MaxOps, MaxAccepted, MaxBroken  \* bounds

\* There are more ids than tokens: _last_id is an int.
ASSUME TokenAssumption ==
  /\ IsFiniteSet(Tokens) /\ MaxId \in Nat /\ Cardinality(Tokens) <= MaxId
  /\ KeyTokens \subseteq Tokens
  /\ Nobody \notin Tokens \cup Users

VARIABLES
  present, changes,        \* the tokens that are there
  started,                 \* how far startProvider() has come; 3 is done
  hooked, slotEventsActive, event,   \* the hook is set, _slotEventsActive, a slot has changed
  posted,                  \* doReady() and doUpdated() events
  stores, last_id,         \* _stores with _storesById, and _last_id
  listing,                 \* what keyStores() has found, or NoListing
  items,                   \* the tracker's list
  op,                      \* the operation of each user
  ops, accepted,           \* how many operations, and answers that were no refusal
  session,                 \* who has locked the session with each token
  failures, lost           \* lost: the last listing failed

hookVars == <<started, hooked, slotEventsActive>>
listVars == <<hookVars, posted, listing, items, lost>>
registerVars == <<stores, last_id>>
opVars == <<op, ops, accepted>>
tokenVars == <<present, changes, event, listVars, registerVars, opVars, session, failures>>

NoListing == [todo |-> {}, out |-> {}, to_remove |-> {}, on |-> FALSE]
NoOp == [pc |-> "idle", token |-> Nobody, item |-> 0]

TokenInit ==
  /\ present = {} /\ changes = 0
  /\ started = 0 /\ hooked = FALSE /\ slotEventsActive = FALSE /\ event = FALSE
  /\ posted = 0
  /\ stores = {} /\ last_id = 0 /\ listing = NoListing /\ items = {}
  /\ op = [u \in Users |-> NoOp] /\ ops = 0 /\ accepted = 0
  /\ session = [t \in Tokens |-> Nobody]
  /\ failures = 0 /\ lost = FALSE

IdOf(set, t) == (CHOOSE s \in set : s.token = t).id

Fails == failures < MaxBroken /\ failures' = failures + 1
Succeeds == failures' = failures

----------------------------------------------------------------------------
(* The tokens, and the helper's thread.                                      *)

TokenMoves(t) ==
  /\ changes < MaxChanges
  /\ changes' = changes + 1
  /\ present' = IF t \in present THEN present \ {t} ELSE present \cup {t}
  /\ event' = hooked
  /\ UNCHANGED <<listVars, registerVars, opVars, session, failures>>

\* Mutant: an event during a listing is thought to be in it.
SlotEventHookLazy ==
  /\ event
  /\ event' = FALSE
  /\ posted' = IF slotEventsActive /\ ~listing.on THEN posted + 1 ELSE posted
  /\ UNCHANGED <<present, changes, hookVars, listing, items, lost, registerVars, opVars,
                 session, failures>>

SlotEventHook ==
  /\ event
  /\ event' = FALSE
  /\ posted' = IF slotEventsActive THEN posted + 1 ELSE posted
  /\ UNCHANGED <<present, changes, hookVars, listing, items, lost, registerVars, opVars,
                 session, failures>>

----------------------------------------------------------------------------
(* The tracker thread: KeyStoreTracker::startProvider(), and its slots.       *)

Start ==
  /\ started = 0
  /\ started' = 1
  /\ posted' = posted + 1
  /\ UNCHANGED <<present, changes, hooked, slotEventsActive, event, listing, items, lost, registerVars, opVars,
                 session, failures>>

\* startSlotEvents(): an event before the second step is dropped.
StartSlotEvents ==
  /\ started \in {1, 2}
  /\ started' = started + 1
  /\ IF started = 1 THEN hooked' = TRUE /\ slotEventsActive' = slotEventsActive
     ELSE slotEventsActive' = TRUE /\ hooked' = hooked
  /\ UNCHANGED <<present, changes, event, posted, listing, items, lost, registerVars, opVars,
                 session, failures>>

\* The first id after _last_id, around the end, that no item has.
Next_id ==
  LET after == [k \in 1 .. MaxId |-> ((last_id + k - 1) % MaxId) + 1]
  IN  after[Min({k \in 1 .. MaxId : \A s \in stores : s.id # after[k]})]

\* _registerTokenId(): a token that is known keeps its item.
Registers(t) ==
  IF \E s \in stores : s.token = t THEN UNCHANGED <<stores, last_id>>
  ELSE stores' = stores \cup {[id |-> Next_id, token |-> t]} /\ last_id' = Next_id

\* keyStores() for updateStores(): the tokens that are there are registered; the
\* items that are not among theirs are to be removed.
KeyStores ==
  /\ started = 3 /\ posted > 0 /\ ~listing.on
  /\ posted' = posted - 1
  /\ listing' = [todo |-> present, out |-> {}, to_remove |-> {s.id : s \in stores}, on |-> TRUE]
  /\ UNCHANGED <<present, changes, event, hookVars, items, lost, registerVars, opVars,
                 session, failures>>

RegisterToken(t) ==
  /\ t \in listing.todo
  /\ Registers(t)
  /\ listing' = [listing EXCEPT !.todo = @ \ {t}, !.out = @ \cup {IdOf(stores', t)},
                                !.to_remove = @ \ {IdOf(stores', t)}]
  /\ UNCHANGED <<present, changes, event, hookVars, posted, items, lost, opVars,
                 session, failures>>

\* The tokens cannot be enumerated: the tracker gets an empty list.
KeyStoresFails ==
  /\ started = 3 /\ posted > 0 /\ ~listing.on
  /\ Fails
  /\ posted' = posted - 1
  /\ items' = {}
  /\ lost' = TRUE
  /\ UNCHANGED <<present, changes, event, hookVars, listing, registerVars, opVars, session>>

\* The removal, and the tracker's items, which follow the ids.
UpdateStores ==
  /\ listing.on /\ listing.todo = {}
  /\ ~Overlap => \A u \in Users : op[u].pc = "item" => op[u].item \notin listing.to_remove
  /\ stores' = {s \in stores : s.id \notin listing.to_remove}
  /\ items' = {i \in items : i.id \in listing.out}
                \cup {s \in stores : s.id \in listing.out /\ \A i \in items : i.id # s.id}
  /\ listing' = NoListing
  /\ lost' = FALSE
  /\ UNCHANGED <<present, changes, event, hookVars, posted, last_id, opVars, session, failures>>

----------------------------------------------------------------------------
(* The keys, in the threads of the users: decrypt() and endSign().           *)

At(u, pc) == op' = [op EXCEPT ![u].pc = pc]
Ends(u) == op' = [op EXCEPT ![u] = NoOp]
KeyUnchanged == UNCHANGED <<present, changes, event, listVars, ops, accepted>>

Begin(u, t) ==
  /\ op[u].pc = "idle" /\ ops < MaxOps
  /\ ops' = ops + 1
  /\ op' = [op EXCEPT ![u] = [pc |-> "lock", token |-> t, item |-> 0]]
  /\ UNCHANGED <<present, changes, event, listVars, accepted, registerVars, session, failures>>

\* _ensureCertificate() and lockSession(), either of which may fail.
LockSession(u) ==
  /\ op[u].pc = "lock"
  /\ \/ /\ session[op[u].token] = Nobody
        /\ session' = [session EXCEPT ![op[u].token] = u]
        /\ At(u, "call")
        /\ Succeeds
     \/ Fails /\ Ends(u) /\ session' = session
  /\ KeyUnchanged /\ UNCHANGED registerVars

\* The calls for the size of the result and for the result: they work with the
\* token, or one fails.
Call(u) ==
  /\ op[u].pc = "call"
  /\ \/ op[u].token \in present /\ At(u, "release") /\ Succeeds
     \/ Fails /\ At(u, "failed")
  /\ KeyUnchanged /\ UNCHANGED <<registerVars, session>>

\* The helper asks for the token or for its PIN, _tokenPrompt() or _pinPrompt():
\* entryPassive() registers the token, and uses the item afterwards.
Prompt(u) ==
  /\ op[u].pc = "call"
  /\ Registers(op[u].token)
  /\ op' = [op EXCEPT ![u] = [pc |-> "item", token |-> @.token,
                                 item |-> IdOf(stores', @.token)]]
  /\ KeyUnchanged /\ UNCHANGED <<session, failures>>

Ask(u) ==
  /\ op[u].pc = "item"
  /\ op' = [op EXCEPT ![u] = [pc |-> "ask", token |-> @.token, item |-> 0]]
  /\ KeyUnchanged /\ UNCHANGED <<registerVars, session, failures>>

Answer(u, accepts) ==
  /\ op[u].pc = "ask"
  /\ accepts => accepted < MaxAccepted
  /\ accepted' = IF accepts THEN accepted + 1 ELSE accepted
  /\ IF accepts THEN At(u, "call") ELSE At(u, "failed")
  /\ UNCHANGED <<present, changes, event, listVars, ops, registerVars, session, failures>>

\* Mutant: what fails does not release the session.
FailedKeeps(u) ==
  /\ op[u].pc = "failed"
  /\ Ends(u)
  /\ session' = session
  /\ KeyUnchanged /\ UNCHANGED <<registerVars, failures>>

\* releaseSession(); if it fails, it is called once more as for other failures.
ReleaseSession(u) ==
  /\ op[u].pc = "release"
  /\ \/ Succeeds /\ Ends(u) /\ session' = [session EXCEPT ![op[u].token] = Nobody]
     \/ Fails /\ At(u, "failed") /\ session' = session
  /\ KeyUnchanged /\ UNCHANGED registerVars

Failed(u) ==
  /\ op[u].pc = "failed"
  /\ Ends(u)
  /\ session' = [session EXCEPT ![op[u].token] = Nobody]
  /\ KeyUnchanged /\ UNCHANGED <<registerVars, failures>>

Tracker ==
  \/ StartSlotEvents
  \/ KeyStores \/ KeyStoresFails \/ (\E t \in Tokens : RegisterToken(t)) \/ UpdateStores
GoesOn(u) ==
  LockSession(u) \/ Call(u) \/ Prompt(u) \/ Ask(u) \/ ReleaseSession(u) \/ Failed(u)

TokenNext ==
  \/ \E t \in Tokens : TokenMoves(t)
  \/ SlotEventHook \/ Start \/ Tracker
  \/ \E u \in Users :
       \/ \E t \in KeyTokens : Begin(u, t)
       \/ GoesOn(u)
       \/ \E accepts \in BOOLEAN : Answer(u, accepts)

\* Threads go on, and a question is answered, if with a refusal; nothing makes the
\* application want the stores.
TokenFairness ==
  /\ WF_tokenVars(SlotEventHook) /\ WF_tokenVars(Tracker)
  /\ \A u \in Users : WF_tokenVars(GoesOn(u) \/ Answer(u, FALSE))

TokenSpec == TokenInit /\ [][TokenNext]_tokenVars
TokenLiveSpec == TokenSpec /\ TokenFairness

----------------------------------------------------------------------------
TokenTypeOK ==
  /\ present \subseteq Tokens
  /\ stores \subseteq [id : 1 .. MaxId, token : Tokens]
  /\ items \subseteq [id : 1 .. MaxId, token : Tokens]
  /\ session \in [Tokens -> Users \cup {Nobody}]

\* An id stands for one token, in the list of the plugin and in that of the
\* tracker, though ids are used again; what a prompt is using has not been
\* deleted; and a session is locked by the one operation that uses it.
TokensConsistent ==
  /\ TokenTypeOK
  /\ \A s, r \in stores : s.id = r.id \/ s.token = r.token => s = r
  /\ items \subseteq stores
  /\ \A u \in Users : op[u].pc = "item" => [id |-> op[u].item, token |-> op[u].token] \in stores
  /\ \A t \in Tokens, u \in Users :
       session[t] = u <=> op[u].token = t /\ op[u].pc # "lock"

\* Once the tokens rest, the tracker lists those that are there, unless the last
\* listing has failed.
TokensFollow == <>[](started = 0 \/ lost \/ {i.token : i \in items} = present)

\* Every operation with a key ends, and lets others use the token.
KeyUsesEnd == \A u \in Users : []<>(op[u].pc = "idle")
=============================================================================
