---------------------------- MODULE EventSystem ----------------------------
(***************************************************************************)
(* The password/token question service of QCA (src/src/qca_core.cpp,       *)
(* "EventGlobal"): askers (PasswordAsker, TokenAsker) put questions, the   *)
(* event handlers of the application answer them.                          *)
(*                                                                         *)
(* Every function on the shared EventGlobal object runs under              *)
(* g_event_mutex and is one action here.  What an asker's or a handler's   *)
(* thread does between two such calls is a separate action, so that the    *)
(* other threads may run in between.  Each handler and each asker lives in *)
(* a thread of its own, as the comment "handler and asker can't be in the  *)
(* same thread" in the source demands.                                     *)
(*                                                                         *)
(* Representation.  `handlers' is the QList of registered handlers and     *)
(* `ids' the id list of each HandlerItem.  The QList of AskerItems is a    *)
(* function from the item's id: ids are handed out in increasing order and *)
(* items are only appended, so the list order is the order of the ids.     *)
(* g_event is null exactly when `handlers' is empty.                       *)
(***************************************************************************)
EXTENDS Naturals, Sequences, FiniteSets, SequencesExt

CONSTANTS
  Handlers,      \* the EventHandler objects
  Askers,        \* the PasswordAsker / TokenAsker objects
  MaxId,         \* bound: question ids handed out by one EventGlobal
  MaxPosted,     \* bound: undelivered response events per asker
  Cancellers     \* the askers whose application calls cancel()

ASSUME BoundAssumption == MaxId \in Nat /\ MaxPosted \in Nat
ASSUME CancelAssumption == Cancellers \subseteq Askers

VARIABLES
  handlers,      \* registered handlers, in order of registration
  ids,           \* ids[h]: the questions h was asked and has not answered
  askers,        \* id -> [a |-> asker, pos |-> position of its handler]
  next_id,
  hstate,        \* life cycle of each EventHandler object
  hqueue,        \* ids whose "ask" event waits in the handler's event loop
  activeIds,     \* ids shown to the application by eventReady()
  apc,           \* where each asker's thread is
  accepted, done,
  posted,        \* queued emitResponseReady events of each asker
  cancelled      \* history: cancel() hit the current question

evVars == <<handlers, ids, askers, next_id>>
hVars == <<hstate, hqueue, activeIds>>
aVars == <<apc, accepted, done, posted, cancelled>>
vars == <<evVars, hVars, aVars>>

AskerItem == [a : Askers, pos : Nat]
NoAskers == [id \in {} |-> 0]

Init ==
  /\ handlers = <<>>
  /\ ids = [h \in Handlers |-> {}]
  /\ askers = NoAskers
  /\ next_id = 0
  /\ hstate = [h \in Handlers |-> "new"]
  /\ hqueue = [h \in Handlers |-> {}]
  /\ activeIds = [h \in Handlers |-> {}]
  /\ apc = [a \in Askers |-> "idle"]
  /\ accepted = [a \in Askers |-> FALSE]
  /\ done = [a \in Askers |-> TRUE]
  /\ posted = [a \in Askers |-> 0]
  /\ cancelled = [a \in Askers |-> FALSE]

----------------------------------------------------------------------------
(* set_accepted() and set_rejected(), under the asker's mutex m: a thread   *)
(* blocked in waitForResponse() is woken, any other gets a queued event.    *)

waiting(a) == apc[a] \in {"blocked", "woken"}

\* Mutant: posts the event even when a thread waits, and wakes nobody.
RespondNoWake(answers) ==
  /\ done' = [a \in Askers |-> done[a] \/ answers[a] > 0]
  /\ posted' = [a \in Askers |-> posted[a] + answers[a]]
  /\ UNCHANGED apc

\* answers[a] is how many of a's questions are completed by this step
Respond(answers) ==
  /\ done' = [a \in Askers |-> done[a] \/ answers[a] > 0]
  /\ apc' = [a \in Askers |->
               IF answers[a] > 0 /\ apc[a] = "blocked" THEN "woken" ELSE apc[a]]
  /\ posted' = [a \in Askers |->
               IF waiting(a) THEN posted[a] ELSE posted[a] + answers[a]]

set_accepted(b) ==
  /\ Respond([a \in Askers |-> IF a = b THEN 1 ELSE 0])
  /\ accepted' = [accepted EXCEPT ![b] = TRUE]
  /\ UNCHANGED cancelled

set_rejected(b) ==
  /\ Respond([a \in Askers |-> IF a = b THEN 1 ELSE 0])
  /\ UNCHANGED <<accepted, cancelled>>

----------------------------------------------------------------------------
(* The functions on EventGlobal.                                            *)

handler_add(h) ==
  /\ handlers' = Append(handlers, h)
  /\ UNCHANGED <<ids, askers, next_id>>

\* EventGlobal::ask: give question id to the handler at position pos
OfferTo(h, id) ==
  /\ ids' = [ids EXCEPT ![h] = @ \cup {id}]
  /\ hqueue' = [hqueue EXCEPT ![h] = @ \cup {id}]

\* Mutant: ids.removeAll is missing.
handler_acceptKeepsId(h, id) ==
  IF id \in DOMAIN askers
    THEN set_accepted(askers[id].a) /\ UNCHANGED <<evVars, hqueue>>
    ELSE UNCHANGED <<evVars, hqueue, aVars>>

\* handler_accept: the AskerItem stays in the list.  Returns early, having
\* changed nothing, when the question is unknown (cancelled meanwhile).
handler_accept(h, id) ==
  IF id \in DOMAIN askers
    THEN /\ ids' = [ids EXCEPT ![h] = @ \ {id}]
         /\ set_accepted(askers[id].a)
         /\ UNCHANGED <<handlers, askers, next_id, hqueue>>
    ELSE UNCHANGED <<evVars, hqueue, aVars>>

\* handler_reject and EventGlobal::reject: on to the next handler, if any
handler_reject(h, id) ==
  \/ /\ id \notin DOMAIN askers
     /\ UNCHANGED <<evVars, hqueue, aVars>>
  \/ /\ id \in DOMAIN askers
     /\ askers[id].pos < Len(handlers)
     /\ LET next == askers[id].pos + 1
        IN  /\ askers' = [askers EXCEPT ![id].pos = next]
            /\ ids' = [g \in Handlers |->
                         (ids[g] \ (IF g = h THEN {id} ELSE {}))
                           \cup (IF g = handlers[next] THEN {id} ELSE {})]
            /\ hqueue' = [hqueue EXCEPT ![handlers[next]] = @ \cup {id}]
     /\ UNCHANGED <<handlers, next_id, aVars>>
  \/ /\ id \in DOMAIN askers
     /\ askers[id].pos >= Len(handlers)
     /\ ids' = [ids EXCEPT ![h] = @ \ {id}]
     /\ askers' = [i \in DOMAIN askers \ {id} |-> askers[i]]
     /\ set_rejected(askers[id].a)
     /\ UNCHANGED <<handlers, next_id, hqueue>>

\* handler_remove: the handlers behind h move up, and each question h still
\* has is rejected: it goes to the handler behind h, or back to its asker.
\* With the last handler the EventGlobal object goes too.
RemovedAt(h) == CHOOSE at \in 1 .. Len(handlers) : handlers[at] = h

\* Mutants: `>' for `>=', and no condition at all.
MovedUpOffByOne(at, pos) == IF pos > at THEN pos - 1 ELSE pos
MovedUpAlways(at, pos) == pos - 1

MovedUp(at, pos) == IF pos >= at THEN pos - 1 ELSE pos

handler_remove(h) ==
  LET at == RemovedAt(h)
      left == RemoveAt(handlers, at)
      retry(id) == MovedUp(at, askers[id].pos) + 1
      lost == {id \in ids[h] : retry(id) > Len(left)}
      kept == ids[h] \ lost
      newIds(g) == {id \in kept : left[retry(id)] = g}
  IN  /\ handlers' = left
      /\ askers' = IF left = <<>> THEN NoAskers
                   ELSE [id \in DOMAIN askers \ lost |->
                           [a |-> askers[id].a,
                            pos |-> IF id \in kept THEN retry(id)
                                    ELSE MovedUp(at, askers[id].pos)]]
      /\ next_id' = IF left = <<>> THEN 0 ELSE next_id
      /\ ids' = [g \in Handlers |-> IF g = h THEN {} ELSE ids[g] \cup newIds(g)]
      /\ hqueue' = [g \in Handlers |-> IF g = h THEN {} ELSE hqueue[g] \cup newIds(g)]
      /\ Respond([a \in Askers |-> Cardinality({id \in lost : askers[id].a = a})])
      /\ UNCHANGED <<accepted, cancelled>>

----------------------------------------------------------------------------
(* An EventHandler and its thread.                                          *)

\* EventHandler::start, called once by the application
Start(h) ==
  /\ hstate[h] = "new"
  /\ hstate' = [hstate EXCEPT ![h] = "started"]
  /\ handler_add(h)
  /\ UNCHANGED <<hqueue, activeIds, aVars>>

\* Mutant: activeIds = id for activeIds += id.
DeliverOverwrites(h, id) ==
  /\ hstate[h] = "started"
  /\ id \in hqueue[h]
  /\ hqueue' = [hqueue EXCEPT ![h] = @ \ {id}]
  /\ activeIds' = [activeIds EXCEPT ![h] = {id}]
  /\ UNCHANGED <<evVars, hstate, aVars>>

\* EventHandler::Private::ask, the queued slot
Deliver(h, id) ==
  /\ hstate[h] = "started"
  /\ id \in hqueue[h]
  /\ hqueue' = [hqueue EXCEPT ![h] = @ \ {id}]
  /\ activeIds' = [activeIds EXCEPT ![h] = @ \cup {id}]
  /\ UNCHANGED <<evVars, hstate, aVars>>

\* EventHandler::submitPassword and tokenOkay; other ids are ignored
Submit(h, id) ==
  /\ hstate[h] = "started"
  /\ id \in activeIds[h]
  /\ activeIds' = [activeIds EXCEPT ![h] = @ \ {id}]
  /\ handler_accept(h, id)
  /\ UNCHANGED hstate

\* Mutant: activeIds.removeAll(id) is missing.
RejectKeepsActive(h, id) ==
  /\ hstate[h] = "started"
  /\ id \in activeIds[h]
  /\ handler_reject(h, id)
  /\ UNCHANGED <<hstate, activeIds>>

\* EventHandler::reject
Reject(h, id) ==
  /\ hstate[h] = "started"
  /\ id \in activeIds[h]
  /\ activeIds' = [activeIds EXCEPT ![h] = @ \ {id}]
  /\ handler_reject(h, id)
  /\ UNCHANGED hstate

\* EventHandler::~EventHandler: one handler_reject, each under the mutex, per
\* active id, then handler_remove; the posted events die with the object.
Destroy(h) ==
  /\ hstate[h] = "started"
  /\ hstate' = [hstate EXCEPT ![h] = "closing"]
  /\ UNCHANGED <<evVars, hqueue, activeIds, aVars>>

DestroyReject(h, id) ==
  /\ hstate[h] = "closing"
  /\ id \in activeIds[h]
  /\ activeIds' = [activeIds EXCEPT ![h] = @ \ {id}]
  /\ handler_reject(h, id)
  /\ UNCHANGED hstate

DestroyRemove(h) ==
  /\ hstate[h] = "closing"
  /\ activeIds[h] = {}
  /\ hstate' = [hstate EXCEPT ![h] = "destroyed"]
  /\ handler_remove(h)
  /\ UNCHANGED activeIds

----------------------------------------------------------------------------
(* An asker and its thread (AskerPrivate).                                  *)

\* AskerPrivate::ask resets its fields without a lock ...  The application
\* asks again only when the previous question is completed or cancelled.
Ask(a) ==
  /\ apc[a] = "idle"
  /\ done[a] \/ cancelled[a]
  /\ next_id + Cardinality({b \in Askers : apc[b] = "asking"}) < MaxId
  /\ posted[a] < MaxPosted
  /\ accepted' = [accepted EXCEPT ![a] = FALSE]
  /\ done' = [done EXCEPT ![a] = FALSE]
  /\ cancelled' = [cancelled EXCEPT ![a] = FALSE]
  /\ apc' = [apc EXCEPT ![a] = "asking"]
  /\ UNCHANGED <<evVars, hVars, posted>>

IdAfter(id) == id + 1

\* ... then asker_ask hands the question to the first handler, or fails.
asker_ask(a) ==
  /\ apc[a] = "asking"
  /\ apc' = [apc EXCEPT ![a] = "idle"]
  /\ \/ /\ handlers = <<>>
        /\ done' = [done EXCEPT ![a] = TRUE]
        /\ posted' = [posted EXCEPT ![a] = @ + 1]
        /\ UNCHANGED <<evVars, hqueue>>
     \/ /\ handlers # <<>>
        /\ askers' = [id \in DOMAIN askers \cup {next_id} |->
                        IF id = next_id THEN [a |-> a, pos |-> 1] ELSE askers[id]]
        /\ next_id' = IdAfter(next_id)
        /\ OfferTo(handlers[1], next_id)
        /\ UNCHANGED <<handlers, done, posted>>
  /\ UNCHANGED <<hstate, activeIds, accepted, cancelled>>

\* AskerPrivate::cancel reads done without a lock ...
Cancel(a) ==
  /\ a \in Cancellers
  /\ apc[a] = "idle"
  /\ ~done[a] /\ ~cancelled[a]
  /\ apc' = [apc EXCEPT ![a] = "cancelling"]
  /\ UNCHANGED <<evVars, hVars, accepted, done, posted, cancelled>>

\* ... then asker_cancel removes the first item of this asker from the list.
ItemsOf(a) == {id \in DOMAIN askers : askers[id].a = a}

FirstItem(a) == {id \in ItemsOf(a) : \A other \in ItemsOf(a) : id <= other}

asker_cancel(a) ==
  /\ apc[a] = "cancelling"
  /\ apc' = [apc EXCEPT ![a] = "idle"]
  /\ cancelled' = [cancelled EXCEPT ![a] = TRUE]
  /\ \/ /\ ItemsOf(a) = {}
        /\ UNCHANGED evVars
     \/ \E id \in FirstItem(a) :
        /\ ids' = [h \in Handlers |-> ids[h] \ {id}]
        /\ askers' = [i \in DOMAIN askers \ {id} |-> askers[i]]
        /\ UNCHANGED <<handlers, next_id>>
  /\ UNCHANGED <<hVars, accepted, done, posted>>

\* AskerPrivate::waitForResponse returns at once when done; here it blocks.
Wait(a) ==
  /\ apc[a] = "idle"
  /\ ~done[a] /\ ~cancelled[a]
  /\ apc' = [apc EXCEPT ![a] = "blocked"]
  /\ UNCHANGED <<evVars, hVars, accepted, done, posted, cancelled>>

\* Back from w.wait(): waiting is cleared and waitForResponse returns.
WaitReturn(a) ==
  /\ apc[a] = "woken"
  /\ apc' = [apc EXCEPT ![a] = "idle"]
  /\ UNCHANGED <<evVars, hVars, accepted, done, posted, cancelled>>

\* The asker's event loop delivers emitResponseReady: signal responseReady().
ResponseReady(a) ==
  /\ apc[a] = "idle"
  /\ posted[a] > 0
  /\ posted' = [posted EXCEPT ![a] = @ - 1]
  /\ UNCHANGED <<evVars, hVars, apc, accepted, done, cancelled>>

----------------------------------------------------------------------------
Ids == 0 .. MaxId - 1

Next ==
  \/ \E h \in Handlers : Start(h) \/ Destroy(h) \/ DestroyRemove(h)
  \/ \E h \in Handlers, id \in Ids :
        Deliver(h, id) \/ Submit(h, id) \/ Reject(h, id) \/ DestroyReject(h, id)
  \/ \E a \in Askers :
        \/ Ask(a) \/ asker_ask(a) \/ Cancel(a) \/ asker_cancel(a)
        \/ Wait(a) \/ WaitReturn(a) \/ ResponseReady(a)

Spec == Init /\ [][Next]_vars

(* Threads that are not blocked run and event loops deliver what is posted  *)
(* (Qt's event loop and the scheduler); the user answers each question that *)
(* is shown, the one assumption about the application.                      *)
Fairness ==
  /\ \A h \in Handlers : WF_vars(DestroyRemove(h))
  /\ \A h \in Handlers, id \in Ids :
       /\ WF_vars(Deliver(h, id))
       /\ WF_vars(Submit(h, id) \/ Reject(h, id))
       /\ WF_vars(DestroyReject(h, id))
  /\ \A a \in Askers :
       WF_vars(asker_ask(a) \/ asker_cancel(a) \/ WaitReturn(a))

FairSpec == Spec /\ Fairness


----------------------------------------------------------------------------
(* Properties.                                                              *)

TypeOK ==
  /\ handlers \in Seq(Handlers)
  /\ next_id \in Nat
  /\ ids \in [Handlers -> SUBSET (0 .. next_id - 1)]
  /\ DOMAIN askers \subseteq 0 .. next_id - 1
  /\ askers \in [DOMAIN askers -> AskerItem]
  /\ hstate \in [Handlers -> {"new", "started", "closing", "destroyed"}]
  /\ hqueue \in [Handlers -> SUBSET (0 .. next_id - 1)]
  /\ activeIds \in [Handlers -> SUBSET (0 .. next_id - 1)]
  /\ apc \in [Askers -> {"idle", "asking", "cancelling", "blocked", "woken"}]
  /\ accepted \in [Askers -> BOOLEAN]
  /\ done \in [Askers -> BOOLEAN]
  /\ posted \in [Askers -> Nat]
  /\ cancelled \in [Askers -> BOOLEAN]

\* The handler list holds exactly the live EventHandlers, each once.
RegisteredOnce ==
  /\ IsInjective(handlers)
  /\ \A h \in Handlers :
       hstate[h] \in {"started", "closing"} <=> h \in ToSet(handlers)

\* Every id a handler holds is an AskerItem whose handler_pos is that
\* handler's index, through any order of registrations, removals, rejections
\* and cancellations: the Q_ASSERT in handler_remove (qca_core.cpp:1746), and
\* what makes reject() go on to the right handler after positions shift.
QuestionsKnown ==
  \A h \in Handlers : \A id \in ids[h] :
    /\ id \in DOMAIN askers
    /\ askers[id].pos \in 1 .. Len(handlers)
    /\ handlers[askers[id].pos] = h

\* What the two threads know of a question agrees, though EventGlobal and the
\* handler's event loop change apart: a question queued for or shown by a
\* handler is in that handler's id list unless it was cancelled, is not both
\* queued and shown, and dies with the handler.
ShownIsHeld ==
  \A h \in Handlers :
    /\ (hqueue[h] \cup activeIds[h]) \cap DOMAIN askers \subseteq ids[h]
    /\ hqueue[h] \cap activeIds[h] = {}
    /\ h \notin ToSet(handlers) => hqueue[h] \cup activeIds[h] = {}

\* A question is in the hands of at most one handler, so that two users are
\* never shown the same question and it cannot be answered twice.
ShownOnce ==
  \A g, h \in Handlers :
    g # h => (hqueue[g] \cup activeIds[g]) \cap (hqueue[h] \cup activeIds[h]) = {}

\* An asker whose question is pending is never forgotten: some handler holds
\* the question and has it shown or queued to be shown, while handlers come,
\* decline and go.  (A blocked waitForResponse can therefore be woken.)
NoLostQuestion ==
  \A a \in Askers :
    ~done[a] /\ ~cancelled[a] /\ apc[a] # "asking" =>
      \E h \in Handlers, id \in ItemsOf(a) :
        id \in ids[h] /\ id \in hqueue[h] \cup activeIds[h]

\* The inductive invariant behind the safety invariants above: EventGlobal's
\* lists and the handlers' own agree after every locked section.
IInv ==
  /\ TypeOK
  /\ RegisteredOnce
  /\ QuestionsKnown
  /\ ShownIsHeld
  /\ ShownOnce
  /\ NoLostQuestion

\* A question moves only to the handler registered next behind the one that
\* declined it, and is dropped unanswered only by the last handler or by cancel().
OfferedNext ==
  \A id \in DOMAIN askers : \A m \in 1 .. Len(handlers) :
    (m = askers[id].pos /\ id \in ids[handlers[m]]) =>
      IF id \in DOMAIN askers'
        THEN \/ handlers'[askers'[id].pos] = handlers[m]
             \/ handlers'[askers'[id].pos] = handlers[m + 1]
        ELSE m = Len(handlers) \/ apc[askers[id].a] = "cancelling"
OfferedInOrder == [][OfferedNext]_vars

\* A completed request stays as it was answered and raises no second response
\* until the application asks again, if its application never calls cancel():
\* AskerItems outlive their answers, and asker_cancel may find an old one.
AnswerStands ==
  \A a \in Askers \ Cancellers : done[a] /\ done'[a] =>
    accepted'[a] = accepted[a] /\ posted'[a] <= posted[a]
CompletedOnce == [][AnswerStands]_vars

\* waitForResponse returns, whatever handlers are destroyed or decline.
WaitEnds == \A a \in Askers : apc[a] = "blocked" ~> apc[a] = "idle"

\* Each question is completed (or cancelled) in the end.
QuestionEnds ==
  \A a \in Askers : apc[a] = "asking" ~> (done[a] \/ cancelled[a])

\* Both: no asker is left alone, whether its thread blocks or not.
EverythingEnds == WaitEnds /\ QuestionEnds

----------------------------------------------------------------------------
(* What the documentation and the assertions say and the code does not do.  *)

\* qca_core.h:1579: accepted() is false when the cancel() function was called.
CancelledNotAccepted ==
  \A a \in Askers : cancelled[a] /\ apc[a] = "idle" => ~accepted[a]

\* qca_core.cpp:1769, Q_ASSERT(asker_at != -1): an id the application may
\* answer is a known question.
ActiveIdsKnown ==
  \A h \in Handlers : activeIds[h] \subseteq DOMAIN askers

\* qca_core.h:1592: responseReady() means the asker process has been completed.
ResponseMeansComplete ==
  [][\A a \in Askers : posted'[a] < posted[a] => done[a]]_vars

=============================================================================
