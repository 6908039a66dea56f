------------------------ MODULE EventSystem_proofs ------------------------
(***************************************************************************)
(* Proofs about EventSystem, for every set of handlers and askers and      *)
(* every bound: the types, that the handler list holds each live handler   *)
(* once, that the position kept in each AskerItem stays the index of the   *)
(* handler that has the question, that a question is offered to one after  *)
(* the other, and that an answer stands.  And about KeyGenerator and       *)
(* KeyLoader, for any number of contexts and any list of providers.        *)
(***************************************************************************)
EXTENDS MCEventSystem, FiniteSetTheorems, SequenceTheorems, WellFoundedInduction, TLAPS

\* What QList::removeAt leaves: the elements behind the index move up by one.
LEMMA RemoveAtShifts ==
  ASSUME NEW S, NEW s \in Seq(S), NEW i \in 1 .. Len(s)
  PROVE  /\ RemoveAt(s, i) \in Seq(S)
         /\ Len(RemoveAt(s, i)) = Len(s) - 1
         /\ \A j \in 1 .. Len(s) - 1 :
              RemoveAt(s, i)[j] = IF j < i THEN s[j] ELSE s[j + 1]
<1> DEFINE front == SubSeq(s, 1, i - 1)
           back == SubSeq(s, i + 1, Len(s))
<1>1. /\ front \in Seq(S) /\ Len(front) = i - 1
      /\ \A j \in 1 .. i - 1 : front[j] = s[j]
  BY LenProperties, ElementOfSeq, SubSeqProperties
<1>2. /\ back \in Seq(S) /\ Len(back) = Len(s) - i
      /\ \A j \in 1 .. Len(s) - i : back[j] = s[i + j]
  BY LenProperties, ElementOfSeq, SubSeqProperties
<1>3. RemoveAt(s, i) = front \o back
  BY DEF RemoveAt
<1> HIDE DEF front, back
<1>4. /\ front \o back \in Seq(S)
      /\ Len(front \o back) = Len(s) - 1
      /\ \A j \in 1 .. Len(s) - 1 :
           (front \o back)[j] = IF j <= i - 1 THEN front[j] ELSE back[j - (i - 1)]
  <2>1. Len(front) + Len(back) = Len(s) - 1
    BY <1>1, <1>2, LenProperties
  <2>2. /\ front \o back \in Seq(S)
        /\ Len(front \o back) = Len(front) + Len(back)
        /\ \A j \in 1 .. Len(front) + Len(back) :
             (front \o back)[j] =
               IF j <= Len(front) THEN front[j] ELSE back[j - Len(front)]
    BY <1>1, <1>2, ConcatProperties, Zenon
  <2>3. QED
    BY <1>1, <2>1, <2>2
<1>5. ASSUME NEW j \in 1 .. Len(s) - 1
      PROVE  (front \o back)[j] = IF j < i THEN s[j] ELSE s[j + 1]
  <2>1. Len(s) \in Nat
    BY LenProperties
  <2>2. CASE j < i
    BY <1>1, <1>4, <2>1, <2>2
  <2>3. CASE ~(j < i)
    <3>1. j - (i - 1) \in 1 .. Len(s) - i /\ i + (j - (i - 1)) = j + 1
      BY <2>1, <2>3
    <3>2. QED
      BY <1>2, <1>4, <2>1, <2>3, <3>1
  <2>4. QED
    BY <2>2, <2>3
<1>6. QED
  BY <1>3, <1>4, <1>5

----------------------------------------------------------------------------
(* The inductive invariant holds initially.                                 *)

LEMMA InitIInv == Init => IInv
<1> SUFFICES ASSUME Init PROVE IInv
  OBVIOUS
<1>1. handlers = <<>> /\ ToSet(handlers) = {} /\ IsInjective(handlers)
  BY DEF Init, ToSet, IsInjective
<1>2. TypeOK
  BY <1>1, EmptySeq DEF Init, TypeOK, NoAskers, AskerItem
<1>3. RegisteredOnce
  BY <1>1 DEF Init, RegisteredOnce
<1>4. QuestionsKnown /\ ShownIsHeld /\ ShownOnce
  BY <1>1 DEF Init, QuestionsKnown, ShownIsHeld, ShownOnce
<1>5. NoLostQuestion
  BY DEF Init, NoLostQuestion
<1>6. QED
  BY <1>2, <1>3, <1>4, <1>5 DEF IInv

----------------------------------------------------------------------------
(* Each action of the asker's thread preserves it.                          *)

\* The part of TypeOK about the askers' own state.
AskerTypes ==
  /\ apc \in [Askers -> {"idle", "asking", "cancelling", "blocked", "woken"}]
  /\ accepted \in [Askers -> BOOLEAN]
  /\ done \in [Askers -> BOOLEAN]
  /\ posted \in [Askers -> Nat]
  /\ cancelled \in [Askers -> BOOLEAN]

\* Ask, Cancel, Wait, WaitReturn, ResponseReady: the thread moves on and no
\* shared state changes; a question that becomes pending is in "asking".
LEMMA AskerThreadStep ==
  ASSUME IInv, NEW a \in Askers,
         Ask(a) \/ Cancel(a) \/ Wait(a) \/ WaitReturn(a) \/ ResponseReady(a)
  PROVE  IInv'
<1>1. UNCHANGED <<evVars, hVars>>
  BY DEF Ask, Cancel, Wait, WaitReturn, ResponseReady
<1>2. TypeOK'
  <2>1. AskerTypes'
    <3>1. CASE Ask(a)
      BY <3>1 DEF IInv, TypeOK, AskerTypes, Ask
    <3>2. CASE Cancel(a) \/ Wait(a) \/ WaitReturn(a)
      BY <3>2 DEF IInv, TypeOK, AskerTypes, Cancel, Wait, WaitReturn
    <3>3. CASE ResponseReady(a)
      BY <3>3 DEF IInv, TypeOK, AskerTypes, ResponseReady
    <3>4. QED
      BY <3>1, <3>2, <3>3
  <2>2. QED
    BY <1>1, <2>1 DEF IInv, TypeOK, AskerTypes, evVars, hVars
<1>3. /\ RegisteredOnce' /\ QuestionsKnown'
      /\ ShownIsHeld' /\ ShownOnce'
  BY <1>1 DEF IInv, evVars, hVars, RegisteredOnce, QuestionsKnown, ShownIsHeld, ShownOnce
<1>4. \A b \in Askers : ItemsOf(b)' = ItemsOf(b)
  BY <1>1 DEF evVars, ItemsOf
<1>5. \A b \in Askers :
        ~done'[b] /\ ~cancelled'[b] /\ apc'[b] # "asking"
          => ~done[b] /\ ~cancelled[b] /\ apc[b] # "asking"
  BY DEF IInv, TypeOK, Ask, Cancel, Wait, WaitReturn, ResponseReady
<1>6. NoLostQuestion'
  BY <1>1, <1>4, <1>5 DEF IInv, evVars, hVars, NoLostQuestion
<1>7. QED
  BY <1>2, <1>3, <1>6 DEF IInv

\* What the rest needs of the handler list.
LEMMA HandlerList ==
  ASSUME IInv
  PROVE  /\ Len(handlers) \in Nat
         /\ \A i \in 1 .. Len(handlers) :
              handlers[i] \in Handlers /\ handlers[i] \in ToSet(handlers)
         /\ \A h \in ToSet(handlers) : \E i \in 1 .. Len(handlers) : handlers[i] = h
         /\ \A i, j \in 1 .. Len(handlers) : handlers[i] = handlers[j] => i = j
         /\ \A h \in Handlers : h \in ToSet(handlers) <=> hstate[h] \in {"started", "closing"}
<1>1. handlers \in Seq(Handlers)
  BY DEF IInv, TypeOK
<1>2. Len(handlers) \in Nat /\ DOMAIN handlers = 1 .. Len(handlers)
  BY <1>1, LenProperties
<1>3. ToSet(handlers) = {handlers[i] : i \in 1 .. Len(handlers)}
  BY <1>2 DEF ToSet
<1>4. \A i \in 1 .. Len(handlers) : handlers[i] \in Handlers
  BY <1>1, ElementOfSeq
<1>5. \A i, j \in 1 .. Len(handlers) : handlers[i] = handlers[j] => i = j
  BY <1>2 DEF IInv, RegisteredOnce, IsInjective
<1>6. \A h \in Handlers : h \in ToSet(handlers) <=> hstate[h] \in {"started", "closing"}
  BY DEF IInv, RegisteredOnce
<1>7. QED
  BY <1>2, <1>3, <1>4, <1>5, <1>6

\* asker_ask: the new question, unknown to all so far, goes to the first handler.
LEMMA asker_askStep ==
  ASSUME IInv, NEW a \in Askers, asker_ask(a)
  PROVE  IInv'
<1>1. CASE handlers = <<>>
  <2>1. /\ UNCHANGED <<evVars, hVars, accepted, cancelled>>
        /\ apc' = [apc EXCEPT ![a] = "idle"]
        /\ done' = [done EXCEPT ![a] = TRUE]
        /\ posted' = [posted EXCEPT ![a] = @ + 1]
    BY <1>1 DEF asker_ask, evVars, hVars
  <2>2. AskerTypes'
    BY <2>1 DEF IInv, TypeOK, AskerTypes
  <2>3. TypeOK'
    BY <2>1, <2>2 DEF IInv, TypeOK, AskerTypes, evVars, hVars
  <2>4. RegisteredOnce' /\ QuestionsKnown' /\ ShownIsHeld' /\ ShownOnce'
    BY <2>1 DEF IInv, evVars, hVars, RegisteredOnce, QuestionsKnown, ShownIsHeld, ShownOnce
  <2>5. NoLostQuestion'
    BY <2>1 DEF IInv, TypeOK, evVars, hVars, NoLostQuestion, ItemsOf
  <2>6. QED
    BY <2>3, <2>4, <2>5 DEF IInv
<1>2. CASE handlers # <<>>
  <2> DEFINE h == handlers[1]
  <2>1. /\ askers' = [id \in DOMAIN askers \cup {next_id} |->
                        IF id = next_id THEN [a |-> a, pos |-> 1] ELSE askers[id]]
        /\ next_id' = next_id + 1
        /\ ids' = [ids EXCEPT ![h] = @ \cup {next_id}]
        /\ hqueue' = [hqueue EXCEPT ![h] = @ \cup {next_id}]
        /\ apc' = [apc EXCEPT ![a] = "idle"]
        /\ UNCHANGED <<handlers, hstate, activeIds, accepted, done, posted, cancelled>>
    BY <1>2 DEF asker_ask, OfferTo, IdAfter
  <2>2. 1 \in 1 .. Len(handlers) /\ h \in Handlers /\ h \in ToSet(handlers)
    <3>1. Len(handlers) \in Nat \ {0}
      BY <1>2, EmptySeq DEF IInv, TypeOK
    <3>2. QED
      BY <3>1, HandlerList
  <2>3. /\ next_id \in Nat /\ next_id \notin DOMAIN askers
        /\ DOMAIN askers \subseteq 0 .. next_id - 1
        /\ \A g \in Handlers : /\ next_id \notin ids[g] \cup hqueue[g] \cup activeIds[g]
                               /\ hqueue[g] \cup activeIds[g] \cup ids[g] \subseteq 0 .. next_id - 1
    BY DEF IInv, TypeOK
  <2> HIDE DEF h
  <2>4. \A g \in Handlers : \A id \in ids[g] : id \in DOMAIN askers
    BY DEF IInv, QuestionsKnown
  <2>5. /\ DOMAIN askers' = DOMAIN askers \cup {next_id}
        /\ askers'[next_id] = [a |-> a, pos |-> 1]
        /\ \A id \in DOMAIN askers : askers'[id] = askers[id]
    BY <2>1, <2>3
  <2>6. /\ ids \in [Handlers -> SUBSET (0 .. next_id - 1)]
        /\ hqueue \in [Handlers -> SUBSET (0 .. next_id - 1)]
        /\ \A g \in Handlers : /\ ids'[g] = IF g = h THEN ids[g] \cup {next_id} ELSE ids[g]
                               /\ hqueue'[g] = IF g = h THEN hqueue[g] \cup {next_id} ELSE hqueue[g]
    BY <2>1, <2>2 DEF IInv, TypeOK
  <2>7. TypeOK'
    <3>1. 0 .. next_id - 1 \subseteq 0 .. next_id' - 1 /\ next_id \in 0 .. next_id' - 1 /\ next_id' \in Nat
      BY <2>1, <2>3
    <3>2. /\ ids' \in [Handlers -> SUBSET (0 .. next_id' - 1)]
          /\ hqueue' \in [Handlers -> SUBSET (0 .. next_id' - 1)]
          /\ activeIds' \in [Handlers -> SUBSET (0 .. next_id' - 1)]
      <4>1. activeIds \in [Handlers -> SUBSET (0 .. next_id - 1)]
        BY DEF IInv, TypeOK
      <4> QED
        BY <2>1, <2>2, <2>6, <3>1, <4>1, Zenon
    <3>3. DOMAIN askers' \subseteq 0 .. next_id' - 1
      BY <2>3, <2>5, <3>1
    <3>4. askers' \in [DOMAIN askers' -> AskerItem]
      <4>1. \A id \in DOMAIN askers : askers[id] \in AskerItem
        BY DEF IInv, TypeOK
      <4>2. [a |-> a, pos |-> 1] \in AskerItem
        BY DEF AskerItem
      <4> QED
        BY <2>1, <4>1, <4>2
    <3>5. AskerTypes'
      BY <2>1 DEF IInv, TypeOK, AskerTypes
    <3> QED
      BY <2>1, <3>1, <3>2, <3>3, <3>4, <3>5 DEF IInv, TypeOK, AskerTypes
  <2>8. RegisteredOnce'
    BY <2>1 DEF IInv, RegisteredOnce
  <2>9. QuestionsKnown'
    BY <2>1, <2>2, <2>5, <2>6 DEF IInv, QuestionsKnown, h
  <2>10. ShownIsHeld'
    BY <2>1, <2>2, <2>3, <2>5, <2>6 DEF IInv, ShownIsHeld
  <2>11. ShownOnce'
    BY <2>1, <2>3, <2>6 DEF IInv, ShownOnce
  <2>12. NoLostQuestion'
    <3> SUFFICES ASSUME NEW b \in Askers,
                        ~done'[b], ~cancelled'[b], apc'[b] # "asking"
                 PROVE  \E g \in Handlers, id \in ItemsOf(b)' :
                          id \in ids'[g] /\ id \in hqueue'[g] \cup activeIds'[g]
      BY Zenon DEF NoLostQuestion
    <3>1. CASE b = a
      <4>1. next_id \in ItemsOf(b)'
        BY <2>5, <3>1 DEF ItemsOf
      <4>2. next_id \in ids'[h] /\ next_id \in hqueue'[h] \cup activeIds'[h]
        BY <2>2, <2>6
      <4> QED
        BY <2>2, <4>1, <4>2
    <3>2. CASE b # a
      <4>1. ~done[b] /\ ~cancelled[b] /\ apc[b] # "asking"
        BY <2>1, <3>2 DEF IInv, TypeOK
      <4>2. PICK g \in Handlers, id \in ItemsOf(b) :
              id \in ids[g] /\ id \in hqueue[g] \cup activeIds[g]
        BY <4>1 DEF IInv, NoLostQuestion
      <4>3. id \in ItemsOf(b)'
        BY <2>5, <4>2 DEF ItemsOf
      <4> QED
        BY <2>1, <2>6, <4>2, <4>3
    <3> QED
      BY <3>1, <3>2
  <2> QED
    BY <2>7, <2>8, <2>9, <2>10, <2>11, <2>12 DEF IInv
<1>3. QED
  BY <1>1, <1>2

\* asker_cancel: the item is taken from the list and from every handler.
LEMMA asker_cancelStep ==
  ASSUME IInv, NEW a \in Askers, asker_cancel(a)
  PROVE  IInv'
<1>1. /\ apc' = [apc EXCEPT ![a] = "idle"]
      /\ cancelled' = [cancelled EXCEPT ![a] = TRUE]
      /\ UNCHANGED <<handlers, next_id, hstate, hqueue, activeIds, accepted, done, posted>>
  BY DEF asker_cancel, evVars, hVars
<1>2. AskerTypes'
  BY <1>1 DEF IInv, TypeOK, AskerTypes
<1>3. PICK gone \in SUBSET ItemsOf(a) :
        /\ DOMAIN askers' = DOMAIN askers \ gone
        /\ \A id \in DOMAIN askers \ gone : askers'[id] = askers[id]
        /\ askers' \in [DOMAIN askers' -> AskerItem]
        /\ ids' \in [Handlers -> SUBSET (0 .. next_id - 1)]
        /\ \A h \in Handlers : ids'[h] = ids[h] \ gone
  <2>1. CASE ItemsOf(a) = {}
    <3>1. UNCHANGED evVars
      BY <2>1 DEF asker_cancel, FirstItem
    <3>2. /\ {} \in SUBSET ItemsOf(a)
          /\ DOMAIN askers' = DOMAIN askers \ {}
          /\ \A id \in DOMAIN askers \ {} : askers'[id] = askers[id]
          /\ \A h \in Handlers : ids'[h] = ids[h] \ {}
      BY <3>1 DEF evVars
    <3>3. /\ askers' \in [DOMAIN askers' -> AskerItem]
          /\ ids' \in [Handlers -> SUBSET (0 .. next_id - 1)]
      BY <3>1 DEF evVars, IInv, TypeOK
    <3> QED
      BY <3>2, <3>3
  <2>2. CASE ItemsOf(a) # {}
    <3>1. PICK id \in ItemsOf(a) :
            /\ ids' = [h \in Handlers |-> ids[h] \ {id}]
            /\ askers' = [i \in DOMAIN askers \ {id} |-> askers[i]]
      BY <2>2 DEF asker_cancel, FirstItem
    <3>2. /\ {id} \in SUBSET ItemsOf(a)
          /\ DOMAIN askers' = DOMAIN askers \ {id}
          /\ \A i \in DOMAIN askers \ {id} : askers'[i] = askers[i]
          /\ \A h \in Handlers : ids'[h] = ids[h] \ {id}
      BY <3>1
    <3>3. /\ askers' \in [DOMAIN askers' -> AskerItem]
          /\ ids' \in [Handlers -> SUBSET (0 .. next_id - 1)]
      BY <3>1 DEF IInv, TypeOK
    <3> QED
      BY <3>2, <3>3
  <2> QED
    BY <2>1, <2>2
<1>4. TypeOK'
  BY <1>1, <1>2, <1>3 DEF IInv, TypeOK, AskerTypes
<1>5. RegisteredOnce'
  BY <1>1 DEF IInv, RegisteredOnce
<1>6. QuestionsKnown'
  BY <1>1, <1>3 DEF IInv, QuestionsKnown
<1>7. ShownIsHeld'
  BY <1>1, <1>3 DEF IInv, ShownIsHeld
<1>8. ShownOnce'
  BY <1>1 DEF IInv, ShownOnce
<1>9. NoLostQuestion'
  <2> SUFFICES ASSUME NEW b \in Askers,
                      ~done'[b], ~cancelled'[b], apc'[b] # "asking"
               PROVE  \E g \in Handlers, id \in ItemsOf(b)' :
                        id \in ids'[g] /\ id \in hqueue'[g] \cup activeIds'[g]
    BY Zenon DEF NoLostQuestion
  <2>1. b # a /\ ~done[b] /\ ~cancelled[b] /\ apc[b] # "asking"
    BY <1>1 DEF IInv, TypeOK
  <2>2. PICK g \in Handlers, id \in ItemsOf(b) :
          id \in ids[g] /\ id \in hqueue[g] \cup activeIds[g]
    BY <2>1 DEF IInv, NoLostQuestion
  <2>3. id \notin gone /\ id \in ItemsOf(b)'
    BY <1>3, <2>1, <2>2 DEF ItemsOf
  <2> QED
    BY <1>1, <1>3, <2>2, <2>3
<1>10. QED
  BY <1>4, <1>5, <1>6, <1>7, <1>8, <1>9 DEF IInv

----------------------------------------------------------------------------
(* Each action of the handler's thread preserves it.                        *)

LEMMA DestroyStep ==
  ASSUME IInv, NEW h \in Handlers, Destroy(h)
  PROVE  IInv'
<1>1. /\ hstate[h] = "started" /\ hstate' = [hstate EXCEPT ![h] = "closing"]
      /\ UNCHANGED <<evVars, hqueue, activeIds, aVars>>
  BY DEF Destroy
<1>2. TypeOK'
  BY <1>1 DEF IInv, TypeOK, evVars, aVars
<1>3. RegisteredOnce'
  BY <1>1 DEF IInv, TypeOK, RegisteredOnce, evVars
<1>4. QuestionsKnown' /\ ShownIsHeld' /\ ShownOnce' /\ NoLostQuestion'
  BY <1>1 DEF IInv, QuestionsKnown, ShownIsHeld, ShownOnce, NoLostQuestion, ItemsOf, evVars, aVars
<1>5. QED
  BY <1>2, <1>3, <1>4 DEF IInv

\* Start: the handler enters the list at the end, no position changes.
LEMMA StartStep ==
  ASSUME IInv, NEW h \in Handlers, Start(h)
  PROVE  IInv'
<1>1. /\ hstate[h] = "new" /\ hstate' = [hstate EXCEPT ![h] = "started"]
      /\ handlers' = Append(handlers, h)
      /\ UNCHANGED <<ids, askers, next_id, hqueue, activeIds, aVars>>
  BY DEF Start, handler_add
<1>2. /\ handlers \in Seq(Handlers)
      /\ Len(handlers) \in Nat
      /\ handlers' \in Seq(Handlers)
      /\ Len(handlers') = Len(handlers) + 1
      /\ DOMAIN handlers' = 1 .. Len(handlers) + 1
      /\ \A i \in 1 .. Len(handlers) : handlers'[i] = handlers[i]
      /\ handlers'[Len(handlers) + 1] = h
  BY <1>1, AppendProperties, LenProperties DEF IInv, TypeOK
<1>3. ToSet(handlers') = ToSet(handlers) \cup {h}
  BY <1>2, LenProperties DEF ToSet
<1>4. h \notin ToSet(handlers)
  BY <1>1, HandlerList
<1>5. TypeOK'
  BY <1>1, <1>2 DEF IInv, TypeOK, aVars
<1>6. RegisteredOnce'
  <2>1. IsInjective(handlers')
    BY <1>2, <1>4, HandlerList DEF IsInjective
  <2>2. \A g \in Handlers : hstate'[g] \in {"started", "closing"} <=> g \in ToSet(handlers')
    BY <1>1, <1>3, HandlerList DEF IInv, TypeOK
  <2> QED
    BY <2>1, <2>2 DEF RegisteredOnce
<1>7. QuestionsKnown'
  BY <1>1, <1>2 DEF IInv, QuestionsKnown
<1>8. ShownIsHeld'
  BY <1>1, <1>3 DEF IInv, ShownIsHeld
<1>9. ShownOnce' /\ NoLostQuestion'
  BY <1>1 DEF IInv, ShownOnce, NoLostQuestion, ItemsOf, aVars
<1>10. QED
  BY <1>5, <1>6, <1>7, <1>8, <1>9 DEF IInv

\* Deliver: a queued question becomes an active one.
LEMMA DeliverStep ==
  ASSUME IInv, NEW h \in Handlers, NEW id, Deliver(h, id)
  PROVE  IInv'
<1>1. /\ hstate[h] = "started" /\ id \in hqueue[h]
      /\ hqueue' = [hqueue EXCEPT ![h] = @ \ {id}]
      /\ activeIds' = [activeIds EXCEPT ![h] = @ \cup {id}]
      /\ UNCHANGED <<evVars, hstate, aVars>>
  BY DEF Deliver
<1>2. \A g \in Handlers :
        /\ hqueue'[g] = IF g = h THEN hqueue[g] \ {id} ELSE hqueue[g]
        /\ activeIds'[g] = IF g = h THEN activeIds[g] \cup {id} ELSE activeIds[g]
        /\ hqueue'[g] \cup activeIds'[g] = hqueue[g] \cup activeIds[g]
  BY <1>1 DEF IInv, TypeOK
<1>3. TypeOK'
  <2>1. /\ hqueue' \in [Handlers -> SUBSET (0 .. next_id - 1)]
        /\ activeIds' \in [Handlers -> SUBSET (0 .. next_id - 1)]
    BY <1>1 DEF IInv, TypeOK
  <2> QED
    BY <1>1, <2>1 DEF IInv, TypeOK, evVars, aVars
<1>4. RegisteredOnce' /\ QuestionsKnown'
  BY <1>1 DEF IInv, RegisteredOnce, QuestionsKnown, evVars
<1>5. ShownIsHeld'
  BY <1>1, <1>2 DEF IInv, ShownIsHeld, evVars
<1>6. ShownOnce'
  BY <1>2 DEF IInv, ShownOnce
<1>7. NoLostQuestion'
  BY <1>1, <1>2 DEF IInv, NoLostQuestion, ItemsOf, evVars, aVars
<1>8. QED
  BY <1>3, <1>4, <1>5, <1>6, <1>7 DEF IInv

\* What a response changes: answered askers are done, nobody starts asking.
LEMMA RespondEffect ==
  ASSUME TypeOK, NEW answers \in [Askers -> Nat], Respond(answers),
         accepted' \in [Askers -> BOOLEAN], cancelled' = cancelled
  PROVE  /\ AskerTypes'
         /\ \A b \in Askers : done'[b] <=> done[b] \/ answers[b] > 0
         /\ \A b \in Askers : apc'[b] = "asking" <=> apc[b] = "asking"
<1>1. done' \in [Askers -> BOOLEAN]
  BY DEF TypeOK, Respond
<1>2. apc' \in [Askers -> {"idle", "asking", "cancelling", "blocked", "woken"}]
  BY DEF TypeOK, Respond
<1>3. posted' \in [Askers -> Nat]
  BY DEF TypeOK, Respond
<1>4. \A b \in Askers : done'[b] <=> done[b] \/ answers[b] > 0
  BY Zenon DEF Respond
<1>5. \A b \in Askers : apc'[b] = "asking" <=> apc[b] = "asking"
  BY DEF Respond
<1>6. cancelled' \in [Askers -> BOOLEAN]
  BY DEF TypeOK
<1>7. QED
  BY <1>1, <1>2, <1>3, <1>4, <1>5, <1>6 DEF AskerTypes

LEMMA AcceptEffect ==
  ASSUME TypeOK, NEW b \in Askers, set_accepted(b) \/ set_rejected(b)
  PROVE  /\ AskerTypes'
         /\ \A c \in Askers : done'[c] <=> done[c] \/ c = b
         /\ \A c \in Askers : apc'[c] = "asking" <=> apc[c] = "asking"
         /\ cancelled' = cancelled
<1> DEFINE answers == [c \in Askers |-> IF c = b THEN 1 ELSE 0]
<1>1. answers \in [Askers -> Nat] /\ \A c \in Askers : answers[c] > 0 <=> c = b
  OBVIOUS
<1>2. Respond(answers) /\ cancelled' = cancelled
  BY DEF set_accepted, set_rejected
<1>3. accepted' \in [Askers -> BOOLEAN]
  BY DEF TypeOK, set_accepted, set_rejected
<1> HIDE DEF answers
<1>4. QED
  BY <1>1, <1>2, <1>3, RespondEffect

\* Submit: only the asker of the question is done with it.
LEMMA SubmitStep ==
  ASSUME IInv, NEW h \in Handlers, NEW id, Submit(h, id)
  PROVE  IInv'
<1>1. /\ id \in activeIds[h]
      /\ activeIds' = [activeIds EXCEPT ![h] = @ \ {id}]
      /\ UNCHANGED <<handlers, askers, next_id, hstate, hqueue>>
  BY DEF Submit, handler_accept, evVars
<1>2. /\ AskerTypes'
      /\ ids' \in [Handlers -> SUBSET (0 .. next_id - 1)]
      /\ \A g \in Handlers : ids'[g] \subseteq ids[g] /\ ids[g] \ {id} \subseteq ids'[g]
      /\ \A g \in Handlers \ {h} : ids'[g] = ids[g]
      /\ cancelled' = cancelled
      /\ \A b \in Askers :
           ~done'[b] => ~done[b] /\ ~ (id \in DOMAIN askers /\ askers[id].a = b)
      /\ \A b \in Askers : apc'[b] = "asking" <=> apc[b] = "asking"
  <2>1. CASE id \in DOMAIN askers
    <3>1. set_accepted(askers[id].a) /\ ids' = [ids EXCEPT ![h] = @ \ {id}]
      BY <2>1 DEF Submit, handler_accept
    <3>2. askers[id].a \in Askers
      BY <2>1 DEF IInv, TypeOK, AskerItem
    <3>3. /\ ids' \in [Handlers -> SUBSET (0 .. next_id - 1)]
          /\ \A g \in Handlers : ids'[g] = IF g = h THEN ids[g] \ {id} ELSE ids[g]
      BY <3>1 DEF IInv, TypeOK
    <3>4. /\ AskerTypes'
          /\ \A c \in Askers : done'[c] <=> done[c] \/ c = askers[id].a
          /\ \A c \in Askers : apc'[c] = "asking" <=> apc[c] = "asking"
          /\ cancelled' = cancelled
      BY <3>1, <3>2, AcceptEffect DEF IInv
    <3> QED
      BY <3>3, <3>4
  <2>2. CASE id \notin DOMAIN askers
    <3>1. UNCHANGED <<evVars, aVars>>
      BY <2>2 DEF Submit, handler_accept
    <3> QED
      BY <2>2, <3>1 DEF evVars, aVars, IInv, TypeOK, AskerTypes
  <2> QED
    BY <2>1, <2>2
<1>3. /\ activeIds' \in [Handlers -> SUBSET (0 .. next_id - 1)]
      /\ \A g \in Handlers : activeIds'[g] = IF g = h THEN activeIds[g] \ {id} ELSE activeIds[g]
  BY <1>1 DEF IInv, TypeOK
<1>4. TypeOK'
  BY <1>1, <1>2, <1>3 DEF IInv, TypeOK, AskerTypes
<1>5. RegisteredOnce'
  BY <1>1 DEF IInv, RegisteredOnce
<1>6. QuestionsKnown'
  BY <1>1, <1>2 DEF IInv, QuestionsKnown
<1>7. ShownIsHeld'
  BY <1>1, <1>2, <1>3 DEF IInv, ShownIsHeld
<1>8. ShownOnce'
  BY <1>1, <1>3 DEF IInv, ShownOnce
<1>9. NoLostQuestion'
  <2> SUFFICES ASSUME NEW b \in Askers,
                      ~done'[b], ~cancelled'[b], apc'[b] # "asking"
               PROVE  \E g \in Handlers, i \in ItemsOf(b)' :
                        i \in ids'[g] /\ i \in hqueue'[g] \cup activeIds'[g]
    BY Zenon DEF NoLostQuestion
  <2>1. PICK g \in Handlers, i \in ItemsOf(b) :
          i \in ids[g] /\ i \in hqueue[g] \cup activeIds[g]
    BY <1>2 DEF IInv, NoLostQuestion
  <2>2. i # id /\ i \in ItemsOf(b)'
    BY <1>1, <1>2, <2>1 DEF ItemsOf
  <2>3. i \in ids'[g] /\ i \in hqueue'[g] \cup activeIds'[g]
    BY <1>1, <1>2, <1>3, <2>1, <2>2
  <2> QED
    BY <2>2, <2>3
<1>10. QED
  BY <1>4, <1>5, <1>6, <1>7, <1>8, <1>9 DEF IInv

\* Reject and DestroyReject: the question goes to the handler behind h, and
\* with no handler behind h its asker is done with it.
LEMMA DeclineStep ==
  ASSUME IInv, NEW h \in Handlers, NEW id \in activeIds[h],
         hstate[h] \in {"started", "closing"}, UNCHANGED hstate,
         activeIds' = [activeIds EXCEPT ![h] = @ \ {id}],
         handler_reject(h, id)
  PROVE  IInv'
<1>1. /\ activeIds' \in [Handlers -> SUBSET (0 .. next_id - 1)]
      /\ \A g \in Handlers : activeIds'[g] = IF g = h THEN activeIds[g] \ {id} ELSE activeIds[g]
      /\ id \in 0 .. next_id - 1
  BY DEF IInv, TypeOK
<1>2. UNCHANGED <<handlers, next_id>> /\ RegisteredOnce'
  BY DEF handler_reject, evVars, IInv, RegisteredOnce
<1>3. CASE id \notin DOMAIN askers
  <2>1. UNCHANGED <<evVars, hqueue, aVars>>
    BY <1>3 DEF handler_reject
  <2>2. TypeOK'
    BY <1>1, <2>1 DEF IInv, TypeOK, evVars, aVars
  <2>3. QuestionsKnown' /\ ShownIsHeld' /\ ShownOnce'
    BY <1>1, <2>1 DEF IInv, QuestionsKnown, ShownIsHeld, ShownOnce, evVars
  <2>4. NoLostQuestion'
    BY <1>1, <1>3, <2>1 DEF IInv, NoLostQuestion, ItemsOf, evVars, aVars
  <2> QED
    BY <1>2, <2>2, <2>3, <2>4 DEF IInv
<1>4. CASE id \in DOMAIN askers
  <2> DEFINE pos == askers[id].pos
  <2>1. /\ id \in ids[h] /\ id \notin hqueue[h]
        /\ pos \in 1 .. Len(handlers) /\ handlers[pos] = h
        /\ \A g \in Handlers \ {h} : id \notin ids[g] \cup hqueue[g] \cup activeIds[g]
    BY <1>4 DEF IInv, QuestionsKnown, ShownIsHeld
  <2>2. CASE pos < Len(handlers)
    <3> DEFINE n == handlers[pos + 1]
    <3>1. pos + 1 \in 1 .. Len(handlers) /\ n \in Handlers /\ n \in ToSet(handlers) /\ n # h
      <4>1. Len(handlers) \in Nat /\ pos + 1 \in 1 .. Len(handlers) /\ pos + 1 # pos
        BY <2>1, <2>2, HandlerList
      <4> QED
        BY <2>1, <4>1, HandlerList
    <3>2. /\ askers' = [askers EXCEPT ![id].pos = pos + 1]
          /\ ids' = [g \in Handlers |-> (ids[g] \ (IF g = h THEN {id} ELSE {}))
                                         \cup (IF g = n THEN {id} ELSE {})]
          /\ hqueue' = [hqueue EXCEPT ![n] = @ \cup {id}]
          /\ UNCHANGED aVars
      <4>1. Len(handlers) \in Nat /\ pos \in Nat /\ ~(pos >= Len(handlers))
        BY <2>1, <2>2, HandlerList
      <4> QED
        BY <1>4, <2>2, <4>1 DEF handler_reject
    <3> HIDE DEF n
    <3>3. /\ DOMAIN askers' = DOMAIN askers
          /\ askers'[id].pos = pos + 1
          /\ \A i \in DOMAIN askers : askers'[i].a = askers[i].a
          /\ \A i \in DOMAIN askers \ {id} : askers'[i] = askers[i]
          /\ askers' \in [DOMAIN askers -> AskerItem]
      <4> DEFINE moved == [askers[id] EXCEPT !.pos = pos + 1]
      <4>1. askers \in [DOMAIN askers -> AskerItem] /\ askers[id] \in AskerItem
        BY <1>4 DEF IInv, TypeOK
      <4>2. moved \in AskerItem /\ moved.pos = pos + 1 /\ moved.a = askers[id].a
        BY <3>1, <4>1 DEF AskerItem
      <4>3. askers' = [askers EXCEPT ![id] = moved]
        BY <3>2
      <4> HIDE DEF moved
      <4> QED
        BY <1>4, <4>1, <4>2, <4>3
    <3>4. /\ ids' \in [Handlers -> SUBSET (0 .. next_id - 1)]
          /\ hqueue' \in [Handlers -> SUBSET (0 .. next_id - 1)]
      BY <1>1, <3>1, <3>2 DEF IInv, TypeOK
    <3>5. /\ ids'[h] = ids[h] \ {id} /\ hqueue'[h] = hqueue[h]
          /\ ids'[n] = ids[n] \cup {id} /\ hqueue'[n] = hqueue[n] \cup {id}
          /\ \A g \in Handlers \ {h, n} : ids'[g] = ids[g] /\ hqueue'[g] = hqueue[g]
      BY <3>1, <3>2 DEF IInv, TypeOK
    <3>6. TypeOK'
      BY <1>1, <1>2, <3>2, <3>3, <3>4 DEF IInv, TypeOK, aVars
    <3>7. QuestionsKnown'
      <4> SUFFICES ASSUME NEW g \in Handlers, NEW i \in ids'[g]
                   PROVE  /\ i \in DOMAIN askers'
                          /\ askers'[i].pos \in 1 .. Len(handlers)
                          /\ handlers[askers'[i].pos] = g
        BY <1>2 DEF QuestionsKnown
      <4>1. CASE i = id
        <5>1. g = n
          BY <2>1, <3>1, <3>5, <4>1
        <5> QED
          BY <1>4, <3>1, <3>3, <4>1, <5>1 DEF n
      <4>2. CASE i # id
        BY <3>1, <3>3, <3>5, <4>2 DEF IInv, QuestionsKnown
      <4> QED
        BY <4>1, <4>2
    <3>8. ShownIsHeld'
      <4>1. \A g \in Handlers : g \notin ToSet(handlers) => g # n
        BY <3>1
      <4> QED
        BY <1>1, <1>2, <2>1, <3>1, <3>3, <3>5, <4>1 DEF IInv, ShownIsHeld
    <3>9. ShownOnce'
      BY <1>1, <2>1, <3>1, <3>5 DEF IInv, ShownOnce
    <3>10. NoLostQuestion'
      <4> SUFFICES ASSUME NEW b \in Askers,
                          ~done'[b], ~cancelled'[b], apc'[b] # "asking"
                   PROVE  \E g \in Handlers, i \in ItemsOf(b)' :
                            i \in ids'[g] /\ i \in hqueue'[g] \cup activeIds'[g]
        BY Zenon DEF NoLostQuestion
      <4>1. PICK g \in Handlers, i \in ItemsOf(b) :
              i \in ids[g] /\ i \in hqueue[g] \cup activeIds[g]
        BY <3>2 DEF IInv, NoLostQuestion, aVars
      <4>2. i \in ItemsOf(b)'
        BY <3>3, <4>1 DEF ItemsOf
      <4>3. CASE i = id
        <5>1. id \in ids'[n] /\ id \in hqueue'[n] \cup activeIds'[n]
          BY <3>5
        <5> QED
          BY <3>1, <4>2, <4>3, <5>1
      <4>4. CASE i # id
        <5>1. i \in ids'[g] /\ i \in hqueue'[g] \cup activeIds'[g]
          BY <1>1, <3>1, <3>5, <4>1, <4>4
        <5> QED
          BY <4>2, <5>1
      <4> QED
        BY <4>3, <4>4
    <3> QED
      BY <1>2, <3>6, <3>7, <3>8, <3>9, <3>10 DEF IInv
  <2>3. CASE ~(pos < Len(handlers))
    <3>1. /\ ids' = [ids EXCEPT ![h] = @ \ {id}]
          /\ askers' = [i \in DOMAIN askers \ {id} |-> askers[i]]
          /\ set_rejected(askers[id].a)
          /\ UNCHANGED hqueue
      BY <1>4, <2>3 DEF handler_reject
    <3>2. askers[id].a \in Askers
      BY <1>4 DEF IInv, TypeOK, AskerItem
    <3>3. /\ AskerTypes'
          /\ \A c \in Askers : done'[c] <=> done[c] \/ c = askers[id].a
          /\ \A c \in Askers : apc'[c] = "asking" <=> apc[c] = "asking"
          /\ cancelled' = cancelled
      BY <3>1, <3>2, AcceptEffect DEF IInv
    <3>4. /\ ids' \in [Handlers -> SUBSET (0 .. next_id - 1)]
          /\ \A g \in Handlers : ids'[g] = IF g = h THEN ids[g] \ {id} ELSE ids[g]
      BY <3>1 DEF IInv, TypeOK
    <3>5. /\ DOMAIN askers' = DOMAIN askers \ {id}
          /\ \A i \in DOMAIN askers \ {id} : askers'[i] = askers[i]
          /\ askers' \in [DOMAIN askers' -> AskerItem]
      BY <3>1 DEF IInv, TypeOK
    <3>6. TypeOK'
      BY <1>1, <1>2, <3>1, <3>3, <3>4, <3>5 DEF IInv, TypeOK, AskerTypes
    <3>7. QuestionsKnown'
      BY <1>2, <2>1, <3>4, <3>5 DEF IInv, QuestionsKnown
    <3>8. ShownIsHeld' /\ ShownOnce'
      BY <1>1, <1>2, <3>1, <3>4, <3>5 DEF IInv, ShownIsHeld, ShownOnce
    <3>9. NoLostQuestion'
      <4> SUFFICES ASSUME NEW b \in Askers,
                          ~done'[b], ~cancelled'[b], apc'[b] # "asking"
                   PROVE  \E g \in Handlers, i \in ItemsOf(b)' :
                            i \in ids'[g] /\ i \in hqueue'[g] \cup activeIds'[g]
        BY Zenon DEF NoLostQuestion
      <4>1. PICK g \in Handlers, i \in ItemsOf(b) :
              i \in ids[g] /\ i \in hqueue[g] \cup activeIds[g]
        BY <3>3 DEF IInv, NoLostQuestion
      <4>2. i # id /\ i \in ItemsOf(b)'
        BY <3>3, <3>5, <4>1 DEF ItemsOf
      <4>3. i \in ids'[g] /\ i \in hqueue'[g] \cup activeIds'[g]
        BY <1>1, <3>1, <3>4, <4>1, <4>2
      <4> QED
        BY <4>2, <4>3
    <3> QED
      BY <1>2, <3>6, <3>7, <3>8, <3>9 DEF IInv
  <2> QED
    BY <2>2, <2>3
<1>5. QED
  BY <1>3, <1>4

\* handler_remove in other words: every question of h is at h's own index, so
\* either all go to the handler that moves up to that index, or all are lost.
Kept(h, at) == IF at < Len(handlers) THEN ids[h] ELSE {}
Lost(h, at) == IF at < Len(handlers) THEN {} ELSE ids[h]
Passed(h, at, g) == IF at < Len(handlers) /\ handlers[at + 1] = g THEN ids[h] ELSE {}

LostBy(h, at, a) == {id \in Lost(h, at) : askers[id].a = a}
Answers(h, at, a) == Cardinality(LostBy(h, at, a))

RemovedFrom(h, at) ==
  /\ handlers' = RemoveAt(handlers, at)
  /\ askers' = IF handlers' = <<>> THEN NoAskers
               ELSE [id \in DOMAIN askers \ Lost(h, at) |->
                       [a |-> askers[id].a,
                        pos |-> IF id \in Kept(h, at) THEN at
                                ELSE MovedUp(at, askers[id].pos)]]
  /\ next_id' = IF handlers' = <<>> THEN 0 ELSE next_id
  /\ ids' = [g \in Handlers |-> IF g = h THEN {} ELSE ids[g] \cup Passed(h, at, g)]
  /\ hqueue' = [g \in Handlers |-> IF g = h THEN {} ELSE hqueue[g] \cup Passed(h, at, g)]
  /\ Respond([a \in Askers |-> Answers(h, at, a)])
  /\ UNCHANGED <<accepted, cancelled>>

LEMMA RemoveEffect ==
  ASSUME IInv, NEW h \in Handlers, h \in ToSet(handlers), handler_remove(h)
  PROVE  \E at \in 1 .. Len(handlers) :
           /\ handlers[at] = h
           /\ \A id \in ids[h] : id \in DOMAIN askers /\ askers[id].pos = at
           /\ RemovedFrom(h, at)
<1> DEFINE at == RemovedAt(h)
           left == RemoveAt(handlers, at)
           retry(id) == MovedUp(at, askers[id].pos) + 1
           lost == {id \in ids[h] : retry(id) > Len(left)}
           kept == ids[h] \ lost
<1>1. at \in 1 .. Len(handlers) /\ handlers[at] = h /\ Len(handlers) \in Nat
  BY HandlerList DEF RemovedAt
<1>2. \A id \in ids[h] : id \in DOMAIN askers /\ askers[id].pos = at
  BY <1>1, HandlerList DEF IInv, QuestionsKnown
<1>3. /\ left \in Seq(Handlers) /\ Len(left) = Len(handlers) - 1
      /\ \A j \in 1 .. Len(handlers) - 1 :
           left[j] = IF j < at THEN handlers[j] ELSE handlers[j + 1]
  BY <1>1, RemoveAtShifts DEF IInv, TypeOK
<1>4. \A id \in ids[h] : retry(id) = at
  BY <1>1, <1>2 DEF MovedUp
<1>5. lost = Lost(h, at) /\ kept = Kept(h, at)
  BY <1>1, <1>3, <1>4 DEF Lost, Kept
<1>6. ASSUME NEW g
      PROVE  {id \in kept : left[retry(id)] = g} = Passed(h, at, g)
  <2>1. CASE at < Len(handlers)
    <3>1. left[at] = handlers[at + 1]
      BY <1>1, <1>3, <2>1
    <3>2. \A id \in kept : left[retry(id)] = handlers[at + 1]
      BY <1>4, <3>1
    <3> QED
      BY <1>5, <2>1, <3>2 DEF Kept, Passed
  <2>2. CASE ~(at < Len(handlers))
    BY <1>5, <2>2 DEF Kept, Passed
  <2> QED
    BY <2>1, <2>2
<1>7. /\ handlers' = left
      /\ askers' = IF left = <<>> THEN NoAskers
                   ELSE [id \in DOMAIN askers \ lost |->
                           [a |-> askers[id].a,
                            pos |-> IF id \in kept THEN retry(id)
                                    ELSE MovedUp(at, askers[id].pos)]]
      /\ next_id' = IF left = <<>> THEN 0 ELSE next_id
      /\ ids' = [g \in Handlers |->
                   IF g = h THEN {} ELSE ids[g] \cup {id \in kept : left[retry(id)] = g}]
      /\ hqueue' = [g \in Handlers |->
                   IF g = h THEN {} ELSE hqueue[g] \cup {id \in kept : left[retry(id)] = g}]
      /\ Respond([a \in Askers |-> Cardinality({id \in lost : askers[id].a = a})])
      /\ UNCHANGED <<accepted, cancelled>>
  BY DEF handler_remove
<1>8. \A id \in kept : retry(id) = at
  BY <1>4
<1> HIDE DEF at, left, retry, lost, kept
<1>9. askers' = IF handlers' = <<>> THEN NoAskers
                ELSE [id \in DOMAIN askers \ Lost(h, at) |->
                        [a |-> askers[id].a,
                         pos |-> IF id \in Kept(h, at) THEN at
                                 ELSE MovedUp(at, askers[id].pos)]]
  BY <1>5, <1>7, <1>8
<1>10. /\ ids' = [g \in Handlers |-> IF g = h THEN {} ELSE ids[g] \cup Passed(h, at, g)]
       /\ hqueue' = [g \in Handlers |-> IF g = h THEN {} ELSE hqueue[g] \cup Passed(h, at, g)]
  BY <1>6, <1>7
<1>11. handlers' = RemoveAt(handlers, at)
  BY <1>7 DEF left
<1>12. Respond([a \in Askers |-> Answers(h, at, a)])
  BY <1>5, <1>7, Zenon DEF Answers, LostBy
<1>13. RemovedFrom(h, at)
  BY <1>7, <1>9, <1>10, <1>11, <1>12 DEF RemovedFrom
<1>14. QED
  BY <1>1, <1>2, <1>13

\* DestroyRemove: positions behind h move up with their handlers.
LEMMA DestroyRemoveStep ==
  ASSUME IInv, NEW h \in Handlers, DestroyRemove(h)
  PROVE  IInv'
<1>1. /\ hstate[h] = "closing" /\ activeIds[h] = {}
      /\ hstate' = [hstate EXCEPT ![h] = "destroyed"]
      /\ handler_remove(h)
      /\ UNCHANGED activeIds
  BY DEF DestroyRemove
<1>2. h \in ToSet(handlers)
  BY <1>1, HandlerList
<1>3. PICK at \in 1 .. Len(handlers) :
        /\ handlers[at] = h
        /\ \A id \in ids[h] : id \in DOMAIN askers /\ askers[id].pos = at
        /\ RemovedFrom(h, at)
  BY <1>1, <1>2, RemoveEffect
<1>4. /\ handlers' \in Seq(Handlers)
      /\ Len(handlers) \in Nat /\ Len(handlers') = Len(handlers) - 1
      /\ \A j \in 1 .. Len(handlers) - 1 :
           handlers'[j] = IF j < at THEN handlers[j] ELSE handlers[j + 1]
  BY <1>3, RemoveAtShifts, LenProperties DEF IInv, TypeOK, RemovedFrom
<1>5. \A g \in Handlers \ {h} : \A p \in 1 .. Len(handlers) :
        handlers[p] = g => /\ p # at
                           /\ MovedUp(at, p) \in 1 .. Len(handlers')
                           /\ handlers'[MovedUp(at, p)] = g
  BY <1>3, <1>4 DEF MovedUp
<1>6. ToSet(handlers') = ToSet(handlers) \ {h}
  <2>1. \A g \in ToSet(handlers') : g \in ToSet(handlers) \ {h}
    <3> SUFFICES ASSUME NEW j \in 1 .. Len(handlers')
                 PROVE  handlers'[j] \in ToSet(handlers) \ {h}
      BY <1>4, LenProperties DEF ToSet
    <3>1. PICK p \in 1 .. Len(handlers) : p # at /\ handlers'[j] = handlers[p]
      BY <1>4
    <3> QED
      BY <1>3, <3>1, HandlerList
  <2>2. \A g \in ToSet(handlers) \ {h} : g \in ToSet(handlers')
    <3> SUFFICES ASSUME NEW p \in 1 .. Len(handlers), handlers[p] # h
                 PROVE  handlers[p] \in ToSet(handlers')
      BY HandlerList
    <3>1. \E j \in 1 .. Len(handlers') : handlers'[j] = handlers[p]
      BY <1>5, HandlerList
    <3> QED
      BY <1>4, <3>1, LenProperties DEF ToSet
  <2> QED
    BY <2>1, <2>2
<1>7. RegisteredOnce'
  <2>1. ASSUME NEW i \in 1 .. Len(handlers'), NEW j \in 1 .. Len(handlers'),
               handlers'[i] = handlers'[j]
        PROVE  i = j
    <3>1. PICK p \in 1 .. Len(handlers) :
            p = (IF i < at THEN i ELSE i + 1) /\ handlers'[i] = handlers[p]
      BY <1>4
    <3>2. PICK q \in 1 .. Len(handlers) :
            q = (IF j < at THEN j ELSE j + 1) /\ handlers'[j] = handlers[q]
      BY <1>4
    <3>3. p = q
      <4>1. handlers[p] = handlers[q]
        BY <2>1, <3>1, <3>2
      <4>2. QED
        BY <4>1, HandlerList
    <3> QED
      BY <1>4, <3>1, <3>2, <3>3
  <2>2. IsInjective(handlers')
    BY <1>4, <2>1, LenProperties DEF IsInjective
  <2>3. \A g \in Handlers : hstate'[g] \in {"started", "closing"} <=> g \in ToSet(handlers')
    BY <1>1, <1>6, HandlerList DEF IInv, TypeOK
  <2> QED
    BY <2>2, <2>3 DEF RegisteredOnce
<1>8. /\ \A g \in Handlers : ids'[g] = IF g = h THEN {} ELSE ids[g] \cup Passed(h, at, g)
      /\ \A g \in Handlers : hqueue'[g] = IF g = h THEN {} ELSE hqueue[g] \cup Passed(h, at, g)
      /\ \A g \in Handlers : Passed(h, at, g) \subseteq ids[h]
      /\ \A g \in Handlers : Passed(h, at, g) # {} =>
           /\ at < Len(handlers) /\ handlers[at + 1] = g /\ g # h
           /\ at \in 1 .. Len(handlers') /\ handlers'[at] = g
           /\ Kept(h, at) = ids[h] /\ Lost(h, at) = {}
  <2>1. \A g \in Handlers : Passed(h, at, g) \subseteq ids[h]
    BY DEF Passed
  <2>2. ASSUME NEW g \in Handlers, Passed(h, at, g) # {}
        PROVE  /\ at < Len(handlers) /\ handlers[at + 1] = g /\ g # h
               /\ at \in 1 .. Len(handlers') /\ handlers'[at] = g
               /\ Kept(h, at) = ids[h] /\ Lost(h, at) = {}
    <3>1. at < Len(handlers) /\ handlers[at + 1] = g
      BY <2>2 DEF Passed
    <3>2. g # h
      BY <1>3, <1>4, <3>1, HandlerList
    <3> QED
      BY <1>4, <3>1, <3>2 DEF Kept, Lost
  <2> QED
    BY <1>3, <2>1, <2>2 DEF RemovedFrom
<1>9. \A g \in Handlers \ {h} : (ids[g] \cup hqueue[g] \cup activeIds[g]) \cap ids[h] = {}
  BY <1>3 DEF IInv, ShownIsHeld, QuestionsKnown
<1>10. /\ AskerTypes'
       /\ \A b \in Askers : apc'[b] = "asking" <=> apc[b] = "asking"
       /\ \A b \in Askers : ~done'[b] =>
            ~done[b] /\ \A id \in Lost(h, at) : askers[id].a # b
       /\ cancelled' = cancelled
  <2> DEFINE answers == [b \in Askers |-> Answers(h, at, b)]
  <2>1. next_id \in Nat /\ Lost(h, at) \subseteq 0 .. next_id - 1
    BY DEF IInv, TypeOK, Lost
  <2>2. \A b \in Askers : IsFiniteSet(LostBy(h, at, b))
    <3>1. IsFiniteSet(0 .. next_id - 1)
      BY <2>1, FS_Interval
    <3>2. \A b \in Askers : LostBy(h, at, b) \in SUBSET (0 .. next_id - 1)
      BY <2>1 DEF LostBy
    <3> QED
      BY <3>1, <3>2, FS_Subset
  <2>3. \A b \in Askers : /\ Answers(h, at, b) \in Nat
                          /\ LostBy(h, at, b) # {} => Answers(h, at, b) > 0
    BY <2>2, FS_CardinalityType, FS_EmptySet DEF Answers
  <2>4. answers \in [Askers -> Nat] /\ \A b \in Askers : answers[b] = Answers(h, at, b)
    <3>1. \A b \in Askers : answers[b] = Answers(h, at, b)
      BY Zenon
    <3>2. answers = [b \in Askers |-> answers[b]]
      BY Zenon
    <3> HIDE DEF answers
    <3>3. \A b \in Askers : answers[b] \in Nat
      BY <2>3, <3>1
    <3> QED
      BY <3>1, <3>2, <3>3
  <2>5. Respond(answers) /\ accepted' = accepted /\ cancelled' = cancelled
    BY <1>3 DEF RemovedFrom
  <2>6. accepted' \in [Askers -> BOOLEAN] /\ TypeOK
    BY <2>5 DEF IInv, TypeOK
  <2> HIDE DEF answers
  <2>7. /\ AskerTypes'
        /\ \A b \in Askers : done'[b] <=> done[b] \/ answers[b] > 0
        /\ \A b \in Askers : apc'[b] = "asking" <=> apc[b] = "asking"
    BY <2>4, <2>5, <2>6, RespondEffect
  <2>8. ASSUME NEW b \in Askers, ~done'[b], NEW id \in Lost(h, at), askers[id].a = b
        PROVE  FALSE
    <3>1. answers[b] > 0
      BY <2>3, <2>4, <2>8 DEF LostBy
    <3> QED
      BY <2>7, <2>8, <3>1
  <2>9. \A b \in Askers : ~done'[b] => ~done[b]
    BY <2>7
  <2> QED
    BY <2>5, <2>7, <2>8, <2>9
<1>11. /\ handlers' = <<>> => next_id' = 0 /\ askers' = NoAskers
       /\ handlers' # <<>> =>
            /\ next_id' = next_id
            /\ DOMAIN askers' = DOMAIN askers \ Lost(h, at)
            /\ \A id \in DOMAIN askers \ Lost(h, at) :
                 /\ askers'[id].a = askers[id].a
                 /\ askers'[id].pos = IF id \in Kept(h, at) THEN at
                                      ELSE MovedUp(at, askers[id].pos)
  BY <1>3 DEF RemovedFrom
<1>12. handlers' = <<>> =>
         \A g \in Handlers : ids'[g] = {} /\ hqueue'[g] = {} /\ activeIds'[g] = {}
  <2> SUFFICES ASSUME handlers' = <<>>
               PROVE  \A g \in Handlers : ids'[g] = {} /\ hqueue'[g] = {} /\ activeIds'[g] = {}
    OBVIOUS
  <2>1. Len(handlers') = 0
    BY EmptySeq
  <2>2. \A g \in Handlers : Passed(h, at, g) = {}
    BY <1>8, <2>1
  <2>3. \A g \in Handlers \ {h} : g \notin ToSet(handlers)
    BY <1>5, <2>1, HandlerList
  <2>4. \A g \in Handlers \ {h} : ids[g] = {}
    BY <2>3, HandlerList DEF IInv, QuestionsKnown
  <2> QED
    BY <1>1, <1>8, <2>2, <2>3, <2>4 DEF IInv, ShownIsHeld
<1>13. TypeOK'
  <2>1. CASE handlers' = <<>>
    <3>1. /\ ids' \in [Handlers -> SUBSET (0 .. next_id' - 1)]
          /\ hqueue' \in [Handlers -> SUBSET (0 .. next_id' - 1)]
          /\ activeIds' \in [Handlers -> SUBSET (0 .. next_id' - 1)]
      <4>1. /\ ids' = [g \in Handlers |-> ids'[g]]
            /\ hqueue' = [g \in Handlers |-> hqueue'[g]]
            /\ activeIds' = [g \in Handlers |-> activeIds'[g]]
        BY <1>1, <1>3 DEF RemovedFrom, IInv, TypeOK
      <4> QED
        BY <1>12, <2>1, <4>1
    <3>2. askers' = NoAskers /\ next_id' = 0
      BY <1>11, <2>1
    <3>3. DOMAIN askers' \subseteq 0 .. next_id' - 1 /\ askers' \in [DOMAIN askers' -> AskerItem]
      BY <3>2 DEF NoAskers
    <3>4. hstate' \in [Handlers -> {"new", "started", "closing", "destroyed"}]
      BY <1>1 DEF IInv, TypeOK
    <3> QED
      BY <1>4, <1>10, <3>1, <3>2, <3>3, <3>4 DEF TypeOK, AskerTypes
  <2>2. CASE handlers' # <<>>
    <3>1. ids[h] \subseteq 0 .. next_id - 1
      BY DEF IInv, TypeOK
    <3>2. /\ ids' \in [Handlers -> SUBSET (0 .. next_id - 1)]
          /\ hqueue' \in [Handlers -> SUBSET (0 .. next_id - 1)]
          /\ activeIds' \in [Handlers -> SUBSET (0 .. next_id - 1)]
      <4>1. \A g \in Handlers : Passed(h, at, g) \subseteq 0 .. next_id - 1
        BY <1>8, <3>1
      <4> QED
        BY <1>1, <1>3, <4>1 DEF RemovedFrom, IInv, TypeOK
    <3>3. askers' \in [DOMAIN askers' -> AskerItem]
      <4>1. \A id \in DOMAIN askers : /\ askers[id].a \in Askers
                                      /\ at \in Nat
                                      /\ MovedUp(at, askers[id].pos) \in Nat
        BY <1>4 DEF IInv, TypeOK, AskerItem, MovedUp
      <4>2. askers' = [id \in DOMAIN askers \ Lost(h, at) |->
                         [a |-> askers[id].a,
                          pos |-> IF id \in Kept(h, at) THEN at
                                  ELSE MovedUp(at, askers[id].pos)]]
        BY <1>3, <2>2 DEF RemovedFrom
      <4> QED
        BY <4>1, <4>2 DEF AskerItem
    <3>4. hstate' \in [Handlers -> {"new", "started", "closing", "destroyed"}]
      BY <1>1 DEF IInv, TypeOK
    <3>5. DOMAIN askers' \subseteq 0 .. next_id - 1 /\ next_id' = next_id /\ next_id \in Nat
      BY <1>11, <2>2 DEF IInv, TypeOK
    <3> QED
      BY <1>4, <1>10, <3>2, <3>3, <3>4, <3>5 DEF TypeOK, AskerTypes
  <2> QED
    BY <2>1, <2>2
<1>14. QuestionsKnown'
  <2> SUFFICES ASSUME NEW g \in Handlers, NEW id \in ids'[g]
               PROVE  /\ id \in DOMAIN askers'
                      /\ askers'[id].pos \in 1 .. Len(handlers')
                      /\ handlers'[askers'[id].pos] = g
    BY DEF QuestionsKnown
  <2>1. handlers' # <<>> /\ g # h /\ (id \in ids[g] \/ id \in Passed(h, at, g))
    BY <1>8, <1>12
  <2>2. CASE id \in Passed(h, at, g)
    BY <1>3, <1>8, <1>11, <2>1, <2>2
  <2>3. CASE id \in ids[g]
    <3>1. id \notin ids[h]
      BY <1>9, <2>1, <2>3
    <3>2. id \notin Lost(h, at) /\ id \notin Kept(h, at)
      BY <3>1 DEF Lost, Kept
    <3>3. /\ id \in DOMAIN askers /\ askers[id].pos \in 1 .. Len(handlers)
          /\ handlers[askers[id].pos] = g
      BY <2>3 DEF IInv, QuestionsKnown
    <3> QED
      BY <1>5, <1>11, <2>1, <3>2, <3>3
  <2> QED
    BY <2>1, <2>2, <2>3
<1>15. ShownIsHeld'
  <2> SUFFICES ASSUME NEW g \in Handlers
               PROVE  /\ (hqueue'[g] \cup activeIds'[g]) \cap DOMAIN askers' \subseteq ids'[g]
                      /\ hqueue'[g] \cap activeIds'[g] = {}
                      /\ g \notin ToSet(handlers') => hqueue'[g] \cup activeIds'[g] = {}
    BY DEF ShownIsHeld
  <2>1. CASE g = h
    BY <1>1, <1>8, <2>1
  <2>2. CASE g # h
    <3>1. DOMAIN askers' \subseteq DOMAIN askers
      BY <1>11 DEF NoAskers
    <3>2. Passed(h, at, g) \cap activeIds[g] = {}
      BY <1>8, <1>9, <2>2
    <3>3. g \notin ToSet(handlers') => g \notin ToSet(handlers) /\ Passed(h, at, g) = {}
      BY <1>6, <1>8, <2>2, HandlerList
    <3>4. /\ ids'[g] = ids[g] \cup Passed(h, at, g)
          /\ hqueue'[g] = hqueue[g] \cup Passed(h, at, g)
          /\ activeIds'[g] = activeIds[g]
      BY <1>1, <1>8, <2>2
    <3>5. /\ (hqueue[g] \cup activeIds[g]) \cap DOMAIN askers \subseteq ids[g]
          /\ hqueue[g] \cap activeIds[g] = {}
          /\ g \notin ToSet(handlers) => hqueue[g] \cup activeIds[g] = {}
      BY DEF IInv, ShownIsHeld
    <3> QED
      BY <3>1, <3>2, <3>3, <3>4, <3>5
  <2> QED
    BY <2>1, <2>2
<1>16. ShownOnce'
  <2> SUFFICES ASSUME NEW f \in Handlers, NEW g \in Handlers, f # g, NEW id,
                      id \in hqueue'[f] \cup activeIds'[f], id \in hqueue'[g] \cup activeIds'[g]
               PROVE  FALSE
    BY DEF ShownOnce
  <2>1. f # h /\ g # h
    BY <1>1, <1>8
  <2>2. /\ id \in hqueue[f] \cup activeIds[f] \/ id \in Passed(h, at, f)
        /\ id \in hqueue[g] \cup activeIds[g] \/ id \in Passed(h, at, g)
    BY <1>1, <1>8, <2>1
  <2>3. ~(id \in hqueue[f] \cup activeIds[f] /\ id \in hqueue[g] \cup activeIds[g])
    BY DEF IInv, ShownOnce
  <2>4. ~(id \in Passed(h, at, f) /\ id \in Passed(h, at, g))
    BY <1>8
  <2> QED
    BY <1>8, <1>9, <2>1, <2>2, <2>3, <2>4
<1>17. NoLostQuestion'
  <2> SUFFICES ASSUME NEW b \in Askers,
                      ~done'[b], ~cancelled'[b], apc'[b] # "asking"
               PROVE  \E g \in Handlers, i \in ItemsOf(b)' :
                        i \in ids'[g] /\ i \in hqueue'[g] \cup activeIds'[g]
    BY Zenon DEF NoLostQuestion
  <2>1. PICK g \in Handlers, i \in ItemsOf(b) :
          i \in ids[g] /\ i \in hqueue[g] \cup activeIds[g]
    BY <1>10 DEF IInv, NoLostQuestion
  <2>2. i \in DOMAIN askers /\ askers[i].a = b /\ i \notin Lost(h, at)
    BY <1>10, <2>1 DEF ItemsOf
  <2>3. PICK f \in Handlers : i \in ids'[f] /\ i \in hqueue'[f] \cup activeIds'[f]
    <3>1. CASE g = h
      <4>1. at < Len(handlers)
        BY <2>1, <2>2, <3>1 DEF Lost
      <4>2. handlers[at + 1] \in Handlers /\ handlers[at + 1] # h
        BY <1>3, <1>4, <4>1, HandlerList
      <4>3. i \in Passed(h, at, handlers[at + 1])
        BY <2>1, <3>1, <4>1 DEF Passed
      <4> QED
        BY <1>8, <4>2, <4>3
    <3>2. CASE g # h
      <4>1. /\ ids'[g] = ids[g] \cup Passed(h, at, g)
            /\ hqueue'[g] = hqueue[g] \cup Passed(h, at, g)
        BY <1>8, <3>2
      <4>2. activeIds'[g] = activeIds[g]
        BY <1>1, <3>2 DEF IInv, TypeOK
      <4>3. i \in ids[g] /\ i \in hqueue[g] \cup activeIds[g]
        BY <2>1
      <4>4. i \in ids'[g] /\ i \in hqueue'[g] \cup activeIds'[g]
        BY <4>1, <4>3, <4>2
      <4>5. QED
        BY <4>4
    <3> QED
      BY <3>1, <3>2
  <2>4. handlers' # <<>>
    BY <1>12, <2>3
  <2>5. i \in ItemsOf(b)'
    BY <1>11, <2>2, <2>4 DEF ItemsOf
  <2> QED
    BY <2>3, <2>5
<1>18. QED
  BY <1>7, <1>13, <1>14, <1>15, <1>16, <1>17 DEF IInv

----------------------------------------------------------------------------
(* The invariant, and what follows from it.                                 *)

LEMMA StepIInv == IInv /\ [Next]_vars => IInv'
<1> SUFFICES ASSUME IInv, [Next]_vars PROVE IInv'
  OBVIOUS
<1>1. ASSUME NEW h \in Handlers, Start(h) \/ Destroy(h) \/ DestroyRemove(h)
      PROVE  IInv'
  BY <1>1, StartStep, DestroyStep, DestroyRemoveStep
<1>2. ASSUME NEW h \in Handlers, NEW id \in Ids,
             Deliver(h, id) \/ Submit(h, id) \/ Reject(h, id) \/ DestroyReject(h, id)
      PROVE  IInv'
  <2>1. CASE Deliver(h, id)
    BY <2>1, DeliverStep
  <2>2. CASE Submit(h, id)
    BY <2>2, SubmitStep
  <2>3. CASE Reject(h, id) \/ DestroyReject(h, id)
    BY <2>3, DeclineStep DEF Reject, DestroyReject
  <2> QED
    BY <1>2, <2>1, <2>2, <2>3
<1>3. ASSUME NEW a \in Askers,
             \/ Ask(a) \/ asker_ask(a) \/ Cancel(a) \/ asker_cancel(a)
             \/ Wait(a) \/ WaitReturn(a) \/ ResponseReady(a)
      PROVE  IInv'
  BY <1>3, AskerThreadStep, asker_askStep, asker_cancelStep
<1>4. CASE UNCHANGED vars
  <2>1. UNCHANGED <<handlers, ids, askers, next_id, hstate, hqueue, activeIds,
                    apc, accepted, done, posted, cancelled>>
    BY <1>4 DEF vars, evVars, hVars, aVars
  <2> QED
    BY <2>1 DEF IInv, TypeOK, RegisteredOnce, QuestionsKnown, ShownIsHeld, ShownOnce,
                NoLostQuestion, ItemsOf
<1>5. QED
  BY <1>1, <1>2, <1>3, <1>4 DEF Next

\* EventGlobal's lists and those of the handlers agree after every locked
\* section, in every reachable state.
THEOREM Invariance == Spec => []IInv
  BY InitIInv, StepIInv, PTL DEF Spec

\* Every reachable state has the types of the data structures.
THEOREM TypeCorrect == Spec => []TypeOK
<1>1. IInv => TypeOK
  BY DEF IInv
<1>2. QED
  BY <1>1, Invariance, PTL

\* The positions kept in the AskerItems follow their handlers through every
\* removal: handler_remove and reject always work on the right handler.
THEOREM PositionsCorrect == Spec => [](RegisteredOnce /\ QuestionsKnown)
<1>1. IInv => RegisteredOnce /\ QuestionsKnown
  BY DEF IInv
<1>2. QED
  BY <1>1, Invariance, PTL

\* The handlers' threads and EventGlobal agree on who has which question, and
\* no question is shown twice.
THEOREM ShownCorrect == Spec => [](ShownIsHeld /\ ShownOnce)
<1>1. IInv => ShownIsHeld /\ ShownOnce
  BY DEF IInv
<1>2. QED
  BY <1>1, Invariance, PTL

\* A pending question is always in some handler's hands, shown or queued.
THEOREM NeverLost == Spec => []NoLostQuestion
<1>1. IInv => NoLostQuestion
  BY DEF IInv
<1>2. QED
  BY <1>1, Invariance, PTL

----------------------------------------------------------------------------
(* A question goes from one handler to the next.                            *)

\* The removal of a handler: its questions go to the one behind it, which gets
\* its index; the questions of the others stay where they are.
LEMMA RemoveOffersNext ==
  ASSUME IInv, NEW h \in Handlers, DestroyRemove(h)
  PROVE  OfferedNext
<1>1. hstate[h] = "closing" /\ handler_remove(h)
  BY DEF DestroyRemove
<1>2. h \in ToSet(handlers)
  BY <1>1, HandlerList
<1>3. PICK at \in 1 .. Len(handlers) :
        /\ handlers[at] = h
        /\ \A id \in ids[h] : id \in DOMAIN askers /\ askers[id].pos = at
        /\ RemovedFrom(h, at)
  BY <1>1, <1>2, RemoveEffect
<1>4. /\ Len(handlers) \in Nat
      /\ Len(handlers') = Len(handlers) - 1
      /\ \A j \in 1 .. Len(handlers) - 1 :
           handlers'[j] = IF j < at THEN handlers[j] ELSE handlers[j + 1]
  BY <1>3, HandlerList, RemoveAtShifts DEF RemovedFrom, IInv, TypeOK
<1> SUFFICES ASSUME NEW id \in DOMAIN askers, NEW m \in 1 .. Len(handlers),
                    m = askers[id].pos, id \in ids[handlers[m]]
             PROVE  IF id \in DOMAIN askers'
                      THEN \/ handlers'[askers'[id].pos] = handlers[m]
                           \/ handlers'[askers'[id].pos] = handlers[m + 1]
                      ELSE m = Len(handlers) \/ apc[askers[id].a] = "cancelling"
  BY DEF OfferedNext
<1>5. id \in ids[h] <=> m = at
  BY <1>3
<1>6. CASE handlers' = <<>>
  <2>1. Len(handlers) = 1
    BY <1>4, <1>6
  <2>2. DOMAIN askers' = {}
    BY <1>3, <1>6 DEF RemovedFrom, NoAskers
  <2>3. QED
    BY <1>4, <2>1, <2>2
<1>7. CASE handlers' # <<>>
  <2>1. /\ DOMAIN askers' = DOMAIN askers \ Lost(h, at)
        /\ id \notin Lost(h, at) =>
             askers'[id].pos = IF id \in Kept(h, at) THEN at ELSE MovedUp(at, askers[id].pos)
    BY <1>3, <1>7 DEF RemovedFrom
  <2>2. CASE m = at /\ at < Len(handlers)
    <3>1. id \notin Lost(h, at) /\ id \in Kept(h, at)
      BY <1>5, <2>2 DEF Lost, Kept
    <3>2. handlers'[at] = handlers[m + 1]
      BY <1>4, <2>2
    <3>3. QED
      BY <2>1, <3>1, <3>2
  <2>3. CASE m = at /\ ~(at < Len(handlers))
    <3>1. id \in Lost(h, at) /\ m = Len(handlers)
      BY <1>4, <1>5, <2>3 DEF Lost
    <3>2. QED
      BY <2>1, <3>1
  <2>4. CASE m # at
    <3>1. id \notin Lost(h, at) /\ id \notin Kept(h, at)
      BY <1>5, <2>4 DEF Lost, Kept
    <3>2. id \in DOMAIN askers' /\ askers'[id].pos = MovedUp(at, m)
      BY <2>1, <3>1
    <3>3. handlers'[MovedUp(at, m)] = handlers[m]
      <4>1. CASE m > at
        BY <1>4, <4>1 DEF MovedUp
      <4>2. CASE m < at
        BY <1>4, <4>2 DEF MovedUp
      <4>3. QED
        BY <2>4, <1>4, <4>1, <4>2
    <3>4. QED
      BY <3>2, <3>3
  <2>5. QED
    BY <2>2, <2>3, <2>4
<1>8. QED
  BY <1>6, <1>7

\* handler_reject: on to the next handler, or, behind the last, back to its asker.
LEMMA RejectOffersNext ==
  ASSUME IInv, NEW h \in Handlers, NEW rejected, handler_reject(h, rejected)
  PROVE  handlers' = handlers /\ OfferedNext
<1> USE DEF OfferedNext
<1>1. handlers' = handlers
  BY DEF handler_reject, evVars
<1>2. CASE UNCHANGED askers
  BY <1>1, <1>2
<1>3. CASE /\ rejected \in DOMAIN askers
           /\ askers' = [askers EXCEPT ![rejected].pos = askers[rejected].pos + 1]
  BY <1>1, <1>3 DEF IInv, TypeOK, AskerItem
<1>4. CASE /\ rejected \in DOMAIN askers
           /\ askers[rejected].pos >= Len(handlers)
           /\ askers' = [i \in DOMAIN askers \ {rejected} |-> askers[i]]
  BY <1>1, <1>4, HandlerList
<1>5. QED
  BY <1>1, <1>2, <1>3, <1>4 DEF handler_reject, evVars

\* Every step of Next.
LEMMA StepOffersNext == IInv /\ [Next]_vars => [OfferedNext]_vars
<1> SUFFICES ASSUME IInv, Next PROVE OfferedNext
  OBVIOUS
<1>1. CASE handlers' = handlers /\ askers' = askers
  BY <1>1 DEF OfferedNext
<1>2. ASSUME NEW h \in Handlers, Start(h)
      PROVE  OfferedNext
  <2>1. handlers' = Append(handlers, h) /\ askers' = askers
    BY <1>2 DEF Start, handler_add
  <2>2. \A m \in 1 .. Len(handlers) : handlers'[m] = handlers[m]
    BY <2>1, AppendProperties DEF IInv, TypeOK
  <2>3. QED
    BY <2>1, <2>2 DEF OfferedNext
<1>3. ASSUME NEW h \in Handlers, Destroy(h)
      PROVE  handlers' = handlers /\ askers' = askers
  BY <1>3 DEF Destroy, evVars
<1>4. ASSUME NEW h \in Handlers, NEW id, Deliver(h, id) \/ Submit(h, id)
      PROVE  handlers' = handlers /\ askers' = askers
  BY <1>4 DEF Deliver, Submit, handler_accept, evVars
<1>5. ASSUME NEW h \in Handlers, NEW id, Reject(h, id) \/ DestroyReject(h, id)
      PROVE  OfferedNext
  BY <1>5, RejectOffersNext DEF Reject, DestroyReject
<1>6. ASSUME NEW a \in Askers, asker_ask(a)
      PROVE  OfferedNext
  <2>1. /\ handlers' = handlers
        /\ \A id \in DOMAIN askers : id \in DOMAIN askers' /\ askers'[id] = askers[id]
    BY <1>6 DEF asker_ask, evVars, IInv, TypeOK
  <2>2. QED
    BY <2>1 DEF OfferedNext
<1>7. ASSUME NEW a \in Askers, asker_cancel(a)
      PROVE  OfferedNext
  <2>1. CASE UNCHANGED evVars
    BY <1>1, <2>1 DEF evVars
  <2>2. CASE \E id \in FirstItem(a) :
               /\ askers' = [i \in DOMAIN askers \ {id} |-> askers[i]]
               /\ handlers' = handlers
    BY <1>7, <2>2 DEF OfferedNext, asker_cancel, FirstItem, ItemsOf
  <2>3. QED
    BY <1>7, <2>1, <2>2 DEF asker_cancel
<1>8. ASSUME NEW a \in Askers,
             Ask(a) \/ Cancel(a) \/ Wait(a) \/ WaitReturn(a) \/ ResponseReady(a)
      PROVE  handlers' = handlers /\ askers' = askers
  BY <1>8 DEF Ask, Cancel, Wait, WaitReturn, ResponseReady, evVars
<1>9. QED
  BY <1>1, <1>2, <1>3, <1>4, <1>5, <1>6, <1>7, <1>8, RemoveOffersNext DEF Next

\* A question moves only to the handler registered next behind the one that
\* declined it, and is dropped only by the last one or by cancel(), whatever
\* handlers are removed and whatever positions have shifted.
THEOREM OffersInOrder == Spec => OfferedInOrder
<1>1. QED
  BY StepOffersNext, Invariance, PTL DEF Spec, OfferedInOrder

----------------------------------------------------------------------------
(* An asker that is not cancelled has one question at a time.               *)

\* The questions of an asker that some handler has.
Held(a) == {id \in ItemsOf(a) : \E h \in Handlers : id \in ids[h]}

OneQuestionOf(a) ==
  /\ ~cancelled[a]
  /\ apc[a] # "cancelling"
  /\ apc[a] = "asking" => ~done[a]
  /\ done[a] \/ apc[a] = "asking" => Held(a) = {}
  /\ \A i, j \in Held(a) : i = j

OneQuestion == \A a \in Askers \ Cancellers : OneQuestionOf(a)

\* What a question is known as: an id that a handler has, and whose it is.
LEMMA HeldIs ==
  ASSUME IInv, NEW a, NEW id
  PROVE  /\ id \in Held(a) <=> id \in DOMAIN askers /\ askers[id].a = a
                                /\ \E h \in Handlers : id \in ids[h]
         /\ \A g, h \in Handlers : id \in ids[g] /\ id \in ids[h] => g = h
<1>1. id \in Held(a) <=> id \in DOMAIN askers /\ askers[id].a = a
                          /\ \E h \in Handlers : id \in ids[h]
  BY DEF Held, ItemsOf
<1>2. \A g, h \in Handlers : id \in ids[g] /\ id \in ids[h] => g = h
  BY DEF IInv, QuestionsKnown
<1>3. QED
  BY <1>1, <1>2

\* A step after which handlers have no other questions, and in which the askers
\* that are done now have lost theirs.
LEMMA HeldShrinks ==
  ASSUME NEW a \in Askers, OneQuestionOf(a), Held(a)' \subseteq Held(a),
         cancelled'[a] = cancelled[a],
         apc'[a] # "cancelling",
         apc'[a] = "asking" <=> apc[a] = "asking",
         apc[a] = "asking" => (done'[a] <=> done[a]),
         done'[a] => done[a] \/ Held(a)' = {}
  PROVE  OneQuestionOf(a)'
  BY DEF OneQuestionOf

\* The answers to the questions of Respond: no one else is concerned.
LEMMA RespondOnly ==
  ASSUME NEW answers, NEW a \in Askers, Respond(answers), answers[a] \in Nat, posted[a] \in Nat
  PROVE  /\ done'[a] <=> done[a] \/ answers[a] > 0
         /\ apc'[a] \in {apc[a], "woken"} /\ (apc'[a] = "asking" <=> apc[a] = "asking")
         /\ answers[a] = 0 => posted'[a] = posted[a]
<1>1. done'[a] <=> done[a] \/ answers[a] > 0
  BY Zenon DEF Respond
<1>2. apc'[a] \in {apc[a], "woken"} /\ (apc'[a] = "asking" <=> apc[a] = "asking")
  BY DEF Respond
<1>3. answers[a] = 0 => posted'[a] = posted[a]
  BY DEF Respond
<1>4. QED
  BY <1>1, <1>2, <1>3

\* set_accepted() and set_rejected(): b alone is done.
LEMMA AnswerOnly ==
  ASSUME TypeOK, NEW b \in Askers, NEW a \in Askers, set_accepted(b) \/ set_rejected(b)
  PROVE  /\ done'[a] <=> done[a] \/ a = b
         /\ apc'[a] \in {apc[a], "woken"} /\ (apc'[a] = "asking" <=> apc[a] = "asking")
         /\ cancelled'[a] = cancelled[a]
         /\ a # b => posted'[a] = posted[a] /\ accepted'[a] = accepted[a]
<1> DEFINE answers == [c \in Askers |-> IF c = b THEN 1 ELSE 0]
<1>1. Respond(answers) /\ cancelled' = cancelled
  BY DEF set_accepted, set_rejected
<1>2. answers[a] \in Nat /\ (answers[a] > 0 <=> a = b) /\ (a # b => answers[a] = 0)
  OBVIOUS
<1>3. posted[a] \in Nat
  BY DEF TypeOK
<1>4. a # b => accepted'[a] = accepted[a]
  BY DEF set_accepted, set_rejected, TypeOK
<1> HIDE DEF answers
<1>5. QED
  BY <1>1, <1>2, <1>3, <1>4, RespondOnly

\* What is true of a after a step and of its answer.
Stands(a) ==
  /\ OneQuestionOf(a)'
  /\ done[a] /\ done'[a] => accepted'[a] = accepted[a] /\ posted'[a] <= posted[a]

LEMMA SameStands ==
  ASSUME NEW a \in Askers, OneQuestionOf(a), posted[a] \in Nat, UNCHANGED <<evVars, aVars>>
  PROVE  Stands(a)
<1>1. Held(a)' = Held(a)
  BY DEF evVars, Held, ItemsOf
<1>2. OneQuestionOf(a)'
  BY <1>1, HeldShrinks DEF aVars, OneQuestionOf
<1>3. QED
  BY <1>2 DEF aVars, Stands

\* Submit: the question that is answered was the only one.
LEMMA SubmitStands ==
  ASSUME IInv, NEW a \in Askers, OneQuestionOf(a),
         NEW h \in Handlers, NEW id, Submit(h, id)
  PROVE  Stands(a)
<1>1. id \in activeIds[h] /\ UNCHANGED <<handlers, askers>> /\ posted[a] \in Nat
  BY DEF Submit, handler_accept, evVars, IInv, TypeOK
<1>2. CASE id \notin DOMAIN askers
  <2>1. UNCHANGED <<evVars, aVars>>
    BY <1>2 DEF Submit, handler_accept
  <2>2. QED
    BY <1>1, <2>1, SameStands
<1>3. CASE id \in DOMAIN askers
  <2>1. /\ ids' = [ids EXCEPT ![h] = @ \ {id}]
        /\ set_accepted(askers[id].a)
    BY <1>3 DEF Submit, handler_accept
  <2>2. id \in ids[h]
    BY <1>1, <1>3 DEF IInv, ShownIsHeld
  <2>3. askers[id].a \in Askers
    BY <1>3 DEF IInv, TypeOK, AskerItem
  <2>4. Held(a)' \subseteq Held(a) /\ id \notin Held(a)'
    <3>1. \A g \in Handlers : ids'[g] \subseteq ids[g] /\ id \notin ids'[g]
      BY <2>1, <2>2, HeldIs DEF IInv, TypeOK
    <3>2. QED
      BY <1>1, <3>1 DEF Held, ItemsOf
  <2>5. a = askers[id].a => Held(a) = {id}
    BY <1>3, <2>2, HeldIs DEF OneQuestionOf
  <2>6. /\ done'[a] <=> done[a] \/ a = askers[id].a
        /\ apc'[a] \in {apc[a], "woken"} /\ (apc'[a] = "asking" <=> apc[a] = "asking")
        /\ cancelled'[a] = cancelled[a]
        /\ a # askers[id].a => posted'[a] = posted[a] /\ accepted'[a] = accepted[a]
    BY <2>1, <2>3, AnswerOnly DEF IInv
  <2>7. OneQuestionOf(a)'
    <3>1. apc'[a] # "cancelling" /\ (apc[a] = "asking" => (done'[a] <=> done[a]))
      BY <2>5, <2>6 DEF OneQuestionOf
    <3>2. done'[a] => done[a] \/ Held(a)' = {}
      BY <2>4, <2>5, <2>6
    <3>3. QED
      BY <2>4, <2>6, <3>1, <3>2, HeldShrinks
  <2>8. done[a] => a # askers[id].a
    BY <2>5 DEF OneQuestionOf
  <2>9. QED
    BY <1>1, <2>6, <2>7, <2>8 DEF Stands
<1>4. QED
  BY <1>2, <1>3

\* handler_reject: the question goes on, or was the only one of an asker that
\* gets it back.
LEMMA RejectStands ==
  ASSUME IInv, NEW a \in Askers, OneQuestionOf(a),
         NEW h \in Handlers, NEW id \in activeIds[h], handler_reject(h, id)
  PROVE  Stands(a)
<1>1. posted[a] \in Nat /\ (id \in DOMAIN askers => id \in ids[h])
  BY DEF IInv, TypeOK, ShownIsHeld
<1>2. CASE UNCHANGED <<evVars, aVars>>
  BY <1>1, <1>2, SameStands
<1>3. CASE /\ id \in DOMAIN askers
           /\ askers[id].pos < Len(handlers)
           /\ LET next == askers[id].pos + 1
              IN  /\ askers' = [askers EXCEPT ![id].pos = next]
                  /\ ids' = [g \in Handlers |->
                               (ids[g] \ (IF g = h THEN {id} ELSE {}))
                                 \cup (IF g = handlers[next] THEN {id} ELSE {})]
           /\ UNCHANGED aVars
  <2>1. /\ DOMAIN askers' = DOMAIN askers
        /\ \A i \in DOMAIN askers : askers'[i].a = askers[i].a
    BY <1>3 DEF IInv, TypeOK, AskerItem
  <2>2. \A g \in Handlers : ids'[g] \subseteq ids[g] \cup {id}
    BY <1>3
  <2>3. Held(a)' \subseteq Held(a)
    BY <1>1, <1>3, <2>1, <2>2 DEF Held, ItemsOf
  <2>4. OneQuestionOf(a)'
    BY <1>3, <2>3, HeldShrinks DEF aVars, OneQuestionOf
  <2>5. QED
    BY <1>1, <1>3, <2>4 DEF aVars, Stands
<1>4. CASE /\ id \in DOMAIN askers
           /\ ids' = [ids EXCEPT ![h] = @ \ {id}]
           /\ askers' = [i \in DOMAIN askers \ {id} |-> askers[i]]
           /\ set_rejected(askers[id].a)
  <2>1. askers[id].a \in Askers
    BY <1>4 DEF IInv, TypeOK, AskerItem
  <2>2. Held(a)' \subseteq Held(a) \ {id}
    <3>1. \A g \in Handlers : ids'[g] \subseteq ids[g]
      BY <1>4 DEF IInv, TypeOK
    <3>2. QED
      BY <1>4, <3>1 DEF Held, ItemsOf
  <2>3. a = askers[id].a => Held(a) = {id}
    BY <1>1, <1>4, HeldIs DEF OneQuestionOf
  <2>4. /\ done'[a] <=> done[a] \/ a = askers[id].a
        /\ apc'[a] \in {apc[a], "woken"} /\ (apc'[a] = "asking" <=> apc[a] = "asking")
        /\ cancelled'[a] = cancelled[a]
        /\ a # askers[id].a => posted'[a] = posted[a] /\ accepted'[a] = accepted[a]
    BY <1>4, <2>1, AnswerOnly DEF IInv
  <2>5. OneQuestionOf(a)'
    <3>1. apc'[a] # "cancelling" /\ (apc[a] = "asking" => (done'[a] <=> done[a]))
      BY <2>3, <2>4 DEF OneQuestionOf
    <3>2. done'[a] => done[a] \/ Held(a)' = {}
      BY <2>2, <2>3, <2>4
    <3>3. QED
      BY <2>2, <2>4, <3>1, <3>2, HeldShrinks
  <2>6. done[a] => a # askers[id].a
    BY <2>3 DEF OneQuestionOf
  <2>7. QED
    BY <1>1, <2>4, <2>5, <2>6 DEF Stands
<1>5. QED
  BY <1>2, <1>3, <1>4, Zenon DEF handler_reject

\* handler_remove: the same for all the questions of the handler.
LEMMA RemoveStands ==
  ASSUME IInv, NEW a \in Askers, OneQuestionOf(a),
         NEW h \in Handlers, DestroyRemove(h)
  PROVE  Stands(a)
<1>1. PICK at \in 1 .. Len(handlers) : RemovedFrom(h, at)
  BY HandlerList, RemoveEffect DEF DestroyRemove
<1>2. posted[a] \in Nat /\ UNCHANGED <<accepted, cancelled>>
  BY <1>1 DEF IInv, TypeOK, RemovedFrom
<1>3. \A g \in Handlers : ids'[g] \subseteq ids[g] \cup ids[h]
  BY <1>1 DEF RemovedFrom, Passed
<1>4. \A i \in DOMAIN askers' :
        i \in DOMAIN askers \ Lost(h, at) /\ askers'[i].a = askers[i].a
  BY <1>1 DEF RemovedFrom, NoAskers
<1>5. Held(a)' \subseteq Held(a) \ LostBy(h, at, a)
  BY <1>3, <1>4 DEF Held, ItemsOf, LostBy
<1>6. LostBy(h, at, a) \subseteq Held(a)
  BY DEF LostBy, Lost, Held, ItemsOf, IInv, QuestionsKnown
<1>7. IsFiniteSet(LostBy(h, at, a))
  <2>1. CASE LostBy(h, at, a) = {}
    BY <2>1, FS_EmptySet
  <2>2. CASE LostBy(h, at, a) # {}
    <3>1. PICK i \in LostBy(h, at, a) : LostBy(h, at, a) = {i}
      BY <1>6, <2>2 DEF OneQuestionOf
    <3>2. QED
      BY <3>1, FS_Singleton
  <2>3. QED
    BY <2>1, <2>2
<1>8. /\ Answers(h, at, a) \in Nat
      /\ Answers(h, at, a) = 0 <=> LostBy(h, at, a) = {}
  BY <1>7, FS_EmptySet, FS_CardinalityType DEF Answers
<1>9. /\ done'[a] <=> done[a] \/ Answers(h, at, a) > 0
      /\ apc'[a] \in {apc[a], "woken"} /\ (apc'[a] = "asking" <=> apc[a] = "asking")
      /\ Answers(h, at, a) = 0 => posted'[a] = posted[a]
  <2> DEFINE answers == [b \in Askers |-> Answers(h, at, b)]
  <2>1. Respond(answers) /\ answers[a] = Answers(h, at, a)
    BY <1>1 DEF RemovedFrom
  <2> HIDE DEF answers
  <2>2. QED
    BY <1>2, <1>8, <2>1, RespondOnly
<1>10. Answers(h, at, a) > 0 => Held(a)' = {} /\ Held(a) # {}
  BY <1>5, <1>6, <1>8 DEF OneQuestionOf
<1>11. OneQuestionOf(a)'
  <2>1. apc'[a] # "cancelling" /\ (apc[a] = "asking" => (done'[a] <=> done[a]))
    BY <1>9, <1>10 DEF OneQuestionOf
  <2>2. QED
    BY <1>2, <1>5, <1>9, <1>10, <2>1, HeldShrinks
<1>12. done[a] => Answers(h, at, a) = 0
  BY <1>8, <1>10 DEF OneQuestionOf
<1>13. QED
  BY <1>2, <1>9, <1>11, <1>12 DEF Stands

\* Start, Destroy, Deliver: no question and no asker changes.
LEMMA HandlerStands ==
  ASSUME IInv, NEW a \in Askers, OneQuestionOf(a),
         NEW h \in Handlers, NEW id, Start(h) \/ Destroy(h) \/ Deliver(h, id)
  PROVE  Stands(a)
<1>1. /\ UNCHANGED <<askers, ids, aVars>>
      /\ posted[a] \in Nat
  BY DEF Start, handler_add, Destroy, Deliver, evVars, IInv, TypeOK
<1>2. Held(a)' = Held(a)
  BY <1>1 DEF Held, ItemsOf
<1>3. OneQuestionOf(a)'
  BY <1>1, <1>2, HeldShrinks DEF aVars, OneQuestionOf
<1>4. QED
  BY <1>1, <1>3 DEF aVars, Stands

\* The thread of an asker b that may be a itself.
LEMMA AskerStands ==
  ASSUME IInv, NEW a \in Askers \ Cancellers, OneQuestionOf(a), NEW b \in Askers,
         Ask(b) \/ Cancel(b) \/ Wait(b) \/ WaitReturn(b) \/ ResponseReady(b)
  PROVE  Stands(a)
<1>1. Held(a)' = Held(a)
  BY DEF Ask, Cancel, Wait, WaitReturn, ResponseReady, evVars, Held, ItemsOf
<1>2. OneQuestionOf(a)'
  BY <1>1 DEF Ask, Cancel, Wait, WaitReturn, ResponseReady, OneQuestionOf, IInv, TypeOK
<1>3. done[a] /\ done'[a] => accepted'[a] = accepted[a] /\ posted'[a] <= posted[a]
  <2>1. CASE Ask(b)
    <3>1. /\ done' = [done EXCEPT ![b] = FALSE] /\ done \in [Askers -> BOOLEAN]
          /\ accepted' = [accepted EXCEPT ![b] = FALSE] /\ posted' = posted
          /\ accepted \in [Askers -> BOOLEAN] /\ posted[a] \in Nat
      BY <2>1 DEF Ask, IInv, TypeOK
    <3>2. done'[a] => a # b
      BY <3>1
    <3>3. a # b => accepted'[a] = accepted[a] /\ posted'[a] <= posted[a]
      BY <3>1
    <3>4. QED
      BY <3>2, <3>3, Zenon
  <2>2. CASE Cancel(b) \/ Wait(b) \/ WaitReturn(b)
    BY <2>2 DEF Cancel, Wait, WaitReturn, IInv, TypeOK
  <2>3. CASE ResponseReady(b)
    BY <2>3 DEF ResponseReady, IInv, TypeOK
  <2>4. QED
    BY <2>1, <2>2, <2>3
<1>4. QED
  BY <1>2, <1>3 DEF Stands

LEMMA asker_askStands ==
  ASSUME IInv, NEW a \in Askers, OneQuestionOf(a), NEW b \in Askers, asker_ask(b)
  PROVE  Stands(a)
<1>1. apc[b] = "asking" /\ apc' = [apc EXCEPT ![b] = "idle"] /\ UNCHANGED <<accepted, cancelled>>
  BY DEF asker_ask
<1>2. CASE /\ done' = [done EXCEPT ![b] = TRUE]
           /\ posted' = [posted EXCEPT ![b] = @ + 1]
           /\ UNCHANGED evVars
  <2>1. Held(a)' = Held(a)
    BY <1>2 DEF evVars, Held, ItemsOf
  <2>2. QED
    BY <1>1, <1>2, <2>1 DEF Stands, OneQuestionOf, IInv, TypeOK
<1>3. CASE /\ askers' = [id \in DOMAIN askers \cup {next_id} |->
                           IF id = next_id THEN [a |-> b, pos |-> 1] ELSE askers[id]]
           /\ ids' = [ids EXCEPT ![handlers[1]] = @ \cup {next_id}]
           /\ UNCHANGED <<done, posted>>
  <2>1. next_id \notin DOMAIN askers
    BY DEF IInv, TypeOK
  <2>2. Held(a)' \subseteq Held(a) \cup (IF a = b THEN {next_id} ELSE {})
    BY <1>3, <2>1 DEF Held, ItemsOf, IInv, TypeOK
  <2>3. OneQuestionOf(a)'
    <3>1. CASE a # b
      BY <1>1, <1>3, <2>2, <3>1, HeldShrinks DEF OneQuestionOf, IInv, TypeOK
    <3>2. CASE a = b
      BY <1>1, <1>3, <2>2, <3>2 DEF OneQuestionOf, IInv, TypeOK
    <3>3. QED
      BY <3>1, <3>2
  <2>4. QED
    BY <1>1, <1>3, <2>3 DEF Stands, IInv, TypeOK
<1>4. QED
  BY <1>2, <1>3 DEF asker_ask, OfferTo

LEMMA asker_cancelStands ==
  ASSUME IInv, NEW a \in Askers \ Cancellers, OneQuestionOf(a), NEW b \in Askers, asker_cancel(b)
  PROVE  Stands(a)
<1>1. a # b
  BY DEF asker_cancel, OneQuestionOf
<1>2. /\ apc'[a] = apc[a] /\ cancelled'[a] = cancelled[a]
      /\ UNCHANGED <<accepted, done, posted>>
  BY <1>1 DEF asker_cancel, IInv, TypeOK
<1>3. Held(a)' \subseteq Held(a)
  <2>1. \A h \in Handlers : ids'[h] \subseteq ids[h]
    BY DEF asker_cancel, evVars
  <2>2. \A i \in DOMAIN askers' : i \in DOMAIN askers /\ askers'[i] = askers[i]
    BY DEF asker_cancel, evVars
  <2>3. QED
    BY <2>1, <2>2 DEF Held, ItemsOf
<1>4. QED
  BY <1>2, <1>3, HeldShrinks DEF Stands, OneQuestionOf, IInv, TypeOK

LEMMA StepStands ==
  ASSUME IInv, OneQuestion, [Next]_vars
  PROVE  OneQuestion' /\ [AnswerStands]_vars
<1> SUFFICES ASSUME NEW a \in Askers \ Cancellers
             PROVE  Stands(a)
  BY DEF OneQuestion, AnswerStands, Stands
<1>1. OneQuestionOf(a)
  BY DEF OneQuestion
<1>2. ASSUME NEW h \in Handlers, NEW id,
             \/ Start(h) \/ Destroy(h) \/ DestroyRemove(h) \/ Deliver(h, id)
             \/ Submit(h, id) \/ Reject(h, id) \/ DestroyReject(h, id)
      PROVE  Stands(a)
  BY <1>1, <1>2, HandlerStands, RemoveStands, SubmitStands, RejectStands
     DEF Reject, DestroyReject
<1>3. ASSUME NEW b \in Askers,
             \/ Ask(b) \/ asker_ask(b) \/ Cancel(b) \/ asker_cancel(b)
             \/ Wait(b) \/ WaitReturn(b) \/ ResponseReady(b)
      PROVE  Stands(a)
  BY <1>1, <1>3, AskerStands, asker_askStands, asker_cancelStands
<1>4. CASE UNCHANGED vars
  BY <1>1, <1>4, SameStands DEF vars, IInv, TypeOK
<1>5. QED
  BY <1>2, <1>3, <1>4 DEF Next

\* An answer stands: what an asker has been answered does not change, and is not
\* told a second time, until it asks again, whatever handlers answer, decline or
\* go meanwhile.
THEOREM AnswersStand == Spec => CompletedOnce
<1>1. Init => OneQuestion
  BY DEF Init, OneQuestion, OneQuestionOf, Held, ItemsOf, NoAskers
<1>2. QED
  BY <1>1, StepStands, Invariance, PTL DEF Spec, CompletedOnce

----------------------------------------------------------------------------
(* KeyGenerator, as a part of MCEventSystem.                                *)

\* The constants of KeyGenerator and KeyLoader: contexts are not the null pointer, and
\* there is some provider.
KeysAssumption ==
  /\ KG!None \notin Contexts /\ MaxNumber \in Nat \ {0} /\ Careful = TRUE
  /\ Providers \in Seq({"ossl", "exact", "none"}) /\ Providers # <<>>

Results == KG!Numbers \cup {0}

GeneratorTypes ==
  /\ gen \in [blocking : BOOLEAN, wasBlocking : BOOLEAN, k : Contexts \cup {KG!None},
              dc : Contexts \cup {KG!None}, key : Results, group : Results]
  /\ ctx \in [Contexts -> [kind : {"free", "key", "group", "leaked"},
                           at : {KG!None, "running", "made", "failed"}, number : Results]]
  /\ number \in KG!Numbers
  /\ ended \in [number : Results, shown : Results, due : BOOLEAN, told : BOOLEAN]

\* While a thread makes something, the generator knows that it began as not blocking.
GeneratorIInv ==
  /\ GeneratorTypes /\ KG!Held /\ KG!EndedRight
  /\ gen.k # KG!None \/ gen.dc # KG!None => ~gen.wasBlocking

LEMMA GeneratorInit ==
  ASSUME KeysAssumption, KG!Init
  PROVE  GeneratorIInv
<1>1. KG!None \notin Contexts /\ 1 \in KG!Numbers /\ 0 \in Results
  BY DEF KeysAssumption, KG!Numbers, Results
<1>2. GeneratorTypes
  BY <1>1 DEF KG!Init, KG!Fresh, KG!NoContext, KG!NoEnd, KG!Nothing, GeneratorTypes, Results
<1>3. KG!Held
  BY <1>1 DEF KG!Init, KG!Fresh, KG!NoContext, KG!Held
<1>4. KG!EndedRight
  BY DEF KG!Init, KG!NoEnd, KG!Nothing, KG!EndedRight
<1>5. QED
  BY <1>2, <1>3, <1>4 DEF GeneratorIInv, KG!Init, KG!Fresh

LEMMA StartsStep ==
  ASSUME KeysAssumption, GeneratorIInv, KG!createKey \/ KG!createDLGroup
  PROVE  /\ number \in Results /\ 0 \in Results /\ number' \in KG!Numbers
         /\ crashed' = crashed /\ gen.k = KG!None
<1>1. /\ MaxNumber \in Nat \ {0} /\ number \in 1 .. MaxNumber
  BY DEF KeysAssumption, GeneratorIInv, GeneratorTypes, KG!Numbers
<1>2. number' = (number % MaxNumber) + 1 /\ crashed' = crashed /\ gen.k = KG!None
  BY DEF KG!createKey, KG!createDLGroup, KG!Starts
<1>3. number' \in 1 .. MaxNumber
  BY <1>1, <1>2
<1>4. QED
  BY <1>1, <1>2, <1>3 DEF Results, KG!Numbers

LEMMA InPlaceStep ==
  ASSUME KeysAssumption, GeneratorIInv, KG!createKey \/ KG!createDLGroup, gen.blocking
  PROVE  GeneratorIInv'
<1>1. /\ number \in Results /\ 0 \in Results /\ number' \in KG!Numbers
      /\ crashed' = crashed /\ gen.k = KG!None
  BY StartsStep
<1>2. gen.dc = KG!None
  BY DEF KeysAssumption, KG!createKey, KG!createDLGroup
<1>3. PICK result \in {number, 0} :
        /\ \/ gen' = [gen EXCEPT !.key = result, !.wasBlocking = TRUE]
           \/ gen' = [gen EXCEPT !.group = result, !.wasBlocking = TRUE]
        /\ ended' = [number |-> number, shown |-> result, due |-> FALSE, told |-> FALSE]
        /\ ctx' = ctx
  <2>1. gen \in [blocking : BOOLEAN, wasBlocking : BOOLEAN, k : Contexts \cup {KG!None},
                 dc : Contexts \cup {KG!None}, key : Results, group : Results]
    BY DEF GeneratorIInv, GeneratorTypes
  <2>2. CASE KG!createKey
    <3>1. PICK result \in {number, 0} :
            /\ gen' = [[gen EXCEPT !.key = 0, !.wasBlocking = gen.blocking] EXCEPT !.key = result]
            /\ ended' = [number |-> number, shown |-> result, due |-> FALSE, told |-> FALSE]
            /\ ctx' = ctx
      BY <2>2 DEF KG!createKey, KG!InPlace, KG!Nothing
    <3>2. gen' = [gen EXCEPT !.key = result, !.wasBlocking = TRUE]
      BY <2>1, <3>1
    <3>3. QED
      BY <3>1, <3>2
  <2>3. CASE KG!createDLGroup
    <3>1. PICK result \in {number, 0} :
            /\ gen' = [[gen EXCEPT !.group = 0, !.wasBlocking = gen.blocking]
                         EXCEPT !.group = result, !.dc = KG!None]
            /\ ended' = [number |-> number, shown |-> result, due |-> FALSE, told |-> FALSE]
            /\ ctx' = ctx
      BY <2>3 DEF KG!createDLGroup, KG!InPlace, KG!Nothing
    <3>2. gen' = [gen EXCEPT !.group = result, !.wasBlocking = TRUE]
      BY <1>2, <2>1, <3>1
    <3>3. QED
      BY <3>1, <3>2
  <2>4. QED
    BY <2>2, <2>3
<1>4. GeneratorTypes'
  <2>1. GeneratorTypes /\ result \in Results
    BY <1>1 DEF GeneratorIInv
  <2>2. gen' \in [blocking : BOOLEAN, wasBlocking : BOOLEAN, k : Contexts \cup {KG!None},
                  dc : Contexts \cup {KG!None}, key : Results, group : Results]
    BY <1>3, <2>1 DEF GeneratorTypes
  <2>3. ended' \in [number : Results, shown : Results, due : BOOLEAN, told : BOOLEAN]
    BY <1>1, <1>3, <2>1
  <2>4. QED
    BY <1>1, <1>3, <2>1, <2>2, <2>3 DEF GeneratorTypes
<1>5. gen'.k = gen.k /\ gen'.dc = gen.dc
  BY <1>3 DEF GeneratorIInv, GeneratorTypes
<1>6. KG!Held'
  BY <1>1, <1>3, <1>5 DEF GeneratorIInv, KG!Held
<1>7. KG!EndedRight'
  BY <1>3 DEF KG!EndedRight, KG!Nothing
<1>8. QED
  BY <1>1, <1>2, <1>4, <1>5, <1>6, <1>7 DEF GeneratorIInv

LEMMA ThreadStep ==
  ASSUME KeysAssumption, GeneratorIInv, KG!createKey \/ KG!createDLGroup, ~gen.blocking
  PROVE  GeneratorIInv'
<1>1. /\ number \in Results /\ 0 \in Results /\ number' \in KG!Numbers
      /\ crashed' = crashed /\ gen.k = KG!None /\ ended' = ended /\ gen.blocking = FALSE
  <2>1. gen.blocking = FALSE
    BY DEF GeneratorIInv, GeneratorTypes
  <2>2. ended' = ended
    BY <2>1 DEF KG!createKey, KG!createDLGroup, KG!Thread
  <2>3. QED
    BY <2>1, <2>2, StartsStep
<1>2. /\ gen \in [blocking : BOOLEAN, wasBlocking : BOOLEAN, k : Contexts \cup {KG!None},
                 dc : Contexts \cup {KG!None}, key : Results, group : Results]
      /\ KG!Held /\ KG!EndedRight /\ KG!None \notin Contexts
  BY DEF GeneratorIInv, GeneratorTypes, KeysAssumption
<1>3. CASE KG!createKey
  <2>1. PICK c \in Contexts :
          /\ ctx[c].kind = "free"
          /\ gen' = [[gen EXCEPT !.key = 0, !.wasBlocking = FALSE] EXCEPT !.k = c]
          /\ ctx' = [ctx EXCEPT ![c] = [kind |-> "key", at |-> "running", number |-> number]]
    BY <1>1, <1>3 DEF KG!createKey, KG!Thread, KG!Free, KG!Nothing
  <2>2. GeneratorTypes'
    BY <1>1, <1>2, <2>1 DEF GeneratorIInv, GeneratorTypes
  <2>3. gen'.k = c /\ gen'.dc = gen.dc /\ gen'.wasBlocking = FALSE
    BY <1>2, <2>1
  <2>4. KG!Held'
    BY <1>1, <1>2, <2>1, <2>3 DEF KG!Held, GeneratorIInv, GeneratorTypes
  <2>5. QED
    BY <1>1, <1>2, <2>2, <2>3, <2>4 DEF GeneratorIInv, KG!EndedRight
<1>4. CASE KG!createDLGroup
  <2>1. PICK c \in Contexts :
          /\ ctx[c].kind = "free"
          /\ gen' = [[gen EXCEPT !.group = 0, !.wasBlocking = FALSE] EXCEPT !.dc = c]
          /\ ctx' = [ctx EXCEPT ![c] = [kind |-> "group", at |-> "running", number |-> number]]
    BY <1>1, <1>4 DEF KG!createDLGroup, KG!Thread, KG!Free, KG!Nothing
  <2>2. GeneratorTypes'
    BY <1>1, <1>2, <2>1 DEF GeneratorIInv, GeneratorTypes
  <2>3. gen'.k = gen.k /\ gen'.dc = c /\ gen'.wasBlocking = FALSE /\ gen.dc = KG!None
    BY <1>2, <1>4, <2>1 DEF KG!createDLGroup, KeysAssumption
  <2>4. KG!Held'
    BY <1>1, <1>2, <2>1, <2>3 DEF KG!Held, GeneratorIInv, GeneratorTypes
  <2>5. QED
    BY <1>1, <1>2, <2>2, <2>3, <2>4 DEF GeneratorIInv, KG!EndedRight
<1>5. QED
  BY <1>3, <1>4

LEMMA DeleteStep ==
  ASSUME KeysAssumption, GeneratorIInv, KG!Delete
  PROVE  GeneratorIInv'
<1>1. /\ KG!None \notin Contexts /\ 0 \in Results /\ GeneratorTypes /\ KG!Held
  BY DEF KeysAssumption, GeneratorIInv, Results
<1>2. /\ gen' = KG!Fresh /\ ended' = KG!NoEnd /\ number' = number /\ crashed' = crashed
      /\ ctx' = [c \in Contexts |-> IF c \in {gen.k, gen.dc} THEN KG!NoContext ELSE ctx[c]]
  BY DEF KG!Delete
<1>3. GeneratorTypes'
  BY <1>1, <1>2 DEF GeneratorTypes, KG!Fresh, KG!NoEnd, KG!NoContext, KG!Nothing
<1>4. KG!Held'
  BY <1>1, <1>2 DEF KG!Held, KG!Fresh, KG!NoContext
<1>5. QED
  BY <1>2, <1>3, <1>4 DEF GeneratorIInv, KG!EndedRight, KG!NoEnd, KG!Nothing, KG!Fresh

LEMMA EndsStep ==
  ASSUME KeysAssumption, GeneratorIInv, NEW c \in Contexts, KG!Ends(c)
  PROVE  GeneratorIInv'
<1>1. PICK result \in {"made", "failed"} : ctx' = [ctx EXCEPT ![c].at = result]
  BY DEF KG!Ends
<1>2. UNCHANGED <<gen, number, ended, crashed>> /\ GeneratorTypes
  BY DEF KG!Ends, GeneratorIInv
<1>3. /\ GeneratorTypes'
      /\ \A d \in Contexts : ctx'[d].kind = ctx[d].kind
  BY <1>1, <1>2 DEF GeneratorTypes
<1>4. KG!Held'
  BY <1>2, <1>3 DEF GeneratorIInv, KG!Held
<1>5. QED
  BY <1>2, <1>3, <1>4 DEF GeneratorIInv, KG!EndedRight

LEMMA doneStep ==
  ASSUME KeysAssumption, GeneratorIInv, NEW c \in Contexts, KG!done(c)
  PROVE  GeneratorIInv'
<1>1. /\ KG!None \notin Contexts /\ 0 \in Results /\ GeneratorTypes /\ KG!Held
      /\ ~gen.wasBlocking /\ gen.k = c /\ gen.wasBlocking \in BOOLEAN
  BY DEF KeysAssumption, GeneratorIInv, Results, KG!done, KG!Held, GeneratorTypes
<1>2. KG!Result(c) \in {ctx[c].number, 0} /\ KG!Result(c) \in Results /\ ctx[c].number \in Results
  BY <1>1 DEF KG!Result, KG!Nothing, GeneratorTypes
<1>3. /\ gen' = [gen EXCEPT !.k = KG!None, !.key = KG!Result(c)]
      /\ ctx' = [ctx EXCEPT ![c] = KG!NoContext]
      /\ ended' = [number |-> ctx[c].number, shown |-> KG!Result(c), due |-> TRUE,
                   told |-> TRUE]
      /\ number' = number /\ crashed' = crashed
  BY <1>1 DEF KG!done, KG!Told
<1>4. gen'.k = KG!None /\ gen'.dc = gen.dc /\ gen'.wasBlocking = gen.wasBlocking
  BY <1>1, <1>3 DEF GeneratorTypes
<1>5. GeneratorTypes'
  <2>1. KG!NoContext \in [kind : {"free", "key", "group", "leaked"},
                          at : {KG!None, "running", "made", "failed"}, number : Results]
    BY <1>1 DEF KG!NoContext, KG!Nothing
  <2>2. QED
    BY <1>1, <1>2, <1>3, <2>1 DEF GeneratorTypes
<1>6. KG!Held'
  BY <1>1, <1>3, <1>4 DEF KG!Held, KG!NoContext, GeneratorTypes
<1>7. KG!EndedRight'
  BY <1>2, <1>3 DEF KG!EndedRight, KG!Nothing
<1>8. QED
  BY <1>1, <1>4, <1>5, <1>6, <1>7 DEF GeneratorIInv

LEMMA done_groupStep ==
  ASSUME KeysAssumption, GeneratorIInv, NEW c \in Contexts, KG!done_group(c)
  PROVE  GeneratorIInv'
<1>1. /\ KG!None \notin Contexts /\ 0 \in Results /\ GeneratorTypes /\ KG!Held
      /\ ~gen.wasBlocking /\ gen.dc = c /\ gen.wasBlocking \in BOOLEAN
  BY DEF KeysAssumption, GeneratorIInv, Results, KG!done_group, KG!Held, GeneratorTypes
<1>2. KG!Result(c) \in {ctx[c].number, 0} /\ KG!Result(c) \in Results /\ ctx[c].number \in Results
  BY <1>1 DEF KG!Result, KG!Nothing, GeneratorTypes
<1>3. /\ gen' = [gen EXCEPT !.dc = KG!None, !.group = KG!Result(c)]
      /\ ctx' = [ctx EXCEPT ![c] = KG!NoContext]
      /\ ended' = [number |-> ctx[c].number, shown |-> KG!Result(c), due |-> TRUE,
                   told |-> TRUE]
      /\ number' = number /\ crashed' = crashed
  <2>1. /\ gen' = [gen EXCEPT !.dc = KG!None, !.group = KG!Result(c)]
        /\ ctx' = [ctx EXCEPT ![c] = KG!NoContext, ![c] = KG!NoContext]
        /\ KG!Told(c, KG!Result(c)) /\ number' = number /\ crashed' = crashed
    BY <1>1 DEF KG!done_group
  <2>2. [ctx EXCEPT ![c] = KG!NoContext, ![c] = KG!NoContext] = [ctx EXCEPT ![c] = KG!NoContext]
    BY <1>1 DEF GeneratorTypes
  <2>3. QED
    BY <1>1, <2>1, <2>2 DEF KG!Told
<1>4. gen'.k = gen.k /\ gen'.dc = KG!None /\ gen'.wasBlocking = gen.wasBlocking
  BY <1>1, <1>3 DEF GeneratorTypes
<1>5. GeneratorTypes'
  <2>1. KG!NoContext \in [kind : {"free", "key", "group", "leaked"},
                          at : {KG!None, "running", "made", "failed"}, number : Results]
    BY <1>1 DEF KG!NoContext, KG!Nothing
  <2>2. QED
    BY <1>1, <1>2, <1>3, <2>1 DEF GeneratorTypes
<1>6. KG!Held'
  BY <1>1, <1>3, <1>4 DEF KG!Held, KG!NoContext, GeneratorTypes
<1>7. KG!EndedRight'
  BY <1>2, <1>3 DEF KG!EndedRight, KG!Nothing
<1>8. QED
  BY <1>1, <1>4, <1>5, <1>6, <1>7 DEF GeneratorIInv

LEMMA GeneratorStep ==
  ASSUME KeysAssumption, GeneratorIInv, KG!Next \/ UNCHANGED generatorVars
  PROVE  GeneratorIInv'
<1>1. CASE UNCHANGED generatorVars
  BY <1>1 DEF generatorVars, GeneratorIInv, GeneratorTypes, KG!Held, KG!EndedRight
<1>2. ASSUME NEW b \in BOOLEAN, KG!setBlockingEnabled(b)
      PROVE  GeneratorIInv'
  <2>1. /\ gen' = [gen EXCEPT !.blocking = b] /\ UNCHANGED <<ctx, number, ended, crashed>>
        /\ GeneratorTypes
    BY <1>2 DEF KG!setBlockingEnabled, GeneratorIInv
  <2>2. /\ GeneratorTypes'
        /\ gen'.k = gen.k /\ gen'.dc = gen.dc /\ gen'.wasBlocking = gen.wasBlocking
    BY <2>1 DEF GeneratorTypes
  <2>3. QED
    BY <2>1, <2>2 DEF GeneratorIInv, KG!Held, KG!EndedRight
<1>3. CASE KG!createKey \/ KG!createDLGroup
  BY <1>3, InPlaceStep, ThreadStep
<1>4. CASE KG!Delete
  BY <1>4, DeleteStep
<1>5. ASSUME NEW c \in Contexts, KG!makeKey(c) \/ KG!makeGroup(c)
      PROVE  GeneratorIInv'
  BY <1>5, EndsStep DEF KG!makeKey, KG!makeGroup
<1>6. ASSUME NEW c \in Contexts, KG!done(c) \/ KG!done_group(c)
      PROVE  GeneratorIInv'
  BY <1>6, doneStep, done_groupStep
<1>7. QED
  BY <1>1, <1>2, <1>3, <1>4, <1>5, <1>6 DEF KG!Next

----------------------------------------------------------------------------
(* KeyLoader, as a part of MCEventSystem.                                   *)

\* A set of numbers that is not empty has a least one.
LEMMA LeastNumber ==
  ASSUME NEW S \in SUBSET Nat, S # {}
  PROVE  \E n \in S : \A y \in S : n <= y
<1> DEFINE below == {0 .. n : n \in S}
<1>1. below \subseteq FiniteSubsetsOf(Nat)
  <2>1. \A n \in S : IsFiniteSet(0 .. n) /\ 0 .. n \subseteq Nat
    BY FS_Interval
  <2>2. QED
    BY <2>1 DEF FiniteSubsetsOf
<1>2. PICK b \in below : \A c \in below : ~ (<<c, b>> \in StrictSubsetOrdering(Nat))
  <2>1. below # {}
    OBVIOUS
  <2>2. QED
    BY <1>1, <2>1, WFMin, FS_StrictSubsetOrderingWellFounded
<1>3. PICK least \in S : b = 0 .. least
  OBVIOUS
<1>4. ASSUME NEW y \in S, ~(least <= y) PROVE FALSE
  <2>1. 0 .. y \subseteq 0 .. least /\ least \in 0 .. least /\ least \notin 0 .. y
    BY <1>4
  <2>2. 0 .. y \in SUBSET Nat /\ 0 .. least \in SUBSET Nat /\ 0 .. y # 0 .. least
    BY <2>1
  <2>3. <<0 .. y, 0 .. least>> \in StrictSubsetOrdering(Nat)
    BY <2>1, <2>2, Zenon DEF StrictSubsetOrdering
  <2>4. QED
    BY <1>2, <1>3, <2>3
<1>5. QED
  BY <1>4

\* getKey() tries all the providers: the first that can read the data does.
LEMMA getKeyGood ==
  ASSUME KeysAssumption, NEW content \in KL!Contents, NEW passphrase
  PROVE  /\ KL!getKey(content, passphrase) \in {"ConvertGood", "ErrorPassphrase", "ErrorDecode"}
         /\ KL!getKey(content, passphrase) = "ConvertGood"
              <=> KL!Able(content, passphrase, FALSE)
<1> DEFINE r(i) == KL!Reads(Providers[i], content, passphrase)
           last == {i \in DOMAIN Providers : r(i) # "ErrorDecode"} \cup {Len(Providers)}
<1>1. /\ Len(Providers) \in Nat \ {0} /\ DOMAIN Providers = 1 .. Len(Providers)
      /\ \A i \in DOMAIN Providers : Providers[i] \in {"ossl", "exact", "none"}
  BY DEF KeysAssumption
<1>2. PICK n \in last : \A y \in last : n <= y
  <2>1. last \in SUBSET Nat /\ last # {}
    BY <1>1
  <2>2. QED
    BY <2>1, LeastNumber
<1>3. KL!Min(last) \in last /\ \A y \in last : KL!Min(last) <= y
  BY <1>2 DEF KL!Min
<1>4. KL!getKey(content, passphrase) = r(KL!Min(last))
  BY DEF KL!getKey
<1>5. KL!Min(last) \in DOMAIN Providers
  BY <1>1, <1>3
<1>6. \A i \in DOMAIN Providers :
        /\ r(i) \in {"ConvertGood", "ErrorPassphrase", "ErrorDecode"}
        /\ r(i) = "ConvertGood" <=> KL!CanRead(Providers[i], content, passphrase)
        /\ r(i) = "ErrorPassphrase" => content = "encrypted" /\ passphrase # "right"
  BY DEF KL!Reads, KL!CanRead
<1>7. KL!Able(content, passphrase, FALSE)
        <=> \E i \in DOMAIN Providers : KL!CanRead(Providers[i], content, passphrase)
  BY DEF KL!Able, KL!ToSet
<1> HIDE DEF r
<1>8. ASSUME NEW i \in DOMAIN Providers, KL!CanRead(Providers[i], content, passphrase)
      PROVE  r(KL!Min(last)) = "ConvertGood"
  <2>1. r(i) = "ConvertGood" /\ ~(content = "encrypted" /\ passphrase # "right")
    BY <1>6, <1>8 DEF KL!CanRead
  <2>2. KL!Min(last) <= i
    BY <1>3, <2>1
  <2>3. CASE r(KL!Min(last)) # "ErrorDecode"
    BY <1>5, <1>6, <2>1, <2>3
  <2>4. CASE r(KL!Min(last)) = "ErrorDecode"
    <3>1. KL!Min(last) = Len(Providers)
      BY <1>3, <2>4
    <3>2. i = Len(Providers)
      BY <1>1, <2>2, <3>1
    <3>3. QED
      BY <2>1, <2>4, <3>1, <3>2
  <2>5. QED
    BY <2>3, <2>4
<1>9. QED
  BY <1>4, <1>5, <1>6, <1>7, <1>8

LEMMA ConvertGood ==
  ASSUME KeysAssumption, NEW type, NEW content \in KL!Contents, NEW passphrase
  PROVE  /\ KL!Convert(type, content, passphrase)
              \in {"ConvertGood", "ErrorPassphrase", "ErrorDecode"}
         /\ KL!Convert(type, content, passphrase) = "ConvertGood"
              <=> KL!Able(content, passphrase, KL!Bundle(type))
<1>1. CASE KL!Bundle(type)
  <2>1. KL!Convert(type, content, passphrase) = KL!Reads("ossl", content, passphrase)
    BY <1>1 DEF KL!Convert
  <2>2. /\ KL!Reads("ossl", content, passphrase)
             \in {"ConvertGood", "ErrorPassphrase", "ErrorDecode"}
        /\ KL!Reads("ossl", content, passphrase) = "ConvertGood"
             <=> KL!CanRead("ossl", content, passphrase)
    BY DEF KL!Reads
  <2>3. KL!Able(content, passphrase, TRUE) <=> KL!CanRead("ossl", content, passphrase)
    BY DEF KL!Able
  <2>4. QED
    BY <1>1, <2>1, <2>2, <2>3
<1>2. CASE ~KL!Bundle(type)
  BY <1>2, getKeyGood DEF KL!Convert, KL!Able
<1>3. QED
  BY <1>1, <1>2

LoaderTypes ==
  /\ active \in BOOLEAN
  /\ in \in [type : KL!Types \cup {"none"}, content : KL!Contents]
  /\ thread \in [at : {"none", "running", "asking", "answered", "finished"},
                 result : {"none", "ConvertGood", "ErrorPassphrase", "ErrorDecode", "ErrorFile"},
                 answer : KL!Passphrases \cup {"rejected", "none"}]
  /\ call \in [kind : KL!Calls \cup {"none"}, content : KL!Contents]
  /\ active <=> thread.at # "none"

\* While a load is under way, in is what the call has asked for.
InIsOfCall ==
  active =>
    /\ call.kind # "none" /\ in.type = KL!TypeOf[call.kind]
    /\ in.content = IF call.kind = "BundleArray" THEN "missing" ELSE call.content

\* What the thread has found so far.
Found ==
  LET able(answer) == KL!Able(in.content, answer, KL!Bundle(in.type))
  IN /\ thread.at \in {"running", "asking"} => thread.answer = "none"
     /\ thread.at \in {"asking", "answered"} =>
          /\ in.content # "missing" /\ ~able("none")
          /\ thread.result \in {"ErrorPassphrase", "ErrorDecode"}
     /\ thread.at = "finished" =>
          /\ thread.result = "ConvertGood" <=> able(thread.answer)
          /\ thread.result = "ErrorFile" <=> in.content = "missing"

LoaderIInv == LoaderTypes /\ InIsOfCall /\ Found /\ KL!LoadedRight

LEMMA AbleOrNot ==
  ASSUME NEW bundle
  PROVE  /\ \A answer : ~KL!Able("missing", answer, bundle)
         /\ \A content \in KL!Contents :
              KL!Able(content, "rejected", bundle) <=> KL!Able(content, "none", bundle)
BY DEF KL!Able, KL!CanRead

LEMMA LoaderInit == KL!Init => LoaderIInv
<1> SUFFICES ASSUME KL!Init PROVE LoaderIInv
  OBVIOUS
<1>1. /\ active = FALSE /\ in = [type |-> "none", content |-> "missing"]
      /\ thread = [at |-> "none", result |-> "none", answer |-> "none"]
      /\ call = [kind |-> "none", content |-> "missing"]
  BY DEF KL!Init, KL!NoThread, KL!NoCall
<1>2. "missing" \in KL!Contents
  BY DEF KL!Contents
<1>3. LoaderTypes
  BY <1>1, <1>2, Zenon DEF LoaderTypes
<1>4. InIsOfCall /\ Found /\ KL!LoadedRight
  BY <1>1 DEF InIsOfCall, Found, KL!LoadedRight
<1>5. QED
  BY <1>3, <1>4 DEF LoaderIInv

LEMMA loadStep ==
  ASSUME LoaderIInv, NEW kind \in KL!Calls, NEW content \in KL!Contents, KL!load(kind, content)
  PROVE  LoaderIInv'
<1>1. /\ active' = TRUE /\ call' = [kind |-> kind, content |-> content]
      /\ in' = [type |-> KL!TypeOf[kind],
                content |-> IF kind = "BundleArray" THEN "missing" ELSE content]
      /\ thread' = [KL!NoThread EXCEPT !.at = "running"]
  BY DEF KL!load
<1>2. thread' = [at |-> "running", result |-> "none", answer |-> "none"]
  BY <1>1 DEF KL!NoThread
<1>3. KL!TypeOf[kind] \in KL!Types
  BY DEF KL!TypeOf, KL!Calls, KL!Types
<1>4. "missing" \in KL!Contents
  BY DEF KL!Contents
<1>5. LoaderTypes'
  <2>1. in' \in [type : KL!Types \cup {"none"}, content : KL!Contents]
    BY <1>1, <1>3, <1>4
  <2>2. thread' \in [at : {"none", "running", "asking", "answered", "finished"},
                 result : {"none", "ConvertGood", "ErrorPassphrase", "ErrorDecode", "ErrorFile"},
                 answer : KL!Passphrases \cup {"rejected", "none"}]
    BY <1>2
  <2>3. call' \in [kind : KL!Calls \cup {"none"}, content : KL!Contents]
    BY <1>1
  <2>4. active' \in BOOLEAN /\ (active' <=> thread'.at # "none")
    BY <1>1, <1>2
  <2>5. QED
    BY <2>1, <2>2, <2>3, <2>4 DEF LoaderTypes
<1>6. InIsOfCall'
  BY <1>1 DEF InIsOfCall, KL!Calls
<1>7. QED
  BY <1>1, <1>2, <1>5, <1>6 DEF LoaderIInv, Found, KL!LoadedRight

LEMMA thread_finishedStep ==
  ASSUME LoaderIInv, KL!thread_finished
  PROVE  LoaderIInv'
<1>1. /\ thread.at = "finished" /\ active' = FALSE /\ in' = in /\ call' = call
      /\ out' = [result |-> thread.result,
                 privateKey |-> thread.result = "ConvertGood" /\ ~KL!Bundle(in.type),
                 keyBundle |-> thread.result = "ConvertGood" /\ KL!Bundle(in.type)]
      /\ thread' = [thread EXCEPT !.at = "none"]
  BY DEF KL!thread_finished
<1>2. LoaderTypes /\ InIsOfCall /\ Found /\ active
  BY <1>1 DEF LoaderIInv, LoaderTypes
<1>3. LoaderTypes'
  BY <1>1, <1>2 DEF LoaderTypes
<1>4. thread'.answer = thread.answer /\ thread'.at = "none"
  BY <1>1, <1>2 DEF LoaderTypes
<1>5. ASSUME call.kind \notin {"none", "BundleArray"}
      PROVE  /\ in.content = call.content
             /\ KL!Bundle(in.type) <=> call.kind = "BundleFile"
  BY <1>2, <1>5 DEF InIsOfCall, LoaderTypes, KL!Bundle, KL!TypeOf, KL!Calls
<1>6. /\ thread.result = "ConvertGood" <=> KL!Able(in.content, thread.answer, KL!Bundle(in.type))
      /\ thread.result = "ErrorFile" <=> in.content = "missing"
  BY <1>1, <1>2 DEF Found
<1>7. KL!LoadedRight'
  <2> SUFFICES ASSUME call.kind \notin {"none", "BundleArray"}
               PROVE  LET bundle == call.kind = "BundleFile"
                          good == KL!Able(call.content, thread.answer, bundle)
                      IN /\ out'.privateKey = (good /\ ~bundle)
                         /\ out'.keyBundle = (good /\ bundle)
                         /\ (out'.result = "ConvertGood") = good
                         /\ (out'.result = "ErrorFile") = (call.content = "missing")
    BY <1>1, <1>4 DEF KL!LoadedRight
  <2>1. KL!Bundle(in.type) = (call.kind = "BundleFile")
    BY <1>5 DEF KL!Bundle
  <2>2. KL!Able(in.content, thread.answer, KL!Bundle(in.type))
          = KL!Able(call.content, thread.answer, call.kind = "BundleFile")
    BY <1>5, <2>1
  <2>3. KL!Able(call.content, thread.answer, call.kind = "BundleFile") \in BOOLEAN
    BY DEF KL!Able
  <2>4. QED
    BY <1>1, <1>5, <1>6, <2>1, <2>2, <2>3
<1>8. QED
  BY <1>1, <1>3, <1>4, <1>7 DEF LoaderIInv, InIsOfCall, Found

LEMMA runStep ==
  ASSUME KeysAssumption, LoaderIInv, KL!run
  PROVE  LoaderIInv'
<1> DEFINE result == IF in.content = "missing" THEN "ErrorFile"
                     ELSE KL!Convert(in.type, in.content, "none")
           able == KL!Able(in.content, "none", KL!Bundle(in.type))
<1>1. /\ thread.at = "running" /\ UNCHANGED <<active, in, out, call>>
      /\ thread' = [thread EXCEPT !.at = IF result \in {"ConvertGood", "ErrorFile"}
                                         THEN "finished" ELSE "asking",
                                  !.result = result]
  BY DEF KL!run
<1>2. LoaderTypes /\ InIsOfCall /\ Found /\ active /\ in.content \in KL!Contents
  BY <1>1 DEF LoaderIInv, LoaderTypes
<1>3. /\ result \in {"ConvertGood", "ErrorPassphrase", "ErrorDecode", "ErrorFile"}
      /\ result = "ConvertGood" <=> able
      /\ result = "ErrorFile" <=> in.content = "missing"
  BY <1>2, ConvertGood, AbleOrNot
<1> HIDE DEF result
<1>4. /\ thread'.at = IF result \in {"ConvertGood", "ErrorFile"} THEN "finished" ELSE "asking"
      /\ thread'.result = result /\ thread'.answer = "none"
  BY <1>1, <1>2 DEF LoaderTypes, Found
<1>5. LoaderTypes'
  BY <1>1, <1>2, <1>3 DEF LoaderTypes
<1>6. Found'
  BY <1>1, <1>3, <1>4 DEF Found
<1>7. QED
  BY <1>1, <1>2, <1>5, <1>6 DEF LoaderIInv, InIsOfCall, KL!LoadedRight

LEMMA AnswerStep ==
  ASSUME LoaderIInv, NEW answer \in KL!Passphrases \cup {"rejected"}, KL!Answer(answer)
  PROVE  LoaderIInv'
<1>1. /\ thread.at = "asking" /\ UNCHANGED <<active, in, out, call>>
      /\ thread' = [thread EXCEPT !.at = "answered", !.answer = answer]
  BY DEF KL!Answer
<1>2. LoaderTypes /\ InIsOfCall /\ Found /\ active
  BY <1>1 DEF LoaderIInv, LoaderTypes
<1>3. LoaderTypes' /\ thread'.at = "answered" /\ thread'.result = thread.result
  BY <1>1, <1>2 DEF LoaderTypes
<1>4. QED
  BY <1>1, <1>2, <1>3 DEF LoaderIInv, InIsOfCall, Found, KL!LoadedRight

LEMMA ask_passphraseStep ==
  ASSUME KeysAssumption, LoaderIInv, KL!ask_passphrase
  PROVE  LoaderIInv'
<1> DEFINE result == IF thread.answer = "rejected" THEN thread.result
                     ELSE KL!Convert(in.type, in.content, thread.answer)
           able(answer) == KL!Able(in.content, answer, KL!Bundle(in.type))
<1>1. /\ thread.at = "answered" /\ UNCHANGED <<active, in, out, call>>
      /\ thread' = [thread EXCEPT !.at = "finished", !.result = result]
  <2>1. /\ thread.at = "answered" /\ UNCHANGED <<active, in, out, call>>
        /\ thread \in [at : {"none", "running", "asking", "answered", "finished"},
                 result : {"none", "ConvertGood", "ErrorPassphrase", "ErrorDecode", "ErrorFile"},
                 answer : KL!Passphrases \cup {"rejected", "none"}]
    BY DEF KL!ask_passphrase, LoaderIInv, LoaderTypes
  <2>2. QED
    BY <2>1 DEF KL!ask_passphrase
<1>2. LoaderTypes /\ InIsOfCall /\ Found /\ active /\ in.content \in KL!Contents
  BY <1>1 DEF LoaderIInv, LoaderTypes
<1>3. /\ in.content # "missing" /\ ~able("none")
      /\ thread.result \in {"ErrorPassphrase", "ErrorDecode"}
  BY <1>1, <1>2 DEF Found
<1>4. /\ result \in {"ConvertGood", "ErrorPassphrase", "ErrorDecode"}
      /\ result = "ConvertGood" <=> able(thread.answer)
  BY <1>2, <1>3, ConvertGood, AbleOrNot
<1> HIDE DEF result
<1>5. thread'.at = "finished" /\ thread'.result = result /\ thread'.answer = thread.answer
  BY <1>1, <1>2 DEF LoaderTypes
<1>6. LoaderTypes'
  BY <1>1, <1>2, <1>4 DEF LoaderTypes
<1>7. Found'
  BY <1>1, <1>3, <1>4, <1>5 DEF Found
<1>8. QED
  BY <1>1, <1>2, <1>6, <1>7 DEF LoaderIInv, InIsOfCall, KL!LoadedRight

LEMMA LoaderStep ==
  ASSUME KeysAssumption, LoaderIInv, KL!Next \/ UNCHANGED loaderVars
  PROVE  LoaderIInv'
<1>1. CASE UNCHANGED loaderVars
  BY <1>1 DEF loaderVars, LoaderIInv, LoaderTypes, InIsOfCall, Found, KL!LoadedRight
<1>2. CASE KL!Next
  BY <1>2, loadStep, thread_finishedStep, runStep, AnswerStep, ask_passphraseStep DEF KL!Next
<1>3. QED
  BY <1>1, <1>2

----------------------------------------------------------------------------
\* KeyGenerator, for any number of contexts: each is held as what it is, none is lost or used
\* after it is gone, an operation in a thread is told and one in place is not, and what can be
\* had when it has ended is its own result.  KeyLoader, for any list of providers: what a load
\* ends with is what its data and the answer of the user ask for, and the user is asked only
\* when it is needed.
THEOREM KeysAreConsistent ==
  ASSUME KeysAssumption
  PROVE  QuestionsSpec => []KeysConsistent
<1>1. QuestionsInit => GeneratorIInv /\ LoaderIInv
  BY GeneratorInit, LoaderInit DEF QuestionsInit
<1>2. GeneratorIInv /\ LoaderIInv
        /\ [QuestionsNext]_<<vars, generatorVars, loaderVars>>
        => GeneratorIInv' /\ LoaderIInv'
  <2> SUFFICES ASSUME GeneratorIInv, LoaderIInv,
                      [QuestionsNext]_<<vars, generatorVars, loaderVars>>
               PROVE  GeneratorIInv' /\ LoaderIInv'
    OBVIOUS
  <2>1. /\ KG!Next \/ UNCHANGED generatorVars
        /\ KL!Next \/ UNCHANGED loaderVars
    BY DEF QuestionsNext
  <2>2. QED
    BY <2>1, GeneratorStep, LoaderStep
<1>3. GeneratorIInv /\ LoaderIInv => KeysConsistent
  <2> SUFFICES ASSUME GeneratorIInv, LoaderIInv PROVE KeysConsistent
    OBVIOUS
  <2>1. KG!TypeOK
    BY DEF GeneratorIInv, GeneratorTypes, KG!TypeOK, Results, KG!Nothing
  <2>2. KG!GeneratorConsistent
    BY <2>1 DEF GeneratorIInv, KG!GeneratorConsistent
  <2>3. KL!TypeOK
    BY DEF LoaderIInv, LoaderTypes, KL!TypeOK
  <2>4. KL!AskedIfNeeded
    <3> SUFFICES ASSUME thread.at \in {"asking", "answered"}
                 PROVE  /\ call.content # "missing"
                        /\ ~KL!Able(call.content, "none", KL!Bundle(in.type))
      BY DEF KL!AskedIfNeeded
    <3>1. in.content # "missing" /\ ~KL!Able(in.content, "none", KL!Bundle(in.type))
      BY DEF LoaderIInv, Found
    <3>2. in.content = call.content
      BY <3>1 DEF LoaderIInv, LoaderTypes, InIsOfCall
    <3>3. QED
      BY <3>1, <3>2
  <2>5. KL!LoaderConsistent
    BY <2>3, <2>4 DEF LoaderIInv, KL!LoaderConsistent
  <2>6. QED
    BY <2>2, <2>5 DEF KeysConsistent
<1>4. QED
  BY <1>1, <1>2, <1>3, PTL DEF QuestionsSpec
=============================================================================
