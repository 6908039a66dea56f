----------------------- MODULE KeyStoreManager_proofs -----------------------
(***************************************************************************)
(* Proofs about KeyStoreTracker and KeyStoreManager: whatever managers and *)
(* providers do, the tracker's list is right; when nothing is on its way a *)
(* manager's copies are the tracker's state; its hash agrees with its      *)
(* KeyStore objects, and those follow their stores.  And about             *)
(* EntryWatcher: what it says of its entry is so.                          *)
(***************************************************************************)
EXTENDS EntryWatcher, FiniteSetTheorems, TLAPS

ItemType == [trackerId : Nat, storeContextId : 1 .. MaxContexts,
             storeId : StoreIds, updateCount : 0 .. MaxContent]

\* The items list the stores that provider p shows in context: no other one, and
\* all of them.  ItemsArePresent says this with sets of pairs.
Lists(p, context, its) ==
  /\ \A i \in its : Owner[i.storeId] = p => context[i.storeId] = i.storeContextId
  /\ \A s \in StoreIds : Owner[s] = p /\ context[s] # 0 =>
       \E i \in its : i.storeId = s /\ i.storeContextId = context[s]

AllListed == \A p \in sources \ busySources : Lists(p, contextOf, items)

\* Tracker ids and context ids are given in increasing order, and a context id to
\* one store only.
IdsGiven ==
  /\ \A i \in items : i.trackerId < tracker_id_at /\ i.storeContextId <= contexts
  /\ \A i \in items, s \in StoreIds : contextOf[s] = i.storeContextId => s = i.storeId
  /\ \A s \in StoreIds : contextOf[s] <= contexts
  /\ \A s, t \in StoreIds : contextOf[s] # 0 /\ contextOf[s] = contextOf[t] => s = t

\* An item has not seen more changes than there were.
CountsSeen == \A i \in items : i.updateCount <= content[i.storeId]

IInv == TrackerTypeOK /\ OneItemEach /\ AllListed /\ IdsGiven /\ CountsSeen

LEMMA InitIInv == TrackerInit => IInv
  BY TrackerAssumption
  DEF TrackerInit, IInv, TrackerTypeOK, OneItemEach, AllListed, Lists, IdsGiven, CountsSeen

LEMMA IInvListed == IInv => ItemsArePresent
<1> SUFFICES ASSUME IInv, NEW p \in sources \ busySources
             PROVE {<<i.storeId, i.storeContextId>> : i \in {j \in items : Owner[j.storeId] = p}}
                     = {<<s, contextOf[s]>> :
                          s \in {t \in StoreIds : Owner[t] = p /\ contextOf[t] # 0}}
  BY DEF ItemsArePresent
<1>1. Lists(p, contextOf, items) /\ items \subseteq ItemType
  BY DEF IInv, AllListed, TrackerTypeOK, ItemType
<1>2. ASSUME NEW i \in items, Owner[i.storeId] = p
      PROVE  /\ i.storeId \in StoreIds /\ Owner[i.storeId] = p /\ contextOf[i.storeId] # 0
             /\ i.storeContextId = contextOf[i.storeId]
  BY <1>1, <1>2, TrackerAssumption DEF Lists, ItemType
<1>3. ASSUME NEW s \in StoreIds, Owner[s] = p, contextOf[s] # 0
      PROVE  \E i \in items : /\ Owner[i.storeId] = p
                              /\ i.storeId = s /\ i.storeContextId = contextOf[s]
  BY <1>1, <1>3 DEF Lists
<1>4. QED
  BY <1>2, <1>3

----------------------------------------------------------------------------
(* updateStores(c): context is what the providers show after the step.      *)

LEMMA Updated_items ==
  ASSUME IInv, NEW c \in Providers, NEW context \in [StoreIds -> 0 .. MaxContexts],
         updateStores(c, context)
  PROVE  /\ items' \subseteq ItemType /\ tracker_id_at' \in Nat
         /\ tracker_id_at <= tracker_id_at'
         /\ \A j \in items' : \/ j \in Kept(c, context)
                              \/ /\ j.storeId \in NewStores(c, context)
                                 /\ j.storeContextId = context[j.storeId]
                                 /\ j.updateCount = 0
                                 /\ tracker_id_at <= j.trackerId
         /\ \A j \in items' : j.trackerId < tracker_id_at'
         /\ \A i, j \in items' : i # j => i.trackerId # j.trackerId
         /\ \A i, j \in items' : i.storeId = j.storeId =>
              i = j \/ i \in Kept(c, context) \/ j \in Kept(c, context)
         /\ Kept(c, context) \subseteq items'
         /\ \A s \in NewStores(c, context) :
              \E j \in items' : j.storeId = s /\ j.storeContextId = context[s]
<1> DEFINE new == NewStores(c, context)
           ids == tracker_id_at .. tracker_id_at + Cardinality(new) - 1
<1>1. PICK id \in [new -> ids] :
        /\ \A s, t \in new : id[s] = id[t] => s = t
        /\ items' = Kept(c, context) \cup
             {[trackerId |-> id[s], storeContextId |-> context[s], storeId |-> s,
               updateCount |-> 0] : s \in new}
        /\ tracker_id_at' = tracker_id_at + Cardinality(new)
  BY DEF updateStores
<1>2. new \subseteq StoreIds /\ Cardinality(new) \in Nat
  <2>1. new \subseteq StoreIds
    BY DEF NewStores
  <2>2. QED
    BY <2>1, TrackerAssumption, FS_Subset, FS_CardinalityType
<1>3. /\ tracker_id_at \in Nat /\ items \subseteq ItemType
      /\ \A i \in items : i.trackerId < tracker_id_at
      /\ \A i, j \in items : i # j => i.trackerId # j.trackerId
  BY DEF IInv, TrackerTypeOK, ItemType, IdsGiven, OneItemEach
<1>4. Kept(c, context) \subseteq items
  BY DEF Kept
<1>5. \A s \in new : /\ context[s] \in 1 .. MaxContexts
                     /\ id[s] \in Nat /\ tracker_id_at <= id[s] /\ id[s] < tracker_id_at'
  <2> SUFFICES ASSUME NEW s \in new
               PROVE  /\ context[s] \in 1 .. MaxContexts
                      /\ id[s] \in Nat /\ tracker_id_at <= id[s] /\ id[s] < tracker_id_at'
    OBVIOUS
  <2>1. context[s] \in 1 .. MaxContexts
    BY TrackerAssumption DEF NewStores
  <2>2. id[s] \in ids
    BY <1>1
  <2>3. QED
    BY <2>1, <2>2, <1>1, <1>2, <1>3
<1> DEFINE Item(s) == [trackerId |-> id[s], storeContextId |-> context[s], storeId |-> s,
                       updateCount |-> 0]
<1>6. \A s \in new : /\ Item(s) \in ItemType /\ Item(s).storeId = s
                     /\ Item(s).storeContextId = context[s] /\ Item(s).updateCount = 0
                     /\ Item(s).trackerId = id[s]
  BY <1>2, <1>5, TrackerAssumption DEF ItemType
<1> HIDE DEF Item, new, ids
<1>7. items' = Kept(c, context) \cup {Item(s) : s \in new}
  BY <1>1 DEF Item
<1>8. \A j \in items' : \/ j \in Kept(c, context)
                        \/ \E s \in new : j = Item(s)
  BY <1>7
<1>9. items' \subseteq ItemType /\ tracker_id_at' \in Nat /\ tracker_id_at <= tracker_id_at'
  BY <1>1, <1>2, <1>3, <1>4, <1>6, <1>8
<1>10. \A j \in items' : \/ j \in Kept(c, context)
                         \/ /\ j.storeId \in new /\ j.storeContextId = context[j.storeId]
                            /\ j.updateCount = 0 /\ tracker_id_at <= j.trackerId
  BY <1>5, <1>6, <1>8
<1>11. \A j \in items' : j.trackerId < tracker_id_at'
  BY <1>3, <1>4, <1>5, <1>6, <1>8, <1>9 DEF ItemType
<1>12. ASSUME NEW i \in items', NEW j \in items', i # j
       PROVE  i.trackerId # j.trackerId
  <2>1. CASE i \in Kept(c, context) /\ j \in Kept(c, context)
    BY <2>1, <1>3, <1>4, <1>12
  <2>2. CASE i \in Kept(c, context) /\ \E s \in new : j = Item(s)
    BY <2>2, <1>3, <1>4, <1>5, <1>6 DEF ItemType
  <2>3. CASE j \in Kept(c, context) /\ \E s \in new : i = Item(s)
    BY <2>3, <1>3, <1>4, <1>5, <1>6 DEF ItemType
  <2>4. CASE (\E s \in new : i = Item(s)) /\ (\E t \in new : j = Item(t))
    BY <2>4, <1>1, <1>6, <1>12
  <2>5. QED
    BY <2>1, <2>2, <2>3, <2>4, <1>8
<1>13. \A s \in new : \E j \in items' : j.storeId = s /\ j.storeContextId = context[s]
  BY <1>6, <1>7
<1>14. \A i, j \in items' : i.storeId = j.storeId =>
          i = j \/ i \in Kept(c, context) \/ j \in Kept(c, context)
  BY <1>6, <1>8
<1>15. QED
  BY <1>7, <1>9, <1>10, <1>11, <1>12, <1>13, <1>14 DEF new

\* What context may be: it differs from what was shown in stores of c only, and
\* in it ids are given to one store each.
ContextIsNext(c, context) ==
  /\ \A s \in StoreIds : Owner[s] # c => context[s] = contextOf[s]
  /\ \A s \in StoreIds : context[s] <= contexts'
  /\ \A s, t \in StoreIds : context[s] # 0 /\ context[s] = context[t] => s = t
  /\ \A i \in items, s \in StoreIds : context[s] = i.storeContextId => s = i.storeId

\* A tracker id means one presence of one store, before and after a step.
Meanings ==
  \A i \in items, j \in items' : i.trackerId = j.trackerId => i.storeContextId = j.storeContextId

LEMMA updateStoresStep ==
  ASSUME IInv, NEW c \in Providers, NEW context \in [StoreIds -> 0 .. MaxContexts],
         updateStores(c, context), ContextIsNext(c, context), contextOf' = context,
         contexts' \in 0 .. MaxContexts, contexts <= contexts', content' = content,
         sources' = sources, busySources' \subseteq busySources,
         busySources \subseteq busySources' \cup {c},
         busy' \in BOOLEAN, updated_p' \in 0 .. MaxQueued
  PROVE  IInv' /\ Meanings
<1> DEFINE new == NewStores(c, context)
           kept == Kept(c, context)
<1>1. /\ items' \subseteq ItemType /\ tracker_id_at' \in Nat
      /\ tracker_id_at <= tracker_id_at'
      /\ \A j \in items' : \/ j \in kept
                           \/ /\ j.storeId \in new /\ j.storeContextId = context[j.storeId]
                              /\ j.updateCount = 0 /\ tracker_id_at <= j.trackerId
      /\ \A j \in items' : j.trackerId < tracker_id_at'
      /\ \A i, j \in items' : i # j => i.trackerId # j.trackerId
      /\ \A i, j \in items' : i.storeId = j.storeId => i = j \/ i \in kept \/ j \in kept
      /\ kept \subseteq items'
      /\ \A s \in new : \E j \in items' : j.storeId = s /\ j.storeContextId = context[s]
  BY Updated_items
<1>2. /\ items \subseteq ItemType /\ tracker_id_at \in Nat /\ contexts \in Nat
      /\ content \in [StoreIds -> 0 .. MaxContent]
      /\ contextOf \in [StoreIds -> 0 .. MaxContexts]
      /\ busySources \subseteq sources /\ sources \subseteq Providers
  BY TrackerAssumption DEF IInv, TrackerTypeOK, ItemType
<1>3. /\ \A i \in kept : /\ i \in items
                         /\ Owner[i.storeId] = c => context[i.storeId] = i.storeContextId
      /\ \A i \in items : Owner[i.storeId] # c => i \in kept
      /\ \A i \in items : context[i.storeId] = i.storeContextId => i \in kept
  BY DEF Kept
<1>4. /\ new \subseteq StoreIds
      /\ \A s \in new : /\ Owner[s] = c /\ context[s] # 0
                        /\ \A i \in items : i.storeContextId # context[s]
      /\ \A s \in StoreIds : Owner[s] = c /\ context[s] # 0 /\ s \notin new
                           => \E i \in items : i.storeContextId = context[s]
  BY DEF NewStores
<1> HIDE DEF new, kept
<1>5. TrackerTypeOK'
  BY <1>1, <1>2 DEF TrackerTypeOK, ItemType
<1>6. OneItemEach'
  <2> SUFFICES ASSUME NEW i \in items', NEW j \in items', i # j, i.storeId = j.storeId
               PROVE  FALSE
    BY <1>1 DEF OneItemEach
  <2>1. CASE i \in kept /\ j \in kept
    BY <2>1, <1>3 DEF IInv, OneItemEach
  <2>2. ASSUME NEW k \in kept, NEW n \in items', k.storeId = n.storeId, n \notin kept
        PROVE  FALSE
    BY <2>2, <1>1, <1>3, <1>4
  <2>3. QED
    BY <2>1, <2>2, <1>1
<1>7. AllListed'
  <2> SUFFICES ASSUME NEW p \in sources' \ busySources' PROVE Lists(p, context, items')
    BY DEF AllListed
  <2>1. CASE p = c
    <3>1. ASSUME NEW j \in items', Owner[j.storeId] = c PROVE context[j.storeId] = j.storeContextId
      BY <3>1, <1>1, <1>3
    <3>2. ASSUME NEW s \in StoreIds, Owner[s] = c, context[s] # 0
          PROVE  \E j \in items' : j.storeId = s /\ j.storeContextId = context[s]
      <4>1. CASE s \in new
        BY <4>1, <1>1
      <4>2. CASE s \notin new
        <5>1. PICK i \in items : i.storeContextId = context[s]
          BY <3>2, <4>2, <1>4
        <5>2. s = i.storeId
          BY <5>1 DEF ContextIsNext
        <5>3. i \in items'
          BY <5>1, <5>2, <1>1, <1>3
        <5>4. QED
          BY <5>1, <5>2, <5>3
      <4>3. QED
        BY <4>1, <4>2
    <3>3. QED
      BY <2>1, <3>1, <3>2 DEF Lists
  <2>2. CASE p # c
    <3>1. Lists(p, contextOf, items)
      BY <2>2 DEF IInv, AllListed
    <3>2. \A s \in StoreIds : Owner[s] = p => context[s] = contextOf[s]
      BY <2>2 DEF ContextIsNext
    <3>3. \A j \in items' : j.storeId \in StoreIds
      BY <1>1 DEF ItemType
    <3>4. \A j \in items' : Owner[j.storeId] = p => j \in items
      BY <2>2, <1>1, <1>3, <1>4
    <3>5. \A i \in items : Owner[i.storeId] = p => i \in items'
      BY <2>2, <1>1, <1>3
    <3>6. QED
      BY <3>1, <3>2, <3>3, <3>4, <3>5 DEF Lists
  <2>3. QED
    BY <2>1, <2>2
<1>8. IdsGiven'
  <2>1. \A j \in items' : j.storeContextId <= contexts'
    <3> SUFFICES ASSUME NEW j \in items' PROVE j.storeContextId <= contexts'
      OBVIOUS
    <3>1. CASE j \in kept
      <4>1. j \in items /\ j.storeContextId \in Nat /\ j.storeContextId <= contexts
        BY <3>1, <1>2, <1>3 DEF IInv, IdsGiven, ItemType
      <4>2. QED
        BY <4>1, <1>2
    <3>2. CASE j \notin kept
      BY <3>2, <1>1, <1>4 DEF ContextIsNext
    <3>3. QED
      BY <3>1, <3>2
  <2>2. \A j \in items', s \in StoreIds : context[s] = j.storeContextId => s = j.storeId
    <3> SUFFICES ASSUME NEW j \in items', NEW s \in StoreIds, context[s] = j.storeContextId
                 PROVE  s = j.storeId
      OBVIOUS
    <3>1. CASE j \in kept
      BY <3>1, <1>3 DEF ContextIsNext
    <3>2. CASE j \notin kept
      BY <3>2, <1>1, <1>4 DEF ContextIsNext
    <3>3. QED
      BY <3>1, <3>2
  <2>3. QED
    BY <2>1, <2>2, <1>1 DEF IdsGiven, ContextIsNext
<1>9. CountsSeen'
  <2> SUFFICES ASSUME NEW j \in items' PROVE j.updateCount <= content[j.storeId]
    BY DEF CountsSeen
  <2>1. CASE j \in kept
    BY <2>1, <1>3 DEF IInv, CountsSeen
  <2>2. CASE j \notin kept
    BY <2>2, <1>1, <1>2, <1>4
  <2>3. QED
    BY <2>1, <2>2
<1>10. Meanings
  <2> SUFFICES ASSUME NEW i \in items, NEW j \in items', i.trackerId = j.trackerId
               PROVE  i.storeContextId = j.storeContextId
    BY DEF Meanings
  <2>1. i.trackerId \in Nat /\ i.trackerId < tracker_id_at
    BY <1>2 DEF IInv, IdsGiven, ItemType
  <2>2. j \in kept
    BY <2>1, <1>1, <1>2 DEF ItemType
  <2>3. i = j
    BY <2>2, <1>3 DEF IInv, OneItemEach
  <2>4. QED
    BY <2>3
<1>11. QED
  BY <1>5, <1>6, <1>7, <1>8, <1>9, <1>10 DEF IInv

\* A step that leaves the list alone, and what was shown.
LEMMA KeepsItems ==
  ASSUME IInv, items' = items, tracker_id_at' = tracker_id_at, contextOf' = contextOf,
         content' = content, contexts' = contexts,
         sources' \subseteq Providers, busySources' \subseteq sources',
         sources' \ busySources' \subseteq sources \ busySources,
         busy' \in BOOLEAN, updated_p' \in 0 .. MaxQueued
  PROVE  IInv' /\ Meanings
<1>1. TrackerTypeOK'
  BY DEF IInv, TrackerTypeOK
<1>2. OneItemEach' /\ IdsGiven' /\ CountsSeen'
  BY DEF IInv, OneItemEach, IdsGiven, CountsSeen
<1>3. AllListed'
  BY DEF IInv, AllListed, Lists
<1>4. Meanings
  BY DEF IInv, OneItemEach, Meanings
<1>5. QED
  BY <1>1, <1>2, <1>3, <1>4 DEF IInv

LEMMA startStep ==
  ASSUME IInv, NEW ps \in SUBSET Providers, start(ps)
  PROVE  IInv' /\ Meanings
  BY KeepsItems DEF IInv, TrackerTypeOK, start, storeVars

LEMMA ksl_busyEndStep ==
  ASSUME IInv, NEW c \in Providers, updated_p < MaxQueued, ksl_busyEnd(c)
  PROVE  IInv' /\ Meanings
<1>1. contextOf \in [StoreIds -> 0 .. MaxContexts] /\ contexts \in 0 .. MaxContexts
  BY DEF IInv, TrackerTypeOK
<1>2. updateStores(c, contextOf) /\ UNCHANGED <<contextOf, content, contexts, sources>>
  BY DEF ksl_busyEnd, storeVars
<1>3. ContextIsNext(c, contextOf)
  BY <1>2 DEF IInv, IdsGiven, ContextIsNext
<1>4. busySources' = busySources \ {c} /\ busy' \in BOOLEAN
  BY DEF ksl_busyEnd, IInv, TrackerTypeOK
<1>5. updated_p' \in 0 .. MaxQueued
  BY TrackerAssumption DEF ksl_busyEnd, IInv, TrackerTypeOK
<1>6. contexts \in Nat
  BY <1>1, TrackerAssumption
<1>7. QED
  BY <1>1, <1>2, <1>3, <1>4, <1>5, <1>6, updateStoresStep

LEMMA ksl_busyStartStep ==
  ASSUME IInv, NEW c \in Providers, updated_p < MaxQueued, ksl_busyStart(c)
  PROVE  IInv' /\ Meanings
<1>1. updated_p' \in 0 .. MaxQueued
  BY TrackerAssumption DEF ksl_busyStart, IInv, TrackerTypeOK
<1>2. QED
  BY <1>1, KeepsItems DEF IInv, TrackerTypeOK, ksl_busyStart, storeVars

\* A store comes or goes, and its provider tells of it now or when it has finished.
LEMMA AnnouncedStep ==
  ASSUME IInv, NEW c \in Providers, NEW context \in [StoreIds -> 0 .. MaxContexts],
         updated_p < MaxQueued, Announced(c, context), ContextIsNext(c, context),
         contextOf' = context, contexts' \in 0 .. MaxContexts, contexts <= contexts',
         UNCHANGED <<content, sources, busySources, busy>>
  PROVE  IInv' /\ Meanings
<1>1. busy' \in BOOLEAN /\ updated_p' \in 0 .. MaxQueued
  BY TrackerAssumption DEF Announced, IInv, TrackerTypeOK
<1>2. CASE c \in sources \ busySources
  BY <1>1, <1>2, updateStoresStep DEF Announced
<1>3. CASE c \notin sources \ busySources
  <2>1. UNCHANGED <<items, tracker_id_at>>
    BY <1>3 DEF Announced
  <2>2. TrackerTypeOK'
    BY <1>1, <2>1 DEF IInv, TrackerTypeOK
  <2>3. OneItemEach' /\ CountsSeen' /\ Meanings
    BY <2>1 DEF IInv, OneItemEach, CountsSeen, Meanings
  <2>4. AllListed'
    <3> SUFFICES ASSUME NEW p \in sources \ busySources PROVE Lists(p, context, items)
      BY <2>1 DEF AllListed
    <3>1. Lists(p, contextOf, items) /\ p # c
      BY <1>3 DEF IInv, AllListed
    <3>2. \A i \in items : i.storeId \in StoreIds
      BY DEF IInv, TrackerTypeOK
    <3>3. QED
      BY <3>1, <3>2 DEF Lists, ContextIsNext
  <2>5. IdsGiven'
    <3>1. \A i \in items : i.storeContextId <= contexts'
      <4> SUFFICES ASSUME NEW i \in items PROVE i.storeContextId <= contexts'
        OBVIOUS
      <4>1. i.storeContextId \in Nat /\ i.storeContextId <= contexts /\ contexts \in Nat
        BY TrackerAssumption DEF IInv, IdsGiven, TrackerTypeOK
      <4>2. QED
        BY <4>1, TrackerAssumption
    <3>2. QED
      BY <2>1, <3>1 DEF IInv, IdsGiven, ContextIsNext
  <2>6. QED
    BY <2>2, <2>3, <2>4, <2>5 DEF IInv
<1>4. QED
  BY <1>2, <1>3

LEMMA StoreAppearsStep ==
  ASSUME IInv, NEW s \in StoreIds, updated_p < MaxQueued, StoreAppears(s)
  PROVE  IInv' /\ Meanings
<1> DEFINE context == [contextOf EXCEPT ![s] = contexts + 1]
<1>1. /\ contextOf' = context /\ contexts' = contexts + 1 /\ Announced(Owner[s], contextOf')
      /\ UNCHANGED <<content, sources, busySources, busy>>
  BY DEF StoreAppears
<1>2. contexts \in Nat /\ contexts' \in 0 .. MaxContexts /\ contexts <= contexts'
  BY TrackerAssumption DEF StoreAppears, IInv, TrackerTypeOK
<1>3. /\ contextOf \in [StoreIds -> 0 .. MaxContexts] /\ context \in [StoreIds -> 0 .. MaxContexts]
      /\ Owner[s] \in Providers
  BY <1>1, <1>2, TrackerAssumption DEF IInv, TrackerTypeOK
<1>4. /\ context[s] = contexts + 1
      /\ \A t \in StoreIds \ {s} : context[t] = contextOf[t]
      /\ \A t \in StoreIds : contextOf[t] \in Nat /\ contextOf[t] <= contexts
      /\ \A i \in items : i.storeContextId \in Nat /\ i.storeContextId <= contexts
  BY <1>3, TrackerAssumption DEF IInv, IdsGiven, TrackerTypeOK
<1> HIDE DEF context
<1>5. ContextIsNext(Owner[s], context)
  <2>1. \A t \in StoreIds : Owner[t] # Owner[s] => context[t] = contextOf[t]
    BY <1>4
  <2>2. \A t \in StoreIds : context[t] <= contexts'
    BY <1>1, <1>2, <1>4
  <2>3. \A t, u \in StoreIds : context[t] # 0 /\ context[t] = context[u] => t = u
    BY <1>2, <1>4 DEF IInv, IdsGiven
  <2>4. \A i \in items, t \in StoreIds : context[t] = i.storeContextId => t = i.storeId
    BY <1>2, <1>4 DEF IInv, IdsGiven
  <2>5. QED
    BY <2>1, <2>2, <2>3, <2>4 DEF ContextIsNext
<1>6. Announced(Owner[s], context)
  BY <1>1
<1>7. QED
  BY <1>1, <1>2, <1>3, <1>5, <1>6, AnnouncedStep

LEMMA StoreGoesStep ==
  ASSUME IInv, NEW s \in StoreIds, updated_p < MaxQueued, StoreGoes(s)
  PROVE  IInv' /\ Meanings
<1> DEFINE context == [contextOf EXCEPT ![s] = 0]
<1>1. /\ contextOf' = context /\ contexts' = contexts /\ Announced(Owner[s], contextOf')
      /\ UNCHANGED <<content, sources, busySources, busy>>
  BY DEF StoreGoes
<1>2. contexts \in Nat /\ contexts' \in 0 .. MaxContexts /\ contexts <= contexts'
  BY <1>1, TrackerAssumption DEF IInv, TrackerTypeOK
<1>3. /\ contextOf \in [StoreIds -> 0 .. MaxContexts] /\ context \in [StoreIds -> 0 .. MaxContexts]
      /\ Owner[s] \in Providers
  <2>1. contextOf \in [StoreIds -> 0 .. MaxContexts]
    BY DEF IInv, TrackerTypeOK
  <2>2. 0 \in 0 .. MaxContexts
    BY TrackerAssumption
  <2>3. QED
    BY <2>1, <2>2, TrackerAssumption
<1>4. /\ context[s] = 0
      /\ \A t \in StoreIds \ {s} : context[t] = contextOf[t]
      /\ \A i \in items : i.storeContextId \in 1 .. MaxContexts
  BY <1>3, TrackerAssumption DEF IInv, TrackerTypeOK
<1> HIDE DEF context
<1>5. ContextIsNext(Owner[s], context)
  <2>1. \A t \in StoreIds : Owner[t] # Owner[s] => context[t] = contextOf[t]
    BY <1>4
  <2>2. \A t \in StoreIds : context[t] <= contexts'
    BY <1>1, <1>2, <1>4 DEF IInv, IdsGiven
  <2>3. \A t, u \in StoreIds : context[t] # 0 /\ context[t] = context[u] => t = u
    BY <1>4 DEF IInv, IdsGiven
  <2>4. \A i \in items, t \in StoreIds : context[t] = i.storeContextId => t = i.storeId
    BY <1>4, TrackerAssumption DEF IInv, IdsGiven
  <2>5. QED
    BY <2>1, <2>2, <2>3, <2>4 DEF ContextIsNext
<1>6. Announced(Owner[s], context)
  BY <1>1
<1>7. QED
  BY <1>1, <1>2, <1>3, <1>5, <1>6, AnnouncedStep

LEMMA ksl_storeUpdatedStep ==
  ASSUME IInv, NEW s \in StoreIds, updated_p < MaxQueued, ksl_storeUpdated(s)
  PROVE  IInv' /\ Meanings
<1> DEFINE known == {i \in items : i.storeContextId = contextOf[s]}
           Newer(i) == [i EXCEPT !.updateCount = @ + 1]
<1>1. /\ contextOf[s] # 0 /\ content[s] < MaxContent
      /\ content' = [content EXCEPT ![s] = @ + 1]
      /\ items' = (items \ known) \cup {Newer(i) : i \in known}
      /\ UNCHANGED <<contextOf, contexts, sources, busySources, busy, tracker_id_at>>
  BY DEF ksl_storeUpdated
<1>2. updated_p' \in 0 .. MaxQueued
  BY TrackerAssumption DEF ksl_storeUpdated, IInv, TrackerTypeOK
<1>3. /\ items \subseteq ItemType /\ content \in [StoreIds -> 0 .. MaxContent]
      /\ \A i \in items : i.updateCount <= content[i.storeId]
      /\ \A i \in known : i \in items /\ i.storeId = s
  BY DEF IInv, TrackerTypeOK, CountsSeen, IdsGiven, ItemType
<1>4. /\ content' \in [StoreIds -> 0 .. MaxContent]
      /\ content'[s] = content[s] + 1
      /\ \A t \in StoreIds \ {s} : content'[t] = content[t]
  BY <1>1, <1>3, TrackerAssumption
<1>5. \A i \in known : /\ Newer(i) \in ItemType /\ Newer(i).trackerId = i.trackerId
                       /\ Newer(i).storeId = i.storeId
                       /\ Newer(i).storeContextId = i.storeContextId
                       /\ Newer(i).updateCount = i.updateCount + 1
  <2> SUFFICES ASSUME NEW i \in known
               PROVE  /\ Newer(i) \in ItemType /\ Newer(i).trackerId = i.trackerId
                      /\ Newer(i).storeId = i.storeId
                      /\ Newer(i).storeContextId = i.storeContextId
                      /\ Newer(i).updateCount = i.updateCount + 1
    OBVIOUS
  <2>1. i \in ItemType /\ i.updateCount <= content[s]
    BY <1>3
  <2>2. i.updateCount + 1 \in 0 .. MaxContent
    <3>1. i.updateCount \in Nat /\ content[s] \in Nat
      BY <2>1, <1>3, TrackerAssumption DEF ItemType
    <3>2. QED
      BY <2>1, <3>1, <1>1, TrackerAssumption
  <2>3. QED
    BY <2>1, <2>2 DEF ItemType
<1> HIDE DEF known, Newer
\* Each item after the step is one from before, with the same ids.
<1>6. \A j \in items' : \E i \in items :
         /\ j.trackerId = i.trackerId /\ j.storeId = i.storeId
         /\ j.storeContextId = i.storeContextId
         /\ IF i \in known THEN j = Newer(i) ELSE j = i
  BY <1>1, <1>3, <1>5
<1>7. items' \subseteq ItemType
  BY <1>1, <1>3, <1>5
<1>8. TrackerTypeOK'
  BY <1>1, <1>2, <1>4, <1>7 DEF IInv, TrackerTypeOK, ItemType
<1>9. OneItemEach'
  BY <1>6 DEF IInv, OneItemEach
<1>10. AllListed'
  <2> SUFFICES ASSUME NEW p \in sources \ busySources PROVE Lists(p, contextOf, items')
    BY <1>1 DEF AllListed
  <2>1. Lists(p, contextOf, items)
    BY DEF IInv, AllListed
  <2>2. \A j \in items' : Owner[j.storeId] = p => contextOf[j.storeId] = j.storeContextId
    BY <1>6, <2>1 DEF Lists
  <2>3. \A i \in items : \E j \in items' :
           j.storeId = i.storeId /\ j.storeContextId = i.storeContextId
    BY <1>1, <1>5
  <2>4. QED
    BY <2>1, <2>2, <2>3 DEF Lists
<1>11. IdsGiven'
  <2>1. \A j \in items' : j.trackerId < tracker_id_at /\ j.storeContextId <= contexts
    BY <1>6 DEF IInv, IdsGiven
  <2>2. \A j \in items', t \in StoreIds : contextOf[t] = j.storeContextId => t = j.storeId
    BY <1>6 DEF IInv, IdsGiven
  <2>3. QED
    BY <1>1, <2>1, <2>2 DEF IInv, IdsGiven
<1>12. CountsSeen'
  <2> SUFFICES ASSUME NEW j \in items' PROVE j.updateCount <= content'[j.storeId]
    BY DEF CountsSeen
  <2>1. PICK i \in items : /\ j.storeId = i.storeId
                           /\ IF i \in known THEN j = Newer(i) ELSE j = i
    BY <1>6
  <2>2. i \in ItemType /\ i.updateCount <= content[i.storeId]
    BY <1>3
  <2>3. i.updateCount \in Nat /\ i.storeId \in StoreIds /\ content[i.storeId] \in Nat
    BY <2>2, <1>3, TrackerAssumption DEF ItemType
  <2>4. CASE i \in known
    BY <2>1, <2>2, <2>3, <2>4, <1>3, <1>4, <1>5
  <2>5. CASE i \notin known
    BY <2>1, <2>2, <2>3, <2>5, <1>4
  <2>6. QED
    BY <2>4, <2>5
<1>13. Meanings
  BY <1>6 DEF IInv, OneItemEach, Meanings
<1>14. QED
  BY <1>8, <1>9, <1>10, <1>11, <1>12, <1>13 DEF IInv

LEMMA SlotsStep ==
  ASSUME IInv, Slots
  PROVE  IInv' /\ Meanings
<1>1. updated_p < MaxQueued
  BY DEF Slots
<1>2. ASSUME NEW ps \in {Providers} \cup {{p} : p \in Providers}, start(ps)
      PROVE  IInv' /\ Meanings
  BY <1>2, startStep
<1>3. ASSUME NEW p \in Providers, ksl_busyEnd(p) \/ ksl_busyStart(p)
      PROVE  IInv' /\ Meanings
  BY <1>1, <1>3, ksl_busyEndStep, ksl_busyStartStep
<1>4. ASSUME NEW s \in StoreIds, StoreAppears(s) \/ StoreGoes(s) \/ ksl_storeUpdated(s)
      PROVE  IInv' /\ Meanings
  BY <1>1, <1>4, StoreAppearsStep, StoreGoesStep, ksl_storeUpdatedStep
<1>5. QED
  BY <1>2, <1>3, <1>4 DEF Slots

LEMMA updated_lockedStep ==
  ASSUME IInv, updated_locked
  PROVE  IInv' /\ Meanings
<1>1. updated_p' \in 0 .. MaxQueued
  BY TrackerAssumption DEF updated_locked, IInv, TrackerTypeOK
<1>2. QED
  BY <1>1, KeepsItems DEF IInv, TrackerTypeOK, updated_locked, storeVars

LEMMA StutterStep ==
  ASSUME IInv, UNCHANGED trackerVars
  PROVE  IInv' /\ Meanings
  BY KeepsItems DEF IInv, TrackerTypeOK, trackerVars

\* A step of the manager, of a KeyStore or of the threads is a step of the
\* tracker or leaves it alone.
LEMMA ManagerStep == Next => TrackerNext \/ UNCHANGED trackerVars
<1> SUFFICES ASSUME Next PROVE TrackerNext \/ UNCHANGED trackerVars
  OBVIOUS
<1>1. CASE Slots \/ Announce
  BY <1>1 DEF Announce, TrackerNext
<1>2. CASE Manager
  BY <1>2
  DEF Manager, KeyStoreManager, sync, sync_busy, sync_items, waitForBusyFinished,
      wait_return, go_on, update, update_busy, update_items, update_signals
<1>3. ASSUME NEW k \in KeyStores, KeyStoreObject(k) PROVE UNCHANGED trackerVars
  BY <1>3
  DEF KeyStoreObject, KeyStore, KeyStoreDeleted, startAsynchronousMode, KeyStoreOperation,
      op_finished
<1>4. QED
  BY <1>1, <1>2, <1>3 DEF Next

LEMMA StepIInv == IInv /\ [Next]_vars => IInv' /\ Meanings
<1> SUFFICES ASSUME IInv, [Next]_vars PROVE IInv' /\ Meanings
  OBVIOUS
<1>1. CASE Next
  BY <1>1, ManagerStep, SlotsStep, updated_lockedStep, StutterStep DEF TrackerNext
<1>2. CASE UNCHANGED vars
  BY <1>2, StutterStep DEF vars, progVars
<1>3. QED
  BY <1>1, <1>2

----------------------------------------------------------------------------
\* The strengthened invariant of the tracker, in the whole system.
THEOREM Invariance == Spec => []IInv
<1>1. Init => IInv
  BY InitIInv DEF Init
<1>2. QED
  BY <1>1, StepIInv, PTL DEF Spec

\* The tracker's list has exactly the stores that the providers which have
\* finished show, each once, whatever comes, goes and changes in between
\* (updateStores()).
THEOREM ListCorrect == Spec => [](TrackerTypeOK /\ ItemsArePresent /\ OneItemEach)
<1>1. IInv => TrackerTypeOK /\ ItemsArePresent /\ OneItemEach
  BY IInvListed DEF IInv
<1>2. QED
  BY <1>1, Invariance, PTL

\* A tracker id never passes from one presence of a store to another.
THEOREM IdsCorrect == Spec => IdsNotReused
<1>1. IInv /\ [Next]_vars =>
        [\A i \in items, j \in items' :
           i.trackerId = j.trackerId => i.storeContextId = j.storeContextId]_trackerVars
  BY StepIInv DEF Meanings
<1>2. QED
  BY <1>1, Invariance, PTL DEF Spec, IdsNotReused

----------------------------------------------------------------------------
(* The manager's copies.                                                    *)

\* When nothing is on its way, what the manager has read so far is what the tracker
\* has now: all of it in its copies, or a part in what it is about to replace them with.
CopyInv ==
  updated_p = 0 /\ ~pending =>
    /\ app \in {"loop", "wait", "woken", "waited"} => mbusy = busy /\ mitems = items
    /\ app = "sync_items" => mbusy = busy
    /\ app = "update_items" => newbusy = busy
    /\ app = "slots" => newbusy = busy /\ newitems = items

\* The tracker changes nothing that others read without an event on its way.
LEMMA updateStoresTells ==
  ASSUME NEW c, NEW context, updateStores(c, context), ~Changed(c, context)
  PROVE  items' = items
<1>1. Kept(c, context) = items /\ NewStores(c, context) = {}
  BY DEF Changed
<1>2. PICK id \in [NewStores(c, context) -> tracker_id_at ..
                     tracker_id_at + Cardinality(NewStores(c, context)) - 1] :
        items' = Kept(c, context) \cup
          {[trackerId |-> id[s], storeContextId |-> context[s], storeId |-> s,
            updateCount |-> 0] : s \in NewStores(c, context)}
  BY DEF updateStores
<1>3. {[trackerId |-> id[s], storeContextId |-> context[s], storeId |-> s,
        updateCount |-> 0] : s \in NewStores(c, context)} = {}
  BY <1>1
<1>4. QED
  BY <1>1, <1>2, <1>3

LEMMA AnnouncedTells ==
  ASSUME NEW c, NEW context, updated_p \in Nat, Announced(c, context)
  PROVE  updated_p' > 0 \/ (updated_p' = updated_p /\ items' = items)
BY updateStoresTells DEF Announced

LEMMA SlotsTell ==
  ASSUME updated_p \in Nat, busy \in BOOLEAN, Slots
  PROVE  updated_p' > 0 \/ (updated_p' = updated_p /\ busy' = busy /\ items' = items)
<1>1. ASSUME NEW ps, start(ps)
      PROVE  updated_p' = updated_p /\ busy' = busy /\ items' = items
  BY <1>1 DEF start
<1>2. ASSUME NEW c \in Providers, ksl_busyEnd(c)
      PROVE  updated_p' > 0 \/ (updated_p' = updated_p /\ busy' = busy /\ items' = items)
  <2>1. CASE busySources' = {} \/ Changed(c, contextOf)
    BY <1>2, <2>1 DEF ksl_busyEnd
  <2>2. CASE busySources' # {} /\ ~Changed(c, contextOf)
    <3>1. updateStores(c, contextOf) /\ updated_p' = updated_p
          /\ busy' = (busy /\ busySources' # {})
      BY <1>2, <2>2 DEF ksl_busyEnd
    <3>2. items' = items
      BY <2>2, <3>1, updateStoresTells
    <3>3. busy' = busy
      BY <2>2, <3>1
    <3>4. QED
      BY <3>1, <3>2, <3>3
  <2>3. QED
    BY <2>1, <2>2
<1>3. ASSUME NEW c \in Providers, ksl_busyStart(c) PROVE updated_p' > 0
  BY <1>3 DEF ksl_busyStart
<1>4. ASSUME NEW s \in StoreIds, StoreAppears(s) \/ StoreGoes(s)
      PROVE  updated_p' > 0 \/ (updated_p' = updated_p /\ busy' = busy /\ items' = items)
  <2>1. Announced(Owner[s], contextOf') /\ busy' = busy
    BY <1>4 DEF StoreAppears, StoreGoes
  <2>2. QED
    BY <2>1, AnnouncedTells
<1>5. ASSUME NEW s \in StoreIds, ksl_storeUpdated(s)
      PROVE  updated_p' > 0 \/ (updated_p' = updated_p /\ busy' = busy /\ items' = items)
  <2> DEFINE known == {i \in items : i.storeContextId = contextOf[s]}
             newer == {[i EXCEPT !.updateCount = @ + 1] : i \in known}
  <2>1. /\ items' = (items \ known) \cup newer /\ busy' = busy
        /\ updated_p' = IF known # {} THEN updated_p + 1 ELSE updated_p
    BY <1>5 DEF ksl_storeUpdated
  <2>2. known = {} => newer = {}
    OBVIOUS
  <2> HIDE DEF known, newer
  <2>3. QED
    BY <2>1, <2>2
<1>6. QED
  BY <1>1, <1>2, <1>3, <1>4, <1>5 DEF Slots

LEMMA CopyStep ==
  ASSUME IInv, CopyInv, [Next]_vars
  PROVE  CopyInv'
<1>1. updated_p \in Nat /\ busy \in BOOLEAN /\ MaxQueued \in Nat
  BY TrackerAssumption DEF IInv, TrackerTypeOK
<1>2. CASE Slots /\ UNCHANGED managerVars
  <2>1. updated_p' > 0 \/ (updated_p' = updated_p /\ busy' = busy /\ items' = items)
    BY <1>1, <1>2, SlotsTell
  <2>2. UNCHANGED <<app, mbusy, mitems, pending, newbusy, newitems>>
    BY <1>2 DEF managerVars
  <2>3. CASE updated_p' > 0
    BY <2>3 DEF CopyInv
  <2>4. CASE updated_p' = updated_p /\ busy' = busy /\ items' = items
    BY <2>2, <2>4 DEF CopyInv
  <2>5. QED
    BY <2>1, <2>3, <2>4
<1>3. CASE Announce
  <2>1. CASE app = "none"
    <3>1. app' = "none"
      BY <1>3, <2>1 DEF Announce, managerVars
    <3>2. QED
      BY <3>1 DEF CopyInv
  <2>2. CASE app # "none"
    <3>1. pending' = TRUE
      BY <1>3, <2>2 DEF Announce, tracker_updated
    <3>2. QED
      BY <3>1 DEF CopyInv
  <2>3. QED
    BY <2>1, <2>2
<1>4. CASE KeyStoreManager \/ sync \/ sync_busy \/ sync_items
  BY <1>4 DEF KeyStoreManager, sync, sync_busy, sync_items, trackerVars, CopyInv
<1>5. CASE waitForBusyFinished \/ wait_return \/ go_on
  BY <1>5 DEF waitForBusyFinished, wait_return, go_on, trackerVars, CopyInv
<1>6. CASE update \/ update_busy \/ update_items
  BY <1>6 DEF update, update_busy, update_items, trackerVars, CopyInv
<1>7. CASE update_signals
  <2>1. /\ app = "slots" /\ app' = "loop" /\ mbusy' = newbusy /\ mitems' = newitems
        /\ UNCHANGED <<updated_p, busy, items, pending>>
    BY <1>7 DEF update_signals, trackerVars
  <2>2. QED
    BY <2>1 DEF CopyInv
<1>8. ASSUME NEW k \in KeyStores, KeyStoreObject(k) PROVE CopyInv'
  <2>1. UNCHANGED <<updated_p, busy, items, app, mbusy, mitems, pending, newbusy, newitems>>
    BY <1>8
    DEF KeyStoreObject, KeyStore, KeyStoreDeleted, startAsynchronousMode, KeyStoreOperation,
        op_finished, trackerVars
  <2>2. QED
    BY <2>1 DEF CopyInv
<1>9. CASE UNCHANGED vars
  BY <1>9 DEF vars, progVars, trackerVars, managerVars, CopyInv
<1>10. QED
  BY <1>2, <1>3, <1>4, <1>5, <1>6, <1>7, <1>8, <1>9 DEF Next, Manager

\* When nothing is on its way, the manager has the tracker's state: no change is lost,
\* whatever happens while update(), sync() or a wait reads it in two parts.
THEOREM CopiesFollow == Spec => []UpToDate
<1>1. Init => CopyInv
  BY DEF Init, CopyInv
<1>2. IInv /\ CopyInv /\ [Next]_vars => CopyInv'
  BY CopyStep
<1>3. CopyInv => UpToDate
  BY DEF CopyInv, UpToDate, Quiet
<1>4. QED
  BY <1>1, <1>2, <1>3, Invariance, PTL DEF Spec

----------------------------------------------------------------------------
(* The copies, and what they are compared with.                             *)

\* Item i has become j: as long as the store is there as it is listed, a change of
\* its entries is a change of the count.
Moved(i, j) ==
  /\ i.trackerId = j.trackerId /\ i.storeId = j.storeId /\ i.updateCount <= j.updateCount
  /\ contextOf'[j.storeId] = j.storeContextId =>
       /\ contextOf[i.storeId] = i.storeContextId
       /\ content'[j.storeId] + i.updateCount = content[j.storeId] + j.updateCount

ItemsMove ==
  /\ tracker_id_at <= tracker_id_at'
  /\ \A j \in items' : tracker_id_at <= j.trackerId \/ \E i \in items : Moved(i, j)

LEMMA UpdatedMove ==
  ASSUME IInv, NEW c \in Providers, contextOf' \in [StoreIds -> 0 .. MaxContexts],
         updateStores(c, contextOf'), content' = content,
         \A i \in items : contextOf'[i.storeId] = i.storeContextId
                            => contextOf[i.storeId] = i.storeContextId
  PROVE  ItemsMove
<1>1. /\ tracker_id_at <= tracker_id_at'
      /\ \A j \in items' : j \in Kept(c, contextOf') \/ tracker_id_at <= j.trackerId
  BY Updated_items
<1>2. Kept(c, contextOf') \subseteq items
  BY DEF Kept
<1>3. ASSUME NEW j \in items PROVE Moved(j, j)
  <2>1. j.updateCount \in Nat /\ content[j.storeId] \in Nat
    BY TrackerAssumption DEF IInv, TrackerTypeOK
  <2>2. QED
    BY <2>1 DEF Moved
<1>4. QED
  BY <1>1, <1>2, <1>3 DEF ItemsMove

LEMMA StayingMove ==
  ASSUME IInv, items' = items, tracker_id_at' = tracker_id_at, content' = content,
         \A i \in items : contextOf'[i.storeId] = i.storeContextId
                            => contextOf[i.storeId] = i.storeContextId
  PROVE  ItemsMove
<1>1. ASSUME NEW j \in items PROVE Moved(j, j)
  <2>1. j.updateCount \in Nat /\ content[j.storeId] \in Nat
    BY TrackerAssumption DEF IInv, TrackerTypeOK
  <2>2. QED
    BY <2>1 DEF Moved
<1>2. tracker_id_at \in Nat
  BY DEF IInv, TrackerTypeOK
<1>3. QED
  BY <1>1, <1>2 DEF ItemsMove

LEMMA AnnouncedMove ==
  ASSUME IInv, NEW c \in Providers, contextOf' \in [StoreIds -> 0 .. MaxContexts],
         Announced(c, contextOf'), content' = content,
         \A i \in items : contextOf'[i.storeId] = i.storeContextId
                            => contextOf[i.storeId] = i.storeContextId
  PROVE  ItemsMove
<1>1. updateStores(c, contextOf') \/ (items' = items /\ tracker_id_at' = tracker_id_at)
  BY DEF Announced
<1>2. QED
  BY <1>1, UpdatedMove, StayingMove

LEMMA storeUpdatedMove ==
  ASSUME IInv, NEW s \in StoreIds, ksl_storeUpdated(s)
  PROVE  ItemsMove
<1> DEFINE known == {i \in items : i.storeContextId = contextOf[s]}
           Newer(i) == [i EXCEPT !.updateCount = @ + 1]
<1>1. /\ content' = [content EXCEPT ![s] = @ + 1]
      /\ items' = (items \ known) \cup {Newer(i) : i \in known}
      /\ contextOf' = contextOf /\ tracker_id_at' = tracker_id_at
  BY DEF ksl_storeUpdated
<1>2. /\ items \subseteq ItemType /\ content \in [StoreIds -> 0 .. MaxContent]
      /\ contextOf \in [StoreIds -> 0 .. MaxContexts] /\ tracker_id_at \in Nat
      /\ \A i \in known : i \in items /\ i.storeId = s
  BY DEF IInv, TrackerTypeOK, IdsGiven, ItemType
<1>3. ASSUME NEW i \in items, i \notin known PROVE Moved(i, i)
  <2>1. i.updateCount \in Nat /\ content[i.storeId] \in Nat /\ i.storeId \in StoreIds
    BY <1>2, TrackerAssumption DEF ItemType
  <2>2. i.storeContextId # contextOf[s]
    BY <1>3
  <2>3. CASE i.storeId = s
    BY <1>1, <2>1, <2>2, <2>3 DEF Moved
  <2>4. CASE i.storeId # s
    BY <1>1, <1>2, <2>1, <2>4 DEF Moved
  <2>5. QED
    BY <2>3, <2>4
<1>4. ASSUME NEW i \in known PROVE Moved(i, Newer(i))
  <2>1. i \in ItemType /\ i.storeId = s
    BY <1>2
  <2>2. i.updateCount \in Nat /\ content[s] \in Nat /\ content'[s] = content[s] + 1
    BY <1>1, <1>2, <2>1, TrackerAssumption DEF ItemType
  <2>3. /\ Newer(i).trackerId = i.trackerId /\ Newer(i).storeId = s
        /\ Newer(i).storeContextId = i.storeContextId
        /\ Newer(i).updateCount = i.updateCount + 1
    BY <2>1 DEF ItemType
  <2>4. i.storeContextId = contextOf[s]
    OBVIOUS
  <2> HIDE DEF Newer, known
  <2>5. QED
    BY <2>1, <2>2, <2>3, <2>4 DEF Moved
<1> HIDE DEF known, Newer
<1>5. \A j \in items' : \E i \in items : Moved(i, j)
  BY <1>1, <1>2, <1>3, <1>4
<1>6. QED
  BY <1>1, <1>2, <1>5 DEF ItemsMove

LEMMA TrackerMoves ==
  ASSUME IInv, IInv', TrackerNext \/ UNCHANGED trackerVars
  PROVE  ItemsMove
<1>1. /\ contextOf \in [StoreIds -> 0 .. MaxContexts] /\ contexts \in Nat
      /\ contextOf' \in [StoreIds -> 0 .. MaxContexts]
      /\ \A i \in items : i.storeContextId <= contexts /\ i.storeContextId \in Nat \ {0}
                          /\ i.storeId \in StoreIds
  BY TrackerAssumption DEF IInv, TrackerTypeOK, IdsGiven
<1>2. CASE UNCHANGED trackerVars \/ updated_locked
  BY <1>2, StayingMove DEF trackerVars, updated_locked, storeVars
<1>3. ASSUME NEW ps, start(ps) PROVE ItemsMove
  BY <1>3, StayingMove DEF start, storeVars
<1>4. ASSUME NEW c \in Providers, ksl_busyStart(c) PROVE ItemsMove
  BY <1>4, StayingMove DEF ksl_busyStart, storeVars
<1>5. ASSUME NEW c \in Providers, ksl_busyEnd(c) PROVE ItemsMove
  <2>1. updateStores(c, contextOf) /\ contextOf' = contextOf /\ content' = content
    BY <1>5 DEF ksl_busyEnd, storeVars
  <2>2. QED
    BY <1>1, <2>1, UpdatedMove
<1>6. ASSUME NEW s \in StoreIds, StoreAppears(s) PROVE ItemsMove
  <2>1. /\ contextOf' = [contextOf EXCEPT ![s] = contexts + 1] /\ content' = content
        /\ Announced(Owner[s], contextOf')
    BY <1>6 DEF StoreAppears
  <2>2. \A i \in items : contextOf'[i.storeId] = i.storeContextId
                           => contextOf[i.storeId] = i.storeContextId
    BY <1>1, <2>1
  <2>3. QED
    BY <1>1, <2>1, <2>2, AnnouncedMove, TrackerAssumption
<1>7. ASSUME NEW s \in StoreIds, StoreGoes(s) PROVE ItemsMove
  <2>1. /\ contextOf' = [contextOf EXCEPT ![s] = 0] /\ content' = content
        /\ Announced(Owner[s], contextOf')
    BY <1>7 DEF StoreGoes
  <2>2. \A i \in items : contextOf'[i.storeId] = i.storeContextId
                           => contextOf[i.storeId] = i.storeContextId
    BY <1>1, <2>1
  <2>3. QED
    BY <1>1, <2>1, <2>2, AnnouncedMove, TrackerAssumption
<1>8. ASSUME NEW s \in StoreIds, ksl_storeUpdated(s) PROVE ItemsMove
  BY <1>8, storeUpdatedMove
<1>9. QED
  BY <1>2, <1>3, <1>4, <1>5, <1>6, <1>7, <1>8 DEF TrackerNext, Slots

\* An item of list its is, in a list of later, of the same store, and has not fewer changes.
Later(its, now) ==
  \A i \in its, j \in now :
    i.trackerId = j.trackerId => i.storeId = j.storeId /\ i.updateCount <= j.updateCount

\* its is the tracker's list as it was once: now is what it has become, and at the next
\* tracker id.
CopyAt(its, now, at) ==
  /\ its \subseteq ItemType
  /\ \A i, j \in its : i.trackerId = j.trackerId \/ i.storeId = j.storeId => i = j
  /\ \A i \in its : i.trackerId < at
  /\ Later(its, now)

\* The manager's copies are the tracker's list as it was once, the one that it is about
\* to take being the newer.
Copies ==
  /\ CopyAt(mitems, items, tracker_id_at) /\ CopyAt(newitems, items, tracker_id_at)
  /\ app = "slots" => Later(mitems, newitems)

LEMMA CopyStays ==
  ASSUME IInv, IInv', ItemsMove, NEW its, CopyAt(its, items, tracker_id_at)
  PROVE  CopyAt(its, items', tracker_id_at')
<1>1. tracker_id_at \in Nat /\ tracker_id_at' \in Nat /\ items \subseteq ItemType
      /\ items' \subseteq ItemType
  BY DEF IInv, TrackerTypeOK, ItemType
<1>2. \A i \in its : i.trackerId < tracker_id_at'
  BY <1>1 DEF CopyAt, ItemsMove, ItemType
<1>3. ASSUME NEW i \in its, NEW j \in items', i.trackerId = j.trackerId
      PROVE  i.storeId = j.storeId /\ i.updateCount <= j.updateCount
  <2>1. i.trackerId \in Nat /\ i.updateCount \in Nat /\ i.trackerId < tracker_id_at
    BY TrackerAssumption DEF CopyAt, ItemType
  <2>2. PICK n \in items : /\ n.trackerId = j.trackerId /\ n.storeId = j.storeId
                           /\ n.updateCount <= j.updateCount
    BY <1>1, <1>3, <2>1 DEF ItemsMove, Moved
  <2>3. i.storeId = n.storeId /\ i.updateCount <= n.updateCount
    BY <1>3, <2>2 DEF CopyAt, Later
  <2>4. n.updateCount \in Nat /\ j.updateCount \in Nat
    BY <1>1, TrackerAssumption DEF ItemType
  <2>5. QED
    BY <2>1, <2>2, <2>3, <2>4
<1>4. QED
  BY <1>2, <1>3 DEF CopyAt, Later

LEMMA CopyNow ==
  ASSUME IInv
  PROVE  CopyAt(items, items, tracker_id_at)
<1>1. items \subseteq ItemType
  BY DEF IInv, TrackerTypeOK, ItemType
<1>2. \A i \in items : i.updateCount \in Nat
  BY <1>1, TrackerAssumption DEF ItemType
<1>3. QED
  BY <1>1, <1>2 DEF CopyAt, Later, IInv, OneItemEach, IdsGiven

----------------------------------------------------------------------------
(* The KeyStore objects and the manager's hash of them.                     *)

ObjectType ==
  [state : {"none", "valid", "gone"}, trackerId : Nat \cup {Nothing}, async : BOOLEAN,
   need_update : BOOLEAN, latest : Nat \cup {Nothing}, op : {"none", "run", "done"},
   opId : Nat \cup {Nothing}, result : Nat \cup {Nothing}]

ObjectOK(obj) ==
  /\ obj.op # "none" => obj.async
  /\ obj.need_update => obj.op # "none"
  /\ obj.state # "valid" <=> obj.trackerId = Nothing

\* The types of the manager, all but the tracker's.
ManagerTypes ==
  /\ app \in {"none", "loop", "sync_busy", "sync_items", "wait", "woken", "waited",
              "update_busy", "update_items", "slots"}
  /\ {mbusy, pending, waiting, newbusy, absorbed} \subseteq BOOLEAN
  /\ waiting <=> app \in {"wait", "woken"}

ObjectTypes ==
  /\ keystore \in [KeyStores -> ObjectType]
  /\ \A k \in KeyStores : ObjectOK(keystore[k])
  /\ DOMAIN registered = {k \in KeyStores : keystore[k].state = "valid"}

ManagerIInv == ManagerTypes /\ Copies /\ ObjectTypes /\ HashInOrder

LEMMA InitManager == Init => ManagerIInv
<1> SUFFICES ASSUME Init PROVE ManagerIInv
  OBVIOUS
<1>1. ManagerTypes
  BY DEF Init, ManagerTypes
<1>2. Copies
  BY DEF Init, Copies, CopyAt, Later
<1>3. NoKeyStore \in ObjectType /\ NoKeyStore.state = "none" /\ ObjectOK(NoKeyStore)
  BY DEF NoKeyStore, ObjectType, ObjectOK, Nothing
<1>4. ObjectTypes
  BY <1>3 DEF Init, ObjectTypes
<1>5. HashInOrder
  BY DEF Init, HashInOrder
<1>6. QED
  BY <1>1, <1>2, <1>4, <1>5 DEF ManagerIInv

LEMMA ManagerTypesStep ==
  ASSUME IInv, ManagerTypes, [Next]_vars
  PROVE  ManagerTypes'
<1>1. busy \in BOOLEAN
  BY DEF IInv, TrackerTypeOK
<1>2. absorbed' \in BOOLEAN
  BY DEF ManagerTypes, Next, vars
<1>3. CASE UNCHANGED managerVars
  BY <1>2, <1>3 DEF managerVars, ManagerTypes
<1>4. CASE Announce
  BY <1>1, <1>2, <1>4 DEF Announce, tracker_updated, managerVars, ManagerTypes
<1>5. CASE KeyStoreManager \/ sync \/ sync_busy \/ sync_items
  BY <1>1, <1>2, <1>5 DEF KeyStoreManager, sync, sync_busy, sync_items, ManagerTypes
<1>6. CASE waitForBusyFinished
  <2>1. /\ mbusy' = busy /\ waiting' = busy /\ pending' = pending /\ newbusy' = newbusy
        /\ app' = IF busy THEN "wait" ELSE "waited"
    BY <1>6 DEF waitForBusyFinished
  <2>2. CASE busy
    BY <1>1, <1>2, <2>1, <2>2 DEF ManagerTypes
  <2>3. CASE ~busy
    BY <1>1, <1>2, <2>1, <2>3 DEF ManagerTypes
  <2>4. QED
    BY <2>2, <2>3
<1>7. CASE wait_return \/ go_on
  <2>1. UNCHANGED <<mbusy, pending, newbusy>> /\ app' \in {"waited", "loop"} /\ ~waiting'
    BY <1>7 DEF wait_return, go_on, ManagerTypes
  <2>2. waiting' \in BOOLEAN
    BY <1>7 DEF wait_return, go_on, ManagerTypes
  <2>3. QED
    BY <1>2, <2>1, <2>2 DEF ManagerTypes
<1>8. CASE update
  BY <1>2, <1>8 DEF update, ManagerTypes
<1>9. CASE update_busy \/ update_items
  BY <1>1, <1>2, <1>9 DEF update_busy, update_items, ManagerTypes
<1>10. CASE update_signals
  BY <1>2, <1>10 DEF update_signals, ManagerTypes
<1>11. ASSUME NEW k \in KeyStores, KeyStoreObject(k) PROVE ManagerTypes'
  <2>1. UNCHANGED <<app, mbusy, pending, waiting, newbusy>>
    BY <1>11
    DEF KeyStoreObject, KeyStore, KeyStoreDeleted, startAsynchronousMode, KeyStoreOperation,
        op_finished
  <2>2. QED
    BY <1>2, <2>1 DEF ManagerTypes
<1>12. QED
  BY <1>3, <1>4, <1>5, <1>6, <1>7, <1>8, <1>9, <1>10, <1>11 DEF Next, Manager, vars, progVars

LEMMA CopiesStep ==
  ASSUME IInv, IInv', ManagerTypes, Copies, [Next]_vars
  PROVE  Copies'
<1>1. ItemsMove
  <2>1. TrackerNext \/ UNCHANGED trackerVars
    BY ManagerStep DEF vars, progVars
  <2>2. QED
    BY <2>1, TrackerMoves
<1>2. /\ CopyAt(mitems, items', tracker_id_at') /\ CopyAt(newitems, items', tracker_id_at')
      /\ CopyAt(items, items', tracker_id_at') /\ CopyAt({}, items', tracker_id_at')
  <2>1. CopyAt({}, items', tracker_id_at')
    BY DEF CopyAt, Later
  <2>2. QED
    BY <1>1, <2>1, CopyStays, CopyNow DEF Copies
<1>3. CASE UNCHANGED <<app, mitems, newitems>>
  BY <1>2, <1>3 DEF Copies
<1>4. CASE Announce
  <2>1. CASE ~waiting \/ app = "none"
    <3>1. UNCHANGED <<app, mitems, newitems>>
      BY <1>4, <2>1 DEF Announce, tracker_updated, managerVars
    <3>2. QED
      BY <1>3, <3>1
  <2>2. CASE waiting /\ app # "none"
    <3>1. newitems' = newitems /\ mitems' \in {mitems, items} /\ app' # "slots"
      BY <1>4, <2>2 DEF Announce, tracker_updated, ManagerTypes
    <3>2. QED
      BY <1>2, <3>1 DEF Copies
  <2>3. QED
    BY <2>1, <2>2
<1>5. CASE KeyStoreManager \/ sync \/ sync_busy \/ sync_items
  <2>1. newitems' = newitems /\ mitems' \in {mitems, items} /\ app' # "slots"
    BY <1>5 DEF KeyStoreManager, sync, sync_busy, sync_items
  <2>2. QED
    BY <1>2, <2>1 DEF Copies
<1>6. CASE waitForBusyFinished \/ wait_return \/ go_on
  <2>1. newitems' = newitems /\ mitems' = mitems /\ app' # "slots"
    BY <1>6 DEF waitForBusyFinished, wait_return, go_on
  <2>2. QED
    BY <1>2, <2>1 DEF Copies
<1>7. CASE update \/ update_busy
  <2>1. newitems' = newitems /\ mitems' = mitems /\ app' # "slots"
    BY <1>7 DEF update, update_busy
  <2>2. QED
    BY <1>2, <2>1 DEF Copies
<1>8. CASE update_items
  <2>1. newitems' = items /\ mitems' = mitems /\ items' = items
    BY <1>8 DEF update_items, trackerVars
  <2>2. Later(mitems', newitems')
    BY <2>1 DEF Copies, CopyAt
  <2>3. QED
    BY <1>2, <2>1, <2>2 DEF Copies
<1>9. CASE update_signals
  <2>1. newitems' = {} /\ mitems' = newitems /\ app' # "slots"
    BY <1>9 DEF update_signals
  <2>2. QED
    BY <1>2, <2>1 DEF Copies
<1>10. ASSUME NEW k \in KeyStores, KeyStoreObject(k) PROVE UNCHANGED <<app, mitems, newitems>>
  BY <1>10
  DEF KeyStoreObject, KeyStore, KeyStoreDeleted, startAsynchronousMode, KeyStoreOperation,
      op_finished
<1>11. QED
  BY <1>3, <1>4, <1>5, <1>6, <1>7, <1>8, <1>9, <1>10
  DEF Next, Manager, vars, progVars, managerVars

\* What the slots of an object leave.
LEMMA ObjectMoves ==
  ASSUME NEW obj \in ObjectType, ObjectOK(obj)
  PROVE  /\ invalidate(obj) \in ObjectType /\ ObjectOK(invalidate(obj))
         /\ invalidate(obj).state = "gone"
         /\ handle_updated(obj) \in ObjectType /\ ObjectOK(handle_updated(obj))
         /\ handle_updated(obj).state = obj.state /\ handle_updated(obj).trackerId = obj.trackerId
         /\ obj.async => /\ async_entryList(obj) \in ObjectType /\ ObjectOK(async_entryList(obj))
                        /\ async_entryList(obj).state = obj.state
                        /\ async_entryList(obj).trackerId = obj.trackerId
<1>1. Nothing \in Nat \cup {Nothing}
  OBVIOUS
<1>2. /\ invalidate(obj) \in ObjectType /\ ObjectOK(invalidate(obj))
      /\ invalidate(obj).state = "gone"
  BY <1>1 DEF invalidate, ObjectType, ObjectOK
<1>3. ASSUME obj.async
      PROVE  /\ async_entryList(obj) \in ObjectType /\ ObjectOK(async_entryList(obj))
             /\ async_entryList(obj).state = obj.state
             /\ async_entryList(obj).trackerId = obj.trackerId
  BY <1>3 DEF async_entryList, ObjectType, ObjectOK
<1>4. /\ handle_updated(obj) \in ObjectType /\ ObjectOK(handle_updated(obj))
      /\ handle_updated(obj).state = obj.state /\ handle_updated(obj).trackerId = obj.trackerId
  <2>1. CASE ~obj.async
    BY <2>1 DEF handle_updated
  <2>2. CASE obj.async /\ obj.op = "none"
    BY <2>2, <1>3 DEF handle_updated
  <2>3. CASE obj.async /\ obj.op # "none"
    <3>1. handle_updated(obj) = [obj EXCEPT !.need_update = TRUE]
      BY <2>3 DEF handle_updated
    <3>2. QED
      BY <2>3, <3>1 DEF ObjectType, ObjectOK
  <2>4. QED
    BY <2>1, <2>2, <2>3
<1>5. QED
  BY <1>2, <1>3, <1>4

LEMMA OrderStays ==
  ASSUME HashInOrder, registered' = registered,
         \A k \in DOMAIN registered : keystore'[k].trackerId = keystore[k].trackerId
  PROVE  HashInOrder'
BY DEF HashInOrder, With

\* reg() puts an object behind the others with its id.
LEMMA RegisteredInOrder ==
  ASSUME HashInOrder, NEW k \in KeyStores, k \notin DOMAIN registered, NEW id,
         registered' = Registered(k, id), keystore'[k].trackerId = id,
         \A j \in DOMAIN registered : keystore'[j].trackerId = keystore[j].trackerId
  PROVE  DOMAIN registered' = DOMAIN registered \cup {k} /\ HashInOrder'
<1>1. /\ DOMAIN registered' = DOMAIN registered \cup {k}
      /\ registered'[k] = With(id)
      /\ \A j \in DOMAIN registered : registered'[j] = registered[j]
  BY DEF Registered
<1>2. /\ With(id)' = With(id) \cup {k}
      /\ \A n : n # id => With(n)' = With(n)
  BY <1>1 DEF With
<1>3. ASSUME NEW j \in DOMAIN registered'
      PROVE  /\ j \notin registered'[j] /\ registered'[j] \subseteq With(keystore[j].trackerId)'
             /\ \A i \in With(keystore[j].trackerId)' \ {j} :
                  i \in registered'[j] <=> j \notin registered'[i]
  <2>1. CASE j = k
    <3>1. /\ j \notin registered'[j] /\ registered'[j] \subseteq With(keystore[j].trackerId)'
      BY <1>1, <1>2, <2>1 DEF With
    <3>2. ASSUME NEW i \in With(id)
          PROVE  i \in registered'[k] /\ k \notin registered'[i]
      <4>1. i \in DOMAIN registered /\ registered'[i] = registered[i]
        BY <1>1 DEF With
      <4>2. registered[i] \subseteq DOMAIN registered
        BY <4>1 DEF HashInOrder, With
      <4>3. QED
        BY <1>1, <4>1, <4>2
    <3>3. QED
      BY <1>2, <2>1, <3>1, <3>2
  <2>2. CASE j # k
    <3>1. /\ j \in DOMAIN registered /\ registered'[j] = registered[j]
          /\ keystore'[j].trackerId = keystore[j].trackerId
      BY <1>1, <2>2
    <3>2. /\ j \notin registered[j] /\ registered[j] \subseteq With(keystore[j].trackerId)
          /\ \A i \in With(keystore[j].trackerId) \ {j} :
               i \in registered[j] <=> j \notin registered[i]
      BY <3>1 DEF HashInOrder
    <3>3. registered[j] \subseteq DOMAIN registered
      BY <3>2 DEF With
    <3>4. ASSUME NEW i \in With(keystore[j].trackerId)', i # j
          PROVE  i \in registered'[j] <=> j \notin registered'[i]
      <4>1. CASE i = k
        <5>1. keystore[j].trackerId = id
          BY <3>1, <3>4, <4>1 DEF With
        <5>2. j \in registered'[k]
          BY <1>1, <3>1, <5>1 DEF With
        <5>3. QED
          BY <3>1, <3>3, <4>1, <5>2
      <4>2. CASE i # k
        <5>1. i \in With(keystore[j].trackerId) /\ registered'[i] = registered[i]
          BY <1>1, <1>2, <3>1, <3>4, <4>2 DEF With
        <5>2. QED
          BY <3>1, <3>2, <3>4, <5>1
      <4>3. QED
        BY <4>1, <4>2
    <3>5. registered'[j] \subseteq With(keystore[j].trackerId)'
      BY <1>2, <3>1, <3>2
    <3>6. QED
      BY <3>1, <3>2, <3>4, <3>5
  <2>3. QED
    BY <2>1, <2>2
<1>4. QED
  BY <1>1, <1>3 DEF HashInOrder

\* unreg() turns the order of the others round.
LEMMA UnregisteredInOrder ==
  ASSUME HashInOrder, NEW obj, registered' = Unregistered(obj),
         \A j \in DOMAIN registered \ obj : keystore'[j].trackerId = keystore[j].trackerId
  PROVE  DOMAIN registered' = DOMAIN registered \ obj /\ HashInOrder'
<1>1. /\ DOMAIN registered' = DOMAIN registered \ obj
      /\ \A j \in DOMAIN registered \ obj :
           LET others == With(keystore[j].trackerId)
           IN  registered'[j] = IF others \cap obj = {} THEN registered[j]
                                ELSE {i \in others \ obj : j \in registered[i]}
  BY DEF Unregistered
<1>2. \A n : With(n)' = With(n) \ obj
  BY <1>1 DEF With
<1>3. ASSUME NEW j \in DOMAIN registered \ obj
      PROVE  /\ j \notin registered'[j] /\ registered'[j] \subseteq With(keystore[j].trackerId)'
             /\ \A i \in With(keystore[j].trackerId)' \ {j} :
                  i \in registered'[j] <=> j \notin registered'[i]
  <2> DEFINE others == With(keystore[j].trackerId)
  <2>1. With(keystore[j].trackerId)' = others \ obj
    BY <1>2
  <2>2. /\ j \in others /\ j \notin registered[j] /\ registered[j] \subseteq others
        /\ \A i \in others \ {j} : i \in registered[j] <=> j \notin registered[i]
    BY DEF HashInOrder, With
  <2>3. ASSUME NEW i \in others \ obj
        PROVE  /\ registered'[i] = IF others \cap obj = {} THEN registered[i]
                                   ELSE {n \in others \ obj : i \in registered[n]}
               /\ i # j => (j \in registered[i] <=> i \notin registered[j])
    <3>1. i \in DOMAIN registered \ obj /\ With(keystore[i].trackerId) = others
      BY DEF With
    <3>2. i # j => (j \in registered[i] <=> i \notin registered[j])
      BY <2>2, <3>1
    <3>3. QED
      BY <1>1, <3>1, <3>2
  <2> HIDE DEF others
  <2>4. QED
    BY <2>1, <2>2, <2>3
<1>4. QED
  BY <1>1, <1>3 DEF HashInOrder

LEMMA UpdateSignalsObjects ==
  ASSUME ObjectTypes, HashInOrder, update_signals
  PROVE  ObjectTypes' /\ HashInOrder'
<1> DEFINE gone == UNION {Found(id) : id \in Gone}
           updated == UNION {Found(id) : id \in Updated}
<1>1. /\ keystore' = [k \in KeyStores |->
              IF k \in gone THEN invalidate(keystore[k])
              ELSE IF k \in updated THEN handle_updated(keystore[k])
              ELSE keystore[k]]
      /\ registered' = Unregistered(gone)
  BY DEF update_signals
<1>2. gone \subseteq DOMAIN registered
  BY DEF Found, With
<1> HIDE DEF gone, updated
<1>3. \A k \in KeyStores :
        /\ keystore'[k] \in ObjectType /\ ObjectOK(keystore'[k])
        /\ k \in gone => keystore'[k].state = "gone"
        /\ k \notin gone => /\ keystore'[k].state = keystore[k].state
                            /\ keystore'[k].trackerId = keystore[k].trackerId
  BY <1>1, ObjectMoves DEF ObjectTypes
<1>4. keystore' \in [KeyStores -> ObjectType]
  BY <1>1, <1>3
<1>5. DOMAIN registered \subseteq KeyStores
  BY DEF ObjectTypes
<1>6. DOMAIN registered' = DOMAIN registered \ gone /\ HashInOrder'
  BY <1>1, <1>3, <1>5, UnregisteredInOrder
<1>7. DOMAIN registered' = {k \in KeyStores : keystore'[k].state = "valid"}
  BY <1>2, <1>3, <1>6 DEF ObjectTypes
<1>8. QED
  BY <1>3, <1>4, <1>6, <1>7 DEF ObjectTypes

\* What a step of one object leaves, if it stays in the hash or out of it.
LEMMA ObjectStays ==
  ASSUME ObjectTypes, HashInOrder, NEW k \in KeyStores, NEW obj \in ObjectType, ObjectOK(obj),
         keystore' = [keystore EXCEPT ![k] = obj], registered' = registered,
         obj.state = keystore[k].state, obj.trackerId = keystore[k].trackerId
  PROVE  ObjectTypes' /\ HashInOrder'
<1>1. /\ keystore' \in [KeyStores -> ObjectType]
      /\ \A j \in KeyStores : /\ ObjectOK(keystore'[j])
                              /\ keystore'[j].state = keystore[j].state
                              /\ keystore'[j].trackerId = keystore[j].trackerId
  BY DEF ObjectTypes
<1>2. DOMAIN registered' = {j \in KeyStores : keystore'[j].state = "valid"}
  BY <1>1 DEF ObjectTypes
<1>3. HashInOrder'
  BY <1>1, OrderStays DEF ObjectTypes
<1>4. QED
  BY <1>1, <1>2, <1>3 DEF ObjectTypes

\* A new object goes into the hash.
LEMMA ObjectOpens ==
  ASSUME ObjectTypes, HashInOrder, NEW k \in KeyStores, keystore[k].state = "none",
         NEW obj \in ObjectType, ObjectOK(obj), obj.state = "valid",
         keystore' = [keystore EXCEPT ![k] = obj], registered' = Registered(k, obj.trackerId)
  PROVE  ObjectTypes' /\ HashInOrder'
<1>1. /\ keystore' \in [KeyStores -> ObjectType] /\ keystore'[k] = obj
      /\ \A j \in KeyStores \ {k} : keystore'[j] = keystore[j]
  BY DEF ObjectTypes
<1>2. k \notin DOMAIN registered /\ DOMAIN registered \subseteq KeyStores
  BY DEF ObjectTypes
<1>3. DOMAIN registered' = DOMAIN registered \cup {k} /\ HashInOrder'
  BY <1>1, <1>2, RegisteredInOrder
<1>4. DOMAIN registered' = {j \in KeyStores : keystore'[j].state = "valid"}
  BY <1>1, <1>3 DEF ObjectTypes
<1>5. QED
  BY <1>1, <1>3, <1>4 DEF ObjectTypes

LEMMA entryListType ==
  ASSUME IInv, NEW id
  PROVE  entryList(id) \in Nat \cup {Nothing}
<1>1. \A i \in items : content[i.storeId] \in Nat
  BY TrackerAssumption DEF IInv, TrackerTypeOK
<1>2. QED
  BY <1>1 DEF entryList

LEMMA ObjectStep ==
  ASSUME IInv, ManagerIInv, NEW k \in KeyStores, KeyStoreObject(k)
  PROVE  ObjectTypes' /\ HashInOrder'
<1>1. keystore[k] \in ObjectType /\ ObjectOK(keystore[k]) /\ ObjectTypes /\ HashInOrder
  BY DEF ManagerIInv, ObjectTypes
<1>2. NoKeyStore \in ObjectType /\ NoKeyStore.state = "none" /\ ObjectOK(NoKeyStore)
  BY DEF NoKeyStore, ObjectType, ObjectOK, Nothing
<1>3. ASSUME NEW i \in mitems, KeyStore(k, i)
      PROVE  ObjectTypes' /\ HashInOrder'
  <2> DEFINE obj == [NoKeyStore EXCEPT !.state = "valid", !.trackerId = i.trackerId]
  <2>1. i.trackerId \in Nat
    BY DEF ManagerIInv, Copies, CopyAt, ItemType
  <2>2. /\ obj \in ObjectType /\ ObjectOK(obj) /\ obj.state = "valid" /\ obj.trackerId = i.trackerId
    <3>1. NoKeyStore.op = "none" /\ NoKeyStore.need_update = FALSE
      BY DEF NoKeyStore
    <3>2. i.trackerId # Nothing
      BY <2>1 DEF Nothing
    <3>3. /\ obj.state = "valid" /\ obj.trackerId = i.trackerId /\ obj.op = NoKeyStore.op
          /\ obj.need_update = NoKeyStore.need_update
      BY <1>2 DEF ObjectType
    <3>4. obj \in ObjectType
      BY <1>2, <2>1 DEF ObjectType
    <3> HIDE DEF obj
    <3>5. ObjectOK(obj)
      BY <3>1, <3>2, <3>3 DEF ObjectOK
    <3>6. QED
      BY <3>3, <3>4, <3>5
  <2>3. /\ keystore' = [keystore EXCEPT ![k] = obj] /\ registered' = Registered(k, i.trackerId)
        /\ keystore[k].state = "none"
    BY <1>3 DEF KeyStore
  <2> HIDE DEF obj
  <2>4. QED
    BY <1>1, <2>2, <2>3, ObjectOpens
<1>4. CASE KeyStoreDeleted(k)
  <2>1. /\ keystore' = [keystore EXCEPT ![k] = NoKeyStore]
        /\ registered' = IF keystore[k].state = "valid" THEN Unregistered({k}) ELSE registered
    BY <1>4 DEF KeyStoreDeleted
  <2>2. /\ keystore' \in [KeyStores -> ObjectType] /\ keystore'[k] = NoKeyStore
        /\ \A j \in KeyStores \ {k} : keystore'[j] = keystore[j]
    BY <1>1, <1>2, <2>1 DEF ObjectTypes
  <2>3. DOMAIN registered = {j \in KeyStores : keystore[j].state = "valid"}
    BY <1>1 DEF ObjectTypes
  <2>4. DOMAIN registered' = DOMAIN registered \ {k} /\ HashInOrder'
    <3>1. CASE keystore[k].state = "valid"
      BY <1>1, <2>1, <2>2, <2>3, <3>1, UnregisteredInOrder
    <3>2. CASE keystore[k].state # "valid"
      BY <1>1, <2>1, <2>2, <2>3, <3>2, OrderStays
    <3>3. QED
      BY <3>1, <3>2
  <2>5. DOMAIN registered' = {j \in KeyStores : keystore'[j].state = "valid"}
    BY <1>2, <2>2, <2>3, <2>4
  <2>6. QED
    BY <1>1, <1>2, <2>2, <2>4, <2>5 DEF ObjectTypes
<1>5. CASE startAsynchronousMode(k)
  <2> DEFINE obj == [keystore[k] EXCEPT !.async = TRUE]
  <2>1. /\ keystore' = [keystore EXCEPT ![k] = async_entryList(obj)] /\ registered' = registered
    BY <1>1, <1>5 DEF startAsynchronousMode, ObjectTypes
  <2>2. /\ obj \in ObjectType /\ ObjectOK(obj) /\ obj.async
        /\ obj.state = keystore[k].state /\ obj.trackerId = keystore[k].trackerId
    BY <1>1 DEF ObjectType, ObjectOK
  <2> HIDE DEF obj
  <2>3. /\ async_entryList(obj) \in ObjectType /\ ObjectOK(async_entryList(obj))
        /\ async_entryList(obj).state = keystore[k].state
        /\ async_entryList(obj).trackerId = keystore[k].trackerId
    BY <2>2, ObjectMoves
  <2>4. QED
    BY <1>1, <2>1, <2>3, ObjectStays
<1>6. CASE KeyStoreOperation(k)
  <2> DEFINE obj == [keystore[k] EXCEPT !.op = "done", !.result = entryList(keystore[k].opId)]
  <2>1. /\ keystore' = [keystore EXCEPT ![k] = obj] /\ registered' = registered
        /\ keystore[k].op = "run"
    BY <1>1, <1>6 DEF KeyStoreOperation, ObjectTypes
  <2>2. /\ obj \in ObjectType /\ ObjectOK(obj)
        /\ obj.state = keystore[k].state /\ obj.trackerId = keystore[k].trackerId
    BY <1>1, <2>1, entryListType DEF ObjectType, ObjectOK
  <2>3. QED
    BY <1>1, <2>1, <2>2, ObjectStays
<1>7. CASE op_finished(k)
  <2> DEFINE obj == [keystore[k] EXCEPT !.latest = keystore[k].result, !.op = "none",
                                       !.opId = Nothing, !.result = Nothing]
  <2>1. /\ keystore' = [keystore EXCEPT ![k] =
                          IF obj.need_update THEN async_entryList(obj) ELSE obj]
        /\ registered' = registered /\ keystore[k].op = "done"
    BY <1>7 DEF op_finished
  <2>2. /\ obj \in ObjectType /\ obj.need_update = keystore[k].need_update /\ obj.op = "none"
        /\ obj.state = keystore[k].state /\ obj.trackerId = keystore[k].trackerId
        /\ obj.async
    BY <1>1, <2>1 DEF ObjectType, ObjectOK
  <2> HIDE DEF obj
  <2>3. CASE ~obj.need_update
    <3>1. ObjectOK(obj)
      BY <1>1, <2>2, <2>3 DEF ObjectOK
    <3>2. keystore' = [keystore EXCEPT ![k] = obj]
      BY <2>1, <2>3
    <3>3. QED
      BY <1>1, <2>1, <2>2, <3>1, <3>2, ObjectStays
  <2>4. CASE obj.need_update
    <3>1. /\ async_entryList(obj) \in ObjectType /\ ObjectOK(async_entryList(obj))
          /\ async_entryList(obj).state = obj.state
          /\ async_entryList(obj).trackerId = obj.trackerId
      BY <1>1, <2>2 DEF async_entryList, ObjectType, ObjectOK
    <3>2. keystore' = [keystore EXCEPT ![k] = async_entryList(obj)]
      BY <2>1, <2>4
    <3>3. QED
      BY <1>1, <2>1, <2>2, <3>1, <3>2, ObjectStays
  <2>5. QED
    BY <2>3, <2>4
<1>8. QED
  BY <1>3, <1>4, <1>5, <1>6, <1>7 DEF KeyStoreObject

LEMMA ManagerIInvStep ==
  ASSUME IInv, ManagerIInv, [Next]_vars
  PROVE  ManagerIInv'
<1>1. IInv'
  BY StepIInv
<1>2. ManagerTypes' /\ Copies'
  BY <1>1, ManagerTypesStep, CopiesStep DEF ManagerIInv
<1>3. ObjectTypes' /\ HashInOrder'
  <2>1. CASE UNCHANGED <<keystore, registered>>
    BY <2>1 DEF ManagerIInv, ObjectTypes, HashInOrder, With
  <2>2. CASE update_signals
    BY <2>2, UpdateSignalsObjects DEF ManagerIInv
  <2>3. CASE \E k \in KeyStores : KeyStoreObject(k)
    BY <2>3, ObjectStep
  <2>4. \/ UNCHANGED <<keystore, registered>> \/ update_signals
        \/ \E k \in KeyStores : KeyStoreObject(k)
    BY DEF Next, Announce, tracker_updated, managerVars, progVars, vars, Manager, KeyStoreManager,
           sync, sync_busy, sync_items, waitForBusyFinished, wait_return, go_on, update,
           update_busy, update_items
  <2>5. QED
    BY <2>1, <2>2, <2>3, <2>4
<1>4. QED
  BY <1>2, <1>3 DEF ManagerIInv

\* For any number of KeyStores, of stores that come and go, and of providers: the tracker's
\* list is that of the stores which are there, and the manager's hash has every object that is
\* valid, those with one id in an order.
THEOREM ManagerConsistent == Spec => []Consistent
<1>1. Init => IInv /\ ManagerIInv
  BY InitIInv, InitManager DEF Init
<1>2. (IInv /\ ManagerIInv) /\ [Next]_vars => (IInv /\ ManagerIInv)'
  BY StepIInv, ManagerIInvStep
<1>3. IInv /\ ManagerIInv => Consistent
  BY IInvListed DEF IInv, ManagerIInv, ManagerTypes, ObjectTypes, ObjectType, ObjectOK, TypeOK,
                    Consistent
<1>4. QED
  BY <1>1, <1>2, <1>3, PTL DEF Spec


----------------------------------------------------------------------------
(* The KeyStores follow their stores.                                       *)

\* No two valid KeyStores are of one store: of two, the code tells one.
OneObjectEach ==
  \A j, k \in KeyStores :
    /\ keystore[j].state = "valid" /\ keystore[k].state = "valid"
    /\ keystore[j].trackerId = keystore[k].trackerId
    => j = k

\* Version v of the entries of the store with a tracker id has all the changes that the
\* copies its count.
Seen(its, id, v) ==
  \A i \in its, j \in items :
    i.trackerId = id /\ j.trackerId = id /\ contextOf[j.storeId] = j.storeContextId =>
      /\ v \in 0 .. content[j.storeId]
      /\ content[j.storeId] + i.updateCount <= v + j.updateCount

\* A KeyStore has seen what the manager has been told, or an operation is on its way that
\* will.
ObjectFollows(obj) ==
  obj.state = "valid" =>
    /\ \E i \in mitems : i.trackerId = obj.trackerId
    /\ obj.op # "none" => obj.opId = obj.trackerId
    /\ obj.async /\ obj.op = "none" => Seen(mitems, obj.trackerId, obj.latest)
    /\ obj.op = "done" /\ ~obj.need_update => Seen(mitems, obj.trackerId, obj.result)

FollowInv ==
  /\ waiting => absorbed
  /\ ~absorbed =>
       /\ app \in {"none", "sync_busy", "sync_items"} =>
            \A k \in KeyStores : keystore[k].state = "none"
       /\ \A k \in KeyStores : ObjectFollows(keystore[k])

\* What has been seen stays so when the tracker changes its list.
LEMMA SeenStays ==
  ASSUME IInv, IInv', ItemsMove, Copies, mitems' = mitems, NEW id, NEW v, Seen(mitems, id, v)
  PROVE  Seen(mitems, id, v)'
<1> SUFFICES ASSUME NEW i \in mitems, NEW j \in items', i.trackerId = id, j.trackerId = id,
                    contextOf'[j.storeId] = j.storeContextId
             PROVE  /\ v \in 0 .. content'[j.storeId]
                    /\ content'[j.storeId] + i.updateCount <= v + j.updateCount
  BY DEF Seen
<1>1. /\ items \subseteq ItemType /\ items' \subseteq ItemType /\ tracker_id_at \in Nat
      /\ content \in [StoreIds -> 0 .. MaxContent] /\ content' \in [StoreIds -> 0 .. MaxContent]
  BY DEF IInv, TrackerTypeOK, ItemType
<1>2. i \in ItemType /\ i.trackerId < tracker_id_at
  BY DEF Copies, CopyAt
<1>3. PICK n \in items : Moved(n, j)
  BY <1>1, <1>2 DEF ItemsMove, ItemType
<1>4. /\ n.trackerId = id /\ n.storeId = j.storeId /\ n.updateCount <= j.updateCount
      /\ contextOf[n.storeId] = n.storeContextId
      /\ content'[j.storeId] + n.updateCount = content[n.storeId] + j.updateCount
  BY <1>3 DEF Moved
<1>5. v \in 0 .. content[n.storeId] /\ content[n.storeId] + i.updateCount <= v + n.updateCount
  BY <1>4 DEF Seen
<1>6. /\ i.updateCount \in Nat /\ j.updateCount \in Nat /\ n.updateCount \in Nat
      /\ content[n.storeId] \in Nat /\ content'[j.storeId] \in Nat
  BY <1>1, <1>2, TrackerAssumption DEF ItemType
<1>7. QED
  BY <1>4, <1>5, <1>6

LEMMA ObjectsFollowStay ==
  ASSUME IInv, IInv', ItemsMove, Copies, mitems' = mitems, NEW k,
         ObjectFollows(keystore[k]), keystore'[k] = keystore[k]
  PROVE  ObjectFollows(keystore[k])'
<1>1. ASSUME Seen(mitems, keystore[k].trackerId, keystore[k].latest)
      PROVE  Seen(mitems, keystore[k].trackerId, keystore[k].latest)'
  BY <1>1, SeenStays
<1>2. ASSUME Seen(mitems, keystore[k].trackerId, keystore[k].result)
      PROVE  Seen(mitems, keystore[k].trackerId, keystore[k].result)'
  BY <1>2, SeenStays
<1>3. QED
  BY <1>1, <1>2 DEF ObjectFollows

\* An operation that looks its store up has all the changes so far.
LEMMA entryListSeen ==
  ASSUME IInv, Copies, NEW id
  PROVE  Seen(mitems, id, entryList(id))
<1> SUFFICES ASSUME NEW i \in mitems, NEW j \in items, i.trackerId = id, j.trackerId = id,
                    contextOf[j.storeId] = j.storeContextId
             PROVE  /\ entryList(id) \in 0 .. content[j.storeId]
                    /\ content[j.storeId] + i.updateCount <= entryList(id) + j.updateCount
  BY DEF Seen
<1>1. \A n \in items : n.trackerId = id => n = j
  BY DEF IInv, OneItemEach
<1>2. {n \in items : n.trackerId = id /\ contextOf[n.storeId] = n.storeContextId} = {j}
  BY <1>1
<1>3. entryList(id) = content[j.storeId]
  BY <1>2 DEF entryList
<1>4. i \in ItemType /\ j \in ItemType /\ i.updateCount <= j.updateCount
  BY DEF Copies, CopyAt, Later, IInv, TrackerTypeOK, ItemType
<1>5. i.updateCount \in Nat /\ j.updateCount \in Nat /\ content[j.storeId] \in Nat
  BY <1>4, TrackerAssumption DEF ItemType, IInv, TrackerTypeOK
<1>6. QED
  BY <1>3, <1>4, <1>5

\* update() tells the only KeyStore of a store all that the new copies have.
LEMMA UpdateTells ==
  ASSUME IInv, ManagerIInv, OneObjectEach, update_signals, NEW k \in KeyStores,
         ObjectFollows(keystore[k])
  PROVE  ObjectFollows(keystore[k])'
<1> DEFINE gone == UNION {Found(n) : n \in Gone}
           updated == UNION {Found(n) : n \in Updated}
           obj == keystore[k]
           id == keystore[k].trackerId
<1>1. /\ keystore'[k] = IF k \in gone THEN invalidate(obj)
                        ELSE IF k \in updated THEN handle_updated(obj) ELSE obj
      /\ mitems' = newitems /\ app = "slots"
      /\ UNCHANGED <<items, content, contextOf>>
  BY DEF update_signals, trackerVars
<1>2. obj \in ObjectType /\ ObjectOK(obj)
  BY DEF ManagerIInv, ObjectTypes
<1>3. CASE k \in gone \/ obj.state # "valid"
  <2>1. keystore'[k].state # "valid"
    BY <1>1, <1>2, <1>3, ObjectMoves
  <2>2. QED
    BY <2>1 DEF ObjectFollows
<1>4. CASE k \notin gone /\ obj.state = "valid"
  <2>1. With(id) = {k}
    <3>1. DOMAIN registered = {j \in KeyStores : keystore[j].state = "valid"}
      BY DEF ManagerIInv, ObjectTypes
    <3>2. QED
      BY <1>4, <3>1 DEF With, OneObjectEach
  <2>2. k \in Found(id)
    BY <2>1 DEF Found
  <2>3. id \notin Gone /\ (k \notin updated => id \notin Updated)
    BY <1>4, <2>2
  <2>4. PICK i \in mitems : i.trackerId = id
    BY <1>4 DEF ObjectFollows
  <2>5. \E j \in newitems : j.trackerId = id
    BY <2>3, <2>4 DEF Gone
  <2> HIDE DEF gone, updated
  <2>6. CASE k \in updated
    <3>1. keystore'[k] = handle_updated(obj)
      BY <1>1, <1>4, <2>6
    <3>2. CASE ~obj.async
      BY <1>1, <1>2, <2>5, <3>1, <3>2 DEF handle_updated, ObjectFollows, ObjectOK
    <3>3. CASE obj.async /\ obj.op = "none"
      <4>1. /\ keystore'[k].op = "run" /\ keystore'[k].opId = id
            /\ keystore'[k].trackerId = id
        BY <1>2, <3>1, <3>3 DEF handle_updated, async_entryList, ObjectType
      <4>2. QED
        BY <1>1, <2>5, <4>1 DEF ObjectFollows
    <3>4. CASE obj.async /\ obj.op # "none"
      <4>1. /\ keystore'[k].op # "none" /\ keystore'[k].opId = obj.opId
            /\ keystore'[k].trackerId = id /\ keystore'[k].need_update
        BY <1>2, <3>1, <3>4 DEF handle_updated, ObjectType
      <4>2. obj.opId = id
        BY <1>4, <3>4 DEF ObjectFollows
      <4>3. QED
        BY <1>1, <2>5, <4>1, <4>2 DEF ObjectFollows
    <3>5. QED
      BY <3>2, <3>3, <3>4
  <2>7. CASE k \notin updated
    <3>1. keystore'[k] = obj
      BY <1>1, <1>4, <2>7
    <3>2. ASSUME NEW v, Seen(mitems, id, v) PROVE Seen(newitems, id, v)
      <4> SUFFICES ASSUME NEW n \in newitems, NEW j \in items, n.trackerId = id,
                          j.trackerId = id, contextOf[j.storeId] = j.storeContextId
                   PROVE  /\ v \in 0 .. content[j.storeId]
                          /\ content[j.storeId] + n.updateCount <= v + j.updateCount
        BY DEF Seen
      <4>1. i.updateCount \in Nat /\ n.updateCount \in Nat /\ i.updateCount <= n.updateCount
        BY <1>1, <2>4, TrackerAssumption DEF ManagerIInv, Copies, CopyAt, Later, ItemType
      <4>2. ~(i.updateCount < n.updateCount)
        BY <2>3, <2>4, <2>7 DEF Updated
      <4>3. i.updateCount = n.updateCount
        BY <4>1, <4>2
      <4>4. QED
        BY <2>4, <3>2, <4>3 DEF Seen
    <3>3. ASSUME NEW v, Seen(mitems, id, v) PROVE Seen(mitems, id, v)'
      <4>1. Seen(newitems, id, v) /\ id' = id
        BY <3>1, <3>2, <3>3
      <4>2. QED
        BY <1>1, <4>1 DEF Seen
    <3>4. QED
      BY <1>1, <1>4, <2>5, <3>1, <3>3 DEF ObjectFollows
  <2>8. QED
    BY <2>6, <2>7
<1>5. QED
  BY <1>3, <1>4

\* What a step of one KeyStore leaves of it.
LEMMA ObjectFollowsStep ==
  ASSUME IInv, ManagerIInv, NEW k \in KeyStores, KeyStoreObject(k), ObjectFollows(keystore[k])
  PROVE  /\ ObjectFollows(keystore[k])'
         /\ \A j \in KeyStores \ {k} : keystore'[j] = keystore[j]
<1>1. /\ keystore[k] \in ObjectType /\ ObjectOK(keystore[k])
      /\ keystore \in [KeyStores -> ObjectType]
  BY DEF ManagerIInv, ObjectTypes
<1>2. UNCHANGED <<mitems, items, content, contextOf>>
  BY DEF KeyStoreObject, KeyStore, KeyStoreDeleted, startAsynchronousMode, KeyStoreOperation,
         op_finished, trackerVars
<1>3. \A v : Seen(mitems, keystore[k].trackerId, v) /\ keystore'[k].trackerId = keystore[k].trackerId
               => Seen(mitems, keystore[k].trackerId, v)'
  BY <1>2 DEF Seen
<1>4. ASSUME NEW i \in mitems, KeyStore(k, i)
      PROVE  /\ ObjectFollows(keystore[k])'
             /\ \A j \in KeyStores \ {k} : keystore'[j] = keystore[j]
  <2> DEFINE obj == [NoKeyStore EXCEPT !.state = "valid", !.trackerId = i.trackerId]
  <2>1. keystore' = [keystore EXCEPT ![k] = obj]
    BY <1>4 DEF KeyStore
  <2>2. NoKeyStore \in ObjectType /\ NoKeyStore.op = "none" /\ ~NoKeyStore.async
    BY DEF NoKeyStore, ObjectType, Nothing
  <2>3. obj.trackerId = i.trackerId /\ obj.op = "none" /\ ~obj.async
    BY <2>2 DEF ObjectType
  <2> HIDE DEF obj
  <2>4. QED
    BY <1>1, <1>2, <2>1, <2>3 DEF ObjectFollows
<1>5. CASE KeyStoreDeleted(k)
  <2>1. keystore' = [keystore EXCEPT ![k] = NoKeyStore] /\ NoKeyStore.state = "none"
    BY <1>5 DEF KeyStoreDeleted, NoKeyStore
  <2>2. QED
    BY <1>1, <2>1 DEF ObjectFollows
<1>6. CASE startAsynchronousMode(k)
  <2> DEFINE obj == async_entryList([keystore[k] EXCEPT !.async = TRUE])
  <2>1. keystore' = [keystore EXCEPT ![k] = obj]
    BY <1>1, <1>6 DEF startAsynchronousMode
  <2>2. /\ obj.state = keystore[k].state /\ obj.trackerId = keystore[k].trackerId
        /\ obj.op = "run" /\ obj.opId = keystore[k].trackerId
    BY <1>1 DEF async_entryList, ObjectType
  <2> HIDE DEF obj
  <2>3. QED
    BY <1>1, <1>2, <2>1, <2>2 DEF ObjectFollows
<1>7. CASE KeyStoreOperation(k)
  <2> DEFINE obj == [keystore[k] EXCEPT !.op = "done", !.result = entryList(keystore[k].opId)]
  <2>1. keystore' = [keystore EXCEPT ![k] = obj] /\ keystore[k].op = "run"
    BY <1>1, <1>7 DEF KeyStoreOperation
  <2>2. /\ obj.state = keystore[k].state /\ obj.trackerId = keystore[k].trackerId
        /\ obj.op = "done" /\ obj.opId = keystore[k].opId
        /\ obj.result = entryList(keystore[k].opId)
    BY <1>1 DEF ObjectType
  <2> HIDE DEF obj
  <2>3. CASE obj.state = "valid"
    <3>1. keystore[k].opId = keystore[k].trackerId
      BY <2>1, <2>2, <2>3 DEF ObjectFollows
    <3>2. Seen(mitems, keystore[k].trackerId, obj.result)
      BY <2>2, <3>1, entryListSeen DEF ManagerIInv
    <3>3. keystore'[k] = obj
      BY <1>1, <2>1
    <3>4. Seen(mitems, keystore[k].trackerId, keystore[k].result)'
      BY <1>3, <2>2, <3>2, <3>3
    <3>5. QED
      BY <1>1, <1>2, <2>1, <2>2, <3>1, <3>3, <3>4 DEF ObjectFollows
  <2>4. CASE obj.state # "valid"
    BY <1>1, <2>1, <2>4 DEF ObjectFollows
  <2>5. QED
    BY <2>3, <2>4
<1>8. CASE op_finished(k)
  <2> DEFINE obj == [keystore[k] EXCEPT !.latest = keystore[k].result, !.op = "none",
                                       !.opId = Nothing, !.result = Nothing]
  <2>1. /\ keystore' = [keystore EXCEPT ![k] =
                          IF obj.need_update THEN async_entryList(obj) ELSE obj]
        /\ keystore[k].op = "done"
    BY <1>8 DEF op_finished
  <2>2. /\ obj.state = keystore[k].state /\ obj.trackerId = keystore[k].trackerId
        /\ obj.op = "none" /\ obj.need_update = keystore[k].need_update
        /\ obj.latest = keystore[k].result /\ obj \in ObjectType
    BY <1>1 DEF ObjectType
  <2> HIDE DEF obj
  <2>3. CASE obj.need_update
    <3>1. /\ async_entryList(obj).state = obj.state
          /\ async_entryList(obj).trackerId = obj.trackerId
          /\ async_entryList(obj).op = "run" /\ async_entryList(obj).opId = obj.trackerId
      BY <2>2 DEF async_entryList, ObjectType
    <3>2. keystore' = [keystore EXCEPT ![k] = async_entryList(obj)]
      BY <2>1, <2>3
    <3>3. QED
      BY <1>1, <1>2, <2>2, <3>1, <3>2 DEF ObjectFollows
  <2>4. CASE ~obj.need_update
    <3>1. keystore'[k] = obj /\ \A j \in KeyStores \ {k} : keystore'[j] = keystore[j]
      BY <1>1, <2>1, <2>4
    <3>2. CASE obj.state = "valid"
      <4>1. Seen(mitems, keystore[k].trackerId, obj.latest)
        BY <2>1, <2>2, <2>4, <3>2 DEF ObjectFollows
      <4>2. Seen(mitems, keystore[k].trackerId, keystore[k].latest)'
        BY <1>3, <2>2, <3>1, <4>1
      <4>3. QED
        BY <1>2, <2>2, <3>1, <3>2, <4>2 DEF ObjectFollows
    <3>3. CASE obj.state # "valid"
      BY <3>1, <3>3 DEF ObjectFollows
    <3>4. QED
      BY <3>2, <3>3
  <2>5. QED
    BY <2>3, <2>4
<1>9. QED
  BY <1>4, <1>5, <1>6, <1>7, <1>8 DEF KeyStoreObject

LEMMA FollowStep ==
  ASSUME IInv, IInv', ManagerIInv, OneObjectEach, FollowInv, [Next]_vars
  PROVE  FollowInv'
<1>1. ItemsMove
  <2>1. TrackerNext \/ UNCHANGED trackerVars
    BY ManagerStep DEF vars, progVars
  <2>2. QED
    BY <2>1, TrackerMoves
<1>2. /\ absorbed' \/ (~absorbed /\ ~Absorbs)
      /\ (waiting <=> app \in {"wait", "woken"}) /\ (waiting' <=> app' \in {"wait", "woken"})
  <2>1. ManagerTypes /\ ManagerTypes'
    BY ManagerTypesStep DEF ManagerIInv
  <2>2. CASE UNCHANGED vars
    BY <2>1, <2>2 DEF ManagerTypes, vars, progVars, managerVars, Absorbs
  <2>3. CASE Next
    BY <2>1, <2>3 DEF ManagerTypes, Next
  <2>4. QED
    BY <2>2, <2>3
<1>3. waiting' => absorbed'
  <2>1. CASE waiting
    BY <2>1 DEF FollowInv, Next, vars
  <2>2. CASE ~waiting /\ waitForBusyFinished
    BY <1>2, <2>2 DEF waitForBusyFinished, Absorbs
  <2>3. CASE ~waiting /\ ~waitForBusyFinished
    <3>1. ~waiting'
      BY <2>3
      DEF Next, Announce, tracker_updated, managerVars, progVars, vars, Manager,
          KeyStoreManager, sync, sync_busy, sync_items, wait_return, go_on, update,
          update_busy, update_items, update_signals, KeyStoreObject, KeyStore,
          KeyStoreDeleted, startAsynchronousMode, KeyStoreOperation, op_finished
    <3>2. QED
      BY <3>1
  <2>4. QED
    BY <2>1, <2>2, <2>3
<1>4. SUFFICES ASSUME ~absorbed, ~Absorbs
               PROVE  /\ app' \in {"none", "sync_busy", "sync_items"} =>
                           \A k \in KeyStores : keystore'[k].state = "none"
                      /\ \A k \in KeyStores : ObjectFollows(keystore[k])'
  BY <1>2, <1>3 DEF FollowInv
<1>5. /\ app \in {"none", "sync_busy", "sync_items"} =>
           \A k \in KeyStores : keystore[k].state = "none"
      /\ \A k \in KeyStores : ObjectFollows(keystore[k])
      /\ ~waiting /\ app \notin {"wait", "woken"}
  BY <1>2, <1>4 DEF FollowInv
<1>6. ASSUME UNCHANGED <<mitems, keystore>>,
             app' \in {"none", "sync_busy", "sync_items"} =>
               app \in {"none", "sync_busy", "sync_items"}
      PROVE  /\ app' \in {"none", "sync_busy", "sync_items"} =>
                  \A k \in KeyStores : keystore'[k].state = "none"
             /\ \A k \in KeyStores : ObjectFollows(keystore[k])'
  BY <1>1, <1>5, <1>6, ObjectsFollowStay DEF ManagerIInv
<1>7. CASE UNCHANGED managerVars
  BY <1>6, <1>7 DEF managerVars
<1>8. CASE Announce
  <2>1. UNCHANGED <<mitems, keystore, app>>
    BY <1>5, <1>8 DEF Announce, tracker_updated, managerVars
  <2>2. QED
    BY <1>6, <2>1
<1>9. CASE sync_items
  <2>1. app = "sync_items" /\ app' = "loop" /\ keystore' = keystore
    BY <1>9 DEF sync_items
  <2>2. QED
    BY <1>5, <2>1 DEF ObjectFollows
<1>10. CASE sync
  BY <1>4, <1>10 DEF sync, Absorbs
<1>11. CASE KeyStoreManager \/ sync_busy
  BY <1>6, <1>11 DEF KeyStoreManager, sync_busy
<1>12. CASE waitForBusyFinished \/ wait_return \/ go_on
  <2>1. UNCHANGED <<mitems, keystore>> /\ app' \in {"wait", "waited", "loop"}
    BY <1>12 DEF waitForBusyFinished, wait_return, go_on
  <2>2. QED
    BY <1>6, <2>1
<1>13. CASE update \/ update_busy \/ update_items
  <2>1. UNCHANGED <<mitems, keystore>> /\ app' \in {"update_busy", "update_items", "slots"}
    BY <1>13 DEF update, update_busy, update_items
  <2>2. QED
    BY <1>6, <2>1
<1>14. CASE update_signals
  <2>1. app' = "loop"
    BY <1>14 DEF update_signals
  <2>2. QED
    BY <1>5, <1>14, <2>1, UpdateTells
<1>15. ASSUME NEW k \in KeyStores, KeyStoreObject(k)
       PROVE  /\ app' \in {"none", "sync_busy", "sync_items"} =>
                   \A j \in KeyStores : keystore'[j].state = "none"
              /\ \A j \in KeyStores : ObjectFollows(keystore[j])'
  <2>1. /\ ObjectFollows(keystore[k])'
        /\ \A j \in KeyStores \ {k} : keystore'[j] = keystore[j]
    BY <1>5, <1>15, ObjectFollowsStep
  <2>2. UNCHANGED <<app, mitems>>
    BY <1>15
    DEF KeyStoreObject, KeyStore, KeyStoreDeleted, startAsynchronousMode, KeyStoreOperation,
        op_finished
  <2>3. \A j \in KeyStores \ {k} : ObjectFollows(keystore[j])'
    BY <1>1, <1>5, <2>1, <2>2, ObjectsFollowStay DEF ManagerIInv
  <2>4. app = "loop" \/ keystore[k].op = "run"
    BY <1>15
    DEF KeyStoreObject, KeyStore, KeyStoreDeleted, startAsynchronousMode, KeyStoreOperation,
        op_finished
  <2>5. app \in {"none", "sync_busy", "sync_items"} => keystore'[k].state = keystore[k].state
    <3>1. keystore \in [KeyStores -> ObjectType]
      BY DEF ManagerIInv, ObjectTypes
    <3>2. SUFFICES ASSUME app # "loop" PROVE keystore'[k].state = keystore[k].state
      OBVIOUS
    <3>3. KeyStoreOperation(k)
      BY <1>15, <3>2
      DEF KeyStoreObject, KeyStore, KeyStoreDeleted, startAsynchronousMode, op_finished
    <3>4. QED
      BY <3>1, <3>3 DEF KeyStoreOperation, ObjectType
  <2>6. QED
    BY <1>5, <2>1, <2>2, <2>3, <2>5
<1>16. QED
  BY <1>7, <1>8, <1>9, <1>10, <1>11, <1>12, <1>13, <1>14, <1>15
  DEF Next, Manager, vars, progVars

\* When nothing is on its way, and each store has one KeyStore at most: the manager has the
\* tracker's state, every KeyStore that is valid is of a store that is there, and one in
\* asynchronous mode with no operation under way has its store's current entries.
THEOREM StoresAreFollowed == Spec /\ []OneObjectEach => []KeyStoresFollow
<1>1. Init => IInv /\ CopyInv /\ ManagerIInv /\ FollowInv
  <2>1. Init => CopyInv
    BY DEF Init, CopyInv
  <2>2. Init => FollowInv
    BY DEF Init, FollowInv, ObjectFollows, NoKeyStore
  <2>3. QED
    BY <2>1, <2>2, InitIInv, InitManager DEF Init
<1>2. OneObjectEach /\ (IInv /\ CopyInv /\ ManagerIInv /\ FollowInv) /\ [Next]_vars
        => (IInv /\ CopyInv /\ ManagerIInv /\ FollowInv)'
  BY StepIInv, CopyStep, ManagerIInvStep, FollowStep
<1>3. IInv /\ CopyInv /\ ManagerIInv /\ FollowInv => KeyStoresFollow
  <2> SUFFICES ASSUME IInv, CopyInv, ManagerIInv, FollowInv PROVE KeyStoresFollow
    OBVIOUS
  <2>1. UpToDate
    BY DEF CopyInv, UpToDate, Quiet
  <2>2. ASSUME Quiet, ~absorbed, NEW k \in KeyStores, keystore[k].state = "valid"
        PROVE  ObjectFollows(keystore[k]) /\ mitems = items
    BY <2>1, <2>2 DEF FollowInv, UpToDate
  <2>3. UnavailableTold
    BY <2>2 DEF UnavailableTold, ObjectFollows
  <2>4. ASSUME Quiet, ~absorbed, NEW k \in KeyStores, NEW i \in items,
               keystore[k].state = "valid", keystore[k].async, keystore[k].op = "none",
               i.trackerId = keystore[k].trackerId, contextOf[i.storeId] = i.storeContextId
        PROVE  keystore[k].latest = content[i.storeId]
    <3>1. /\ keystore[k].latest \in 0 .. content[i.storeId]
          /\ content[i.storeId] + i.updateCount <= keystore[k].latest + i.updateCount
      BY <2>2, <2>4 DEF ObjectFollows, Seen
    <3>2. i.updateCount \in Nat /\ content[i.storeId] \in Nat
      BY TrackerAssumption DEF IInv, TrackerTypeOK
    <3>3. QED
      BY <3>1, <3>2
  <2>5. EntriesFresh
    BY <2>4 DEF EntriesFresh
  <2>6. QED
    BY <2>1, <2>3, <2>5 DEF KeyStoresFollow
<1>4. QED
  BY <1>1, <1>2, <1>3, PTL DEF Spec

----------------------------------------------------------------------------
(* The watcher of an entry.                                                 *)

\* What the watcher holds: the only KeyStore that is valid is its own, of the store as it is
\* listed; there is one whenever the store is listed, unless it has still to be announced; and
\* availability is that of the last entries that were read.
WatcherInv ==
  /\ ~absorbed /\ app \notin {"wait", "woken", "waited"} /\ (todo => app = "loop")
  /\ \A k \in KeyStores : keystore[k].state = "valid" =>
       /\ ~todo /\ k = ks /\ keystore[k].async
       /\ \E i \in mitems : i.storeId = storeId /\ i.trackerId = keystore[k].trackerId
  /\ \A i \in mitems : i.storeId = storeId /\ ~todo =>
       /\ ks \in KeyStores
       /\ keystore[ks].state = "valid" /\ keystore[ks].trackerId = i.trackerId
  /\ ks \in KeyStores /\ keystore[ks].op = "none" => (avail <=> keystore[ks].latest \in WithEntry)

\* A step of the watcher is one that a manager with KeyStores takes, and no sync() or wait of
\* the application, or it opens a KeyStore.
LEMMA WatcherTakes ==
  ASSUME ManagerTypes, WatcherInv, WatcherNext, absorbed' = absorbed
  PROVE  (Next /\ ~Absorbs) \/ ksm_available
<1> SUFFICES ASSUME ~ksm_available PROVE Next /\ ~Absorbs
  OBVIOUS
<1>1. app \notin {"wait", "woken", "waited"} /\ ~waiting
  BY DEF WatcherInv, ManagerTypes
<1>2. \/ (Slots /\ UNCHANGED managerVars) \/ Announce
      \/ KeyStoreManager \/ sync_busy \/ sync_items
      \/ update \/ update_busy \/ update_items \/ update_signals
      \/ \E k \in KeyStores : KeyStoreOperation(k) \/ op_finished(k)
  BY DEF WatcherNext, WatcherStarts, WatcherUpdates, ks_updated
<1>3. ~Absorbs
  <2>1. CASE (Slots /\ UNCHANGED managerVars) \/ Announce
    BY <1>1, <2>1 DEF Absorbs, managerVars, Announce, tracker_updated
  <2>2. CASE \E k \in KeyStores : KeyStoreOperation(k) \/ op_finished(k)
    BY <2>2 DEF Absorbs, KeyStoreOperation, op_finished
  <2>3. CASE \/ KeyStoreManager \/ sync_busy \/ sync_items
             \/ update \/ update_busy \/ update_items \/ update_signals
    BY <2>3
    DEF Absorbs, KeyStoreManager, sync_busy, sync_items, update, update_busy, update_items,
        update_signals
  <2>4. QED
    BY <1>2, <2>1, <2>2, <2>3
<1>4. \/ (Slots /\ UNCHANGED managerVars) \/ Announce \/ Manager
      \/ \E k \in KeyStores : KeyStoreObject(k)
  BY <1>2 DEF Manager, KeyStoreObject
<1>5. absorbed = FALSE
  BY DEF ManagerTypes, WatcherInv
<1>6. QED
  BY <1>3, <1>4, <1>5 DEF Next

\* What the watcher's new KeyStore is.
LEMMA OpenedIs ==
  ASSUME Copies, ksm_available
  PROVE  \E k \in KeyStores, i \in mitems, obj \in ObjectType :
           /\ i.storeId = storeId /\ keystore[k].state = "none" /\ ks' = k
           /\ keystore' = [keystore EXCEPT ![k] = obj] /\ registered' = Registered(k, i.trackerId)
           /\ ObjectOK(obj) /\ obj.state = "valid" /\ obj.trackerId = i.trackerId
           /\ obj.async /\ obj.op = "run" /\ obj.opId = i.trackerId
<1>1. PICK k \in KeyStores, i \in {x \in mitems : x.storeId = storeId} :
        /\ keystore[k].state = "none" /\ ks' = k
        /\ registered' = Registered(k, i.trackerId)
        /\ keystore' = [keystore EXCEPT ![k] = async_entryList(
             [NoKeyStore EXCEPT !.state = "valid", !.trackerId = i.trackerId, !.async = TRUE])]
  BY DEF ksm_available
<1> DEFINE new == [NoKeyStore EXCEPT !.state = "valid", !.trackerId = i.trackerId, !.async = TRUE]
<1>2. i.trackerId \in Nat /\ i.trackerId # Nothing
  BY DEF Copies, CopyAt, ItemType, Nothing
<1>3. /\ new \in ObjectType /\ new.state = "valid" /\ new.trackerId = i.trackerId /\ new.async
      /\ new.op = "none" /\ ~new.need_update
  BY <1>2 DEF NoKeyStore, ObjectType, Nothing
<1>4. ObjectOK(new)
  BY <1>2, <1>3 DEF ObjectOK
<1> HIDE DEF new
<1>5. /\ async_entryList(new) \in ObjectType /\ ObjectOK(async_entryList(new))
      /\ async_entryList(new).state = "valid" /\ async_entryList(new).trackerId = i.trackerId
      /\ async_entryList(new).op = "run" /\ async_entryList(new).opId = i.trackerId
      /\ async_entryList(new).async
  BY <1>3, <1>4, ObjectMoves DEF async_entryList, ObjectType
<1>6. keystore' = [keystore EXCEPT ![k] = async_entryList(new)]
  BY <1>1 DEF new
<1>7. QED
  BY <1>1, <1>5, <1>6

LEMMA OpenedStep ==
  ASSUME IInv, CopyInv, ManagerIInv, FollowInv, ksm_available, absorbed' = absorbed
  PROVE  IInv' /\ CopyInv' /\ ManagerIInv' /\ FollowInv'
<1>1. /\ UNCHANGED <<trackerVars, app, mbusy, mitems, pending, waiting, newbusy, newitems>>
      /\ UNCHANGED <<items, tracker_id_at, updated_p, busy>> /\ app = "loop"
  BY DEF ksm_available, trackerVars
<1>2. PICK k \in KeyStores, i \in mitems, obj \in ObjectType :
        /\ i.storeId = storeId /\ keystore[k].state = "none" /\ ks' = k
        /\ keystore' = [keystore EXCEPT ![k] = obj] /\ registered' = Registered(k, i.trackerId)
        /\ ObjectOK(obj) /\ obj.state = "valid" /\ obj.trackerId = i.trackerId
        /\ obj.async /\ obj.op = "run" /\ obj.opId = i.trackerId
  BY OpenedIs DEF ManagerIInv
<1>3. IInv'
  BY <1>1, StutterStep
<1>4. CopyInv'
  BY <1>1 DEF CopyInv
<1>5. ManagerTypes' /\ Copies'
  BY <1>1 DEF ManagerIInv, ManagerTypes, Copies
<1>6. ObjectTypes' /\ HashInOrder'
  BY <1>2, ObjectOpens DEF ManagerIInv
<1>7. ItemsMove
  BY <1>1, <1>3, TrackerMoves
<1>8. FollowInv'
  <2>1. keystore \in [KeyStores -> ObjectType]
    BY DEF ManagerIInv, ObjectTypes
  <2>2. keystore'[k] = obj /\ \A j \in KeyStores \ {k} : keystore'[j] = keystore[j]
    BY <1>2, <2>1
  <2>3. ObjectFollows(keystore[k])'
    BY <1>1, <1>2, <2>2 DEF ObjectFollows
  <2>4. ASSUME ~absorbed, NEW j \in KeyStores \ {k} PROVE ObjectFollows(keystore[j])'
    BY <1>1, <1>3, <1>7, <2>2, <2>4, ObjectsFollowStay DEF FollowInv, ManagerIInv
  <2>5. QED
    BY <1>1, <2>3, <2>4 DEF FollowInv
<1>9. QED
  BY <1>3, <1>4, <1>5, <1>6, <1>8 DEF ManagerIInv

\* No KeyStore comes or goes and the copies stay.
LEMMA WatcherStays ==
  ASSUME WatcherInv, UNCHANGED <<absorbed, mitems, todo, ks>>,
         app' \notin {"wait", "woken", "waited"}, todo => app' = "loop",
         \A k \in KeyStores : /\ keystore'[k].state = keystore[k].state
                              /\ keystore'[k].trackerId = keystore[k].trackerId
                              /\ keystore'[k].async = keystore[k].async,
         ks \in KeyStores /\ keystore'[ks].op = "none"
           => (avail' <=> keystore'[ks].latest \in WithEntry)
  PROVE  WatcherInv'
BY DEF WatcherInv

LEMMA OpenedWatches ==
  ASSUME ManagerIInv, WatcherInv, ksm_available, absorbed' = absorbed
  PROVE  WatcherInv'
<1>1. UNCHANGED <<app, mitems>> /\ todo /\ ~todo' /\ app = "loop"
  BY DEF ksm_available
<1>2. PICK k \in KeyStores, i \in mitems, obj \in ObjectType :
        /\ i.storeId = storeId /\ keystore[k].state = "none" /\ ks' = k
        /\ keystore' = [keystore EXCEPT ![k] = obj] /\ registered' = Registered(k, i.trackerId)
        /\ ObjectOK(obj) /\ obj.state = "valid" /\ obj.trackerId = i.trackerId
        /\ obj.async /\ obj.op = "run" /\ obj.opId = i.trackerId
  BY OpenedIs DEF ManagerIInv
<1>3. \A j \in KeyStores : keystore[j].state # "valid"
  BY <1>1 DEF WatcherInv
<1>4. keystore'[k] = obj /\ \A j \in KeyStores \ {k} : keystore'[j].state # "valid"
  BY <1>2, <1>3 DEF ManagerIInv, ObjectTypes
<1>5. \A j \in mitems : j.storeId = storeId => j = i
  BY <1>2 DEF ManagerIInv, Copies, CopyAt
<1>6. QED
  BY <1>1, <1>2, <1>4, <1>5 DEF WatcherInv

\* What update() does to a KeyStore.
LEMMA UpdateObject ==
  ASSUME ObjectTypes, update_signals, NEW k \in KeyStores
  PROVE  /\ keystore'[k].state = "valid" => keystore[k].state = "valid"
         /\ keystore'[k].state = "valid" => keystore'[k].trackerId = keystore[k].trackerId
         /\ keystore'[k].async = keystore[k].async /\ keystore'[k].latest = keystore[k].latest
         /\ keystore'[k].op = "none" => keystore[k].op = "none"
         /\ keystore[k].state = "valid" /\ keystore[k].trackerId \notin Gone
              => keystore'[k].state = "valid"
<1> DEFINE gone == UNION {Found(id) : id \in Gone}
           updated == UNION {Found(id) : id \in Updated}
           obj == keystore[k]
<1>1. keystore'[k] = IF k \in gone THEN invalidate(obj)
                     ELSE IF k \in updated THEN handle_updated(obj) ELSE obj
  BY DEF update_signals
<1>2. k \in gone => obj.trackerId \in Gone
  BY DEF Found, With
<1> HIDE DEF gone, updated
<1>3. obj \in ObjectType /\ ObjectOK(obj)
  BY DEF ObjectTypes
<1>4. /\ invalidate(obj).state = "gone" /\ invalidate(obj).async = obj.async
      /\ invalidate(obj).latest = obj.latest /\ invalidate(obj).op = obj.op
  BY <1>3 DEF invalidate, ObjectType
<1>5. /\ handle_updated(obj).state = obj.state /\ handle_updated(obj).trackerId = obj.trackerId
      /\ handle_updated(obj).async = obj.async /\ handle_updated(obj).latest = obj.latest
      /\ handle_updated(obj).op = "none" => obj.op = "none"
  BY <1>3 DEF handle_updated, async_entryList, ObjectType
<1>6. QED
  BY <1>1, <1>2, <1>4, <1>5

LEMMA UpdateWatches ==
  ASSUME ManagerIInv, FollowInv', WatcherInv, WatcherUpdates, absorbed' = absorbed
  PROVE  WatcherInv'
<1>1. /\ app = "slots" /\ ~todo /\ app' = "loop" /\ mitems' = newitems
      /\ UNCHANGED <<ks, avail>> /\ update_signals /\ ~absorbed'
      /\ todo' = \E i \in newitems : /\ i.storeId = storeId
                                     /\ \A j \in mitems : i.trackerId # j.trackerId
  BY DEF WatcherInv, WatcherUpdates, update_signals
<1>2. ObjectTypes /\ Later(mitems, newitems) /\ CopyAt(newitems, items, tracker_id_at)
  BY <1>1 DEF ManagerIInv, Copies
<1>3. ASSUME NEW k \in KeyStores, keystore'[k].state = "valid"
      PROVE  /\ ~todo' /\ k = ks /\ keystore'[k].async
             /\ \E i \in mitems' : i.storeId = storeId /\ i.trackerId = keystore'[k].trackerId
  <2>1. /\ keystore[k].state = "valid" /\ keystore'[k].trackerId = keystore[k].trackerId
        /\ keystore'[k].async = keystore[k].async
    BY <1>1, <1>2, <1>3, UpdateObject
  <2>2. PICK m \in mitems : m.storeId = storeId /\ m.trackerId = keystore[k].trackerId
    BY <2>1 DEF WatcherInv
  <2>3. PICK n \in newitems : n.trackerId = keystore[k].trackerId
    BY <1>1, <1>3, <2>1 DEF FollowInv, ObjectFollows
  <2>4. n.storeId = storeId
    BY <1>2, <2>2, <2>3 DEF Later
  <2>5. ~todo'
    BY <1>1, <1>2, <2>2, <2>3, <2>4 DEF CopyAt
  <2>6. QED
    BY <1>1, <2>1, <2>3, <2>4, <2>5 DEF WatcherInv
<1>4. ASSUME NEW i \in newitems, i.storeId = storeId, ~todo'
      PROVE  ks \in KeyStores /\ keystore'[ks].state = "valid" /\ keystore'[ks].trackerId = i.trackerId
  <2>1. PICK j \in mitems : j.trackerId = i.trackerId
    BY <1>1, <1>4
  <2>2. j.storeId = storeId
    BY <1>2, <1>4, <2>1 DEF Later
  <2>3. ks \in KeyStores /\ keystore[ks].state = "valid" /\ keystore[ks].trackerId = i.trackerId
    BY <1>1, <2>1, <2>2 DEF WatcherInv
  <2>4. i.trackerId \notin Gone
    BY DEF Gone
  <2>5. QED
    BY <1>1, <1>2, <2>3, <2>4, UpdateObject
<1>5. ks \in KeyStores /\ keystore'[ks].op = "none" => (avail <=> keystore'[ks].latest \in WithEntry)
  BY <1>1, <1>2, UpdateObject DEF WatcherInv
<1>6. QED
  BY <1>1, <1>3, <1>4, <1>5 DEF WatcherInv

\* A step of one of the KeyStores.
LEMMA ObjectWatches ==
  ASSUME ManagerIInv, WatcherInv, absorbed' = absorbed, NEW k \in KeyStores,
         \/ KeyStoreOperation(k) /\ UNCHANGED <<ks, avail, todo>>
         \/ ks_updated(k)
  PROVE  WatcherInv'
<1>1. UNCHANGED <<app, mitems, ks, todo>>
  BY DEF KeyStoreOperation, op_finished, ks_updated
<1>2. keystore \in [KeyStores -> ObjectType]
  BY DEF ManagerIInv, ObjectTypes
<1>3. /\ \A j \in KeyStores : /\ keystore'[j].state = keystore[j].state
                              /\ keystore'[j].trackerId = keystore[j].trackerId
                              /\ keystore'[j].async = keystore[j].async
      /\ ks \in KeyStores /\ keystore'[ks].op = "none"
           => (avail' <=> keystore'[ks].latest \in WithEntry)
  <2>1. CASE KeyStoreOperation(k) /\ UNCHANGED <<ks, avail, todo>>
    <3>1. keystore' = [keystore EXCEPT ![k].op = "done", ![k].result = entryList(keystore[k].opId)]
      BY <2>1 DEF KeyStoreOperation
    <3>2. \A j \in KeyStores : /\ keystore'[j].state = keystore[j].state
                               /\ keystore'[j].trackerId = keystore[j].trackerId
                               /\ keystore'[j].async = keystore[j].async
                               /\ keystore'[j].latest = keystore[j].latest
                               /\ keystore'[j].op = "none" => keystore[j].op = "none"
      BY <1>2, <3>1 DEF ObjectType
    <3>3. QED
      BY <2>1, <3>2 DEF WatcherInv
  <2>2. CASE ks_updated(k)
    <3> DEFINE obj == [keystore[k] EXCEPT !.latest = keystore[k].result, !.op = "none",
                                          !.opId = Nothing, !.result = Nothing]
    <3>1. keystore' = [keystore EXCEPT ![k] =
                         IF obj.need_update THEN async_entryList(obj) ELSE obj]
          /\ avail' = (keystore'[ks].latest \in WithEntry)
      BY <2>2 DEF ks_updated, op_finished
    <3>2. /\ obj.state = keystore[k].state /\ obj.trackerId = keystore[k].trackerId
          /\ obj.async = keystore[k].async /\ obj \in ObjectType
      BY <1>2 DEF ObjectType
    <3> HIDE DEF obj
    <3>3. /\ async_entryList(obj).state = obj.state /\ async_entryList(obj).async = obj.async
          /\ async_entryList(obj).trackerId = obj.trackerId
      BY <3>2 DEF async_entryList, ObjectType
    <3>4. QED
      BY <1>2, <3>1, <3>2, <3>3
  <2>3. QED
    BY <2>1, <2>2
<1>4. QED
  BY <1>1, <1>3, WatcherStays DEF WatcherInv

LEMMA WatcherStep ==
  ASSUME ManagerIInv, FollowInv, FollowInv', WatcherInv, WatcherNext, absorbed' = absorbed
  PROVE  WatcherInv'
<1>1. CASE /\ \/ Slots /\ UNCHANGED managerVars
              \/ Announce \/ KeyStoreManager \/ sync_busy \/ update_busy \/ update_items
              \/ ~todo /\ update
           /\ UNCHANGED <<ks, avail, todo>>
  <2>1. ~waiting
    BY DEF ManagerIInv, ManagerTypes, WatcherInv
  <2>2. UNCHANGED <<mitems, keystore>> /\ app' \notin {"wait", "woken", "waited"}
        /\ (todo => app' = "loop")
    BY <1>1, <2>1
    DEF WatcherInv, managerVars, Announce, tracker_updated, KeyStoreManager, sync_busy,
        update_busy, update_items, update
  <2>3. QED
    BY <1>1, <2>2, WatcherStays DEF WatcherInv
<1>2. CASE WatcherStarts
  <2>1. /\ app = "sync_items" /\ app' = "loop" /\ mitems' = items
        /\ UNCHANGED <<keystore, ks, avail>> /\ todo' = \E i \in items : i.storeId = storeId
    BY <1>2 DEF WatcherStarts, sync_items
  <2>2. \A k \in KeyStores : keystore[k].state = "none"
    BY <2>1 DEF FollowInv, WatcherInv
  <2>3. QED
    BY <2>1, <2>2 DEF WatcherInv
<1>3. CASE WatcherUpdates
  BY <1>3, UpdateWatches
<1>4. CASE ksm_available
  BY <1>4, OpenedWatches
<1>5. CASE \E k \in KeyStores : \/ KeyStoreOperation(k) /\ UNCHANGED <<ks, avail, todo>>
                                \/ ks_updated(k)
  BY <1>5, ObjectWatches
<1>6. QED
  BY <1>1, <1>2, <1>3, <1>4, <1>5 DEF WatcherNext

SystemInv ==
  IInv /\ CopyInv /\ ManagerIInv /\ (watching => FollowInv /\ WatcherInv)

LEMMA SystemInit == WatcherInit => SystemInv
<1> SUFFICES ASSUME WatcherInit PROVE SystemInv
  OBVIOUS
<1>1. Init /\ TrackerInit /\ IInv /\ ManagerIInv
  BY InitIInv, InitManager DEF WatcherInit, Init
<1>2. CopyInv /\ FollowInv
  BY <1>1 DEF Init, CopyInv, FollowInv, ObjectFollows, NoKeyStore
<1>3. Nothing \notin WithEntry
  BY WatcherAssumption DEF Nothing
<1>4. WatcherInv
  BY <1>1, <1>3 DEF WatcherInit, Init, WatcherInv, NoKeyStore
<1>5. QED
  BY <1>1, <1>2, <1>4 DEF SystemInv

LEMMA SystemStep ==
  ASSUME SystemInv, [SystemNext]_<<vars, watcherVars>>
  PROVE  SystemInv'
<1>1. CASE ~watching /\ Next /\ UNCHANGED watcherVars
  BY <1>1, StepIInv, CopyStep, ManagerIInvStep DEF SystemInv, watcherVars
<1>2. CASE watching /\ WatcherNext /\ UNCHANGED <<watching, absorbed>>
  <2>1. IInv /\ CopyInv /\ ManagerIInv /\ FollowInv /\ WatcherInv
    BY <1>2 DEF SystemInv
  <2>2. OneObjectEach
    BY <2>1 DEF WatcherInv, OneObjectEach
  <2>3. IInv' /\ CopyInv' /\ ManagerIInv' /\ FollowInv'
    <3>1. CASE Next
      BY <2>1, <2>2, <3>1, StepIInv, CopyStep, ManagerIInvStep, FollowStep
    <3>2. CASE ksm_available
      BY <1>2, <2>1, <3>2, OpenedStep
    <3>3. QED
      BY <1>2, <2>1, <3>1, <3>2, WatcherTakes DEF ManagerIInv
  <2>4. WatcherInv'
    BY <1>2, <2>1, <2>3, WatcherStep
  <2>5. QED
    BY <2>3, <2>4 DEF SystemInv
<1>3. CASE UNCHANGED <<vars, watcherVars>>
  <2>1. [Next]_vars /\ UNCHANGED <<watching, ks, avail, todo>>
    BY <1>3 DEF watcherVars
  <2>2. UNCHANGED <<app, mitems, keystore, absorbed>>
    BY <1>3 DEF vars, progVars, managerVars
  <2>3. IInv' /\ CopyInv' /\ ManagerIInv'
    BY <2>1, StepIInv, CopyStep, ManagerIInvStep DEF SystemInv
  <2>4. ASSUME watching PROVE FollowInv' /\ WatcherInv'
    <3>1. FollowInv /\ WatcherInv /\ OneObjectEach
      BY <2>4 DEF SystemInv, WatcherInv, OneObjectEach
    <3>2. FollowInv'
      BY <2>1, <2>3, <3>1, FollowStep DEF SystemInv
    <3>3. WatcherInv'
      BY <2>1, <2>2, <3>1 DEF WatcherInv
    <3>4. QED
      BY <3>2, <3>3
  <2>5. QED
    BY <2>1, <2>3, <2>4 DEF SystemInv
<1>4. QED
  BY <1>1, <1>2, <1>3 DEF SystemNext

\* For any store and any entry of it, any number of KeyStores that the watcher has opened one
\* after the other, and any number of times the store goes, comes back or changes meanwhile:
\* with nothing on its way, the watcher says that the entry is available exactly if it is in the
\* store, as long as the store is there.
THEOREM EntryIsFollowed == SystemSpec => []WatcherFollows
<1>1. SystemInv => WatcherFollows
  <2> SUFFICES ASSUME SystemInv, AtRest, NEW i \in items, i.storeId = storeId,
                      contextOf[storeId] = i.storeContextId
               PROVE  avail <=> content[storeId] \in WithEntry
    BY DEF WatcherFollows
  <2>1. /\ mitems = items /\ FollowInv /\ WatcherInv /\ ~todo
        /\ \A k \in KeyStores : keystore[k].op = "none"
    BY DEF AtRest, Quiet, SystemInv, CopyInv
  <2>2. /\ ks \in KeyStores /\ keystore[ks].state = "valid" /\ keystore[ks].async
        /\ keystore[ks].trackerId = i.trackerId /\ keystore[ks].op = "none"
        /\ avail <=> keystore[ks].latest \in WithEntry
    BY <2>1 DEF WatcherInv
  <2>3. Seen(items, i.trackerId, keystore[ks].latest)
    BY <2>1, <2>2 DEF FollowInv, WatcherInv, ObjectFollows
  <2>4. /\ keystore[ks].latest \in 0 .. content[storeId]
        /\ content[storeId] + i.updateCount <= keystore[ks].latest + i.updateCount
    BY <2>3 DEF Seen
  <2>5. i.updateCount \in Nat /\ content[storeId] \in Nat
    BY TrackerAssumption DEF SystemInv, IInv, TrackerTypeOK
  <2>6. keystore[ks].latest = content[storeId]
    BY <2>4, <2>5
  <2>7. QED
    BY <2>2, <2>6
<1>2. QED
  BY <1>1, SystemInit, SystemStep, PTL DEF SystemSpec
=============================================================================
