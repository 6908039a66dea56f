------------------------- MODULE TokenStores_proofs -------------------------
(***************************************************************************)
(* Proofs about TokenStores, for every set of tokens and of users: an id    *)
(* stands for one token, though ids are used again; the tracker lists only  *)
(* what the plugin has; and a session has one user.  And about the plugin   *)
(* for GnuPG: KeyRing, its key store, and GPGProc, a run of gpg.            *)
(***************************************************************************)
EXTENDS TokenStores, KeyRing, GPGProc, SequenceTheorems, FiniteSetTheorems, WellFoundedInduction, TLAPS

Steps == {"idle", "lock", "call", "item", "ask", "release", "failed"}
Operation == [pc : Steps, token : Tokens \cup {Nobody}, item : 0 .. MaxId]
Listing == [todo : SUBSET Tokens, out : SUBSET (1 .. MaxId),
            to_remove : SUBSET (1 .. MaxId), on : BOOLEAN]

\* An id and a token have one item.
OneItemEach == \A s, r \in stores : s.id = r.id \/ s.token = r.token => s = r

\* A token is named by the operations that are under way, and by them alone.
IdleIsFree == \A u \in Users : op[u].pc = "idle" <=> op[u].token = Nobody

SessionsUsed ==
  \A t \in Tokens, u \in Users : session[t] = u <=> op[u].token = t /\ op[u].pc # "lock"

\* What is listed is not removed with the same listing.
ListedStay == listing.out \cap listing.to_remove = {}

RegisterInv ==
  /\ stores \subseteq [id : 1 .. MaxId, token : Tokens]
  /\ last_id \in 0 .. MaxId
  /\ OneItemEach

TokenIInv ==
  /\ TokenTypeOK
  /\ RegisterInv
  /\ op \in [Users -> Operation]
  /\ listing \in Listing
  /\ items \subseteq stores
  /\ ListedStay
  /\ IdleIsFree
  /\ SessionsUsed

\* What a prompt is using has not been deleted.
PromptsHaveItems ==
  \A u \in Users : op[u].pc = "item" => [id |-> op[u].item, token |-> op[u].token] \in stores

----------------------------------------------------------------------------
(* Ids.                                                                     *)

\* A set of numbers that is not empty has a least one.
LEMMA MinOfNat ==
  ASSUME NEW S \in SUBSET Nat, S # {}
  PROVE  Min(S) \in S /\ \A y \in S : Min(S) <= y
<1> DEFINE below == {0 .. n : n \in S}
<1>1. below \subseteq FiniteSubsetsOf(Nat)
  <2>1. \A n \in S : IsFiniteSet(0 .. n) /\ 0 .. n \subseteq Nat
    BY FS_Interval
  <2>2. QED
    BY <2>1 DEF FiniteSubsetsOf
<1>2. PICK b \in below : \A c \in below : ~ (<<c, b>> \in StrictSubsetOrdering(Nat))
  <2>1. below # {}
    OBVIOUS
  <2>2. QED
    BY <1>1, <2>1, WFMin, FS_StrictSubsetOrderingWellFounded
<1>3. PICK m \in S : b = 0 .. m
  OBVIOUS
<1>4. \A y \in S : m <= y
  <2>1. SUFFICES ASSUME NEW y \in S, y < m PROVE FALSE
    OBVIOUS
  <2>2. 0 .. y \subseteq 0 .. m /\ m \in 0 .. m /\ m \notin 0 .. y
    BY <2>1
  <2>3. <<0 .. y, 0 .. m>> \in StrictSubsetOrdering(Nat)
    <3>1. 0 .. y \in SUBSET Nat /\ 0 .. m \in SUBSET Nat /\ 0 .. y # 0 .. m
      BY <2>2
    <3>2. QED
      BY <2>2, <3>1, Zenon DEF StrictSubsetOrdering
  <2>4. QED
    BY <1>2, <1>3, <2>3
<1>5. QED
  BY <1>4, Zenon DEF Min

LEMMA ModOf ==
  ASSUME NEW m \in Nat, NEW n \in Nat, n < m
  PROVE  n % m = n /\ (n + m) % m = n
OBVIOUS

\* A token that has no item finds an id that no item has.
LEMMA SomeIdIsFree ==
  ASSUME RegisterInv, NEW t \in Tokens, \A s \in stores : s.token # t
  PROVE  \E id \in 1 .. MaxId : \A s \in stores : s.id # id
<1> SUFFICES ASSUME \A id \in 1 .. MaxId : \E s \in stores : s.id = id
             PROVE  FALSE
  OBVIOUS
<1> DEFINE tokenOf == [id \in 1 .. MaxId |-> (CHOOSE s \in stores : s.id = id).token]
<1>1. \A id \in 1 .. MaxId : \E s \in stores : s.id = id /\ s.token = tokenOf[id]
  OBVIOUS
<1>2. tokenOf \in [1 .. MaxId -> Tokens \ {t}]
  <2>1. \A id \in 1 .. MaxId : tokenOf[id] \in Tokens \ {t}
    BY <1>1 DEF RegisterInv
  <2>2. QED
    BY <2>1
<1>3. /\ IsFiniteSet(1 .. MaxId) /\ Cardinality(1 .. MaxId) = MaxId
      /\ IsFiniteSet(Tokens \ {t}) /\ Cardinality(Tokens \ {t}) = Cardinality(Tokens) - 1
      /\ Cardinality(Tokens) \in Nat
  <2>1. IsFiniteSet(1 .. MaxId) /\ Cardinality(1 .. MaxId) = MaxId
    <3>1. MaxId \in Nat /\ 1 \in Int /\ MaxId \in Int
      BY TokenAssumption
    <3>2. QED
      BY <3>1, FS_Interval
  <2>2. QED
    BY <2>1, TokenAssumption, FS_RemoveElement, FS_CardinalityType
<1> HIDE DEF tokenOf
<1>4. PICK i, j \in 1 .. MaxId : i # j /\ tokenOf[i] = tokenOf[j]
  BY <1>2, <1>3, FS_PigeonHole, TokenAssumption
<1>5. QED
  BY <1>1, <1>4 DEF RegisterInv, OneItemEach

\* The search for an id goes around once and finds it.
LEMMA NextIdIsFree ==
  ASSUME RegisterInv, NEW t \in Tokens, \A s \in stores : s.token # t
  PROVE  Next_id \in 1 .. MaxId /\ \A s \in stores : s.id # Next_id
<1> DEFINE after == [k \in 1 .. MaxId |-> ((last_id + k - 1) % MaxId) + 1]
           free == {k \in 1 .. MaxId : \A s \in stores : s.id # after[k]}
<1>1. PICK id \in 1 .. MaxId : \A s \in stores : s.id # id
  BY SomeIdIsFree
<1>2. MaxId \in Nat \ {0} /\ last_id \in 0 .. MaxId
  BY <1>1, TokenAssumption DEF RegisterInv
<1>3. free # {}
  <2> DEFINE k == IF id > last_id THEN id - last_id ELSE id - last_id + MaxId
  <2>1. k \in 1 .. MaxId /\ after[k] = id
    <3>1. k \in 1 .. MaxId /\ last_id + k - 1 \in {id - 1, id - 1 + MaxId}
      BY <1>2
    <3>2. (last_id + k - 1) % MaxId = id - 1
      <4>1. (id - 1) % MaxId = id - 1 /\ (id - 1 + MaxId) % MaxId = id - 1
        BY <1>2, ModOf
      <4>2. QED
        BY <3>1, <4>1
    <3>3. QED
      BY <3>1, <3>2
  <2>2. QED
    BY <1>1, <2>1
<1>4. Min(free) \in free
  <2>1. free \in SUBSET Nat
    BY <1>2
  <2> HIDE DEF free
  <2>2. QED
    BY <1>3, <2>1, MinOfNat
<1>5. after[Min(free)] \in 1 .. MaxId
  <2>1. \A k \in 1 .. MaxId : after[k] \in 1 .. MaxId
    BY <1>2
  <2>2. QED
    BY <1>4, <2>1
<1>6. Next_id = after[Min(free)]
  BY DEF Next_id
<1> HIDE DEF after
<1>7. QED
  BY <1>4, <1>5, <1>6

\* _registerTokenId(): afterwards t has its item, and no item is lost.
LEMMA Registered ==
  ASSUME RegisterInv, NEW t \in Tokens, Registers(t)
  PROVE  /\ RegisterInv'
         /\ stores \subseteq stores'
         /\ IdOf(stores', t) \in 1 .. MaxId
         /\ [id |-> IdOf(stores', t), token |-> t] \in stores'
<1>1. /\ RegisterInv' /\ stores \subseteq stores'
      /\ \E s \in stores' : s.token = t
  <2>1. CASE \E s \in stores : s.token = t
    BY <2>1 DEF Registers, RegisterInv, OneItemEach
  <2>2. CASE ~ \E s \in stores : s.token = t
    <3>1. /\ stores' = stores \cup {[id |-> Next_id, token |-> t]} /\ last_id' = Next_id
          /\ Next_id \in 1 .. MaxId /\ \A s \in stores : s.id # Next_id
      BY <2>2, NextIdIsFree DEF Registers
    <3>2. QED
      <4>1. stores' \subseteq [id : 1 .. MaxId, token : Tokens] /\ last_id' \in 0 .. MaxId
        BY <3>1, TokenAssumption DEF RegisterInv
      <4>2. OneItemEach'
        BY <2>2, <3>1 DEF RegisterInv, OneItemEach
      <4> DEFINE new == [id |-> Next_id, token |-> t]
      <4>3. new \in stores' /\ new.token = t
        BY <3>1
      <4> HIDE DEF new
      <4>4. QED
        BY <3>1, <4>1, <4>2, <4>3 DEF RegisterInv
  <2>3. QED
    BY <2>1, <2>2
<1>2. PICK s \in stores' : s.token = t /\ IdOf(stores', t) = s.id
  BY <1>1 DEF IdOf
<1>3. s \in [id : 1 .. MaxId, token : Tokens]
  BY <1>1, <1>2 DEF RegisterInv
<1>4. QED
  BY <1>1, <1>2, <1>3

----------------------------------------------------------------------------
(* The invariant.                                                           *)

LEMMA InitTokens == TokenInit => TokenIInv /\ PromptsHaveItems
<1> SUFFICES ASSUME TokenInit PROVE TokenIInv /\ PromptsHaveItems
  OBVIOUS
<1> USE TokenAssumption DEF TokenInit
<1>1. TokenTypeOK /\ RegisterInv /\ items \subseteq stores
  BY DEF TokenTypeOK, RegisterInv, OneItemEach
<1>2. op \in [Users -> Operation] /\ IdleIsFree /\ SessionsUsed /\ PromptsHaveItems
  BY DEF NoOp, Operation, Steps, IdleIsFree, SessionsUsed, PromptsHaveItems
<1>3. listing \in Listing /\ ListedStay
  BY DEF NoListing, Listing, ListedStay
<1>4. QED
  BY <1>1, <1>2, <1>3 DEF TokenIInv

\* The operation of u, and no other, is at pc now, with a token.
Moves(u, pc, token) ==
  /\ op' \in [Users -> Operation]
  /\ op'[u].pc = pc /\ op'[u].token = token
  /\ \A v \in Users \ {u} : op'[v] = op[v]

\* Sessions change for u only: it has that of its token, or none.
Uses(u, token) ==
  /\ session' \in [Tokens -> Users \cup {Nobody}]
  /\ \A t \in Tokens : session'[t] = u <=> t = token
  /\ \A t \in Tokens, v \in Users \ {u} : session'[t] = v <=> session[t] = v

\* A step that leaves the items alone, and moves at most the operation of u.
LEMMA OperationStep ==
  ASSUME TokenIInv, UNCHANGED <<listing, items, present>>,
         RegisterInv', stores \subseteq stores',
         NEW u \in Users, NEW pc, NEW token, Moves(u, pc, token),
         pc = "idle" <=> token = Nobody,
         Uses(u, IF pc = "lock" THEN Nobody ELSE token)
  PROVE  TokenIInv'
<1>1. TokenTypeOK' /\ (items \subseteq stores)'
  BY DEF TokenIInv, TokenTypeOK, RegisterInv, Uses
<1>2. IdleIsFree'
  BY DEF TokenIInv, IdleIsFree, Moves
<1>3. SessionsUsed'
  <2>1. \A t \in Tokens : session'[t] = u <=> op'[u].token = t /\ op'[u].pc # "lock"
    BY TokenAssumption DEF Moves, Uses
  <2>2. \A t \in Tokens, v \in Users \ {u} :
          session'[t] = v <=> op'[v].token = t /\ op'[v].pc # "lock"
    BY DEF Moves, Uses, TokenIInv, SessionsUsed
  <2>3. QED
    BY <2>1, <2>2 DEF SessionsUsed
<1>4. QED
  BY <1>1, <1>2, <1>3 DEF TokenIInv, ListedStay, Moves

\* A step of no operation.
LEMMA TrackerStep ==
  ASSUME TokenIInv, UNCHANGED <<op, session>>, present' \subseteq Tokens,
         RegisterInv', listing' \in Listing, ListedStay', items' \subseteq stores'
  PROVE  TokenIInv'
<1>1. TokenTypeOK'
  BY DEF TokenIInv, TokenTypeOK, RegisterInv
<1>2. QED
  BY <1>1 DEF TokenIInv, IdleIsFree, SessionsUsed

LEMMA TrackerInv ==
  ASSUME TokenIInv,
         \/ \E t \in Tokens : TokenMoves(t) \/ RegisterToken(t)
         \/ SlotEventHook \/ Start \/ StartSlotEvents
         \/ KeyStores \/ KeyStoresFails \/ UpdateStores
  PROVE  TokenIInv'
<1>1. /\ UNCHANGED <<op, session>>
      /\ present' \subseteq Tokens
  BY DEF TokenMoves, RegisterToken, SlotEventHook, Start, StartSlotEvents, KeyStores,
         KeyStoresFails, UpdateStores, opVars, TokenIInv, TokenTypeOK
<1>2. CASE UNCHANGED <<listing, registerVars>> /\ (items' = items \/ items' = {})
  BY <1>1, <1>2, TrackerStep DEF registerVars, TokenIInv, RegisterInv, OneItemEach, ListedStay
<1>3. ASSUME NEW t \in Tokens, RegisterToken(t)
      PROVE  TokenIInv'
  <2>1. RegisterInv' /\ stores \subseteq stores' /\ IdOf(stores', t) \in 1 .. MaxId
    BY <1>3, Registered DEF RegisterToken, TokenIInv
  <2>2. listing' = [listing EXCEPT !.todo = @ \ {t}, !.out = @ \cup {IdOf(stores', t)},
                                   !.to_remove = @ \ {IdOf(stores', t)}]
    BY <1>3 DEF RegisterToken
  <2>3. listing' \in Listing /\ ListedStay'
    BY <2>1, <2>2 DEF TokenIInv, Listing, ListedStay
  <2>4. items' \subseteq stores'
    BY <1>3, <2>1 DEF RegisterToken, TokenIInv
  <2>5. QED
    BY <1>1, <2>1, <2>3, <2>4, TrackerStep
<1>4. CASE KeyStores
  <2>1. {s.id : s \in stores} \subseteq 1 .. MaxId
    BY DEF TokenIInv, RegisterInv
  <2>2. listing' \in Listing /\ ListedStay'
    BY <1>4, <2>1 DEF KeyStores, TokenIInv, TokenTypeOK, Listing, ListedStay
  <2>3. RegisterInv' /\ items' \subseteq stores'
    BY <1>4 DEF KeyStores, registerVars, TokenIInv, RegisterInv, OneItemEach
  <2>4. QED
    BY <1>1, <2>2, <2>3, TrackerStep
<1>5. CASE UpdateStores
  <2>1. stores' = {s \in stores : s.id \notin listing.to_remove} /\ last_id' = last_id
    BY <1>5 DEF UpdateStores
  <2>2. RegisterInv'
    BY <2>1 DEF TokenIInv, RegisterInv, OneItemEach
  <2>3. listing' \in Listing /\ ListedStay'
    BY <1>5 DEF UpdateStores, NoListing, Listing, ListedStay
  <2>4. items' \subseteq {s \in stores : s.id \in listing.out}
    BY <1>5 DEF UpdateStores, TokenIInv
  <2>5. items' \subseteq stores'
    BY <2>1, <2>4 DEF TokenIInv, ListedStay
  <2>6. QED
    BY <1>1, <2>2, <2>3, <2>5, TrackerStep
<1>6. QED
  BY <1>2, <1>3, <1>4, <1>5 DEF TokenMoves, SlotEventHook, Start, StartSlotEvents,
                               KeyStoresFails, listVars, hookVars

\* A step of u's operation that leaves the register of tokens alone.
LEMMA OwnStep ==
  ASSUME TokenIInv, UNCHANGED <<listing, items, present, registerVars>>,
         NEW u \in Users, NEW pc, NEW token, Moves(u, pc, token),
         pc # "item", pc = "idle" <=> token = Nobody,
         Uses(u, IF pc = "lock" THEN Nobody ELSE token)
  PROVE  TokenIInv' /\ (PromptsHaveItems => PromptsHaveItems')
<1>1. RegisterInv' /\ stores' = stores
  BY DEF registerVars, TokenIInv, RegisterInv, OneItemEach
<1>2. TokenIInv'
  BY <1>1, OperationStep
<1>3. PromptsHaveItems => PromptsHaveItems'
  BY <1>1 DEF PromptsHaveItems, Moves
<1>4. QED
  BY <1>2, <1>3

\* What is known of an operation that is under way.
LEMMA UnderWay ==
  ASSUME TokenIInv, NEW u \in Users
  PROVE  /\ op[u] \in Operation /\ Nobody \notin Tokens /\ Nobody \notin Users
         /\ session \in [Tokens -> Users \cup {Nobody}]
         /\ op[u].pc = "idle" => op[u].token = Nobody
         /\ op[u].pc # "idle" => op[u].token \in Tokens
         /\ \A t \in Tokens : session[t] = u <=> op[u].token = t /\ op[u].pc # "lock"
<1>1. op[u] \in Operation /\ session \in [Tokens -> Users \cup {Nobody}]
  BY DEF TokenIInv, TokenTypeOK
<1>2. op[u].token \in Tokens \cup {Nobody} /\ Nobody \notin Tokens /\ Nobody \notin Users
  BY <1>1, TokenAssumption DEF Operation
<1>3. QED
  BY <1>1, <1>2 DEF TokenIInv, IdleIsFree, SessionsUsed

LEMMA MovesTo ==
  ASSUME TokenIInv, NEW u \in Users, NEW n \in Operation, op' = [op EXCEPT ![u] = n]
  PROVE  Moves(u, n.pc, n.token)
BY DEF TokenIInv, Moves

LEMMA AtMoves ==
  ASSUME TokenIInv, NEW u \in Users, NEW pc \in Steps, At(u, pc)
  PROVE  Moves(u, pc, op[u].token)
BY DEF TokenIInv, Operation, At, Moves

LEMMA BeginInv ==
  ASSUME TokenIInv, NEW u \in Users, NEW t \in KeyTokens, Begin(u, t)
  PROVE  TokenIInv' /\ (PromptsHaveItems => PromptsHaveItems')
<1>1. /\ session' = session /\ op[u].pc = "idle"
      /\ UNCHANGED <<listing, items, present, registerVars>>
  BY DEF Begin, listVars
<1>2. t \in Tokens /\ t # Nobody /\ 0 \in 0 .. MaxId
  BY TokenAssumption
<1>3. Moves(u, "lock", t)
  <2> DEFINE n == [pc |-> "lock", token |-> t, item |-> 0]
  <2>1. n \in Operation /\ n.pc = "lock" /\ n.token = t
    BY <1>2 DEF Operation, Steps
  <2>2. op' = [op EXCEPT ![u] = n]
    BY DEF Begin
  <2> HIDE DEF n
  <2>3. QED
    BY <2>1, <2>2, MovesTo
<1>4. Uses(u, Nobody)
  BY <1>1, UnderWay DEF Uses
<1>5. QED
  BY <1>1, <1>2, <1>3, <1>4, OwnStep

\* On to another place of the operation, with the session.
LEMMA AtInv ==
  ASSUME TokenIInv, UNCHANGED <<listing, items, present, registerVars>>,
         NEW u \in Users, NEW pc \in Steps \ {"idle", "lock", "item"},
         op[u].pc \notin {"idle", "lock"}, Moves(u, pc, op[u].token),
         session' = session
  PROVE  TokenIInv' /\ (PromptsHaveItems => PromptsHaveItems')
<1>1. op[u].token \in Tokens /\ op[u].token # Nobody
  BY UnderWay
<1>2. Uses(u, op[u].token)
  BY <1>1, UnderWay DEF Uses
<1>3. QED
  BY <1>1, <1>2, OwnStep

\* The end of an operation that has no session, or no longer has it.
LEMMA EndsInv ==
  ASSUME TokenIInv, UNCHANGED <<listing, items, present, registerVars>>,
         NEW u \in Users, Ends(u), op[u].pc # "idle",
         \/ op[u].pc = "lock" /\ session' = session
         \/ op[u].pc # "lock" /\ session' = [session EXCEPT ![op[u].token] = Nobody]
  PROVE  TokenIInv' /\ (PromptsHaveItems => PromptsHaveItems')
<1>1. NoOp \in Operation /\ NoOp.pc = "idle" /\ NoOp.token = Nobody
  BY TokenAssumption DEF NoOp, Operation, Steps
<1>2. Moves(u, "idle", Nobody)
  BY <1>1, MovesTo DEF Ends
<1>3. Uses(u, Nobody)
  BY UnderWay DEF Uses
<1>4. QED
  BY <1>2, <1>3, OwnStep

\* The session was nobody's.
LEMMA LockInv ==
  ASSUME TokenIInv, NEW u \in Users, LockSession(u)
  PROVE  TokenIInv' /\ (PromptsHaveItems => PromptsHaveItems')
<1>1. UNCHANGED <<listing, items, present, registerVars>> /\ op[u].pc = "lock"
  BY DEF LockSession, KeyUnchanged, listVars
<1>2. CASE Ends(u) /\ session' = session
  BY <1>1, <1>2, EndsInv
<1>3. CASE /\ session[op[u].token] = Nobody
           /\ session' = [session EXCEPT ![op[u].token] = u]
           /\ At(u, "call")
  <2>1. Moves(u, "call", op[u].token)
    BY <1>3, AtMoves DEF Steps
  <2>2. op[u].token \in Tokens /\ op[u].token # Nobody
    BY <1>1, UnderWay
  <2>3. Uses(u, op[u].token)
    BY <1>1, <1>3, <2>2, UnderWay DEF Uses
  <2>4. QED
    BY <1>1, <2>1, <2>2, <2>3, OwnStep
<1>4. QED
  BY <1>2, <1>3 DEF LockSession

\* entryPassive(): the token has an item when the prompt uses it.
LEMMA PromptInv ==
  ASSUME TokenIInv, NEW u \in Users, Prompt(u)
  PROVE  TokenIInv' /\ (PromptsHaveItems => PromptsHaveItems')
<1> DEFINE t == op[u].token
<1>1. /\ UNCHANGED <<listing, items, present, session>> /\ op[u].pc = "call"
      /\ t \in Tokens /\ t # Nobody
  BY UnderWay DEF Prompt, KeyUnchanged, listVars
<1>2. /\ RegisterInv' /\ stores \subseteq stores' /\ IdOf(stores', t) \in 1 .. MaxId
      /\ [id |-> IdOf(stores', t), token |-> t] \in stores'
  BY <1>1, Registered DEF Prompt, TokenIInv
<1>3. Moves(u, "item", t) /\ op'[u].item = IdOf(stores', t)
  <2> DEFINE n == [pc |-> "item", token |-> t, item |-> IdOf(stores', t)]
  <2>1. n \in Operation /\ n.pc = "item" /\ n.token = t /\ n.item = IdOf(stores', t)
    BY <1>1, <1>2 DEF Operation, Steps
  <2>2. op' = [op EXCEPT ![u] = n]
    BY DEF Prompt
  <2> HIDE DEF n
  <2>3. Moves(u, "item", t)
    BY <2>1, <2>2, MovesTo
  <2>4. op'[u] = n
    BY <2>2 DEF TokenIInv
  <2>5. QED
    BY <2>1, <2>3, <2>4
<1>4. Uses(u, t)
  BY <1>1, UnderWay DEF Uses
<1> HIDE DEF t
<1>5. TokenIInv'
  BY <1>1, <1>2, <1>3, <1>4, OperationStep
<1>6. PromptsHaveItems => PromptsHaveItems'
  BY <1>2, <1>3 DEF PromptsHaveItems, Moves
<1>7. QED
  BY <1>5, <1>6

LEMMA UserInv ==
  ASSUME TokenIInv, NEW u \in Users,
         \/ \E t \in KeyTokens : Begin(u, t)
         \/ GoesOn(u)
         \/ \E accepts \in BOOLEAN : Answer(u, accepts)
  PROVE  TokenIInv' /\ (PromptsHaveItems => PromptsHaveItems')
<1> DEFINE Kept == TokenIInv' /\ (PromptsHaveItems => PromptsHaveItems')
           Rest == UNCHANGED <<listing, items, present, registerVars>>
<1>1. CASE \E t \in KeyTokens : Begin(u, t)
  BY <1>1, BeginInv
<1>2. CASE LockSession(u) \/ Prompt(u)
  BY <1>2, LockInv, PromptInv
<1>3. CASE Failed(u)
  <2>1. /\ Rest /\ Ends(u) /\ op[u].pc = "failed"
        /\ session' = [session EXCEPT ![op[u].token] = Nobody]
    BY <1>3 DEF Failed, KeyUnchanged, listVars
  <2>2. QED
    BY <2>1, EndsInv
<1>4. CASE ReleaseSession(u)
  <2>1. Rest /\ op[u].pc = "release"
    BY <1>4 DEF ReleaseSession, KeyUnchanged, listVars
  <2>2. CASE Ends(u) /\ session' = [session EXCEPT ![op[u].token] = Nobody]
    BY <2>1, <2>2, EndsInv
  <2>3. CASE At(u, "failed") /\ session' = session
    BY <2>1, <2>3, AtMoves, AtInv DEF Steps
  <2>4. QED
    BY <1>4, <2>2, <2>3 DEF ReleaseSession
<1>5. CASE Call(u)
  <2>1. Rest /\ op[u].pc = "call" /\ session' = session /\ (At(u, "release") \/ At(u, "failed"))
    BY <1>5 DEF Call, KeyUnchanged, listVars
  <2>2. QED
    BY <2>1, AtMoves, AtInv DEF Steps
<1>6. CASE Ask(u)
  <2>1. /\ Rest /\ op[u].pc = "item" /\ session' = session
    BY <1>6 DEF Ask, KeyUnchanged, listVars
  <2> DEFINE n == [pc |-> "ask", token |-> op[u].token, item |-> 0]
  <2>2. Moves(u, "ask", op[u].token)
    <3>1. n \in Operation /\ n.pc = "ask" /\ n.token = op[u].token
      BY UnderWay, TokenAssumption DEF Operation, Steps
    <3>2. op' = [op EXCEPT ![u] = n]
      BY <1>6 DEF Ask
    <3> HIDE DEF n
    <3>3. QED
      BY <3>1, <3>2, MovesTo
  <2>3. QED
    BY <2>1, <2>2, AtInv DEF Steps
<1>7. CASE \E accepts \in BOOLEAN : Answer(u, accepts)
  <2>1. Rest /\ op[u].pc = "ask" /\ session' = session /\ (At(u, "call") \/ At(u, "failed"))
    BY <1>7 DEF Answer, listVars
  <2>2. QED
    BY <2>1, AtMoves, AtInv DEF Steps
<1>8. QED
  BY <1>1, <1>2, <1>3, <1>4, <1>5, <1>6, <1>7 DEF GoesOn

LEMMA StepTokens == TokenIInv /\ [TokenNext]_tokenVars => TokenIInv'
<1>1. CASE UNCHANGED tokenVars
  BY <1>1 DEF tokenVars, listVars, registerVars, opVars, TokenIInv, TokenTypeOK, RegisterInv,
              OneItemEach, ListedStay, IdleIsFree, SessionsUsed
<1>2. QED
  BY <1>1, TrackerInv, UserInv DEF TokenNext, Tracker

\* A listing that leaves alone what the prompts are using.
LEMMA StepPrompts ==
  ASSUME ~Overlap, TokenIInv, PromptsHaveItems, [TokenNext]_tokenVars
  PROVE  PromptsHaveItems'
<1>1. CASE UNCHANGED tokenVars
  BY <1>1 DEF tokenVars, registerVars, opVars, PromptsHaveItems
<1>2. CASE UNCHANGED <<op, stores>>
  BY <1>2 DEF PromptsHaveItems
<1>3. ASSUME NEW t \in Tokens, RegisterToken(t)
      PROVE  PromptsHaveItems'
  <2>1. stores \subseteq stores' /\ op' = op
    BY <1>3, Registered DEF RegisterToken, TokenIInv, opVars
  <2>2. QED
    BY <2>1 DEF PromptsHaveItems
<1>4. CASE UpdateStores
  BY <1>4 DEF UpdateStores, opVars, PromptsHaveItems
<1>5. QED
  BY <1>1, <1>2, <1>3, <1>4, UserInv
     DEF TokenNext, Tracker, TokenMoves, SlotEventHook, Start, StartSlotEvents, KeyStores,
         KeyStoresFails, registerVars, opVars

----------------------------------------------------------------------------
\* Whatever comes and goes, fails or is answered: an id stands for one token, and a
\* token has one id, in the plugin's list and in the tracker's; what is listed has
\* its item; and the session of a token has the one user whose operation has locked
\* it.  This needs no assumption on when listings and prompts meet.
THEOREM TokensKnown == TokenSpec => []TokenIInv
<1>1. QED
  BY InitTokens, StepTokens, PTL DEF TokenSpec

\* As long as no listing deletes an item that a prompt is using, prompts use the
\* item of their token.
THEOREM TokensStayConsistent ==
  ASSUME ~Overlap
  PROVE  TokenSpec => []TokensConsistent
<1>1. TokenIInv /\ PromptsHaveItems /\ [TokenNext]_tokenVars => TokenIInv' /\ PromptsHaveItems'
  BY StepTokens, StepPrompts
<1>2. TokenIInv /\ PromptsHaveItems => TokensConsistent
  BY DEF TokenIInv, RegisterInv, OneItemEach, SessionsUsed, PromptsHaveItems, TokensConsistent
<1>3. QED
  BY InitTokens, <1>1, <1>2, PTL DEF TokenSpec

-----------------------------------------------------------------------------
(* KeyRing, the other key store whose copies are read by a program of its    *)
(* own.  That a ring is dirty while gpg reads it holds only once the store   *)
(* is there; until then the step of the start says what gpg does.            *)

\* What gpg does in each step of the start, and that it has read nothing but a ring.
StartSteps ==
  /\ init_step \in 0 .. 4 /\ initialized \in BOOLEAN /\ ended \in BOOLEAN
  /\ doing = "none" /\ ~ended => init_step = 0 /\ ~initialized
  /\ ~initialized /\ doing # "none" =>
       doing = (CASE init_step = 0 -> "check" [] init_step \in {1, 2} -> "names"
                  [] init_step = 3 -> "sec" [] init_step = 4 -> "pub")
  /\ gpgRead # Unread => doing \in Rings

\* Once the store is there, gpg reads what is dirty, and nothing else.
ReadsDirty ==
  /\ initialized /\ doing # "none" => doing \in dirty
  /\ gpgFailures \in Nat

RingInv == RingsAreShown /\ StartSteps /\ ReadsDirty

LEMMA RingInitially ==
  RingInit => RingInv
<1> USE RingAssumption DEF RingInit
<1>1. RingInit => RingTypeOK
  BY DEF RingTypeOK
<1>2. RingInit => StartSteps
  <2>1. RingInit => initialized \in BOOLEAN /\ ended \in BOOLEAN
    BY Zenon
  <2>2. QED
    BY <2>1 DEF StartSteps
<1>3. RingInit => ReadsDirty
  BY DEF ReadsDirty
<1>4. QED
  BY <1>1, <1>2, <1>3 DEF RingInv, RingsAreShown

\* What handleDirtyRings() lets gpg do.
LEMMA RereadsDirty ==
  ASSUME NEW rings, rings \subseteq Rings, Rereads(rings)
  PROVE  doing' \in {"none"} \cup rings /\ (rings # {} => doing' \in rings)
<1>1. rings \in {{}, {"sec"}, {"pub"}, {"sec", "pub"}}
  BY DEF Rings
<1>2. QED
  BY <1>1 DEF Rereads, Rings

LEMMA RingStep ==
  ASSUME RingInv, [RingNext]_ringVars
  PROVE  RingInv'
<1> USE RingAssumption DEF RingInv, RingsAreShown, RingTypeOK, StartSteps, ReadsDirty, Unread, Rings
<1>1. ASSUME NEW r \in Rings, Change(r) PROVE RingInv'
  BY <1>1 DEF Change, storeVars
<1>2. CASE GpgReads
  BY <1>2 DEF GpgReads, watchVars
<1>3. CASE dirChanged
  BY <1>3 DEF dirChanged, storeVars
<1>4. CASE handleChanged
  <2>1. changeList \subseteq Rings /\ dirty' \subseteq Rings
    BY <1>4 DEF handleChanged, changeList
  <2>2. initialized /\ doing = "none" /\ changeList # {} => doing' \in dirty'
    BY <1>4, <2>1, RereadsDirty DEF handleChanged
  <2>3. QED
    BY <1>4, <2>1, <2>2 DEF handleChanged
<1>5. CASE startStore
  BY <1>5 DEF startStore, watchVars
<1>6. CASE init_fails
  BY <1>6 DEF init_fails, Exits
<1>7. CASE init_checked
  BY <1>7 DEF init_checked, Exits, Gives, watchVars
<1>8. CASE init_named
  <2>1. watched' \subseteq Rings
    BY <1>8 DEF init_named, add, RingsAreShown, RingTypeOK, Rings
  <2>2. QED
    BY <1>8, <2>1 DEF init_named, Exits, Gives
<1>9. CASE init_secret
  BY <1>9 DEF init_secret, Exits, Gives, watchVars
<1>10. CASE init_public
  <2>1. doing' \in {"none"} \cup dirty /\ (dirty # {} => doing' \in dirty)
    BY <1>10, RereadsDirty DEF init_public
  <2>2. QED
    BY <1>10, <2>1 DEF init_public, Exits, watchVars
<1>11. CASE reread_finished
  <2>1. dirty' \subseteq Rings
    BY <1>11 DEF reread_finished
  <2>2. doing' \in {"none"} \cup dirty' /\ (dirty' # {} => doing' \in dirty')
    BY <1>11, <2>1, RereadsDirty DEF reread_finished
  <2>3. QED
    BY <1>11, <2>1, <2>2 DEF reread_finished, Exits, watchVars
<1>12. CASE reread_fails
  BY <1>12 DEF reread_fails, Exits, watchVars
<1>13. CASE UNCHANGED ringVars
  BY <1>13 DEF ringVars, storeVars, watchVars
<1>14. QED
  BY <1>1, <1>2, <1>3, <1>4, <1>5, <1>6, <1>7, <1>8, <1>9, <1>10, <1>11, <1>12, <1>13 DEF RingNext

\* What the GnuPG key store shows has been announced, and a ring that is dirty is
\* being read, comes next, or gpg has failed, however often the files change.
THEOREM RingsShown == RingSpec => []RingsAreShown
<1>1. RingInv => RingsAreShown
  BY DEF RingInv
<1>2. QED
  BY RingInitially, RingStep, <1>1, PTL DEF RingSpec

-----------------------------------------------------------------------------
(* GPGProc.  The invariant, RunInv, says of every number that gpg or the    *)
(* program has written where it is now: each stream is numbers in a row,    *)
(* and its pieces follow one another.                                       *)

RelaySignals == {"started", "error", "0", "2", "crash"}
ExitCodes == {"0", "2", "crash"}
Gone == {"failed", "0", "2", "crash"}

\* n numbers in a row, after the first a.
After(a, n) == [i \in 1 .. n |-> a + i]

\* The process, its relay and the triggers, as they are or will be: a signal that waits
\* is true, started() is the first and comes once.
ProcOK(q) ==
  /\ q = [state |-> q.state, relay |-> q.relay, startTrigger |-> q.startTrigger,
          doneTrigger |-> q.doneTrigger, started |-> q.started, broken |-> q.broken]
  /\ q.relay \in Seq(RelaySignals)
  /\ q.state \in {"none", "new", "starting", "running", "over"}
  /\ q.startTrigger <=> q.state = "new"
  /\ gpg = "off" <=> q.state \in {"none", "new"}
  /\ q.state = "none" => ~q.doneTrigger
  /\ q.state \in {"none", "new", "starting"} => q.relay = <<>> /\ ~q.started
  /\ \A i \in DOMAIN q.relay :
       /\ q.relay[i] = "started" => i = 1 /\ ~q.started
       /\ q.relay[i] \in ExitCodes => q.relay[i] = gpg
       /\ q.relay[i] = "error" => gpg \in {"failed", "crash"} \/ q.broken

\* What is known of the end of the process is true.
FinOK(q, f) ==
  /\ f = [need_status |-> f.need_status, fin_status |-> f.fin_status,
          fin_process |-> f.fin_process, success |-> f.success, code |-> f.code]
  /\ f.code \in {"none"} \union ExitCodes
  /\ f.fin_process => IF f.success THEN f.code = gpg /\ gpg \in ExitCodes
                      ELSE gpg \in {"failed", "crash"} \/ q.broken

\* What the program has heard, what is kept of a line, and what is in the pipe are
\* what gpg has written.
StatusFlow(s, heard) ==
  /\ heard = After(0, Len(heard))
  /\ s.buf = After(Len(heard), Len(s.buf))
  /\ s.pipe = After(Len(heard) + Len(s.buf), Len(s.pipe))
  /\ Len(heard) + Len(s.buf) + Len(s.pipe) = produced.status
  /\ Len(heard) > 0 => EndsLine(Len(heard))
  /\ \A i \in 1 .. Len(s.buf) : ~EndsLine(Len(heard) + i)

\* The status pipe is open until it is known to be at its end, and whatever was in it
\* then is not lost, unless the run is known to be broken.
StatusOK(q, s, f, heard) ==
  /\ s = [pipe |-> s.pipe, valid |-> s.valid, buf |-> s.buf]
  /\ s.pipe \in Seq(Nat) /\ s.buf \in Seq(Nat) /\ heard \in Seq(Nat)
  /\ q.state = "none" => ~s.valid
  /\ ~s.valid => s.pipe = <<>>
  /\ q.state # "none" =>
       /\ s.valid <=> f.need_status /\ ~f.fin_status
       /\ f.need_status /\ ~s.valid /\ ~q.broken => gpg \in Gone
       /\ s.valid \/ ~q.broken => StatusFlow(s, heard)

\* One end, and after it at most a reset; none of the session that is on.
EndsAt ==
  /\ \/ ends = <<>>
     \/ ends = <<ends[1]>>
     \/ ends = <<ends[1], ends[2]>> /\ ends[1].how # "reset" /\ ends[2].how = "reset"
  /\ proc.state # "none" => ends = <<>>

OutputFlow ==
  /\ taken.out = After(0, Len(taken.out))
  /\ out.qt = After(Len(taken.out), Len(out.qt))
  /\ out.leftover = After(Len(taken.out) + Len(out.qt), Len(out.leftover))
  /\ Len(taken.out) + Len(out.qt) + Len(out.leftover) = produced.out

OutputAt ==
  /\ out = [qt |-> out.qt, leftover |-> out.leftover]
  /\ taken = [out |-> taken.out, status |-> taken.status]
  /\ produced = [out |-> produced.out, status |-> produced.status]
  /\ out.qt \in Seq(Nat) /\ out.leftover \in Seq(Nat) /\ taken.out \in Seq(Nat)
  /\ produced.out \in Nat /\ produced.status \in Nat
  /\ proc.state # "none" => out.leftover = <<>>
  /\ proc.state = "none" => out.qt = <<>>
  /\ ~Ended("reset") /\ ~Ended("pipe error") => OutputFlow

\* What was written to a channel: passed on, or kept until the process is known to run,
\* and until then it cannot be closed.
ChannelOK(q, ch, n) ==
  /\ ch = [pre |-> ch.pre, pre_close |-> ch.pre_close, sent |-> ch.sent,
           closed |-> ch.closed]
  /\ ch.pre \in Seq(Nat) /\ ch.sent \in Seq(Nat)
  /\ n \in 0 .. MaxChunks
  /\ q.state # "none" =>
       /\ ch.sent = After(0, Len(ch.sent)) /\ ch.pre = After(Len(ch.sent), Len(ch.pre))
       /\ Len(ch.sent) + Len(ch.pre) = n
       /\ q.state = "running" /\ q.started => ch.pre = <<>>
       /\ ~q.started => ~ch.closed

ChannelsAt ==
  /\ chan = [c \in Channels |-> chan[c]] /\ given = [c \in Channels |-> given[c]]
  /\ \A c \in Channels : ChannelOK(proc, chan[c], given[c])

CountsAt == errors \in Nat /\ starts \in 0 .. MaxStarts /\ errors <= starts

RunInv ==
  /\ gpg \in {"off", "alive"} \union Gone
  /\ ProcOK(proc) /\ FinOK(proc, fin) /\ StatusOK(proc, status, fin, taken.status)
  /\ EndsAt /\ OutputAt /\ ChannelsAt /\ CountsAt
  /\ EndIsTrue /\ StatusBeforeEnd

\* What is in the status pipe is read at once.
PipeFits == Len(status.pipe) <= ReadBuf

-----------------------------------------------------------------------------
\* Numbers in a row: their type, and what of them is the same written in pieces.
LEMMA AfterType ==
  ASSUME NEW a \in Nat, NEW n \in Nat
  PROVE  /\ After(a, n) \in Seq(Nat) /\ Len(After(a, n)) = n
         /\ \A i \in 1 .. n : After(a, n)[i] = a + i
         /\ (n = 0 => After(a, n) = <<>>)
<1>1. After(a, n) \in [1 .. n -> Nat]
  BY DEF After
<1>2. After(a, n) \in Seq(Nat) /\ Len(After(a, n)) = n
  BY <1>1
<1>3. n = 0 => After(a, n) = <<>>
  BY <1>2
<1>4. QED
  BY <1>2, <1>3 DEF After

LEMMA EmptyIsAfter ==
  ASSUME NEW a \in Nat
  PROVE  <<>> = After(a, 0) /\ <<>> = After(a, Len(<<>>))
BY AfterType

LEMMA AfterJoins ==
  ASSUME NEW a \in Nat, NEW m \in Nat, NEW n \in Nat
  PROVE  After(a, m) \o After(a + m, n) = After(a, m + n)
<1> DEFINE s == After(a, m)
           t == After(a + m, n)
           both == After(a, m + n)
<1>1. s \in Seq(Nat) /\ Len(s) = m /\ \A i \in 1 .. m : s[i] = a + i
  BY AfterType
<1>2. t \in Seq(Nat) /\ Len(t) = n /\ \A i \in 1 .. n : t[i] = a + m + i
  <2>1. a + m \in Nat
    OBVIOUS
  <2>2. QED
    BY <2>1, AfterType
<1>3. both \in Seq(Nat) /\ Len(both) = m + n /\ \A i \in 1 .. m + n : both[i] = a + i
  <2>1. m + n \in Nat
    OBVIOUS
  <2>2. QED
    BY <2>1, AfterType
<1> HIDE DEF s, t, both
<1>4. s \o t \in Seq(Nat) /\ Len(s \o t) = m + n
  BY <1>1, <1>2
<1>5. ASSUME NEW i \in 1 .. m + n PROVE (s \o t)[i] = both[i]
  <2>1. CASE i <= m
    BY <1>1, <1>2, <1>3, <2>1
  <2>2. CASE i > m
    <3>1. i - m \in 1 .. n /\ (s \o t)[i] = t[i - m]
      BY <1>1, <1>2, <2>2
    <3>2. t[i - m] = a + m + (i - m)
      BY <1>2, <3>1
    <3>3. both[i] = a + i
      BY <1>3
    <3>4. QED
      BY <3>1, <3>2, <3>3
  <2>3. i <= m \/ i > m
    OBVIOUS
  <2>4. QED
    BY <2>1, <2>2, <2>3
<1>6. s \o t = both
  BY <1>3, <1>4, <1>5, SeqEqual
<1>7. QED
  BY <1>6 DEF s, t, both

\* The same for numbers from the first one on.
LEMMA AfterFirst ==
  \A m \in Nat, n \in Nat : After(0, m) \o After(m, n) = After(0, m + n)
<1>1. ASSUME NEW m \in Nat, NEW n \in Nat PROVE After(0, m) \o After(m, n) = After(0, m + n)
  <2>1. 0 \in Nat /\ 0 + m = m
    OBVIOUS
  <2>2. After(0, m) \o After(0 + m, n) = After(0, m + n)
    BY <2>1, AfterJoins
  <2>3. QED
    BY <2>1, <2>2
<1>2. QED
  BY <1>1

LEMMA AfterGrows ==
  ASSUME NEW a \in Nat, NEW n \in Nat
  PROVE  Append(After(a, n), a + n + 1) = After(a, n + 1)
<1>1. /\ After(a, n) \in Seq(Nat) /\ After(a, n + 1) \in Seq(Nat)
      /\ Len(After(a, n)) = n /\ Len(After(a, n + 1)) = n + 1
      /\ \A i \in 1 .. n : After(a, n)[i] = a + i
      /\ \A i \in 1 .. n + 1 : After(a, n + 1)[i] = a + i
  BY AfterType
<1>2. /\ Append(After(a, n), a + n + 1) \in Seq(Nat)
      /\ Len(Append(After(a, n), a + n + 1)) = n + 1
      /\ \A i \in 1 .. n + 1 : Append(After(a, n), a + n + 1)[i] = After(a, n + 1)[i]
  BY <1>1
<1>3. QED
  BY <1>1, <1>2

LEMMA AppendAfter ==
  ASSUME NEW i \in Nat, NEW k \in Nat
  PROVE  /\ Append(After(i, k), i + k + 1) = After(i, k + 1)
         /\ After(i, k + 1) \in Seq(Nat) /\ Len(After(i, k + 1)) = k + 1
         /\ i + (k + 1) = i + k + 1
<1>1. k + 1 \in Nat /\ i + (k + 1) = i + k + 1
  OBVIOUS
<1>2. Append(After(i, k), i + k + 1) = After(i, k + 1)
  BY AfterGrows
<1>3. After(i, k + 1) \in Seq(Nat) /\ Len(After(i, k + 1)) = k + 1
  BY <1>1, AfterType
<1>4. QED
  BY <1>1, <1>2, <1>3

LEMMA AfterSplits ==
  ASSUME NEW a \in Nat, NEW n \in Nat, NEW k \in 0 .. n
  PROVE  /\ SubSeq(After(a, n), 1, k) = After(a, k)
         /\ SubSeq(After(a, n), k + 1, n) = After(a + k, n - k)
<1> DEFINE s == After(a, k)
           t == After(a + k, n - k)
<1>1. s \in Seq(Nat) /\ Len(s) = k
  BY AfterType
<1>2. t \in Seq(Nat) /\ Len(t) = n - k
  <2>1. a + k \in Nat /\ n - k \in Nat
    OBVIOUS
  <2>2. QED
    BY <2>1, AfterType
<1>3. After(a, n) = s \o t
  <2>1. n - k \in Nat /\ k \in Nat /\ k + (n - k) = n
    OBVIOUS
  <2>2. s \o t = After(a, k + (n - k))
    BY <2>1, AfterJoins
  <2>3. QED
    BY <2>1, <2>2
<1> HIDE DEF s, t
<1>4. SubSeq(s \o t, 1, k) = s
  BY <1>1, <1>2
<1>5. SubSeq(s \o t, k + 1, n) = t
  BY <1>1, <1>2
<1>6. QED
  BY <1>3, <1>4, <1>5 DEF s, t

LEMMA NumbersAre ==
  ASSUME NEW n \in Nat
  PROVE  Numbers(n) = After(0, n)
<1>1. \A i \in 1 .. n : 0 + i = i
  OBVIOUS
<1>2. QED
  BY <1>1 DEF Numbers, After

\* A set of numbers that is not empty has a least one.
LEMMA LeastOf ==
  ASSUME NEW S \in SUBSET Nat, S # {}
  PROVE  \E n \in S : \A y \in S : n <= y
<1> DEFINE below == {0 .. n : n \in S}
<1>1. below \subseteq FiniteSubsetsOf(Nat)
  <2>1. \A n \in S : IsFiniteSet(0 .. n) /\ 0 .. n \subseteq Nat
    BY FS_Interval
  <2>2. QED
    BY <2>1 DEF FiniteSubsetsOf
<1>2. PICK b \in below : \A c0 \in below : ~ (<<c0, b>> \in StrictSubsetOrdering(Nat))
  <2>1. below # {}
    OBVIOUS
  <2>2. QED
    BY <1>1, <2>1, WFMin, FS_StrictSubsetOrderingWellFounded
<1>3. PICK least \in S : b = 0 .. least
  OBVIOUS
<1>4. ASSUME NEW y \in S, ~(least <= y) PROVE FALSE
  <2>1. 0 .. y \subseteq 0 .. least /\ least \in 0 .. least /\ least \notin 0 .. y
    BY <1>4
  <2>2. 0 .. y \in SUBSET Nat /\ 0 .. least \in SUBSET Nat /\ 0 .. y # 0 .. least
    BY <2>1
  <2>3. <<0 .. y, 0 .. least>> \in StrictSubsetOrdering(Nat)
    BY <2>1, <2>2, Zenon DEF StrictSubsetOrdering
  <2>4. QED
    BY <1>2, <1>3, <2>3
<1>5. QED
  BY <1>4

\* Of any units, some are whole lines, if none at all; and how many is one number.
LEMMA LastEndIs ==
  ASSUME NEW units \in Seq(Nat)
  PROVE  LastEnd(units) \in 0 .. Len(units) /\ WholeLines(units, LastEnd(units))
<1> DEFINE kept == {k \in 0 .. Len(units) : Len(units) - k > 0 => EndsLine(units[Len(units) - k])}
<1>1. Len(units) \in Nat /\ Len(units) \in kept /\ kept \subseteq Nat
  OBVIOUS
<1>2. PICK k \in kept : \A y \in kept : k <= y
  BY <1>1, LeastOf
<1>3. Len(units) - k \in 0 .. Len(units) /\ WholeLines(units, Len(units) - k)
  <2>1. ASSUME NEW m \in Len(units) - k + 1 .. Len(units), EndsLine(units[m]) PROVE FALSE
    <3>1. Len(units) - m \in 0 .. Len(units) /\ Len(units) - (Len(units) - m) = m
          /\ Len(units) - m < k
      BY <1>1, <2>1
    <3>2. Len(units) - m \in kept
      BY <2>1, <3>1
    <3>3. QED
      BY <1>1, <1>2, <3>1, <3>2
  <2>2. QED
    BY <1>1, <1>2, <2>1 DEF WholeLines
<1>4. QED
  BY <1>3 DEF LastEnd

LEMMA LastEndUnique ==
  ASSUME NEW units \in Seq(Nat), NEW n \in 0 .. Len(units), WholeLines(units, n)
  PROVE  LastEnd(units) = n
<1>1. LastEnd(units) \in 0 .. Len(units) /\ WholeLines(units, LastEnd(units))
  BY LastEndIs
<1>2. Len(units) \in Nat
  OBVIOUS
<1>3. ASSUME NEW i \in 0 .. Len(units), NEW j \in 0 .. Len(units), i < j,
             WholeLines(units, i), WholeLines(units, j)
      PROVE  FALSE
  BY <1>2, <1>3 DEF WholeLines
<1>4. QED
  BY <1>1, <1>2, <1>3

-----------------------------------------------------------------------------
\* What the steps change of the record of the process.
LEMMA ProcUpdates ==
  ASSUME NEW q, NEW v, NEW x,
         q = [state |-> q.state, relay |-> q.relay, startTrigger |-> q.startTrigger,
              doneTrigger |-> q.doneTrigger, started |-> q.started, broken |-> q.broken]
  PROVE  /\ [q EXCEPT !.relay = v] = [state |-> q.state, relay |-> v,
                 startTrigger |-> q.startTrigger, doneTrigger |-> q.doneTrigger,
                 started |-> q.started, broken |-> q.broken]
         /\ [q EXCEPT !.doneTrigger = v] = [state |-> q.state, relay |-> q.relay,
                 startTrigger |-> q.startTrigger, doneTrigger |-> v, started |-> q.started,
                 broken |-> q.broken]
         /\ [q EXCEPT !.started = v] = [state |-> q.state, relay |-> q.relay,
                 startTrigger |-> q.startTrigger, doneTrigger |-> q.doneTrigger,
                 started |-> v, broken |-> q.broken]
         /\ [q EXCEPT !.state = x, !.relay = v] = [state |-> x, relay |-> v,
                 startTrigger |-> q.startTrigger, doneTrigger |-> q.doneTrigger,
                 started |-> q.started, broken |-> q.broken]
         /\ [q EXCEPT !.broken = x, !.relay = v] = [state |-> q.state, relay |-> v,
                 startTrigger |-> q.startTrigger, doneTrigger |-> q.doneTrigger,
                 started |-> q.started, broken |-> x]
         /\ [q EXCEPT !.startTrigger = x, !.state = v] = [state |-> v, relay |-> q.relay,
                 startTrigger |-> x, doneTrigger |-> q.doneTrigger, started |-> q.started,
                 broken |-> q.broken]
<1>1. [q EXCEPT !.relay = v] = [state |-> q.state, relay |-> v,
          startTrigger |-> q.startTrigger, doneTrigger |-> q.doneTrigger,
          started |-> q.started, broken |-> q.broken]
  <2>1. SUFFICES ASSUME NEW y, y = [q EXCEPT !.relay = v]
                 PROVE  y = [state |-> q.state, relay |-> v,
                             startTrigger |-> q.startTrigger, doneTrigger |-> q.doneTrigger,
                             started |-> q.started, broken |-> q.broken]
    OBVIOUS
  <2>2. QED
    BY <2>1
<1>2. [q EXCEPT !.doneTrigger = v] = [state |-> q.state, relay |-> q.relay,
          startTrigger |-> q.startTrigger, doneTrigger |-> v, started |-> q.started,
          broken |-> q.broken]
  <2>1. SUFFICES ASSUME NEW y, y = [q EXCEPT !.doneTrigger = v]
                 PROVE  y = [state |-> q.state, relay |-> q.relay,
                             startTrigger |-> q.startTrigger, doneTrigger |-> v,
                             started |-> q.started, broken |-> q.broken]
    OBVIOUS
  <2>2. QED
    BY <2>1
<1>3. [q EXCEPT !.started = v] = [state |-> q.state, relay |-> q.relay,
          startTrigger |-> q.startTrigger, doneTrigger |-> q.doneTrigger, started |-> v,
          broken |-> q.broken]
  <2>1. SUFFICES ASSUME NEW y, y = [q EXCEPT !.started = v]
                 PROVE  y = [state |-> q.state, relay |-> q.relay,
                             startTrigger |-> q.startTrigger, doneTrigger |-> q.doneTrigger,
                             started |-> v, broken |-> q.broken]
    OBVIOUS
  <2>2. QED
    BY <2>1
<1>4. [q EXCEPT !.state = x, !.relay = v] = [state |-> x, relay |-> v,
          startTrigger |-> q.startTrigger, doneTrigger |-> q.doneTrigger,
          started |-> q.started, broken |-> q.broken]
  <2>1. SUFFICES ASSUME NEW y, y = [q EXCEPT !.state = x, !.relay = v]
                 PROVE  y = [state |-> x, relay |-> v, startTrigger |-> q.startTrigger,
                             doneTrigger |-> q.doneTrigger, started |-> q.started,
                             broken |-> q.broken]
    OBVIOUS
  <2>2. QED
    BY <2>1
<1>5. [q EXCEPT !.broken = x, !.relay = v] = [state |-> q.state, relay |-> v,
          startTrigger |-> q.startTrigger, doneTrigger |-> q.doneTrigger,
          started |-> q.started, broken |-> x]
  <2>1. SUFFICES ASSUME NEW y, y = [q EXCEPT !.broken = x, !.relay = v]
                 PROVE  y = [state |-> q.state, relay |-> v,
                             startTrigger |-> q.startTrigger, doneTrigger |-> q.doneTrigger,
                             started |-> q.started, broken |-> x]
    OBVIOUS
  <2>2. QED
    BY <2>1
<1>6. [q EXCEPT !.startTrigger = x, !.state = v] = [state |-> v, relay |-> q.relay,
          startTrigger |-> x, doneTrigger |-> q.doneTrigger, started |-> q.started,
          broken |-> q.broken]
  <2>1. SUFFICES ASSUME NEW y, y = [q EXCEPT !.startTrigger = x, !.state = v]
                 PROVE  y = [state |-> v, relay |-> q.relay, startTrigger |-> x,
                             doneTrigger |-> q.doneTrigger, started |-> q.started,
                             broken |-> q.broken]
    OBVIOUS
  <2>2. QED
    BY <2>1
<1>7. QED
  BY <1>1, <1>2, <1>3, <1>4, <1>5, <1>6

\* And of what is known of the end.
LEMMA FinUpdates ==
  ASSUME NEW f, NEW v, NEW x,
         f = [need_status |-> f.need_status, fin_status |-> f.fin_status,
              fin_process |-> f.fin_process, success |-> f.success, code |-> f.code]
  PROVE  /\ [f EXCEPT !.fin_status = v] = [need_status |-> f.need_status, fin_status |-> v,
                 fin_process |-> f.fin_process, success |-> f.success, code |-> f.code]
         /\ [f EXCEPT !.fin_process = v, !.success = x] = [need_status |-> f.need_status,
                 fin_status |-> f.fin_status, fin_process |-> v, success |-> x,
                 code |-> f.code]
<1>1. [f EXCEPT !.fin_status = v] = [need_status |-> f.need_status, fin_status |-> v,
          fin_process |-> f.fin_process, success |-> f.success, code |-> f.code]
  <2>1. SUFFICES ASSUME NEW y, y = [f EXCEPT !.fin_status = v]
                 PROVE  y = [need_status |-> f.need_status, fin_status |-> v,
                             fin_process |-> f.fin_process, success |-> f.success,
                             code |-> f.code]
    OBVIOUS
  <2>2. QED
    BY <2>1
<1>2. [f EXCEPT !.fin_process = v, !.success = x] = [need_status |-> f.need_status,
          fin_status |-> f.fin_status, fin_process |-> v, success |-> x, code |-> f.code]
  <2>1. SUFFICES ASSUME NEW y, y = [f EXCEPT !.fin_process = v, !.success = x]
                 PROVE  y = [need_status |-> f.need_status, fin_status |-> f.fin_status,
                             fin_process |-> v, success |-> x, code |-> f.code]
    OBVIOUS
  <2>2. QED
    BY <2>1
<1>3. QED
  BY <1>1, <1>2

\* And of the status pipe.
LEMMA StatusUpdates ==
  ASSUME NEW s, NEW v, NEW x,
         s = [pipe |-> s.pipe, valid |-> s.valid, buf |-> s.buf]
  PROVE  /\ [s EXCEPT !.valid = v] = [pipe |-> s.pipe, valid |-> v, buf |-> s.buf]
         /\ [s EXCEPT !.pipe = v] = [pipe |-> v, valid |-> s.valid, buf |-> s.buf]
<1>1. [s EXCEPT !.valid = v] = [pipe |-> s.pipe, valid |-> v, buf |-> s.buf]
  <2>1. SUFFICES ASSUME NEW y, y = [s EXCEPT !.valid = v]
                 PROVE  y = [pipe |-> s.pipe, valid |-> v, buf |-> s.buf]
    OBVIOUS
  <2>2. QED
    BY <2>1
<1>2. [s EXCEPT !.pipe = v] = [pipe |-> v, valid |-> s.valid, buf |-> s.buf]
  <2>1. SUFFICES ASSUME NEW y, y = [s EXCEPT !.pipe = v]
                 PROVE  y = [pipe |-> v, valid |-> s.valid, buf |-> s.buf]
    OBVIOUS
  <2>2. QED
    BY <2>1
<1>3. QED
  BY <1>1, <1>2

-----------------------------------------------------------------------------
\* What the steps change of a channel.
LEMMA ChannelUpdates ==
  ASSUME NEW ch, NEW v,
         ch = [pre |-> ch.pre, pre_close |-> ch.pre_close, sent |-> ch.sent,
               closed |-> ch.closed]
  PROVE  /\ [ch EXCEPT !.pre = v] = [pre |-> v, pre_close |-> ch.pre_close,
                 sent |-> ch.sent, closed |-> ch.closed]
         /\ [ch EXCEPT !.pre_close = v] = [pre |-> ch.pre, pre_close |-> v,
                 sent |-> ch.sent, closed |-> ch.closed]
         /\ [ch EXCEPT !.sent = v] = [pre |-> ch.pre, pre_close |-> ch.pre_close,
                 sent |-> v, closed |-> ch.closed]
         /\ [ch EXCEPT !.closed = v] = [pre |-> ch.pre, pre_close |-> ch.pre_close,
                 sent |-> ch.sent, closed |-> v]
<1>1. [ch EXCEPT !.pre = v] = [pre |-> v, pre_close |-> ch.pre_close, sent |-> ch.sent,
          closed |-> ch.closed]
  <2>1. SUFFICES ASSUME NEW y, y = [ch EXCEPT !.pre = v]
                 PROVE  y = [pre |-> v, pre_close |-> ch.pre_close, sent |-> ch.sent,
                             closed |-> ch.closed]
    OBVIOUS
  <2>2. QED
    BY <2>1
<1>2. [ch EXCEPT !.pre_close = v] = [pre |-> ch.pre, pre_close |-> v, sent |-> ch.sent,
          closed |-> ch.closed]
  <2>1. SUFFICES ASSUME NEW y, y = [ch EXCEPT !.pre_close = v]
                 PROVE  y = [pre |-> ch.pre, pre_close |-> v, sent |-> ch.sent,
                             closed |-> ch.closed]
    OBVIOUS
  <2>2. QED
    BY <2>1
<1>3. [ch EXCEPT !.sent = v] = [pre |-> ch.pre, pre_close |-> ch.pre_close, sent |-> v,
          closed |-> ch.closed]
  <2>1. SUFFICES ASSUME NEW y, y = [ch EXCEPT !.sent = v]
                 PROVE  y = [pre |-> ch.pre, pre_close |-> ch.pre_close, sent |-> v,
                             closed |-> ch.closed]
    OBVIOUS
  <2>2. QED
    BY <2>1
<1>4. [ch EXCEPT !.closed = v] = [pre |-> ch.pre, pre_close |-> ch.pre_close,
          sent |-> ch.sent, closed |-> v]
  <2>1. SUFFICES ASSUME NEW y, y = [ch EXCEPT !.closed = v]
                 PROVE  y = [pre |-> ch.pre, pre_close |-> ch.pre_close, sent |-> ch.sent,
                             closed |-> v]
    OBVIOUS
  <2>2. QED
    BY <2>1
<1>5. QED
  BY <1>1, <1>2, <1>3, <1>4

\* A channel whose first chunks are passed on and whose others are kept is in order.
LEMMA ChannelIs ==
  ASSUME NEW q, NEW ch, NEW n \in 0 .. MaxChunks, NEW i \in Nat, NEW k \in Nat,
         ch = [pre |-> ch.pre, pre_close |-> ch.pre_close, sent |-> ch.sent,
               closed |-> ch.closed],
         ch.sent = After(0, i), ch.pre = After(i, k), i + k = n,
         q.state = "running" /\ q.started => k = 0,
         ~q.started => ~ch.closed
  PROVE  ChannelOK(q, ch, n)
<1>1. /\ After(0, i) \in Seq(Nat) /\ Len(After(0, i)) = i
      /\ After(i, k) \in Seq(Nat) /\ Len(After(i, k)) = k
      /\ k = 0 => After(i, k) = <<>>
  BY AfterType
<1>2. QED
  BY <1>1 DEF ChannelOK

\* And that is what a channel in order is.
LEMMA ChannelParts ==
  ASSUME NEW q, NEW ch, NEW n, ChannelOK(q, ch, n), q.state # "none"
  PROVE  \E i \in Nat, k \in Nat :
           /\ ch.sent = After(0, i) /\ ch.pre = After(i, k) /\ i + k = n
           /\ i = Len(ch.sent) /\ k = Len(ch.pre)
           /\ q.state = "running" /\ q.started => k = 0
<1>1. ch.sent \in Seq(Nat) /\ ch.pre \in Seq(Nat)
  BY DEF ChannelOK
<1>2. Len(ch.sent) \in Nat /\ Len(ch.pre) \in Nat /\ (ch.pre = <<>> => Len(ch.pre) = 0)
  BY <1>1
<1>3. /\ ch.sent = After(0, Len(ch.sent)) /\ ch.pre = After(Len(ch.sent), Len(ch.pre))
      /\ Len(ch.sent) + Len(ch.pre) = n
      /\ q.state = "running" /\ q.started => ch.pre = <<>>
  BY DEF ChannelOK
<1>4. QED
  BY <1>2, <1>3

\* A chunk is passed on, or kept.
LEMMA ChannelWritten ==
  ASSUME NEW q, NEW ch, NEW n, ChannelOK(q, ch, n), q.state # "none", n < MaxChunks,
         ~ch.closed, q.started \/ q.state # "running"
  PROVE  /\ n + 1 \in 0 .. MaxChunks
         /\ ChannelOK(q, IF q.state = "running" THEN PassOn(ch, <<n + 1>>)
                         ELSE [ch EXCEPT !.pre = Append(@, n + 1)], n + 1)
<1>1. PICK i \in Nat, k \in Nat :
        /\ ch.sent = After(0, i) /\ ch.pre = After(i, k) /\ i + k = n
        /\ q.state = "running" /\ q.started => k = 0
  BY ChannelParts
<1>2. ch = [pre |-> ch.pre, pre_close |-> ch.pre_close, sent |-> ch.sent,
            closed |-> ch.closed]
  BY DEF ChannelOK
<1>3. n + 1 \in 0 .. MaxChunks
  BY BoundsAssumption DEF ChannelOK
<1>4. CASE q.state = "running"
  <2>1. k = 0 /\ i = n /\ 0 + i + 1 = n + 1 /\ i + 1 = n + 1 /\ n \in Nat /\ n + 1 \in Nat
    BY <1>1, <1>4
  <2>2. ch.sent \in Seq(Nat) /\ ch.sent \o <<n + 1>> = Append(ch.sent, n + 1)
    BY DEF ChannelOK
  <2>3. Append(After(0, i), 0 + i + 1) = After(0, i + 1)
    BY AfterGrows
  <2>4. ch.sent \o <<n + 1>> = After(0, n + 1)
    BY <1>1, <2>1, <2>2, <2>3
  <2>5. PassOn(ch, <<n + 1>>) = [pre |-> ch.pre, pre_close |-> ch.pre_close,
                                 sent |-> After(0, n + 1), closed |-> ch.closed]
    <3>1. PassOn(ch, <<n + 1>>) = [ch EXCEPT !.sent = ch.sent \o <<n + 1>>]
      BY DEF PassOn
    <3>2. QED
      BY <1>2, <2>4, <3>1, ChannelUpdates
  <2>6. ch.pre = After(n + 1, 0)
    BY <1>1, <2>1, AfterType
  <2> DEFINE y == PassOn(ch, <<n + 1>>)
  <2>7. /\ y = [pre |-> y.pre, pre_close |-> y.pre_close, sent |-> y.sent,
                closed |-> y.closed]
        /\ y.sent = After(0, n + 1) /\ y.pre = After(n + 1, 0) /\ ~y.closed
    BY <2>5, <2>6
  <2> HIDE DEF y
  <2>8. n + 1 + 0 = n + 1
    BY <2>1
  <2>9. ChannelOK(q, y, n + 1)
    BY <1>3, <2>1, <2>7, <2>8, ChannelIs
  <2>10. QED
    BY <1>3, <1>4, <2>9 DEF y
<1>5. CASE q.state # "running"
  <2>1. i + k + 1 = n + 1 /\ k + 1 \in Nat /\ i + (k + 1) = n + 1
    BY <1>1
  <2>2. Append(After(i, k), i + k + 1) = After(i, k + 1)
    BY AfterGrows
  <2>3. Append(ch.pre, n + 1) = After(i, k + 1)
    BY <1>1, <2>1, <2>2
  <2> DEFINE y == [ch EXCEPT !.pre = Append(ch.pre, n + 1)]
  <2>4. y = [pre |-> After(i, k + 1), pre_close |-> ch.pre_close, sent |-> ch.sent,
             closed |-> ch.closed]
    <3> DEFINE v == Append(ch.pre, n + 1)
    <3>1. [ch EXCEPT !.pre = v] = [pre |-> v, pre_close |-> ch.pre_close, sent |-> ch.sent,
                                   closed |-> ch.closed]
      BY <1>2, ChannelUpdates
    <3>2. QED
      BY <2>3, <3>1
  <2>5. /\ y = [pre |-> y.pre, pre_close |-> y.pre_close, sent |-> y.sent,
                closed |-> y.closed]
        /\ y.sent = After(0, i) /\ y.pre = After(i, k + 1) /\ ~y.closed
    BY <1>1, <2>4
  <2> HIDE DEF y
  <2>6. ChannelOK(q, y, n + 1)
    BY <1>3, <1>5, <2>1, <2>5, ChannelIs
  <2>7. QED
    BY <1>3, <1>5, <2>6 DEF y
<1>6. QED
  BY <1>4, <1>5

\* A channel is closed, or will be.
LEMMA ChannelClosed ==
  ASSUME NEW q, NEW ch, NEW n, ChannelOK(q, ch, n), q.started \/ q.state # "running"
  PROVE  ChannelOK(q, IF q.state = "running" THEN CloseNow(ch)
                      ELSE [ch EXCEPT !.pre_close = TRUE], n)
<1>1. ch = [pre |-> ch.pre, pre_close |-> ch.pre_close, sent |-> ch.sent,
            closed |-> ch.closed]
  BY DEF ChannelOK
<1>2. CASE q.state = "running"
  <2>1. CloseNow(ch) = [pre |-> ch.pre, pre_close |-> ch.pre_close, sent |-> ch.sent,
                        closed |-> TRUE]
    BY <1>1, ChannelUpdates DEF CloseNow
  <2> DEFINE y == CloseNow(ch)
  <2>2. /\ y = [pre |-> y.pre, pre_close |-> y.pre_close, sent |-> y.sent,
                closed |-> y.closed]
        /\ y.pre = ch.pre /\ y.sent = ch.sent /\ q.started
    BY <1>2, <2>1
  <2> HIDE DEF y
  <2>3. ChannelOK(q, y, n)
    BY <2>2 DEF ChannelOK
  <2>4. QED
    BY <1>2, <2>3 DEF y
<1>3. CASE q.state # "running"
  <2> DEFINE y == [ch EXCEPT !.pre_close = TRUE]
  <2>1. y = [pre |-> ch.pre, pre_close |-> TRUE, sent |-> ch.sent, closed |-> ch.closed]
    BY <1>1, ChannelUpdates
  <2>2. /\ y = [pre |-> y.pre, pre_close |-> y.pre_close, sent |-> y.sent,
                closed |-> y.closed]
        /\ y.pre = ch.pre /\ y.sent = ch.sent /\ y.closed = ch.closed
    BY <2>1
  <2> HIDE DEF y
  <2>3. ChannelOK(q, y, n)
    BY <2>2 DEF ChannelOK
  <2>4. QED
    BY <1>3, <2>3 DEF y
<1>4. QED
  BY <1>2, <1>3

\* What was kept is passed on when the process is known to run, and then the channel is
\* closed if it was to be.
LEMMA ChannelFlushed ==
  ASSUME NEW q, NEW r, NEW ch, NEW n, ChannelOK(q, ch, n), ~q.started, r.started,
         q.state # "none"
  PROVE  ChannelOK(r, PassOnPre(ch), n)
<1>1. PICK i \in Nat, k \in Nat :
        ch.sent = After(0, i) /\ ch.pre = After(i, k) /\ i + k = n
  BY ChannelParts
<1>2. /\ ch = [pre |-> ch.pre, pre_close |-> ch.pre_close, sent |-> ch.sent,
               closed |-> ch.closed]
      /\ n \in 0 .. MaxChunks /\ ~ch.closed /\ n \in Nat
  BY BoundsAssumption DEF ChannelOK
<1> DEFINE passed == [ch EXCEPT !.sent = ch.sent \o ch.pre]
           filled == [passed EXCEPT !.pre = <<>>]
           y == PassOnPre(ch)
<1>3. y = IF ch.pre_close THEN CloseNow(filled) ELSE filled
  <2>1. PassOn(ch, ch.pre) = passed
    BY <1>2 DEF PassOn
  <2>2. passed.pre_close = ch.pre_close
    <3>1. passed = [pre |-> ch.pre, pre_close |-> ch.pre_close,
                    sent |-> ch.sent \o ch.pre, closed |-> ch.closed]
      BY <1>2, ChannelUpdates
    <3>2. QED
      BY <3>1
  <2> HIDE DEF passed
  <2>3. PassOnPre(ch) = IF ch.pre_close THEN CloseNow([PassOn(ch, ch.pre) EXCEPT !.pre = <<>>])
                        ELSE [PassOn(ch, ch.pre) EXCEPT !.pre = <<>>]
    BY DEF PassOnPre
  <2>4. QED
    BY <2>1, <2>3
<1>4. ch.sent \o ch.pre = After(0, n)
  <2>1. After(0, i) \o After(i, k) = After(0, i + k)
    BY AfterFirst
  <2>2. QED
    BY <1>1, <2>1
<1>5. passed = [pre |-> ch.pre, pre_close |-> ch.pre_close, sent |-> After(0, n),
                closed |-> ch.closed]
  BY <1>2, <1>4, ChannelUpdates
<1> HIDE DEF passed
<1>6. filled = [pre |-> <<>>, pre_close |-> ch.pre_close, sent |-> After(0, n),
                closed |-> ch.closed]
  <2>1. /\ passed = [pre |-> passed.pre, pre_close |-> passed.pre_close,
                     sent |-> passed.sent, closed |-> passed.closed]
        /\ passed.pre_close = ch.pre_close /\ passed.sent = After(0, n)
        /\ passed.closed = ch.closed
    BY <1>5
  <2>2. filled = [pre |-> <<>>, pre_close |-> passed.pre_close, sent |-> passed.sent,
                  closed |-> passed.closed]
    BY <2>1, ChannelUpdates
  <2>3. QED
    BY <2>1, <2>2
<1> HIDE DEF filled
<1>7. /\ filled = [pre |-> filled.pre, pre_close |-> filled.pre_close,
                   sent |-> filled.sent, closed |-> filled.closed]
      /\ filled.pre = <<>> /\ filled.sent = After(0, n)
  BY <1>6
<1>8. /\ CloseNow(filled) = [pre |-> filled.pre, pre_close |-> filled.pre_close,
                             sent |-> filled.sent, closed |-> TRUE]
  BY <1>7, ChannelUpdates DEF CloseNow
<1>9. /\ y = [pre |-> y.pre, pre_close |-> y.pre_close, sent |-> y.sent, closed |-> y.closed]
      /\ y.pre = <<>> /\ y.sent = After(0, n)
  <2>1. CASE ch.pre_close
    BY <1>3, <1>7, <1>8, <2>1
  <2>2. CASE ~ch.pre_close
    BY <1>3, <1>7, <2>2
  <2>3. QED
    BY <2>1, <2>2
<1> HIDE DEF y
<1>10. <<>> = After(n, 0) /\ n + 0 = n
  BY <1>2, EmptyIsAfter
<1>11. ChannelOK(r, y, n)
  BY <1>2, <1>9, <1>10, ChannelIs
<1>12. QED
  BY <1>11 DEF y

\* One channel changes, and all are in order.
LEMMA ChannelsKeep ==
  ASSUME ChannelsAt, NEW c \in Channels, NEW ch, NEW n, ChannelOK(proc, ch, n),
         chan' = [chan EXCEPT ![c] = ch], given' = [given EXCEPT ![c] = n], proc' = proc
  PROVE  ChannelsAt'
<1>1. /\ chan' = [x \in Channels |-> chan'[x]] /\ given' = [x \in Channels |-> given'[x]]
      /\ \A x \in Channels : x # c => chan'[x] = chan[x] /\ given'[x] = given[x]
      /\ chan'[c] = ch /\ given'[c] = n
  BY DEF ChannelsAt
<1>2. \A x \in Channels : ChannelOK(proc, chan'[x], given'[x])
  BY <1>1 DEF ChannelsAt
<1>3. \A x \in Channels : ChannelOK(proc', chan'[x], given'[x])
  BY <1>2 DEF ChannelOK
<1>4. QED
  BY <1>1, <1>3 DEF ChannelsAt

-----------------------------------------------------------------------------
\* What one read of the status pipe does: its lines follow those that were heard.
LEMMA ReadDoes ==
  ASSUME RunInv, proc.state # "none", StatusFlow(status, taken.status)
  PROVE  /\ taken.status \o ReadLines \in Seq(Nat)
         /\ StatusRead = [pipe |-> StatusRead.pipe, valid |-> status.valid,
                          buf |-> StatusRead.buf]
         /\ StatusRead.pipe \in Seq(Nat) /\ StatusRead.buf \in Seq(Nat)
         /\ StatusFlow(StatusRead, taken.status \o ReadLines)
         /\ PipeFits => StatusRead.pipe = <<>>
         /\ ReadLines = <<>> => taken.status \o ReadLines = taken.status
<1> DEFINE T == Len(taken.status)
           B == Len(status.buf)
           P == Len(status.pipe)
           n == LastEnd(ReadUnits)
<1>1. /\ status = [pipe |-> status.pipe, valid |-> status.valid, buf |-> status.buf]
      /\ status.pipe \in Seq(Nat) /\ status.buf \in Seq(Nat) /\ taken.status \in Seq(Nat)
      /\ produced.status \in Nat
  BY DEF RunInv, StatusOK, OutputAt
<1>2. /\ taken.status = After(0, T) /\ status.buf = After(T, B)
      /\ status.pipe = After(T + B, P) /\ T + B + P = produced.status
      /\ T > 0 => EndsLine(T) /\ \A i \in 1 .. B : ~EndsLine(T + i)
  BY DEF StatusFlow
<1>3. T \in Nat /\ B \in Nat /\ P \in Nat
  BY <1>1
<1>4. ReadSize \in 0 .. P /\ (PipeFits => ReadSize = P)
  BY <1>3, BoundsAssumption DEF ReadSize, PipeFits
<1>5. T > 0 => EndsLine(T)
  BY DEF StatusFlow
<1>6. \A i \in 1 .. B : ~EndsLine(T + i)
  BY DEF StatusFlow
<1> HIDE DEF T, B, P
<1>7. /\ SubSeq(status.pipe, 1, ReadSize) = After(T + B, ReadSize)
      /\ SubSeq(status.pipe, ReadSize + 1, P) = After(T + B + ReadSize, P - ReadSize)
  <2>1. T + B \in Nat
    BY <1>3
  <2>2. /\ SubSeq(After(T + B, P), 1, ReadSize) = After(T + B, ReadSize)
        /\ SubSeq(After(T + B, P), ReadSize + 1, P) = After(T + B + ReadSize, P - ReadSize)
    BY <1>3, <1>4, <2>1, AfterSplits
  <2>3. QED
    BY <1>2, <2>2
<1>8. ReadUnits = After(T, B + ReadSize) /\ B + ReadSize \in Nat
  <2>1. ReadSize \in Nat
    BY <1>3, <1>4
  <2>2. After(T, B) \o After(T + B, ReadSize) = After(T, B + ReadSize)
    BY <1>3, <2>1, AfterJoins
  <2>3. QED
    BY <1>2, <1>3, <1>7, <2>1, <2>2 DEF ReadUnits
<1>9. /\ ReadUnits \in Seq(Nat) /\ Len(ReadUnits) = B + ReadSize
      /\ \A i \in 1 .. B + ReadSize : ReadUnits[i] = T + i
  BY <1>3, <1>8, AfterType
<1>10. /\ n \in 0 .. B + ReadSize
       /\ n > 0 => EndsLine(T + n)
       /\ \A m \in n + 1 .. B + ReadSize : ~EndsLine(T + m)
  <2>1. n \in 0 .. Len(ReadUnits) /\ WholeLines(ReadUnits, n)
    BY <1>9, LastEndIs
  <2> HIDE DEF n
  <2>2. n > 0 => n \in 1 .. B + ReadSize
    BY <1>8, <1>9, <2>1
  <2>3. \A m \in n + 1 .. B + ReadSize : m \in 1 .. B + ReadSize
    BY <1>8, <1>9, <2>1
  <2>4. QED
    BY <1>9, <2>1, <2>2, <2>3 DEF WholeLines
<1>11. /\ ReadLines = After(T, n)
       /\ SubSeq(ReadUnits, n + 1, Len(ReadUnits)) = After(T + n, (B + ReadSize) - n)
  <2> DEFINE U == B + ReadSize
  <2>1. T \in Nat /\ U \in Nat /\ n \in 0 .. U
    BY <1>3, <1>8, <1>10
  <2>2. ReadUnits = After(T, U) /\ Len(ReadUnits) = U
    BY <1>8, <1>9
  <2> HIDE DEF n, U
  <2>3. /\ SubSeq(After(T, U), 1, n) = After(T, n)
        /\ SubSeq(After(T, U), n + 1, U) = After(T + n, U - n)
    BY <2>1, AfterSplits
  <2>4. /\ SubSeq(ReadUnits, 1, n) = After(T, n)
        /\ SubSeq(ReadUnits, n + 1, Len(ReadUnits)) = After(T + n, U - n)
    BY <2>2, <2>3
  <2>5. ReadLines = SubSeq(ReadUnits, 1, n)
    BY DEF ReadLines, n
  <2>6. U - n = (B + ReadSize) - n
    BY DEF U
  <2>7. ReadLines = After(T, n)
    BY <2>4, <2>5
  <2>8. SubSeq(ReadUnits, n + 1, Len(ReadUnits)) = After(T + n, (B + ReadSize) - n)
    BY <2>4, <2>6
  <2>9. QED
    BY <2>7, <2>8 DEF n
<1>12. StatusRead = [pipe |-> After(T + B + ReadSize, P - ReadSize), valid |-> status.valid,
                     buf |-> After(T + n, (B + ReadSize) - n)]
  <2>1. SUFFICES ASSUME NEW x, NEW y, NEW z, x = SubSeq(status.pipe, ReadSize + 1, P),
                        y = SubSeq(ReadUnits, n + 1, Len(ReadUnits)),
                        z = [status EXCEPT !.pipe = x, !.buf = y]
                 PROVE  z = [pipe |-> x, valid |-> status.valid, buf |-> y]
    BY <1>7, <1>11 DEF StatusRead, P
  <2>2. QED
    BY <1>1, <2>1
<1> HIDE DEF n
<1>13. taken.status \o ReadLines = After(0, T + n)
  <2>1. n \in Nat /\ 0 + T = T
    BY <1>3, <1>4, <1>10
  <2>2. After(0, T) \o After(0 + T, n) = After(0, T + n)
    BY <1>3, <2>1, AfterJoins
  <2>3. QED
    BY <1>2, <1>11, <2>1, <2>2
<1>14. /\ T + n \in Nat /\ (B + ReadSize) - n \in Nat /\ T + B + ReadSize \in Nat
       /\ P - ReadSize \in Nat
  BY <1>3, <1>4, <1>10
<1>15. /\ taken.status \o ReadLines \in Seq(Nat) /\ Len(taken.status \o ReadLines) = T + n
  <2>1. 0 \in Nat
    OBVIOUS
  <2>2. QED
    BY <1>13, <1>14, <2>1, AfterType
<1>16. /\ StatusRead.pipe \in Seq(Nat) /\ Len(StatusRead.pipe) = P - ReadSize
       /\ P = ReadSize => StatusRead.pipe = <<>>
  <2>1. StatusRead.pipe = After(T + B + ReadSize, P - ReadSize)
    BY <1>12
  <2>2. P = ReadSize => P - ReadSize = 0
    BY <1>3
  <2>3. QED
    BY <1>14, <2>1, <2>2, AfterType
<1>17. StatusRead.buf \in Seq(Nat) /\ Len(StatusRead.buf) = (B + ReadSize) - n
  BY <1>12, <1>14, AfterType
<1>18. StatusFlow(StatusRead, taken.status \o ReadLines)
  <2>1. T + n > 0 => EndsLine(T + n)
    BY <1>3, <1>5, <1>10
  <2>2. \A i \in 1 .. (B + ReadSize) - n : ~EndsLine(T + n + i)
    <3>1. SUFFICES ASSUME NEW i \in 1 .. (B + ReadSize) - n PROVE ~EndsLine(T + n + i)
      OBVIOUS
    <3>2. n + i \in n + 1 .. B + ReadSize /\ T + n + i = T + (n + i)
      <4>1. n \in Nat /\ T \in Nat /\ i \in Nat /\ B + ReadSize \in Nat
            /\ i >= 1 /\ i <= (B + ReadSize) - n
        BY <1>3, <1>8, <1>10, <1>14
      <4>2. B \in Nat /\ ReadSize \in Nat
        BY <1>3, <1>4
      <4>3. QED
        BY <4>1, <4>2
    <3>3. QED
      BY <1>10, <3>2
  <2>3. /\ T + n + ((B + ReadSize) - n) = T + B + ReadSize
        /\ T + B + ReadSize + (P - ReadSize) = produced.status
    BY <1>2, <1>3, <1>4, <1>10
  <2>4. QED
    BY <1>12, <1>13, <1>15, <1>16, <1>17, <2>1, <2>2, <2>3 DEF StatusFlow
<1>19. ReadLines = <<>> => taken.status \o ReadLines = taken.status
  BY <1>1
<1>20. QED
  BY <1>4, <1>12, <1>15, <1>16, <1>17, <1>18, <1>19

\* When all was read, the program has heard what the run is said to have told.
LEMMA LinesHeard ==
  ASSUME NEW s, NEW heard \in Seq(Nat), s.buf \in Seq(Nat), s.pipe = <<>>,
         produced.status \in Nat, StatusFlow(s, heard)
  PROVE  heard = SubSeq(Numbers(produced.status), 1, LastEnd(Numbers(produced.status)))
<1> DEFINE T == Len(heard)
           B == Len(s.buf)
           N == produced.status
<1>1. T \in Nat /\ B \in Nat /\ Len(s.pipe) = 0
  OBVIOUS
<1>2. /\ heard = After(0, T) /\ T + B = N
      /\ T > 0 => EndsLine(T)
  BY <1>1 DEF StatusFlow
<1>3. \A i \in 1 .. B : ~EndsLine(T + i)
  BY DEF StatusFlow
<1> HIDE DEF T, B, N
<1>4. /\ Numbers(N) = After(0, N) /\ After(0, N) \in Seq(Nat) /\ Len(After(0, N)) = N
      /\ \A i \in 1 .. N : After(0, N)[i] = i
  <2>1. N \in Nat /\ 0 \in Nat
    BY <1>1, <1>2
  <2>2. Numbers(N) = After(0, N)
    BY <2>1, NumbersAre
  <2>3. /\ After(0, N) \in Seq(Nat) /\ Len(After(0, N)) = N
        /\ \A i \in 1 .. N : After(0, N)[i] = 0 + i
    BY <2>1, AfterType
  <2>4. \A i \in 1 .. N : 0 + i = i
    OBVIOUS
  <2>5. QED
    BY <2>2, <2>3, <2>4
<1>5. WholeLines(After(0, N), T) /\ T \in 0 .. Len(After(0, N))
  <2>1. \A m \in T + 1 .. N : m - T \in 1 .. B /\ T + (m - T) = m /\ m \in 1 .. N
    BY <1>1, <1>2
  <2>2. ASSUME NEW m \in T + 1 .. N PROVE ~EndsLine(m) /\ m \in 1 .. N
    <3>1. ~EndsLine(T + (m - T))
      BY <1>3, <2>1
    <3>2. QED
      BY <2>1, <3>1
  <2>3. T > 0 => T \in 1 .. N
    BY <1>1, <1>2
  <2>4. QED
    BY <1>1, <1>2, <1>4, <2>2, <2>3 DEF WholeLines
<1>6. LastEnd(After(0, N)) = T
  BY <1>4, <1>5, LastEndUnique
<1>7. SubSeq(After(0, N), 1, T) = After(0, T)
  <2>1. T \in 0 .. N /\ N \in Nat
    BY <1>1, <1>2
  <2>2. QED
    BY <2>1, AfterSplits
<1>8. QED
  BY <1>2, <1>4, <1>6, <1>7 DEF N

-----------------------------------------------------------------------------
\* A session that ends, or is reset, leaves nothing that waits or flows.
LEMMA SessionGone ==
  ASSUME RunInv, NEW s, NEW f, NEW left, EndSession(s, f, left),
         s = [pipe |-> s.pipe, valid |-> s.valid, buf |-> s.buf], s.buf \in Seq(Nat),
         f = [need_status |-> f.need_status, fin_status |-> f.fin_status,
              fin_process |-> f.fin_process, success |-> f.success, code |-> f.code],
         f.code \in {"none"} \union ExitCodes,
         taken.status \in Seq(Nat), UNCHANGED <<taken, given, errors, starts>>
  PROVE  /\ proc'.state = "none" /\ gpg' = "off"
         /\ ProcOK(proc)' /\ FinOK(proc, fin)' /\ StatusOK(proc, status, fin, taken.status)'
         /\ ChannelsAt' /\ CountsAt'
         /\ out' = [qt |-> <<>>, leftover |-> left]
<1>1. /\ proc' = [state |-> "none", relay |-> <<>>, startTrigger |-> FALSE,
                  doneTrigger |-> FALSE, started |-> FALSE, broken |-> FALSE]
      /\ gpg' = "off" /\ chan' = NewChannels
      /\ out' = [qt |-> <<>>, leftover |-> left]
  BY DEF EndSession, NoProc
<1>2. status' = [pipe |-> <<>>, valid |-> FALSE, buf |-> s.buf]
  BY DEF EndSession, ClosePipes
<1>3. /\ fin' = [need_status |-> FALSE, fin_status |-> FALSE, fin_process |-> FALSE,
                 success |-> f.success, code |-> f.code]
  BY DEF EndSession, ClearFin
<1>4. ProcOK(proc)'
  <2>1. <<>> \in Seq(RelaySignals)
    OBVIOUS
  <2>2. QED
    BY <1>1, <2>1 DEF ProcOK
<1>5. FinOK(proc, fin)'
  BY <1>3 DEF FinOK
<1>6. StatusOK(proc, status, fin, taken.status)'
  BY <1>1, <1>2 DEF StatusOK
<1>7. ChannelsAt'
  <2>1. \A c \in Channels : chan'[c] = [pre |-> <<>>, pre_close |-> FALSE, sent |-> <<>>,
                                      closed |-> FALSE]
    BY <1>1 DEF NewChannels, NewChannel
  <2>2. chan' = [c \in Channels |-> chan'[c]]
    BY <1>1 DEF NewChannels
  <2>3. /\ given = [c \in Channels |-> given[c]]
        /\ \A c \in Channels : given[c] \in 0 .. MaxChunks
    BY DEF RunInv, ChannelsAt, ChannelOK
  <2>4. <<>> \in Seq(Nat)
    OBVIOUS
  <2>5. ASSUME NEW c \in Channels PROVE ChannelOK(proc, chan[c], given[c])'
    <3>1. /\ chan'[c] = [pre |-> <<>>, pre_close |-> FALSE, sent |-> <<>>, closed |-> FALSE]
          /\ given'[c] \in 0 .. MaxChunks /\ proc'.state = "none"
      BY <1>1, <2>1, <2>3
    <3>2. chan'[c] = [pre |-> chan'[c].pre, pre_close |-> chan'[c].pre_close,
                      sent |-> chan'[c].sent, closed |-> chan'[c].closed]
          /\ chan'[c].pre = <<>> /\ chan'[c].sent = <<>>
      BY <3>1
    <3>3. QED
      BY <2>4, <3>1, <3>2 DEF ChannelOK
  <2>6. given' = [c \in Channels |-> given'[c]]
    BY <2>3
  <2>7. QED
    BY <2>2, <2>5, <2>6 DEF ChannelsAt
<1>8. CountsAt'
  BY DEF CountsAt, RunInv
<1>9. QED
  BY <1>1, <1>4, <1>5, <1>6, <1>7, <1>8

\* The end is told as the first of the run; a reset may follow it.
LEMMA ToldOnce ==
  ASSUME RunInv, NEW how, NEW code, Told(how, code),
         \/ proc.state # "none" /\ how # "reset"
         \/ how = "reset" /\ ~WasReset
  PROVE  /\ \/ ends' = <<ends'[1]>>
            \/ ends' = <<ends'[1], ends'[2]>> /\ ends'[1].how # "reset"
                 /\ ends'[2].how = "reset"
         /\ \A i \in DOMAIN ends' :
              \/ i \in DOMAIN ends /\ ends'[i] = ends[i] /\ how = "reset"
              \/ ends'[i] = [how |-> how, code |-> code, gpg |-> gpg, broken |-> proc.broken]
         /\ how # "reset" => DOMAIN ends' = {1}
         /\ Ended(how)'
<1> DEFINE e == [how |-> how, code |-> code, gpg |-> gpg, broken |-> proc.broken]
<1>1. ends' = Append(ends, e) /\ e.how = how
  BY DEF Told
<1>2. proc.state # "none" => ends = <<>>
  BY DEF RunInv, EndsAt
<1> DEFINE Goal == /\ \/ ends' = <<ends'[1]>>
                      \/ ends' = <<ends'[1], ends'[2]>> /\ ends'[1].how # "reset"
                           /\ ends'[2].how = "reset"
                   /\ \A i \in DOMAIN ends' :
                        \/ i \in DOMAIN ends /\ ends'[i] = ends[i] /\ how = "reset"
                        \/ ends'[i] = e
                   /\ how # "reset" => DOMAIN ends' = {1}
                   /\ \E i \in DOMAIN ends' : ends'[i].how = how
<1> HIDE DEF e
<1>3. ASSUME ends = <<>> PROVE Goal
  <2>1. ends' = <<e>> /\ DOMAIN <<e>> = {1} /\ <<e>>[1] = e
    BY <1>1, <1>3
  <2>2. DOMAIN ends' = {1} /\ ends'[1] = e
    BY <2>1
  <2>3. QED
    BY <1>1, <2>1, <2>2
<1>4. ASSUME ends = <<ends[1]>>, ends # <<>> PROVE Goal
  <2> DEFINE first == ends[1]
  <2>1. how = "reset" /\ first.how # "reset"
    <3>1. Len(<<ends[1]>>) = 1
      OBVIOUS
    <3>2. Len(ends) = 1
      BY <1>4, <3>1
    <3>3. QED
      BY <1>2, <1>4, <3>2 DEF WasReset, Last
  <2>2. ends = <<first>>
    BY <1>4
  <2> HIDE DEF first
  <2>3. ends' = <<first, e>>
    <3> DEFINE S == {first, e}
    <3>1. <<first>> \in Seq(S) /\ e \in S /\ Len(<<first>>) = 1 /\ <<first>>[1] = first
      OBVIOUS
    <3>2. /\ Append(<<first>>, e) \in Seq(S) /\ Len(Append(<<first>>, e)) = 2
          /\ Append(<<first>>, e)[1] = first /\ Append(<<first>>, e)[2] = e
      BY <3>1, AppendProperties
    <3>3. /\ <<first, e>> \in Seq(S) /\ Len(<<first, e>>) = 2
          /\ <<first, e>>[1] = first /\ <<first, e>>[2] = e
      OBVIOUS
    <3> HIDE DEF S
    <3>4. \A i \in 1 .. 2 : Append(<<first>>, e)[i] = <<first, e>>[i]
      BY <3>2, <3>3
    <3>5. Append(<<first>>, e) = <<first, e>>
      BY <3>2, <3>3, <3>4, SeqEqual
    <3>6. QED
      BY <1>1, <2>2, <3>5
  <2>4. /\ DOMAIN <<first>> = {1} /\ <<first>>[1] = first /\ DOMAIN <<first, e>> = {1, 2}
        /\ <<first, e>>[1] = first /\ <<first, e>>[2] = e
    OBVIOUS
  <2>5. /\ DOMAIN ends = {1} /\ DOMAIN ends' = {1, 2} /\ ends[1] = first
        /\ ends'[1] = first /\ ends'[2] = e
    BY <2>2, <2>3, <2>4
  <2>6. QED
    BY <1>1, <2>1, <2>3, <2>5
<1>5. ASSUME ends = <<ends[1], ends[2]>>, ends[2].how = "reset" PROVE Goal
  <2>1. Len(ends) = 2 /\ ends # <<>>
    BY <1>5
  <2>2. FALSE
    BY <1>2, <1>5, <2>1 DEF WasReset, Last
  <2>3. QED
    BY <2>2
<1>6. Goal
  BY <1>3, <1>4, <1>5 DEF RunInv, EndsAt
<1>7. QED
  BY <1>6 DEF Ended, e

\* doTryDone(): with what is known now, the run goes on, or ends truly.
LEMMA TryDoneKeeps ==
  ASSUME RunInv, NEW q, NEW s, NEW f, proc.state # "none",
         q.state = proc.state, q.started = proc.started, q.broken = proc.broken,
         ProcOK(q), FinOK(q, f), StatusOK(q, s, f, taken.status),
         doTryDone(q, s, f), UNCHANGED <<taken, given, errors, starts, produced>>
  PROVE  RunInv'
<1>1. CASE /\ f.fin_process /\ (f.need_status => f.fin_status)
           /\ EndSession(s, f, out.qt)
           /\ Told(IF f.success THEN "finished" ELSE "error", f.code)
  <2> DEFINE how == IF f.success THEN "finished" ELSE "error"
             e == [how |-> how, code |-> f.code, gpg |-> gpg, broken |-> proc.broken]
  <2>1. /\ proc'.state = "none" /\ gpg' = "off"
        /\ ProcOK(proc)' /\ FinOK(proc, fin)' /\ StatusOK(proc, status, fin, taken.status)'
        /\ ChannelsAt' /\ CountsAt'
        /\ out' = [qt |-> <<>>, leftover |-> out.qt]
    BY <1>1, SessionGone DEF FinOK, StatusOK
  <2>2. how \in {"finished", "error"}
    OBVIOUS
  <2>3. /\ EndsAt' /\ DOMAIN ends' = {1} /\ ends'[1] = e
    <3>1. Told(how, f.code)
      BY <1>1
    <3> HIDE DEF how
    <3>2. how # "reset"
      BY <2>2
    <3>3. QED
      BY <2>1, <3>1, <3>2, ToldOnce DEF EndsAt
  <2>4. EndIsTrue'
    <3>1. /\ f.success => f.code = gpg
          /\ ~f.success => gpg \in {"failed", "crash"} \/ proc.broken
      BY <1>1 DEF FinOK
    <3>2. QED
      BY <2>3, <3>1 DEF EndIsTrue
  <2>5. StatusBeforeEnd'
    <3>1. SUFFICES ASSUME ~proc.broken
                   PROVE  taken.status = SubSeq(Numbers(produced.status), 1,
                                                LastEnd(Numbers(produced.status)))
      BY <2>3 DEF StatusBeforeEnd
    <3>2. ~s.valid /\ s.pipe = <<>> /\ StatusFlow(s, taken.status)
      BY <1>1, <3>1 DEF StatusOK
    <3>3. QED
      BY <3>2, LinesHeard DEF RunInv, OutputAt, StatusOK
  <2>6. OutputAt'
    <3>1. OutputFlow /\ out.leftover = <<>>
      <4>1. ends = <<>>
        BY DEF RunInv, EndsAt
      <4>2. QED
        BY <4>1 DEF RunInv, OutputAt, Ended
    <3>2. /\ taken' = taken /\ produced' = produced /\ out'.qt = <<>> /\ out'.leftover = out.qt
      BY <2>1
    <3>3. OutputFlow'
      <4>1. Len(taken.out) \in Nat /\ Len(out.qt) \in Nat /\ Len(out.leftover) = 0
        BY <3>1 DEF RunInv, OutputAt
      <4>2. <<>> = After(Len(taken.out), Len(<<>>))
        BY <4>1, EmptyIsAfter
      <4>3. Len(<<>>) = 0
        OBVIOUS
      <4>4. /\ taken.out = After(0, Len(taken.out)) /\ out.qt = After(Len(taken.out), Len(out.qt))
            /\ Len(taken.out) + Len(out.qt) + 0 = produced.out
        BY <3>1, <4>1 DEF OutputFlow
      <4>5. Len(taken.out) + 0 = Len(taken.out)
            /\ Len(taken.out) + 0 + Len(out.qt) = produced.out
        <5>1. \A x \in Nat, y \in Nat : x + 0 = x /\ x + 0 + y = x + y + 0
          OBVIOUS
        <5>2. QED
          BY <4>1, <4>4, <5>1
      <4>6. QED
        BY <3>2, <4>2, <4>3, <4>4, <4>5 DEF OutputFlow
    <3>4. QED
      BY <2>1, <3>2, <3>3 DEF OutputAt, RunInv
  <2>7. QED
    BY <2>1, <2>3, <2>4, <2>5, <2>6 DEF RunInv
<1>2. CASE proc' = q /\ status' = s /\ fin' = f /\ UNCHANGED <<gpg, chan, out, ends>>
  <2>1. ProcOK(proc)' /\ FinOK(proc, fin)'
    BY <1>2 DEF ProcOK, FinOK
  <2>2. StatusOK(proc, status, fin, taken.status)'
    BY <1>2 DEF StatusOK, StatusFlow
  <2>3. EndsAt' /\ OutputAt' /\ CountsAt' /\ EndIsTrue' /\ StatusBeforeEnd'
    BY <1>2 DEF RunInv, EndsAt, OutputAt, OutputFlow, CountsAt, EndIsTrue, StatusBeforeEnd, Ended
  <2>4. ChannelsAt'
    BY <1>2 DEF RunInv, ChannelsAt, ChannelOK
  <2>5. QED
    BY <1>2, <2>1, <2>2, <2>3, <2>4 DEF RunInv
<1>3. QED
  BY <1>1, <1>2 DEF doTryDone

-----------------------------------------------------------------------------
\* Reading the status pipe.
LEMMA StatusReadKeeps ==
  ASSUME RunInv, status_read
  PROVE  RunInv'
<1>1. /\ status' = StatusRead /\ status.valid /\ proc.state # "none" /\ ends = <<>>
      /\ UNCHANGED <<proc, gpg, chan, fin, out, errors, starts, given, produced, ends>>
  BY DEF status_read, RunInv, StatusOK, EndsAt
<1>2. taken' = [out |-> taken.out, status |-> taken.status \o ReadLines]
  BY DEF status_read, Hear, RunInv, OutputAt
<1>3. StatusFlow(status, taken.status)
  BY <1>1 DEF RunInv, StatusOK
<1>4. /\ taken.status \o ReadLines \in Seq(Nat)
      /\ StatusRead = [pipe |-> StatusRead.pipe, valid |-> status.valid,
                       buf |-> StatusRead.buf]
      /\ StatusRead.pipe \in Seq(Nat) /\ StatusRead.buf \in Seq(Nat)
      /\ StatusFlow(StatusRead, taken.status \o ReadLines)
  BY <1>1, <1>3, ReadDoes
<1>5. StatusOK(proc, status, fin, taken.status)'
  <2> DEFINE heard == taken.status \o ReadLines
  <2>1. taken'.status = heard /\ StatusFlow(StatusRead, heard) /\ heard \in Seq(Nat)
    BY <1>2, <1>4
  <2> HIDE DEF heard
  <2>2. StatusFlow(status, taken.status)'
    BY <1>1, <2>1 DEF StatusFlow
  <2>3. StatusRead.valid = status.valid
    BY <1>4
  <2>4. QED
    BY <1>1, <1>4, <2>1, <2>2, <2>3 DEF StatusOK, RunInv
<1>6. ProcOK(proc)' /\ FinOK(proc, fin)' /\ EndsAt' /\ ChannelsAt' /\ CountsAt' /\ EndIsTrue'
  BY <1>1 DEF RunInv, ProcOK, FinOK, EndsAt, ChannelsAt, ChannelOK, CountsAt, EndIsTrue
<1>7. OutputAt' /\ StatusBeforeEnd'
  BY <1>1, <1>2 DEF RunInv, OutputAt, OutputFlow, Ended, StatusBeforeEnd
<1>8. QED
  BY <1>1, <1>5, <1>6, <1>7 DEF RunInv

LEMMA StatusErrorKeeps ==
  ASSUME RunInv, status_error
  PROVE  RunInv'
<1> DEFINE s == [status EXCEPT !.valid = FALSE]
           f == [fin EXCEPT !.fin_status = TRUE]
<1>1. /\ status.valid /\ status.pipe = <<>> /\ gpg \notin {"off", "alive"}
      /\ proc.state # "none" /\ doTryDone(proc, s, f)
      /\ UNCHANGED <<taken, given, errors, starts, produced>>
  BY DEF status_error, RunInv, StatusOK, history
<1>2. /\ s = [pipe |-> <<>>, valid |-> FALSE, buf |-> status.buf]
      /\ status.buf \in Seq(Nat) /\ taken.status \in Seq(Nat)
      /\ StatusFlow(status, taken.status) /\ gpg \in Gone
  <2>1. /\ status = [pipe |-> status.pipe, valid |-> status.valid, buf |-> status.buf]
        /\ status.buf \in Seq(Nat) /\ taken.status \in Seq(Nat)
        /\ StatusFlow(status, taken.status) /\ gpg \in Gone
    BY <1>1 DEF RunInv, StatusOK
  <2>2. s = [pipe |-> status.pipe, valid |-> FALSE, buf |-> status.buf]
    BY <2>1, StatusUpdates
  <2> HIDE DEF s
  <2>3. QED
    BY <1>1, <2>1, <2>2
<1>3. /\ f = [need_status |-> fin.need_status, fin_status |-> TRUE,
              fin_process |-> fin.fin_process, success |-> fin.success, code |-> fin.code]
  BY FinUpdates DEF RunInv, FinOK
<1> HIDE DEF s, f
<1>4. FinOK(proc, f)
  BY <1>3 DEF RunInv, FinOK
<1>5. StatusFlow(s, taken.status)
  BY <1>1, <1>2 DEF StatusFlow
<1>6. StatusOK(proc, s, f, taken.status)
  <2>1. <<>> \in Seq(Nat)
    OBVIOUS
  <2>2. QED
    BY <1>1, <1>2, <1>3, <1>5, <2>1 DEF StatusOK
<1>7. QED
  BY <1>1, <1>4, <1>6, TryDoneKeeps DEF RunInv

\* A signal of the relay is delivered.
LEMMA RelayGoesOn ==
  ASSUME RunInv, proc.relay # <<>>
  PROVE  /\ proc.state \in {"running", "over"}
         /\ Next1 = [state |-> proc.state, relay |-> Tail(proc.relay),
                     startTrigger |-> proc.startTrigger, doneTrigger |-> proc.doneTrigger,
                     started |-> proc.started, broken |-> proc.broken]
         /\ Tail(proc.relay) \in Seq(RelaySignals)
         /\ \A i \in DOMAIN Tail(proc.relay) :
              /\ Tail(proc.relay)[i] # "started"
              /\ Tail(proc.relay)[i] \in ExitCodes => Tail(proc.relay)[i] = gpg
              /\ Tail(proc.relay)[i] = "error" => gpg \in {"failed", "crash"} \/ proc.broken
         /\ Head(proc.relay) = "started" => ~proc.started
         /\ Head(proc.relay) \in ExitCodes => Head(proc.relay) = gpg
         /\ Head(proc.relay) = "error" => gpg \in {"failed", "crash"} \/ proc.broken
<1>1. /\ proc = [state |-> proc.state, relay |-> proc.relay,
                 startTrigger |-> proc.startTrigger, doneTrigger |-> proc.doneTrigger,
                 started |-> proc.started, broken |-> proc.broken]
      /\ proc.relay \in Seq(RelaySignals) /\ proc.state \in {"running", "over"}
      /\ \A i \in DOMAIN proc.relay :
           /\ proc.relay[i] = "started" => i = 1 /\ ~proc.started
           /\ proc.relay[i] \in ExitCodes => proc.relay[i] = gpg
           /\ proc.relay[i] = "error" => gpg \in {"failed", "crash"} \/ proc.broken
  BY DEF RunInv, ProcOK
<1>2. /\ Tail(proc.relay) \in Seq(RelaySignals)
      /\ Head(proc.relay) = proc.relay[1] /\ 1 \in DOMAIN proc.relay
      /\ \A i \in DOMAIN Tail(proc.relay) : /\ i + 1 \in DOMAIN proc.relay /\ i + 1 # 1
                                            /\ Tail(proc.relay)[i] = proc.relay[i + 1]
  BY <1>1
<1>3. Next1 = [state |-> proc.state, relay |-> Tail(proc.relay),
               startTrigger |-> proc.startTrigger, doneTrigger |-> proc.doneTrigger,
               started |-> proc.started, broken |-> proc.broken]
  BY <1>1, ProcUpdates DEF Next1
<1>4. QED
  BY <1>1, <1>2, <1>3

\* The process is known to be over: the status pipe is read a last time, and all that is
\* in it.
LEMMA ProcessOverKeeps ==
  ASSUME RunInv, PipeFits, proc.relay # <<>>, NEW f, FinOK(proc, f),
         f.need_status = fin.need_status, f.fin_status = fin.fin_status, f.fin_process,
         ProcessOver(f), UNCHANGED <<errors, starts, given, produced>>
  PROVE  RunInv'
<1> DEFINE last == f.need_status /\ ~f.fin_status
           s == IF last THEN ClosePipes(StatusRead) ELSE status
           g == [f EXCEPT !.fin_status = @ \/ last]
<1>1. /\ proc.state \in {"running", "over"}
      /\ ProcOK(Next1) /\ Next1.state = proc.state /\ Next1.broken = proc.broken
      /\ Next1.started = proc.started
      /\ ProcOK([Next1 EXCEPT !.doneTrigger = TRUE])
      /\ [Next1 EXCEPT !.doneTrigger = TRUE].state = proc.state
      /\ [Next1 EXCEPT !.doneTrigger = TRUE].broken = proc.broken
      /\ [Next1 EXCEPT !.doneTrigger = TRUE].started = proc.started
  <2>1. /\ proc.state \in {"running", "over"}
        /\ Next1 = [state |-> proc.state, relay |-> Tail(proc.relay),
                    startTrigger |-> proc.startTrigger, doneTrigger |-> proc.doneTrigger,
                    started |-> proc.started, broken |-> proc.broken]
    BY RelayGoesOn
  <2>2. ProcOK(Next1)
    BY <2>1, RelayGoesOn DEF RunInv, ProcOK
  <2>3. [Next1 EXCEPT !.doneTrigger = TRUE] =
          [state |-> Next1.state, relay |-> Next1.relay, startTrigger |-> Next1.startTrigger,
           doneTrigger |-> TRUE, started |-> Next1.started, broken |-> Next1.broken]
    BY <2>2, ProcUpdates DEF ProcOK
  <2>4. ProcOK([Next1 EXCEPT !.doneTrigger = TRUE])
    BY <2>1, <2>2, <2>3 DEF ProcOK
  <2>5. QED
    BY <2>1, <2>2, <2>3, <2>4
<1>2. ~proc.broken => gpg \in Gone
  BY DEF FinOK, ExitCodes, Gone
<1>3. /\ g = [need_status |-> f.need_status, fin_status |-> g.fin_status,
              fin_process |-> f.fin_process, success |-> f.success, code |-> f.code]
      /\ g.fin_status <=> f.fin_status \/ last
  <2>1. g = [need_status |-> f.need_status, fin_status |-> (f.fin_status \/ last),
             fin_process |-> f.fin_process, success |-> f.success, code |-> f.code]
    BY FinUpdates DEF FinOK
  <2>2. QED
    BY <2>1
<1>4. FinOK(Next1, g) /\ FinOK([Next1 EXCEPT !.doneTrigger = TRUE], g)
  <2> HIDE DEF g
  <2>1. QED
    BY <1>1, <1>3 DEF FinOK
<1>5. last => /\ StatusFlow(status, taken.status)
              /\ s = [pipe |-> <<>>, valid |-> FALSE, buf |-> StatusRead.buf]
              /\ StatusRead.buf \in Seq(Nat)
              /\ StatusFlow(s, taken.status \o ReadLines)
              /\ taken.status \o ReadLines \in Seq(Nat)
              /\ ReadLines = <<>> => taken.status \o ReadLines = taken.status
  <2>1. SUFFICES ASSUME last
                 PROVE  /\ StatusFlow(status, taken.status)
                        /\ s = [pipe |-> <<>>, valid |-> FALSE, buf |-> StatusRead.buf]
                        /\ StatusRead.buf \in Seq(Nat)
                        /\ StatusFlow(s, taken.status \o ReadLines)
                        /\ taken.status \o ReadLines \in Seq(Nat)
                        /\ ReadLines = <<>> => taken.status \o ReadLines = taken.status
    OBVIOUS
  <2>2. StatusFlow(status, taken.status)
    BY <1>1, <2>1 DEF RunInv, StatusOK
  <2>3. /\ taken.status \o ReadLines \in Seq(Nat)
        /\ StatusRead = [pipe |-> StatusRead.pipe, valid |-> status.valid,
                         buf |-> StatusRead.buf]
        /\ StatusRead.buf \in Seq(Nat) /\ StatusRead.pipe = <<>>
        /\ StatusFlow(StatusRead, taken.status \o ReadLines)
        /\ ReadLines = <<>> => taken.status \o ReadLines = taken.status
    BY <1>1, <2>2, ReadDoes
  <2>4. s = ClosePipes(StatusRead)
    BY <2>1
  <2> HIDE DEF s
  <2>5. s = [pipe |-> <<>>, valid |-> FALSE, buf |-> StatusRead.buf]
    BY <2>3, <2>4 DEF ClosePipes
  <2>6. StatusFlow(s, taken.status \o ReadLines)
    BY <2>3, <2>5 DEF StatusFlow
  <2>7. QED
    BY <2>2, <2>3, <2>5, <2>6
<1>6. ~last => s = status
  OBVIOUS
<1>7. \/ /\ last /\ ReadLines # <<>>
         /\ proc' = [Next1 EXCEPT !.doneTrigger = TRUE]
         /\ status' = s /\ fin' = g
         /\ Hear(ReadLines)
         /\ UNCHANGED <<gpg, chan, out, ends>>
      \/ /\ ~(last /\ ReadLines # <<>>)
         /\ doTryDone(Next1, s, g)
         /\ UNCHANGED taken
  BY DEF ProcessOver
<1> HIDE DEF s, g
<1>8. CASE /\ last /\ ReadLines # <<>>
           /\ proc' = [Next1 EXCEPT !.doneTrigger = TRUE]
           /\ status' = s /\ fin' = g
           /\ Hear(ReadLines)
           /\ UNCHANGED <<gpg, chan, out, ends>>
  <2> DEFINE heard == taken.status \o ReadLines
  <2>1. taken' = [out |-> taken.out, status |-> heard]
    BY <1>8 DEF Hear, RunInv, OutputAt
  <2>2. ends = <<>>
    BY <1>1 DEF RunInv, EndsAt
  <2>3. heard \in Seq(Nat) /\ StatusFlow(s, heard)
    BY <1>5, <1>8
  <2> HIDE DEF heard
  <2>4. StatusFlow(status, taken.status)'
    BY <1>8, <2>1, <2>3 DEF StatusFlow
  <2>5. StatusOK(proc, status, fin, taken.status)'
    <3>1. proc'.state = proc.state /\ proc'.broken = proc.broken
      BY <1>1, <1>8
    <3>2. <<>> \in Seq(Nat)
      OBVIOUS
    <3>3. /\ status' = [pipe |-> <<>>, valid |-> FALSE, buf |-> StatusRead.buf]
          /\ StatusRead.buf \in Seq(Nat)
      BY <1>5, <1>8
    <3>4. fin'.fin_status
      BY <1>3, <1>8
    <3>5. QED
      BY <1>1, <1>2, <1>8, <2>1, <2>3, <2>4, <3>1, <3>2, <3>3, <3>4 DEF StatusOK
  <2>6. ProcOK(proc)' /\ FinOK(proc, fin)'
    BY <1>1, <1>4, <1>8 DEF ProcOK, FinOK
  <2>7. ChannelsAt'
    BY <1>1, <1>8 DEF RunInv, ChannelsAt, ChannelOK
  <2>8. EndsAt' /\ CountsAt' /\ EndIsTrue' /\ StatusBeforeEnd'
    BY <1>1, <1>8, <2>2 DEF RunInv, EndsAt, CountsAt, EndIsTrue, StatusBeforeEnd
  <2>9. OutputAt'
    BY <1>1, <1>8, <2>1 DEF RunInv, OutputAt, OutputFlow, Ended
  <2>10. QED
    BY <1>8, <2>5, <2>6, <2>7, <2>8, <2>9 DEF RunInv
<1>9. CASE /\ ~(last /\ ReadLines # <<>>)
           /\ doTryDone(Next1, s, g)
           /\ UNCHANGED taken
  <2>1. StatusOK(Next1, s, g, taken.status)
    <3>1. CASE last
      <4>1. <<>> \in Seq(Nat) /\ taken.status \in Seq(Nat)
        BY DEF RunInv, StatusOK
      <4>2. StatusFlow(s, taken.status)
        BY <1>5, <1>9, <3>1
      <4>3. s = [pipe |-> <<>>, valid |-> FALSE, buf |-> StatusRead.buf]
            /\ StatusRead.buf \in Seq(Nat)
        BY <1>5, <3>1
      <4>4. QED
        BY <1>1, <1>2, <1>3, <3>1, <4>1, <4>2, <4>3 DEF StatusOK
    <3>2. CASE ~last
      BY <1>1, <1>3, <1>6, <3>2 DEF RunInv, StatusOK
    <3>3. QED
      BY <3>1, <3>2
  <2>2. QED
    BY <1>1, <1>4, <1>9, <2>1, TryDoneKeeps
<1>10. QED
  BY <1>7, <1>8, <1>9

LEMMA ProcFinishedKeeps ==
  ASSUME RunInv, PipeFits, proc_finished
  PROVE  RunInv'
<1>1. PICK code \in ExitCodes :
        /\ Signalled(code)
        /\ ProcessOver([fin EXCEPT !.code = code, !.fin_process = TRUE, !.success = TRUE])
        /\ UNCHANGED <<errors, starts, given, produced>>
  BY DEF proc_finished, ExitCodes
<1> DEFINE f == [fin EXCEPT !.code = code, !.fin_process = TRUE, !.success = TRUE]
<1>2. f = [need_status |-> fin.need_status, fin_status |-> fin.fin_status,
           fin_process |-> TRUE, success |-> TRUE, code |-> code]
  <2>1. fin = [need_status |-> fin.need_status, fin_status |-> fin.fin_status,
               fin_process |-> fin.fin_process, success |-> fin.success, code |-> fin.code]
    BY DEF RunInv, FinOK
  <2>2. SUFFICES ASSUME NEW y, y = [fin EXCEPT !.code = code, !.fin_process = TRUE,
                                               !.success = TRUE]
                 PROVE  y = [need_status |-> fin.need_status, fin_status |-> fin.fin_status,
                             fin_process |-> TRUE, success |-> TRUE, code |-> code]
    OBVIOUS
  <2>3. QED
    BY <2>1, <2>2
<1>3. proc.relay # <<>> /\ code = gpg
  BY <1>1, RelayGoesOn DEF Signalled
<1>4. ProcessOver(f) /\ UNCHANGED <<errors, starts, given, produced>>
  BY <1>1
<1> HIDE DEF f
<1>5. FinOK(proc, f) /\ f.need_status = fin.need_status /\ f.fin_status = fin.fin_status
      /\ f.fin_process
  BY <1>2, <1>3 DEF FinOK
<1>6. QED
  BY <1>3, <1>4, <1>5, ProcessOverKeeps

LEMMA ProcErrorKeeps ==
  ASSUME RunInv, PipeFits, proc_error
  PROVE  RunInv'
<1> DEFINE f == [fin EXCEPT !.fin_process = TRUE, !.success = FALSE]
<1>1. Signalled("error") /\ ProcessOver(f) /\ UNCHANGED <<errors, starts, given, produced>>
  BY DEF proc_error
<1>2. /\ f = [need_status |-> fin.need_status, fin_status |-> fin.fin_status,
              fin_process |-> TRUE, success |-> FALSE, code |-> fin.code]
      /\ fin.code \in {"none"} \union ExitCodes
  BY FinUpdates DEF RunInv, FinOK
<1>3. proc.relay # <<>> /\ (gpg \in {"failed", "crash"} \/ proc.broken)
  BY <1>1, RelayGoesOn DEF Signalled
<1> HIDE DEF f
<1>4. FinOK(proc, f) /\ f.need_status = fin.need_status /\ f.fin_status = fin.fin_status
      /\ f.fin_process
  BY <1>2, <1>3 DEF FinOK
<1>5. QED
  BY <1>1, <1>3, <1>4, ProcessOverKeeps

LEMMA DoneTriggeredKeeps ==
  ASSUME RunInv, doneTriggered
  PROVE  RunInv'
<1> DEFINE q == [proc EXCEPT !.doneTrigger = FALSE]
<1>1. /\ doTryDone(q, status, fin) /\ UNCHANGED <<taken, given, errors, starts, produced>>
      /\ proc.state # "none"
  BY DEF doneTriggered, history, RunInv, ProcOK
<1>2. q = [state |-> proc.state, relay |-> proc.relay, startTrigger |-> proc.startTrigger,
           doneTrigger |-> FALSE, started |-> proc.started, broken |-> proc.broken]
  BY ProcUpdates DEF RunInv, ProcOK
<1> HIDE DEF q
<1>3. q.state = proc.state /\ q.started = proc.started /\ q.broken = proc.broken
  BY <1>2
<1>4. ProcOK(q)
  BY <1>1, <1>2 DEF RunInv, ProcOK
<1>5. FinOK(q, fin) /\ StatusOK(q, status, fin, taken.status)
  BY <1>3 DEF RunInv, FinOK, StatusOK
<1>6. QED
  BY <1>1, <1>3, <1>4, <1>5, TryDoneKeeps

LEMMA PipeErrorKeeps ==
  ASSUME RunInv, pipe_error
  PROVE  RunInv'
<1>1. /\ proc.state # "none" /\ EndSession(status, fin, out.leftover)
      /\ Told("pipe error", "none")
      /\ UNCHANGED <<taken, given, errors, starts, produced>>
  BY DEF pipe_error, history
<1>2. /\ proc'.state = "none" /\ gpg' = "off"
      /\ ProcOK(proc)' /\ FinOK(proc, fin)' /\ StatusOK(proc, status, fin, taken.status)'
      /\ ChannelsAt' /\ CountsAt'
      /\ out' = [qt |-> <<>>, leftover |-> out.leftover]
  BY <1>1, SessionGone DEF RunInv, FinOK, StatusOK
<1>3. /\ EndsAt' /\ DOMAIN ends' = {1} /\ ends'[1].how = "pipe error"
      /\ Ended("pipe error")'
  <2>1. /\ DOMAIN ends' = {1} /\ Ended("pipe error")'
        /\ \/ ends' = <<ends'[1]>>
           \/ ends' = <<ends'[1], ends'[2]>> /\ ends'[1].how # "reset"
                /\ ends'[2].how = "reset"
    <3> DEFINE how == "pipe error"
    <3>1. Told(how, "none") /\ how # "reset"
      BY <1>1
    <3> HIDE DEF how
    <3>2. /\ DOMAIN ends' = {1} /\ Ended(how)'
          /\ \/ ends' = <<ends'[1]>>
             \/ ends' = <<ends'[1], ends'[2]>> /\ ends'[1].how # "reset"
                  /\ ends'[2].how = "reset"
      BY <1>1, <3>1, ToldOnce
    <3>3. QED
      BY <3>2 DEF how
  <2>2. ends'[1].how = "pipe error"
    BY <2>1 DEF Ended
  <2>3. QED
    BY <1>2, <2>1, <2>2 DEF EndsAt
<1>4. EndIsTrue' /\ StatusBeforeEnd'
  BY <1>3 DEF EndIsTrue, StatusBeforeEnd
<1>5. OutputAt'
  BY <1>1, <1>2, <1>3 DEF RunInv, OutputAt
<1>6. QED
  BY <1>2, <1>3, <1>4, <1>5 DEF RunInv

LEMMA ResetKeeps ==
  ASSUME RunInv, reset
  PROVE  RunInv'
<1>1. /\ ~WasReset /\ EndSession(NoStatus, NoEnd, <<>>) /\ Told("reset", "none")
      /\ UNCHANGED <<taken, given, errors, starts, produced>>
  BY DEF reset, history
<1>2. /\ proc'.state = "none" /\ gpg' = "off"
      /\ ProcOK(proc)' /\ FinOK(proc, fin)' /\ StatusOK(proc, status, fin, taken.status)'
      /\ ChannelsAt' /\ CountsAt'
      /\ out' = [qt |-> <<>>, leftover |-> <<>>]
  <2>1. NoStatus.buf \in Seq(Nat) /\ NoEnd.code = "none"
    BY DEF NoStatus, NoEnd
  <2>2. /\ NoStatus = [pipe |-> NoStatus.pipe, valid |-> NoStatus.valid, buf |-> NoStatus.buf]
        /\ NoEnd = [need_status |-> NoEnd.need_status, fin_status |-> NoEnd.fin_status,
                    fin_process |-> NoEnd.fin_process, success |-> NoEnd.success,
                    code |-> NoEnd.code]
    BY DEF NoStatus, NoEnd
  <2>3. taken.status \in Seq(Nat)
    BY DEF RunInv, StatusOK
  <2>4. QED
    BY <1>1, <2>1, <2>2, <2>3, SessionGone
<1>3. /\ EndsAt' /\ Ended("reset")'
      /\ \A i \in DOMAIN ends' :
           \/ i \in DOMAIN ends /\ ends'[i] = ends[i]
           \/ ends'[i].how = "reset"
  BY <1>1, <1>2, ToldOnce DEF EndsAt
<1>4. EndIsTrue' /\ StatusBeforeEnd'
  BY <1>1, <1>3 DEF RunInv, EndIsTrue, StatusBeforeEnd
<1>5. OutputAt'
  BY <1>1, <1>2, <1>3 DEF RunInv, OutputAt
<1>6. QED
  BY <1>2, <1>3, <1>4, <1>5 DEF RunInv

\* A run that begins has nothing of the one before it.
LEMMA NewRunDoes ==
  ASSUME RunInv, NewRun, errors' \in {errors, errors + 1}
  PROVE  EndsAt' /\ OutputAt' /\ ChannelsAt' /\ CountsAt' /\ EndIsTrue' /\ StatusBeforeEnd'
<1>1. /\ starts < MaxStarts /\ starts' = starts + 1
      /\ given' = [c \in Channels |-> 0] /\ produced' = [out |-> 0, status |-> 0]
      /\ taken' = [out |-> <<>>, status |-> <<>>] /\ ends' = <<>>
      /\ chan' = NewChannels /\ out' = [qt |-> <<>>, leftover |-> <<>>]
  BY DEF NewRun
<1>2. /\ <<>> \in Seq(Nat) /\ Len(<<>>) = 0 /\ <<>> = After(0, 0)
  BY EmptyIsAfter
<1>3. EndsAt' /\ EndIsTrue' /\ StatusBeforeEnd'
  BY <1>1 DEF EndsAt, EndIsTrue, StatusBeforeEnd
<1>4. OutputAt'
  <2>1. /\ out'.qt = <<>> /\ out'.leftover = <<>> /\ taken'.out = <<>>
        /\ produced'.out = 0 /\ produced'.status = 0
    BY <1>1
  <2>2. OutputFlow'
    BY <1>2, <2>1 DEF OutputFlow
  <2>3. QED
    BY <1>1, <1>2, <2>1, <2>2 DEF OutputAt
<1>5. ChannelsAt'
  <2>1. chan' = [c \in Channels |-> chan'[c]] /\ given' = [c \in Channels |-> given'[c]]
    BY <1>1 DEF NewChannels
  <2>2. 0 \in 0 .. MaxChunks
    BY BoundsAssumption
  <2>3. ASSUME NEW c \in Channels PROVE ChannelOK(proc, chan[c], given[c])'
    <3>1. /\ chan'[c] = [pre |-> <<>>, pre_close |-> FALSE, sent |-> <<>>, closed |-> FALSE]
          /\ given'[c] = 0
      BY <1>1 DEF NewChannels, NewChannel
    <3>2. /\ chan'[c] = [pre |-> chan'[c].pre, pre_close |-> chan'[c].pre_close,
                         sent |-> chan'[c].sent, closed |-> chan'[c].closed]
          /\ chan'[c].pre = <<>> /\ chan'[c].sent = <<>> /\ ~chan'[c].closed
      BY <3>1
    <3>3. QED
      BY <1>2, <2>2, <3>1, <3>2 DEF ChannelOK
  <2>4. QED
    BY <2>1, <2>3 DEF ChannelsAt
<1>6. CountsAt'
  BY <1>1, BoundsAssumption DEF RunInv, CountsAt
<1>7. QED
  BY <1>3, <1>4, <1>5, <1>6

LEMMA StartKeeps ==
  ASSUME RunInv, NEW mode, start(mode)
  PROVE  RunInv'
<1> DEFINE extended == mode = "extended"
<1>1. /\ NewRun /\ gpg' = "off" /\ UNCHANGED errors
      /\ proc' = [state |-> "new", relay |-> <<>>, startTrigger |-> TRUE,
                  doneTrigger |-> FALSE, started |-> FALSE, broken |-> FALSE]
      /\ status' = [pipe |-> <<>>, valid |-> extended, buf |-> <<>>]
      /\ fin' = [need_status |-> extended, fin_status |-> FALSE, fin_process |-> FALSE,
                 success |-> FALSE, code |-> "none"]
      /\ taken' = [out |-> <<>>, status |-> <<>>] /\ produced' = [out |-> 0, status |-> 0]
  BY DEF start, NewRun, NoProc, NoStatus, NoEnd
<1> HIDE DEF extended
<1>2. /\ <<>> \in Seq(Nat) /\ Len(<<>>) = 0 /\ <<>> = After(0, 0) /\ <<>> \in Seq(RelaySignals)
  BY EmptyIsAfter
<1>3. ProcOK(proc)' /\ FinOK(proc, fin)'
  BY <1>1, <1>2 DEF ProcOK, FinOK
<1>4. StatusOK(proc, status, fin, taken.status)'
  BY <1>1, <1>2 DEF StatusOK, StatusFlow
<1>5. QED
  BY <1>1, <1>3, <1>4, NewRunDoes DEF RunInv

LEMMA StartFailsKeeps ==
  ASSUME RunInv, startFails
  PROVE  RunInv'
<1>1. /\ NewRun /\ gpg' = "off" /\ errors' = errors + 1
      /\ proc' = [state |-> "none", relay |-> <<>>, startTrigger |-> FALSE,
                  doneTrigger |-> FALSE, started |-> FALSE, broken |-> FALSE]
      /\ status' = [pipe |-> <<>>, valid |-> FALSE, buf |-> <<>>]
      /\ fin' = [need_status |-> FALSE, fin_status |-> FALSE, fin_process |-> FALSE,
                 success |-> FALSE, code |-> "none"]
      /\ taken' = [out |-> <<>>, status |-> <<>>]
  BY DEF startFails, NewRun, NoProc, NoStatus, NoEnd
<1>2. <<>> \in Seq(Nat) /\ <<>> \in Seq(RelaySignals)
  OBVIOUS
<1>3. ProcOK(proc)' /\ FinOK(proc, fin)' /\ StatusOK(proc, status, fin, taken.status)'
  BY <1>1, <1>2 DEF ProcOK, FinOK, StatusOK
<1>4. QED
  BY <1>1, <1>3, NewRunDoes DEF RunInv

\* A step that leaves channels, output and ends alone, and starts or ends no session.
LEMMA RestKeeps ==
  ASSUME RunInv, UNCHANGED <<chan, given, out, taken, produced, ends, errors, starts>>,
         proc'.state = "none" <=> proc.state = "none",
         proc'.state = "running" /\ proc'.started => proc.state = "running" /\ proc.started,
         ~proc'.started => ~proc.started
  PROVE  EndsAt' /\ OutputAt' /\ ChannelsAt' /\ CountsAt' /\ EndIsTrue' /\ StatusBeforeEnd'
<1>1. EndsAt' /\ CountsAt' /\ EndIsTrue' /\ StatusBeforeEnd'
  BY DEF RunInv, EndsAt, CountsAt, EndIsTrue, StatusBeforeEnd
<1>2. OutputAt'
  BY DEF RunInv, OutputAt, OutputFlow, Ended
<1>3. ChannelsAt'
  BY DEF RunInv, ChannelsAt, ChannelOK
<1>4. QED
  BY <1>1, <1>2, <1>3

\* A step that changes only what the program calls for: the channels or the output.
LEMMA SessionKeeps ==
  ASSUME RunInv, UNCHANGED <<proc, gpg, status, fin, produced, ends, errors, starts>>,
         taken'.status = taken.status
  PROVE  /\ ProcOK(proc)' /\ FinOK(proc, fin)' /\ StatusOK(proc, status, fin, taken.status)'
         /\ EndsAt' /\ CountsAt' /\ EndIsTrue' /\ StatusBeforeEnd'
<1>1. ProcOK(proc)' /\ FinOK(proc, fin)'
  BY DEF RunInv, ProcOK, FinOK
<1>2. StatusOK(proc, status, fin, taken.status)'
  BY DEF RunInv, StatusOK, StatusFlow
<1>3. EndsAt' /\ CountsAt' /\ EndIsTrue' /\ StatusBeforeEnd'
  BY DEF RunInv, EndsAt, CountsAt, EndIsTrue, StatusBeforeEnd
<1>4. QED
  BY <1>1, <1>2, <1>3

\* The program writes to a channel, or closes it.
LEMMA WriteKeeps ==
  ASSUME RunInv, ~Eager, NEW c \in Channels, write(c)
  PROVE  RunInv'
<1> DEFINE ch == Written(chan[c], given[c] + 1)
<1>1. /\ proc.state # "none" /\ (proc.started \/ proc.state # "running")
      /\ ~chan[c].closed /\ given[c] < MaxChunks
      /\ given' = [given EXCEPT ![c] = given[c] + 1]
      /\ UNCHANGED <<proc, gpg, status, fin, out, errors, starts, produced, taken, ends>>
  BY DEF write, Calm
<1>2. chan' = [chan EXCEPT ![c] = ch]
  BY DEF write
<1>3. ChannelsAt /\ ChannelOK(proc, chan[c], given[c])
  BY DEF RunInv, ChannelsAt
<1>4. ChannelOK(proc, ch, given[c] + 1)
  BY <1>1, <1>3, ChannelWritten DEF Written
<1> HIDE DEF ch
<1>5. ChannelsAt'
  BY <1>1, <1>2, <1>3, <1>4, ChannelsKeep
<1>6. OutputAt'
  BY <1>1 DEF RunInv, OutputAt, OutputFlow, Ended
<1>7. QED
  BY <1>1, <1>5, <1>6, SessionKeeps DEF RunInv

LEMMA CloseKeeps ==
  ASSUME RunInv, ~Eager, NEW c \in Channels, close(c)
  PROVE  RunInv'
<1> DEFINE ch == IF proc.state = "running" THEN CloseNow(chan[c])
                 ELSE [chan[c] EXCEPT !.pre_close = TRUE]
<1>1. /\ proc.state # "none" /\ (proc.started \/ proc.state # "running")
      /\ UNCHANGED <<proc, gpg, status, fin, out, errors, starts, given, produced, taken,
                     ends>>
  BY DEF close, Calm, history
<1>2. chan' = [chan EXCEPT ![c] = ch]
  BY DEF close
<1>3. ChannelsAt /\ ChannelOK(proc, chan[c], given[c])
  BY DEF RunInv, ChannelsAt
<1>4. ChannelOK(proc, ch, given[c])
  BY <1>1, <1>3, ChannelClosed
<1> HIDE DEF ch
<1>5. ChannelsAt'
  <2>1. given' = [given EXCEPT ![c] = given[c]]
    BY <1>1, <1>3 DEF ChannelsAt
  <2>2. QED
    BY <1>1, <1>2, <1>3, <1>4, <2>1, ChannelsKeep
<1>6. OutputAt'
  BY <1>1 DEF RunInv, OutputAt, OutputFlow, Ended
<1>7. QED
  BY <1>1, <1>5, <1>6, SessionKeeps DEF RunInv

\* The program reads the output.
LEMMA ReadStdoutKeeps ==
  ASSUME RunInv, readStdout
  PROVE  RunInv'
<1>1. /\ UNCHANGED <<proc, gpg, chan, status, fin, errors, starts, given, produced, ends>>
      /\ taken = [out |-> taken.out, status |-> taken.status]
      /\ out = [qt |-> out.qt, leftover |-> out.leftover]
      /\ out.qt \in Seq(Nat) /\ out.leftover \in Seq(Nat) /\ taken.out \in Seq(Nat)
      /\ proc.state # "none" => out.leftover = <<>>
      /\ proc.state = "none" => out.qt = <<>>
  BY DEF readStdout, RunInv, OutputAt
<1> DEFINE new == IF proc.state # "none" THEN out.qt ELSE out.leftover
<1>2. taken'.out = taken.out \o new /\ taken'.status = taken.status
      /\ taken' = [out |-> taken'.out, status |-> taken'.status]
  <2>1. taken' = [taken EXCEPT !.out = @ \o new]
    BY DEF readStdout
  <2>2. QED
    BY <1>1, <2>1
<1>3. out' = [qt |-> <<>>, leftover |-> <<>>]
  <2>1. CASE proc.state # "none"
    <3>1. out' = [out EXCEPT !.qt = <<>>]
      BY <2>1 DEF readStdout
    <3>2. QED
      BY <1>1, <2>1, <3>1
  <2>2. CASE proc.state = "none"
    <3>1. out' = [out EXCEPT !.leftover = <<>>]
      BY <2>2 DEF readStdout
    <3>2. QED
      BY <1>1, <2>2, <3>1
  <2>3. QED
    BY <2>1, <2>2
<1>4. new \in Seq(Nat)
  BY <1>1
<1>5. taken.out \o new \in Seq(Nat) /\ <<>> \in Seq(Nat)
      /\ Len(taken.out \o new) = Len(taken.out) + Len(new)
      /\ Len(taken.out) \in Nat /\ Len(new) \in Nat /\ Len(<<>>) = 0
      /\ Len(taken.out) + Len(new) \in Nat
  BY <1>1, <1>4
<1>6. ASSUME OutputFlow PROVE OutputFlow'
  <2>1. /\ taken.out = After(0, Len(taken.out)) /\ new = After(Len(taken.out), Len(new))
        /\ Len(taken.out) + Len(new) = produced.out
    <3>1. CASE proc.state # "none"
      <4>1. new = out.qt /\ Len(out.leftover) = 0 /\ Len(taken.out) + Len(new) + 0 = produced.out
        BY <1>1, <1>5, <1>6, <3>1 DEF OutputFlow
      <4>2. Len(taken.out) + Len(new) = produced.out
        <5> DEFINE i == Len(taken.out)
                   k == Len(new)
        <5>1. i \in Nat /\ k \in Nat /\ i + k + 0 = produced.out
          BY <1>5, <4>1
        <5> HIDE DEF i, k
        <5>2. i + k = produced.out
          BY <5>1
        <5>3. QED
          BY <5>2 DEF i, k
      <4>3. QED
        BY <1>6, <4>1, <4>2 DEF OutputFlow
    <3>2. CASE proc.state = "none"
      <4>1. new = out.leftover /\ Len(out.qt) = 0 /\ Len(taken.out) + 0 + Len(new) = produced.out
            /\ new = After(Len(taken.out) + 0, Len(new))
        BY <1>1, <1>5, <1>6, <3>2 DEF OutputFlow
      <4>2. Len(taken.out) + 0 = Len(taken.out)
        BY <1>5
      <4>3. QED
        BY <1>6, <4>1, <4>2 DEF OutputFlow
    <3>3. QED
      BY <3>1, <3>2
  <2>2. taken.out \o new = After(0, Len(taken.out) + Len(new))
    <3>1. \A m, n \in Nat : After(0, m) \o After(m, n) = After(0, m + n)
      <4>1. SUFFICES ASSUME NEW m \in Nat, NEW n \in Nat
                     PROVE  After(0, m) \o After(m, n) = After(0, m + n)
        OBVIOUS
      <4>2. After(0, m) \o After(0 + m, n) = After(0, m + n)
        BY AfterJoins
      <4>3. 0 + m = m
        OBVIOUS
      <4>4. QED
        BY <4>2, <4>3
    <3> DEFINE i == Len(taken.out)
               k == Len(new)
    <3>2. i \in Nat /\ k \in Nat /\ taken.out = After(0, i) /\ new = After(i, k)
      BY <1>5, <2>1
    <3> HIDE DEF i, k, new
    <3>3. taken.out \o new = After(0, i + k)
      BY <3>1, <3>2
    <3>4. QED
      BY <3>3 DEF i, k
  <2>3. /\ taken'.out = After(0, Len(taken'.out)) /\ Len(taken'.out) = produced.out
        /\ Len(taken'.out) \in Nat
    BY <1>2, <1>5, <2>1, <2>2
  <2>4. \A n \in Nat : <<>> = After(n, 0)
    BY EmptyIsAfter
  <2>5. /\ <<>> = After(Len(taken'.out), 0) /\ Len(taken'.out) + 0 = Len(taken'.out)
        /\ Len(taken'.out) + 0 + 0 = produced.out
    BY <2>3, <2>4
  <2>6. /\ out'.qt = <<>> /\ out'.leftover = <<>> /\ Len(out'.qt) = 0
        /\ Len(out'.leftover) = 0 /\ produced' = produced
    BY <1>1, <1>3, <1>5
  <2>7. QED
    BY <2>3, <2>5, <2>6 DEF OutputFlow
<1>7. OutputAt'
  <2>1. Ended("reset")' <=> Ended("reset")
    BY <1>1 DEF Ended
  <2>2. Ended("pipe error")' <=> Ended("pipe error")
    BY <1>1 DEF Ended
  <2>3. ~Ended("reset")' /\ ~Ended("pipe error")' => OutputFlow'
    BY <1>6, <2>1, <2>2 DEF RunInv, OutputAt
  <2>4. QED
    BY <1>1, <1>2, <1>3, <1>5, <2>3 DEF RunInv, OutputAt
<1>8. ChannelsAt'
  BY <1>1 DEF RunInv, ChannelsAt, ChannelOK
<1>9. QED
  BY <1>1, <1>2, <1>7, <1>8, SessionKeeps DEF RunInv

\* The process is started, and gpg with it, or not.
LEMMA DoStartKeeps ==
  ASSUME RunInv, doStart
  PROVE  RunInv'
<1>1. /\ proc.startTrigger /\ proc.state = "new" /\ gpg = "off"
      /\ gpg' \in {"alive", "failed"}
      /\ UNCHANGED <<chan, status, fin, out, errors, starts, given, produced, taken, ends>>
      /\ proc.relay = <<>> /\ ~proc.started
  BY DEF doStart, history, RunInv, ProcOK
<1>2. proc' = [state |-> "starting", relay |-> <<>>, startTrigger |-> FALSE,
               doneTrigger |-> proc.doneTrigger, started |-> proc.started,
               broken |-> proc.broken]
  <2>1. proc' = [proc EXCEPT !.startTrigger = FALSE, !.state = "starting"]
    BY DEF doStart
  <2>2. proc = [state |-> proc.state, relay |-> proc.relay,
                startTrigger |-> proc.startTrigger, doneTrigger |-> proc.doneTrigger,
                started |-> proc.started, broken |-> proc.broken]
    BY DEF RunInv, ProcOK
  <2>3. QED
    BY <1>1, <2>1, <2>2, ProcUpdates
<1>3. ProcOK(proc)'
  BY <1>1, <1>2 DEF ProcOK
<1>4. FinOK(proc, fin)'
  BY <1>1, <1>2 DEF RunInv, FinOK, ExitCodes
<1>5. StatusOK(proc, status, fin, taken.status)'
  BY <1>1, <1>2 DEF RunInv, StatusOK, StatusFlow, Gone
<1>6. gpg' \in {"off", "alive"} \union Gone
  BY <1>1 DEF Gone
<1>7. EndsAt' /\ OutputAt' /\ ChannelsAt' /\ CountsAt' /\ EndIsTrue' /\ StatusBeforeEnd'
  BY <1>1, <1>2, RestKeeps
<1>8. QED
  BY <1>3, <1>4, <1>5, <1>6, <1>7 DEF RunInv

\* started(): the process is known to run.
LEMMA ProcStartedKeeps ==
  ASSUME RunInv, proc_started
  PROVE  RunInv'
<1>1. /\ proc.relay # <<>> /\ Head(proc.relay) = "started"
      /\ chan' = [c \in Channels |-> PassOnPre(chan[c])]
      /\ UNCHANGED <<gpg, status, fin, out, errors, starts, given, produced, taken, ends>>
  BY DEF proc_started, Signalled, history
<1>2. /\ proc.state \in {"running", "over"} /\ ~proc.started
      /\ Tail(proc.relay) \in Seq(RelaySignals)
      /\ \A i \in DOMAIN Tail(proc.relay) :
           /\ Tail(proc.relay)[i] # "started"
           /\ Tail(proc.relay)[i] \in ExitCodes => Tail(proc.relay)[i] = gpg
           /\ Tail(proc.relay)[i] = "error" => gpg \in {"failed", "crash"} \/ proc.broken
  BY <1>1, RelayGoesOn
<1>3. proc' = [state |-> proc.state, relay |-> Tail(proc.relay),
               startTrigger |-> proc.startTrigger, doneTrigger |-> proc.doneTrigger,
               started |-> TRUE, broken |-> proc.broken]
  <2>1. Next1 = [state |-> proc.state, relay |-> Tail(proc.relay),
                 startTrigger |-> proc.startTrigger, doneTrigger |-> proc.doneTrigger,
                 started |-> proc.started, broken |-> proc.broken]
    BY <1>1, RelayGoesOn
  <2>2. proc' = [Next1 EXCEPT !.started = TRUE]
    BY DEF proc_started
  <2>3. QED
    BY <2>1, <2>2
<1>4. ProcOK(proc)'
  BY <1>1, <1>2, <1>3 DEF RunInv, ProcOK
<1>5. FinOK(proc, fin)' /\ StatusOK(proc, status, fin, taken.status)'
  BY <1>1, <1>3 DEF RunInv, FinOK, StatusOK, StatusFlow
<1>6. ChannelsAt'
  <2>1. chan' = [c \in Channels |-> chan'[c]] /\ given' = [c \in Channels |-> given'[c]]
    BY <1>1 DEF RunInv, ChannelsAt
  <2>2. ASSUME NEW c \in Channels PROVE ChannelOK(proc, chan[c], given[c])'
    <3>1. ChannelOK(proc, chan[c], given[c])
      BY DEF RunInv, ChannelsAt
    <3>2. ~proc.started /\ proc'.started /\ proc.state # "none"
      BY <1>2, <1>3
    <3> DEFINE r == proc'
    <3>3. r.started
      BY <3>2
    <3> HIDE DEF r
    <3>4. ChannelOK(r, PassOnPre(chan[c]), given[c])
      BY <3>1, <3>2, <3>3, ChannelFlushed
    <3>5. chan'[c] = PassOnPre(chan[c]) /\ given'[c] = given[c]
      BY <1>1
    <3>6. QED
      BY <3>4, <3>5 DEF r, ChannelOK
  <2>3. QED
    BY <2>1, <2>2 DEF ChannelsAt
<1>7. OutputAt'
  BY <1>1, <1>2, <1>3 DEF RunInv, OutputAt, OutputFlow, Ended
<1>8. EndsAt' /\ CountsAt' /\ EndIsTrue' /\ StatusBeforeEnd'
  BY <1>1, <1>2, <1>3 DEF RunInv, EndsAt, CountsAt, EndIsTrue, StatusBeforeEnd
<1>9. QED
  BY <1>1, <1>4, <1>5, <1>6, <1>7, <1>8 DEF RunInv

\* The error() that start() has posted.
LEMMA PostedErrorKeeps ==
  ASSUME RunInv, postedError
  PROVE  RunInv'
<1>1. /\ errors > 0 /\ errors' = errors - 1
      /\ UNCHANGED <<proc, gpg, chan, status, fin, out, starts, given, produced, taken, ends>>
  BY DEF postedError, history
<1>2. CountsAt'
  BY <1>1, BoundsAssumption DEF RunInv, CountsAt
<1>3. /\ ProcOK(proc)' /\ FinOK(proc, fin)' /\ StatusOK(proc, status, fin, taken.status)'
  BY <1>1 DEF RunInv, ProcOK, FinOK, StatusOK, StatusFlow
<1>4. EndsAt' /\ OutputAt' /\ ChannelsAt'
  BY <1>1 DEF RunInv, EndsAt, OutputAt, OutputFlow, Ended, ChannelsAt, ChannelOK
<1>5. EndIsTrue' /\ StatusBeforeEnd'
  BY <1>1 DEF RunInv, EndIsTrue, StatusBeforeEnd
<1>6. QED
  BY <1>1, <1>2, <1>3, <1>4, <1>5 DEF RunInv

\* gpg ends.
LEMMA GpgEndsKeeps ==
  ASSUME RunInv, gpgEnds
  PROVE  RunInv'
<1>1. /\ gpg = "alive" /\ gpg' \in ExitCodes
      /\ UNCHANGED <<proc, chan, status, fin, out, errors, starts, given, produced, taken,
                     ends>>
  BY DEF gpgEnds, history, ExitCodes
<1>2. ProcOK(proc)'
  BY <1>1 DEF RunInv, ProcOK, ExitCodes
<1>3. FinOK(proc, fin)'
  BY <1>1 DEF RunInv, FinOK, ExitCodes
<1>4. StatusOK(proc, status, fin, taken.status)'
  BY <1>1 DEF RunInv, StatusOK, StatusFlow, Gone, ExitCodes
<1>5. gpg' \in {"off", "alive"} \union Gone
  BY <1>1 DEF Gone, ExitCodes
<1>6. EndsAt' /\ OutputAt' /\ ChannelsAt' /\ CountsAt' /\ EndIsTrue' /\ StatusBeforeEnd'
  BY <1>1, RestKeeps
<1>7. QED
  BY <1>2, <1>3, <1>4, <1>5, <1>6 DEF RunInv

\* QProcess learns of gpg: signals that are true join the relay.
LEMMA SignalsKeep ==
  ASSUME RunInv, NEW state \in {"running", "over"}, NEW signals \in Seq(RelaySignals),
         NEW broken,
         proc' = [state |-> state, relay |-> proc.relay \o signals,
                  startTrigger |-> proc.startTrigger, doneTrigger |-> proc.doneTrigger,
                  started |-> proc.started, broken |-> broken],
         UNCHANGED <<gpg, chan, status, fin, out, errors, history, ends>>,
         proc.state \in {"starting", "running"}, gpg # "off",
         state = "running" /\ proc.started => proc.state = "running",
         proc.broken => broken,
         \A i \in DOMAIN signals :
           /\ signals[i] = "started" => i = 1 /\ proc.state = "starting"
           /\ signals[i] \in ExitCodes => signals[i] = gpg
           /\ signals[i] = "error" => gpg \in {"failed", "crash"} \/ broken
  PROVE  RunInv'
<1>1. /\ UNCHANGED <<gpg, chan, status, fin, out, errors, starts, given, produced, taken,
                     ends>>
      /\ proc'.state = state /\ proc'.relay = proc.relay \o signals
      /\ proc'.started = proc.started /\ proc'.broken = broken
      /\ proc'.startTrigger = proc.startTrigger /\ ~proc.startTrigger
  BY DEF history, RunInv, ProcOK
<1>2. /\ proc.relay \in Seq(RelaySignals)
      /\ proc.state = "starting" => proc.relay = <<>> /\ ~proc.started
      /\ \A i \in DOMAIN proc.relay :
           /\ proc.relay[i] = "started" => i = 1 /\ ~proc.started
           /\ proc.relay[i] \in ExitCodes => proc.relay[i] = gpg
           /\ proc.relay[i] = "error" => gpg \in {"failed", "crash"} \/ proc.broken
  BY DEF RunInv, ProcOK
<1> DEFINE relay == proc.relay \o signals
<1>3. relay \in Seq(RelaySignals)
  BY <1>2
<1>4. ASSUME NEW i \in DOMAIN relay
      PROVE  /\ relay[i] = "started" => i = 1 /\ ~proc.started
             /\ relay[i] \in ExitCodes => relay[i] = gpg
             /\ relay[i] = "error" => gpg \in {"failed", "crash"} \/ broken
  <2>1. CASE i \in DOMAIN proc.relay
    <3>1. relay[i] = proc.relay[i]
      BY <1>2, <2>1
    <3>2. QED
      BY <1>2, <2>1, <3>1
  <2>2. CASE i \notin DOMAIN proc.relay
    <3>1. i - Len(proc.relay) \in DOMAIN signals /\ relay[i] = signals[i - Len(proc.relay)]
      BY <1>2, <2>2
    <3>2. proc.state = "starting" => i - Len(proc.relay) = i
      BY <1>2, <1>3
    <3>3. QED
      BY <1>2, <3>1, <3>2
  <2>3. QED
    BY <2>1, <2>2
<1> HIDE DEF relay
<1>5. ProcOK(proc)'
  <2>1. proc' = [state |-> proc'.state, relay |-> proc'.relay,
                 startTrigger |-> proc'.startTrigger, doneTrigger |-> proc'.doneTrigger,
                 started |-> proc'.started, broken |-> proc'.broken]
    OBVIOUS
  <2>2. proc'.relay = relay
    BY <1>1 DEF relay
  <2>3. \A i \in DOMAIN proc'.relay :
           /\ proc'.relay[i] = "started" => i = 1 /\ ~proc'.started
           /\ proc'.relay[i] \in ExitCodes => proc'.relay[i] = gpg'
           /\ proc'.relay[i] = "error" => gpg' \in {"failed", "crash"} \/ proc'.broken
    BY <1>1, <1>4, <2>2
  <2>4. proc'.relay \in Seq(RelaySignals)
    BY <1>3, <2>2
  <2>5. QED
    BY <1>1, <2>1, <2>3, <2>4 DEF ProcOK
<1>6. FinOK(proc, fin)' /\ StatusOK(proc, status, fin, taken.status)'
  BY <1>1 DEF RunInv, FinOK, StatusOK, StatusFlow
<1>7. EndsAt' /\ OutputAt' /\ ChannelsAt' /\ CountsAt' /\ EndIsTrue' /\ StatusBeforeEnd'
  BY <1>1, RestKeeps
<1>8. QED
  BY <1>1, <1>5, <1>6, <1>7 DEF RunInv

\* gpg was run, could not be run, does not read its input, or has ended.
LEMMA SignalKeeps ==
  ASSUME RunInv, NEW state \in {"running", "over"}, NEW signal \in RelaySignals,
         NEW broken,
         proc' = [state |-> state, relay |-> Append(proc.relay, signal),
                  startTrigger |-> proc.startTrigger, doneTrigger |-> proc.doneTrigger,
                  started |-> proc.started, broken |-> broken],
         UNCHANGED <<gpg, chan, status, fin, out, errors, history, ends>>,
         proc.state \in {"starting", "running"}, gpg # "off",
         state = "running" /\ proc.started => proc.state = "running",
         proc.broken => broken,
         signal = "started" => proc.state = "starting",
         signal \in ExitCodes => signal = gpg,
         signal = "error" => gpg \in {"failed", "crash"} \/ broken
  PROVE  RunInv'
<1> DEFINE signals == <<signal>>
<1>1. signals \in Seq(RelaySignals) /\ \A i \in DOMAIN signals : i = 1 /\ signals[i] = signal
  OBVIOUS
<1>2. proc.relay \in Seq(RelaySignals) /\ proc.startTrigger = FALSE
  BY DEF RunInv, ProcOK
<1>3. Append(proc.relay, signal) = proc.relay \o signals
  BY <1>2
<1> HIDE DEF signals
<1>4. QED
  BY <1>1, <1>2, <1>3, SignalsKeep

LEMMA ProcessStartedKeeps ==
  ASSUME RunInv, processStarted
  PROVE  RunInv'
<1>1. /\ proc.state = "starting" /\ gpg # "off" /\ ~proc.started
      /\ proc' = [proc EXCEPT !.state = "running", !.relay = Append(proc.relay, "started")]
      /\ UNCHANGED <<gpg, chan, status, fin, out, errors, history, ends>>
  BY DEF processStarted, RunInv, ProcOK
<1>2. proc' = [state |-> "running", relay |-> Append(proc.relay, "started"),
               startTrigger |-> proc.startTrigger, doneTrigger |-> proc.doneTrigger,
               started |-> proc.started, broken |-> proc.broken]
  BY <1>1, ProcUpdates DEF RunInv, ProcOK
<1>3. "started" \in RelaySignals /\ "started" \notin ExitCodes /\ "started" # "error"
  BY DEF RelaySignals, ExitCodes
<1>4. QED
  BY <1>1, <1>2, <1>3, SignalKeeps

LEMMA ProcessFailedKeeps ==
  ASSUME RunInv, processFailed
  PROVE  RunInv'
<1>1. /\ proc.state = "starting" /\ gpg = "failed"
      /\ proc' = [proc EXCEPT !.state = "over", !.relay = Append(proc.relay, "error")]
      /\ UNCHANGED <<gpg, chan, status, fin, out, errors, history, ends>>
  BY DEF processFailed
<1>2. proc' = [state |-> "over", relay |-> Append(proc.relay, "error"),
               startTrigger |-> proc.startTrigger, doneTrigger |-> proc.doneTrigger,
               started |-> proc.started, broken |-> proc.broken]
  BY <1>1, ProcUpdates DEF RunInv, ProcOK
<1>3. "error" \in RelaySignals /\ "error" \notin ExitCodes
  BY DEF RelaySignals, ExitCodes
<1>4. QED
  BY <1>1, <1>2, <1>3, SignalKeeps

LEMMA ProcessWriteErrorKeeps ==
  ASSUME RunInv, processWriteError
  PROVE  RunInv'
<1>1. /\ proc.state = "running"
      /\ proc' = [proc EXCEPT !.broken = TRUE, !.relay = Append(proc.relay, "error")]
      /\ UNCHANGED <<gpg, chan, status, fin, out, errors, history, ends>>
  BY DEF processWriteError
<1>2. proc' = [state |-> proc.state, relay |-> Append(proc.relay, "error"),
               startTrigger |-> proc.startTrigger, doneTrigger |-> proc.doneTrigger,
               started |-> proc.started, broken |-> TRUE]
  BY <1>1, ProcUpdates DEF RunInv, ProcOK
<1>3. "error" \in RelaySignals /\ "error" \notin ExitCodes /\ gpg # "off"
  BY <1>1 DEF RelaySignals, ExitCodes, RunInv, ProcOK
<1>4. QED
  BY <1>1, <1>2, <1>3, SignalKeeps

LEMMA ProcessDiedKeeps ==
  ASSUME RunInv, processDied
  PROVE  RunInv'
<1> DEFINE signals == IF gpg = "crash" THEN <<"error", gpg>> ELSE <<gpg>>
<1>1. /\ proc.state = "running" /\ gpg \in ExitCodes
      /\ proc' = [proc EXCEPT !.state = "over", !.relay = @ \o signals]
      /\ UNCHANGED <<gpg, chan, status, fin, out, errors, history, ends>>
  BY DEF processDied, ExitCodes
<1>2. /\ signals \in Seq(RelaySignals)
      /\ \A i \in DOMAIN signals :
           /\ signals[i] # "started"
           /\ signals[i] \in ExitCodes => signals[i] = gpg
           /\ signals[i] = "error" => gpg = "crash"
  <2>1. gpg \in RelaySignals /\ gpg # "started" /\ "error" \in RelaySignals
        /\ gpg # "error" /\ "error" \notin ExitCodes
    BY <1>1 DEF RelaySignals, ExitCodes
  <2>2. CASE gpg = "crash"
    <3>1. signals = <<"error", gpg>>
      BY <2>2
    <3>2. \A i \in DOMAIN signals : signals[i] = "error" \/ signals[i] = gpg
      BY <3>1
    <3>3. signals \in Seq(RelaySignals)
      BY <2>1, <3>1
    <3>4. QED
      BY <2>1, <2>2, <3>2, <3>3
  <2>3. CASE gpg # "crash"
    <3>1. signals = <<gpg>>
      BY <2>3
    <3>2. \A i \in DOMAIN signals : signals[i] = gpg
      BY <3>1
    <3>3. signals \in Seq(RelaySignals)
      BY <2>1, <3>1
    <3>4. QED
      BY <2>1, <3>2, <3>3
  <2>4. QED
    BY <2>2, <2>3
<1> HIDE DEF signals
<1>3. /\ proc' = [state |-> "over", relay |-> proc.relay \o signals,
                  startTrigger |-> proc.startTrigger, doneTrigger |-> proc.doneTrigger,
                  started |-> proc.started, broken |-> proc.broken]
      /\ gpg # "off"
  <2> DEFINE relay == proc.relay \o signals
  <2>1. proc' = [proc EXCEPT !.state = "over", !.relay = relay]
    BY <1>1
  <2>2. proc = [state |-> proc.state, relay |-> proc.relay,
                startTrigger |-> proc.startTrigger, doneTrigger |-> proc.doneTrigger,
                started |-> proc.started, broken |-> proc.broken]
    BY DEF RunInv, ProcOK
  <2> HIDE DEF relay
  <2>3. proc' = [state |-> "over", relay |-> relay,
                 startTrigger |-> proc.startTrigger, doneTrigger |-> proc.doneTrigger,
                 started |-> proc.started, broken |-> proc.broken]
    BY <2>1, <2>2, ProcUpdates
  <2>4. QED
    BY <1>1, <2>3 DEF relay, ExitCodes
<1>4. QED
  <2> DEFINE broken == proc.broken
             state == "over"
  <2>1. state \in {"running", "over"} /\ state # "running"
        /\ proc' = [state |-> state, relay |-> proc.relay \o signals,
                    startTrigger |-> proc.startTrigger, doneTrigger |-> proc.doneTrigger,
                    started |-> proc.started, broken |-> broken]
        /\ (proc.broken => broken)
    BY <1>3
  <2>2. \A i \in DOMAIN signals :
           /\ signals[i] = "started" => i = 1 /\ proc.state = "starting"
           /\ signals[i] \in ExitCodes => signals[i] = gpg
           /\ signals[i] = "error" => gpg \in {"failed", "crash"} \/ broken
    BY <1>2
  <2>3. proc.state \in {"starting", "running"} /\ gpg # "off"
        /\ (state = "running" /\ proc.started => proc.state = "running")
    BY <1>1, <1>3
  <2>4. signals \in Seq(RelaySignals)
        /\ UNCHANGED <<gpg, chan, status, fin, out, errors, history, ends>>
    BY <1>1, <1>2
  <2> HIDE DEF broken, state
  <2>5. QED
    BY <2>1, <2>2, <2>3, <2>4, SignalsKeep

\* gpg writes to the status pipe.
LEMMA GpgWritesStatusKeeps ==
  ASSUME RunInv, gpgWritesStatus
  PROVE  RunInv'
<1>1. /\ gpg = "alive" /\ fin.need_status
      /\ produced' = [produced EXCEPT !.status = @ + 1]
      /\ UNCHANGED <<proc, gpg, chan, fin, out, errors, starts, given, taken, ends>>
  BY DEF gpgWritesStatus
<1>2. /\ proc.state \notin {"none", "new"} /\ ends = <<>>
      /\ produced = [out |-> produced.out, status |-> produced.status]
      /\ produced.status \in Nat
  BY <1>1 DEF RunInv, ProcOK, EndsAt, OutputAt
<1>3. /\ produced' = [out |-> produced.out, status |-> produced.status + 1]
      /\ produced'.status = produced.status + 1 /\ produced'.status \in Nat
      /\ produced'.out = produced.out
      /\ produced' = [out |-> produced'.out, status |-> produced'.status]
  BY <1>1, <1>2
<1>4. ProcOK(proc)' /\ FinOK(proc, fin)'
  BY <1>1 DEF RunInv, ProcOK, FinOK
<1>5. EndsAt' /\ CountsAt' /\ EndIsTrue' /\ StatusBeforeEnd'
  BY <1>1, <1>2 DEF RunInv, EndsAt, CountsAt, EndIsTrue, StatusBeforeEnd
<1>6. OutputAt'
  BY <1>1, <1>3 DEF RunInv, OutputAt, OutputFlow, Ended
<1>7. ChannelsAt'
  BY <1>1 DEF RunInv, ChannelsAt, ChannelOK
<1>8. StatusOK(proc, status, fin, taken.status)'
  <2>1. CASE status.valid
    <3>1. /\ status = [pipe |-> status.pipe, valid |-> status.valid, buf |-> status.buf]
          /\ status.pipe \in Seq(Nat) /\ status.buf \in Seq(Nat)
          /\ taken.status \in Seq(Nat) /\ ~fin.fin_status
          /\ StatusFlow(status, taken.status)
      BY <1>2, <2>1 DEF RunInv, StatusOK
    <3> DEFINE pipe == Append(status.pipe, produced.status + 1)
    <3>2. status' = [pipe |-> pipe, valid |-> TRUE, buf |-> status.buf]
      <4>1. status' = [status EXCEPT !.pipe = pipe]
        BY <2>1 DEF gpgWritesStatus
      <4>2. QED
        BY <2>1, <3>1, <4>1, StatusUpdates
    <3>3. pipe \in Seq(Nat) /\ pipe = After(Len(taken.status) + Len(status.buf), Len(pipe))
          /\ Len(taken.status) + Len(status.buf) + Len(pipe) = produced.status + 1
      <4> DEFINE i == Len(taken.status) + Len(status.buf)
                 k == Len(status.pipe)
      <4>2. i \in Nat /\ k \in Nat /\ status.pipe = After(i, k) /\ i + k = produced.status
        BY <3>1 DEF StatusFlow
      <4> DEFINE n == produced.status + 1
      <4>4. n = i + k + 1 /\ pipe = Append(status.pipe, n)
        BY <4>2
      <4> HIDE DEF i, k, n, pipe
      <4>4a. /\ Append(After(i, k), n) = After(i, k + 1)
             /\ After(i, k + 1) \in Seq(Nat) /\ Len(After(i, k + 1)) = k + 1
             /\ i + (k + 1) = n
        <5>1. /\ Append(After(i, k), i + k + 1) = After(i, k + 1)
              /\ After(i, k + 1) \in Seq(Nat) /\ Len(After(i, k + 1)) = k + 1
              /\ i + (k + 1) = i + k + 1
          BY <4>2, AppendAfter
        <5>2. QED
          BY <4>4, <5>1
      <4>5. pipe \in Seq(Nat) /\ pipe = After(i, Len(pipe)) /\ i + Len(pipe) = n
        BY <4>2, <4>4, <4>4a
      <4>6. i + Len(pipe) = produced.status + 1
        BY <4>5 DEF n
      <4>7. QED
        BY <4>5, <4>6 DEF i
    <3> HIDE DEF pipe
    <3>4. StatusFlow(status, taken.status)'
      BY <1>1, <1>3, <3>1, <3>2, <3>3 DEF StatusFlow
    <3>5. QED
      BY <1>1, <1>2, <3>1, <3>2, <3>3, <3>4 DEF RunInv, StatusOK
  <2>2. CASE ~status.valid
    <3>1. status' = status
      BY <2>2 DEF gpgWritesStatus
    <3>2. proc.broken
      BY <1>1, <1>2, <2>2 DEF RunInv, StatusOK, Gone
    <3>3. QED
      BY <1>1, <2>2, <3>1, <3>2 DEF RunInv, StatusOK
  <2>3. QED
    BY <2>1, <2>2
<1>9. QED
  BY <1>1, <1>4, <1>5, <1>6, <1>7, <1>8 DEF RunInv

\* gpg puts out a chunk.
LEMMA GpgPutsOutKeeps ==
  ASSUME RunInv, gpgPutsOut
  PROVE  RunInv'
<1>1. /\ proc.state = "running"
      /\ produced' = [produced EXCEPT !.out = @ + 1]
      /\ out' = [out EXCEPT !.qt = Append(@, produced.out + 1)]
      /\ UNCHANGED <<proc, gpg, chan, status, fin, errors, starts, given, taken, ends>>
  BY DEF gpgPutsOut
<1>2. /\ ends = <<>> /\ OutputFlow /\ out.leftover = <<>>
      /\ produced = [out |-> produced.out, status |-> produced.status]
      /\ out = [qt |-> out.qt, leftover |-> out.leftover]
      /\ out.qt \in Seq(Nat) /\ taken.out \in Seq(Nat) /\ produced.out \in Nat
      /\ produced.status \in Nat
  BY <1>1 DEF RunInv, EndsAt, OutputAt, Ended
<1>3. /\ produced' = [out |-> produced.out + 1, status |-> produced.status]
      /\ produced'.out = produced.out + 1 /\ produced'.out \in Nat
      /\ produced'.status = produced.status
      /\ produced' = [out |-> produced'.out, status |-> produced'.status]
  <2> DEFINE n == produced.out + 1
  <2>1. n \in Nat /\ produced' = [produced EXCEPT !.out = n]
    BY <1>1, <1>2
  <2> HIDE DEF n
  <2>2. produced' = [out |-> n, status |-> produced.status]
    BY <1>2, <2>1
  <2>3. QED
    BY <2>1, <2>2 DEF n
<1> DEFINE qt == Append(out.qt, produced.out + 1)
<1>4. out' = [qt |-> qt, leftover |-> <<>>]
  BY <1>1, <1>2
<1>5. qt \in Seq(Nat) /\ qt = After(Len(taken.out), Len(qt))
      /\ Len(taken.out) + Len(qt) = produced.out + 1
  <2> DEFINE i == Len(taken.out)
             k == Len(out.qt)
  <2>3. i \in Nat /\ k \in Nat /\ out.qt = After(i, k) /\ i + k = produced.out
    BY <1>2 DEF OutputFlow
  <2> DEFINE n == produced.out + 1
  <2>4. n = i + k + 1 /\ qt = Append(out.qt, n)
    BY <2>3
  <2> HIDE DEF i, k, n, qt
  <2>4a. /\ Append(After(i, k), n) = After(i, k + 1)
         /\ After(i, k + 1) \in Seq(Nat) /\ Len(After(i, k + 1)) = k + 1
         /\ i + (k + 1) = n
    <3>1. /\ Append(After(i, k), i + k + 1) = After(i, k + 1)
          /\ After(i, k + 1) \in Seq(Nat) /\ Len(After(i, k + 1)) = k + 1
          /\ i + (k + 1) = i + k + 1
      BY <2>3, AppendAfter
    <3>2. QED
      BY <2>4, <3>1
  <2>5. qt \in Seq(Nat) /\ qt = After(i, Len(qt)) /\ i + Len(qt) = n
    BY <2>3, <2>4, <2>4a
  <2>6. i + Len(qt) = produced.out + 1
    BY <2>5 DEF n
  <2>7. QED
    BY <2>5, <2>6 DEF i
<1> HIDE DEF qt
<1>6. OutputFlow'
  <2>1. Len(taken.out) + Len(qt) \in Nat /\ Len(<<>>) = 0
    BY <1>2, <1>5
  <2>2. <<>> = After(Len(taken.out) + Len(qt), 0)
        /\ Len(taken.out) + Len(qt) + 0 = produced.out + 1
    <3>1. \A n \in Nat : <<>> = After(n, 0) /\ n + 0 = n
      BY EmptyIsAfter
    <3>2. QED
      BY <1>5, <2>1, <3>1
  <2>3. /\ out'.qt = qt /\ out'.leftover = <<>> /\ taken' = taken
        /\ produced'.out = produced.out + 1
    BY <1>1, <1>3, <1>4
  <2>4. taken.out = After(0, Len(taken.out))
    BY <1>2 DEF OutputFlow
  <2>5. QED
    BY <1>5, <2>1, <2>2, <2>3, <2>4 DEF OutputFlow
<1>7. OutputAt'
  <2>1. /\ out' = [qt |-> out'.qt, leftover |-> out'.leftover]
        /\ out'.qt \in Seq(Nat) /\ out'.leftover \in Seq(Nat) /\ out'.leftover = <<>>
    BY <1>4, <1>5
  <2>2. /\ taken' = [out |-> taken'.out, status |-> taken'.status]
        /\ taken'.out \in Seq(Nat) /\ proc'.state # "none"
    BY <1>1 DEF RunInv, OutputAt
  <2>3. /\ produced' = [out |-> produced'.out, status |-> produced'.status]
        /\ produced'.out \in Nat /\ produced'.status \in Nat
    BY <1>2, <1>3
  <2>4. QED
    BY <1>6, <2>1, <2>2, <2>3 DEF OutputAt
<1>8. StatusOK(proc, status, fin, taken.status)'
  BY <1>1, <1>3 DEF RunInv, StatusOK, StatusFlow
<1>9. /\ ProcOK(proc)' /\ FinOK(proc, fin)' /\ EndsAt' /\ CountsAt' /\ EndIsTrue'
      /\ StatusBeforeEnd'
  BY <1>1, <1>2 DEF RunInv, ProcOK, FinOK, EndsAt, CountsAt, EndIsTrue, StatusBeforeEnd
<1>10. ChannelsAt'
  BY <1>1 DEF RunInv, ChannelsAt, ChannelOK
<1>11. QED
  BY <1>1, <1>7, <1>8, <1>9, <1>10 DEF RunInv

-----------------------------------------------------------------------------
LEMMA RunInitially ==
  ASSUME Init
  PROVE  RunInv
<1>1. /\ gpg = "off" /\ ends = <<>> /\ errors = 0 /\ starts = 0
      /\ proc = [state |-> "none", relay |-> <<>>, startTrigger |-> FALSE,
                 doneTrigger |-> FALSE, started |-> FALSE, broken |-> FALSE]
      /\ status = [pipe |-> <<>>, valid |-> FALSE, buf |-> <<>>]
      /\ fin = [need_status |-> FALSE, fin_status |-> FALSE, fin_process |-> FALSE,
                success |-> FALSE, code |-> "none"]
      /\ out = [qt |-> <<>>, leftover |-> <<>>]
      /\ produced = [out |-> 0, status |-> 0]
      /\ taken = [out |-> <<>>, status |-> <<>>]
      /\ chan = [c \in Channels |-> [pre |-> <<>>, pre_close |-> FALSE, sent |-> <<>>,
                                     closed |-> FALSE]]
      /\ given = [c \in Channels |-> 0]
  BY DEF Init, NoProc, NoStatus, NoEnd, NewChannels, NewChannel
<1>2. ProcOK(proc) /\ FinOK(proc, fin)
  BY <1>1 DEF ProcOK, FinOK
<1>3. StatusOK(proc, status, fin, taken.status)
  BY <1>1 DEF StatusOK
<1>4. EndsAt /\ EndIsTrue /\ StatusBeforeEnd
  BY <1>1 DEF EndsAt, EndIsTrue, StatusBeforeEnd
<1>5. OutputAt
  <2>1. <<>> = After(0, 0) /\ Len(<<>>) = 0 /\ 0 + 0 = 0
    BY EmptyIsAfter
  <2>2. OutputFlow
    BY <1>1, <2>1 DEF OutputFlow
  <2>3. QED
    BY <1>1, <2>2 DEF OutputAt
<1>6. ChannelsAt
  <2>1. /\ chan = [c \in Channels |-> chan[c]] /\ given = [c \in Channels |-> given[c]]
        /\ \A c \in Channels :
             /\ chan[c] = [pre |-> <<>>, pre_close |-> FALSE, sent |-> <<>>,
                           closed |-> FALSE]
             /\ given[c] = 0
    BY <1>1
  <2>2. 0 \in 0 .. MaxChunks
    BY BoundsAssumption
  <2>3. proc.state = "none" /\ <<>> \in Seq(Nat)
    BY <1>1
  <2>4. ASSUME NEW c \in Channels PROVE ChannelOK(proc, chan[c], given[c])
    <3> DEFINE ch == chan[c]
               n == given[c]
    <3>1. ch = [pre |-> <<>>, pre_close |-> FALSE, sent |-> <<>>, closed |-> FALSE]
          /\ n \in 0 .. MaxChunks
      BY <2>1, <2>2
    <3> HIDE DEF ch, n
    <3>2. ch = [pre |-> ch.pre, pre_close |-> ch.pre_close, sent |-> ch.sent,
                closed |-> ch.closed]
          /\ ch.pre \in Seq(Nat) /\ ch.sent \in Seq(Nat)
      BY <2>3, <3>1
    <3>3. ChannelOK(proc, ch, n)
      BY <2>3, <3>1, <3>2 DEF ChannelOK
    <3>4. QED
      BY <3>3 DEF ch, n
  <2>5. QED
    BY <2>1, <2>4 DEF ChannelsAt
<1>7. CountsAt
  BY <1>1, BoundsAssumption DEF CountsAt
<1>8. QED
  BY <1>1, <1>2, <1>3, <1>4, <1>5, <1>6, <1>7 DEF RunInv

LEMMA RunStep ==
  ASSUME ~Eager, RunInv, PipeFits, [Next]_vars
  PROVE  RunInv'
<1>1. CASE reset
  BY <1>1, ResetKeeps
<1>2. CASE startFails
  BY <1>2, StartFailsKeeps
<1>3. CASE readStdout
  BY <1>3, ReadStdoutKeeps
<1>4. CASE \E mode \in {"normal", "extended"} : start(mode)
  BY <1>4, StartKeeps
<1>5. CASE \E c \in Channels : write(c) \/ close(c)
  BY <1>5, WriteKeeps, CloseKeeps
<1>6. CASE doStart
  BY <1>6, DoStartKeeps
<1>7. CASE proc_started
  BY <1>7, ProcStartedKeeps
<1>8. CASE proc_finished
  BY <1>8, ProcFinishedKeeps
<1>9. CASE proc_error
  BY <1>9, ProcErrorKeeps
<1>10. CASE doneTriggered
  BY <1>10, DoneTriggeredKeeps
<1>11. CASE status_read
  BY <1>11, StatusReadKeeps
<1>12. CASE status_error
  BY <1>12, StatusErrorKeeps
<1>13. CASE pipe_error
  BY <1>13, PipeErrorKeeps
<1>14. CASE postedError
  BY <1>14, PostedErrorKeeps
<1>15. CASE gpgWritesStatus
  BY <1>15, GpgWritesStatusKeeps
<1>16. CASE gpgPutsOut
  BY <1>16, GpgPutsOutKeeps
<1>17. CASE gpgEnds
  BY <1>17, GpgEndsKeeps
<1>18. CASE processStarted
  BY <1>18, ProcessStartedKeeps
<1>19. CASE processFailed
  BY <1>19, ProcessFailedKeeps
<1>20. CASE processWriteError
  BY <1>20, ProcessWriteErrorKeeps
<1>21. CASE processDied
  BY <1>21, ProcessDiedKeeps
<1>22. CASE UNCHANGED vars
  <2>1. UNCHANGED <<proc, gpg, chan, status, fin, out, errors, starts, given, produced,
                    taken, ends>>
    BY <1>22 DEF vars
  <2>2. /\ ProcOK(proc)' /\ FinOK(proc, fin)' /\ StatusOK(proc, status, fin, taken.status)'
        /\ EndsAt' /\ CountsAt' /\ EndIsTrue' /\ StatusBeforeEnd'
    BY <2>1, SessionKeeps
  <2>3. OutputAt' /\ ChannelsAt'
    BY <2>1 DEF RunInv, OutputAt, OutputFlow, Ended, ChannelsAt, ChannelOK
  <2>4. QED
    BY <2>1, <2>2, <2>3 DEF RunInv
<1>23. QED
  BY <1>1, <1>2, <1>3, <1>4, <1>5, <1>6, <1>7, <1>8, <1>9, <1>10, <1>11, <1>12, <1>13,
     <1>14, <1>15, <1>16, <1>17, <1>18, <1>19, <1>20, <1>21, <1>22
     DEF Next, Calls, Loop, Outside

\* The run is true when its parts are in order.
LEMMA RunShown ==
  ASSUME RunInv
  PROVE  RunIsTrue
<1>1. TypeOK
  <2>1. \A i \in DOMAIN proc.relay : proc.relay[i] \in RelaySignals
    BY DEF RunInv, ProcOK
  <2>2. ToSet(proc.relay) \subseteq {"started", "error", "0", "2", "crash"}
    BY <2>1 DEF ToSet, RelaySignals
  <2>3. /\ proc.state \in {"none", "new", "starting", "running", "over"}
        /\ proc.state = "new" <=> proc.startTrigger
        /\ proc.state \in {"none", "new"} <=> gpg = "off"
    BY DEF RunInv, ProcOK
  <2>4. /\ gpg \in {"off", "alive", "failed", "0", "2", "crash"}
        /\ fin.code \in {"none", "0", "2", "crash"}
    BY DEF RunInv, FinOK, Gone, ExitCodes
  <2>5. status.valid => proc.state # "none" /\ fin.need_status /\ ~fin.fin_status
    BY DEF RunInv, StatusOK
  <2>6. /\ \A c \in Channels : given[c] \in 0..MaxChunks
        /\ errors \in 0..MaxStarts
    <3>1. \A c \in Channels : given[c] \in 0..MaxChunks
      BY DEF RunInv, ChannelsAt, ChannelOK
    <3>2. errors \in Nat /\ starts \in 0..MaxStarts /\ errors <= starts
      BY DEF RunInv, CountsAt
    <3>3. MaxStarts \in Nat
      BY BoundsAssumption
    <3>4. QED
      BY <3>1, <3>2, <3>3
  <2>7. QED
    BY <2>2, <2>3, <2>4, <2>5, <2>6 DEF TypeOK
<1>2. OneEnd
  <2>1. EndsAt
    BY DEF RunInv
  <2>2. CASE ends = <<>>
    BY <2>2 DEF OneEnd, Ended
  <2>3. CASE ends = <<ends[1]>>
    <3>1. DOMAIN ends = {1} /\ ends # <<>> /\ Len(ends) = 1 /\ ends[Len(ends)] = ends[1]
      <4>1. SUFFICES ASSUME NEW x, NEW e, e = <<x>>
                     PROVE  DOMAIN e = {1} /\ e # <<>> /\ Len(e) = 1
        BY <2>3
      <4>2. QED
        BY <4>1
    <3>2. WasReset \/ ~Ended("reset")
      BY <3>1 DEF WasReset, Ended, Last
    <3>3. QED
      BY <2>1, <3>1, <3>2 DEF OneEnd, EndsAt
  <2>4. CASE ends = <<ends[1], ends[2]>> /\ ends[1].how # "reset" /\ ends[2].how = "reset"
    <3>1. DOMAIN ends = {1, 2} /\ ends # <<>> /\ Len(ends) = 2 /\ ends[Len(ends)] = ends[2]
      <4>1. SUFFICES ASSUME NEW x, NEW y, NEW e, e = <<x, y>>
                     PROVE  DOMAIN e = {1, 2} /\ e # <<>> /\ Len(e) = 2
        BY <2>4
      <4>2. QED
        BY <4>1
    <3>2. WasReset
      BY <2>4, <3>1 DEF WasReset, Last
    <3>3. QED
      BY <2>1, <2>4, <3>1, <3>2 DEF OneEnd, EndsAt
  <2>5. QED
    BY <2>1, <2>2, <2>3, <2>4 DEF EndsAt
<1>3. OutputKept
  <2>1. SUFFICES ASSUME ~Ended("reset"), ~Ended("pipe error")
                 PROVE  taken.out \o out.qt \o out.leftover = Numbers(produced.out)
    BY DEF OutputKept
  <2> DEFINE i == Len(taken.out)
             k == Len(out.qt)
             m == Len(out.leftover)
             n == produced.out
  <2>2. /\ i \in Nat /\ k \in Nat /\ m \in Nat /\ n \in Nat
        /\ taken.out = After(0, i) /\ out.qt = After(i, k)
        /\ out.leftover = After(i + k, m) /\ i + k + m = n
    <3>1. /\ OutputFlow /\ out.qt \in Seq(Nat) /\ out.leftover \in Seq(Nat)
          /\ taken.out \in Seq(Nat) /\ produced.out \in Nat
      BY <2>1 DEF RunInv, OutputAt
    <3>2. i \in Nat /\ k \in Nat /\ m \in Nat /\ n \in Nat
      BY <3>1
    <3>3. QED
      BY <3>1, <3>2 DEF OutputFlow
  <2> HIDE DEF i, k, m, n
  <2>3. After(0, i) \o After(i, k) = After(0, i + k)
    BY <2>2, AfterFirst
  <2>4. After(0, i + k) \o After(i + k, m) = After(0, i + k + m)
    <3>1. i + k \in Nat
      BY <2>2
    <3> DEFINE y == i + k
    <3>2. y \in Nat /\ 0 + y = y /\ m \in Nat /\ 0 \in Nat
      BY <2>2, <3>1
    <3> HIDE DEF y
    <3>3. After(0, y) \o After(0 + y, m) = After(0, y + m)
      BY <3>2, AfterJoins
    <3>4. QED
      BY <3>2, <3>3 DEF y
  <2>5. taken.out \o out.qt \o out.leftover = After(0, n)
    BY <2>2, <2>3, <2>4
  <2>6. Numbers(n) = After(0, n)
    BY <2>2, NumbersAre
  <2>7. QED
    BY <2>5, <2>6 DEF n
<1>4. InputInOrder
  <2>1. SUFFICES ASSUME proc.state # "none", NEW c \in Channels
                 PROVE  chan[c].sent \o chan[c].pre = Numbers(given[c])
    BY DEF InputInOrder
  <2>2. ChannelOK(proc, chan[c], given[c])
    BY DEF RunInv, ChannelsAt
  <2>3. PICK i \in Nat, k \in Nat :
          chan[c].sent = After(0, i) /\ chan[c].pre = After(i, k) /\ i + k = given[c]
    BY <2>1, <2>2, ChannelParts
  <2>4. After(0, i) \o After(i, k) = After(0, i + k)
    BY AfterFirst
  <2>5. Numbers(given[c]) = After(0, given[c])
    BY <2>3, NumbersAre
  <2>6. QED
    BY <2>3, <2>4, <2>5
<1>5. QED
  BY <1>1, <1>2, <1>3, <1>4 DEF RunInv, RunIsTrue, NothingLost

\* As long as the program writes to gpg before the process is started or when it is known
\* to run, and what is in the status pipe fits in one read (PIPEEND_READBUF), every run of
\* gpg ends once and with what had become of gpg, every status line is heard before the
\* end, and nothing written to gpg or put out by it is lost or doubled (gpgproc.cpp).
THEOREM RunsAreTrue ==
  ASSUME ~Eager
  PROVE  Spec /\ []PipeFits => []RunIsTrue
<1>1. Init => RunInv
  BY RunInitially
<1>2. RunInv /\ PipeFits /\ [Next]_vars => RunInv'
  BY RunStep
<1>3. RunInv => RunIsTrue
  BY RunShown
<1>4. QED
  BY <1>1, <1>2, <1>3, PTL DEF Spec

=============================================================================
