----------------------- MODULE ProviderManager_proofs -----------------------
(***************************************************************************)
(* Proofs about ProviderManager, for every number of threads, providers and *)
(* plugin files: the manager's lists stay in order, its mutexes are held by *)
(* threads that go on, and a call returns the provider that nominations and *)
(* priorities ask for.  And about SoftKey, the keys of one plugin, for any  *)
(* number of PrivateKeys: a signature keeps the key it began with.          *)
(***************************************************************************)
EXTENDS ProviderManager, SoftKey, SequenceTheorems, FiniteSetTheorems, WellFoundedInduction, TLAPS

\* An item of a plugin has the provider that the plugin offers.
Item ==
  {item \in [name : Providers, file : Files \cup {-1}, priority : Int] :
     item.file \in Files => item.name = Offers[item.file]}

Kinds == {"none", "get", "random", "insert", "set", "scan"}

CallType ==
  [kind : Kinds, type : Types, name : Names, priority : Int, known : SUBSET Providers,
   scanned : BOOLEAN, left : Seq(Providers), seen : Seq(Providers), p : Names]

Types_ ==
  /\ first_scan \in BOOLEAN /\ disk \subseteq Files
  /\ init_done \subseteq Providers /\ initted \subseteq init_done
  /\ m \in [Providers -> Threads \cup {NoProvider}]
  /\ rng \in Names /\ rng_mutex \in Threads \cup {NoProvider}
  /\ pc \in [Threads -> PCs] /\ calls \in 0 .. MaxCalls
  /\ call \in [Threads -> CallType]
  /\ unloading \in {"no", "deinit", "delete"} /\ deinitted \subseteq Providers

\* A list of items in the order of priorities, with one for each provider.
InOrder(its) ==
  /\ its \in Seq(Item)
  /\ \A i, j \in DOMAIN its : i < j => /\ its[i].priority <= its[j].priority
                                       /\ its[i].name # its[j].name
  /\ \A i \in DOMAIN its : its[i].priority >= 0

\* A provider is being initialized by the thread that has its mutex.
InitInv ==
  /\ \A p \in Providers :
       /\ p \in init_done \ initted <=> m[p] # NoProvider
       /\ m[p] # NoProvider => pc[m[p]] = "init" /\ call[m[p]].p = p
  /\ \A t \in Threads : pc[t] = "init" => m[call[t].p] = t

Able_(p, c) == p # NoProvider /\ c.type \in IF p = Default THEN DefaultTypes ELSE Features[p]

Asking == {"get", "random"}
Looking == {"ensure_init", "init", "features"}

\* The kind of call there is at each place.
KindOK(s, c) ==
  /\ s = "idle" => c = Idle
  /\ s # "lost"
  /\ s = "add" => c.kind = "insert"
  /\ s = "change" => c.kind = "set"
  /\ s \in {"rescan_named", "rescan_all", "named", "copy", "walk"} \cup Looking => c.kind \in Asking
  /\ s = "made" => c.kind \in Asking \cup {"scan"}
  /\ s = "first" => c.kind # "none"
  /\ c.kind \in {"insert", "set"} => c.name \in Providers
  /\ s \in {"named", "rescan_named"} => c.name # NoProvider
  /\ s \in {"walk", "rescan_all"} => c.name = NoProvider

\* What a call knew is still there, and what it has found is there: the list has the
\* given names, the files are on disk and the providers in done are initialized.
FoundOK(s, c, names, files, done) ==
  /\ c.known \subseteq names \cup ({Offers[f] : f \in files} \ Skipped)
  /\ c.scanned => c.known \subseteq names
  /\ c.p \in Providers => c.p \in names
  /\ \A i \in DOMAIN c.seen : c.seen[i] \in names
  /\ s \in Looking => c.p \in Providers
  /\ c.p \in Providers /\ (s = "features" \/ (s = "made" /\ c.kind \in Asking)) => c.p \in done

\* A search by name looks at the provider of that name, and has failed when the list
\* is copied.
NamedOK(s, c) ==
  /\ s \in Looking /\ c.name # NoProvider => c.p = c.name
  /\ s = "made" /\ c.kind \in Asking /\ c.name # NoProvider => c.p # NoProvider
  /\ s = "copy" /\ c.name \in c.known \cup {Default} => ~Able_(c.name, c)

\* A walk has left the rest of the list that it copied, and what is before that could
\* not do it.
WalkOK(s, c) ==
  LET k == Len(c.seen) - Len(c.left)
  IN  /\ s \in {"walk"} \cup Looking /\ c.name = NoProvider =>
           /\ Len(c.left) <= Len(c.seen)
           /\ \A i \in 1 .. Len(c.left) : c.left[i] = c.seen[k + i]
           /\ c.scanned => \A q \in c.known : \E i \in DOMAIN c.seen : c.seen[i] = q
      /\ s = "walk" => \A i \in 1 .. k : ~Able_(c.seen[i], c)
      /\ s \in Looking /\ c.name = NoProvider =>
           /\ k >= 1 /\ c.p = c.seen[k]
           /\ \A i \in 1 .. k - 1 : ~Able_(c.seen[i], c)

\* What a call returns.
MadeOK(s, c) ==
  s = "made" /\ c.kind \in Asking /\ c.name = NoProvider =>
    /\ c.p = NoProvider => \A p \in c.known \cup {Default} : ~Able_(p, c)
    /\ \A i \in DOMAIN c.seen : Able_(c.seen[i], c) => \E j \in 1 .. i : c.seen[j] = c.p

CallOK(s, c, names, files, done) ==
  /\ KindOK(s, c) /\ FoundOK(s, c, names, files, done)
  /\ NamedOK(s, c) /\ WalkOK(s, c) /\ MadeOK(s, c)

CallsOK == \A t \in Threads : CallOK(pc[t], call[t], NameSet(items), disk, initted)

RngHeld ==
  rng_mutex # NoProvider => call[rng_mutex].kind = "random" /\ pc[rng_mutex] # "idle"

\* While the library unloads, no thread is in it and the global Random is not of a
\* plugin.
UnloadInv ==
  /\ unloading # "no" => (\A t \in Threads : pc[t] = "idle") /\ rng \in {Default, NoProvider}
  /\ DeinitBeforeDelete
  /\ RandomIsAlive

ManagerIInv ==
  /\ Types_
  /\ list = NamesOf(items)
  /\ InOrder(items)
  /\ InitInv
  /\ CallsOK
  /\ RngHeld
  /\ UnloadInv

----------------------------------------------------------------------------
(* Sequences with one element more or less.                                 *)

LEMMA InsertAtProperties ==
  ASSUME NEW S, NEW s \in Seq(S), NEW n \in 1 .. Len(s) + 1, NEW e \in S
  PROVE  /\ InsertAt(s, n, e) \in Seq(S)
         /\ Len(InsertAt(s, n, e)) = Len(s) + 1
         /\ \A i \in 1 .. Len(s) + 1 :
              InsertAt(s, n, e)[i] = IF i < n THEN s[i] ELSE IF i = n THEN e ELSE s[i - 1]
<1> DEFINE head == SubSeq(s, 1, n - 1)
           tail == SubSeq(s, n, Len(s))
           one == <<e>>
<1>1. Len(s) \in Nat /\ n \in Nat /\ n >= 1 /\ n <= Len(s) + 1
  OBVIOUS
<1>2. head \in Seq(S) /\ Len(head) = n - 1 /\ \A i \in 1 .. n - 1 : head[i] = s[i]
  BY <1>1
<1>3. /\ tail \in Seq(S) /\ Len(tail) = Len(s) - n + 1
      /\ \A i \in 1 .. Len(s) - n + 1 : tail[i] = s[n - 1 + i]
  BY <1>1
<1>4. one \in Seq(S) /\ Len(one) = 1 /\ one[1] = e
  OBVIOUS
<1>5. InsertAt(s, n, e) = (head \o one) \o tail
  BY DEF InsertAt
<1> HIDE DEF head, tail, one
<1>6. /\ head \o one \in Seq(S) /\ Len(head \o one) = n
      /\ \A i \in 1 .. n : (head \o one)[i] = IF i < n THEN s[i] ELSE e
  <2>1. /\ head \o one \in Seq(S) /\ Len(head \o one) = n - 1 + 1
        /\ \A i \in 1 .. n - 1 + 1 :
             (head \o one)[i] = IF i <= n - 1 THEN head[i] ELSE one[i - (n - 1)]
    <3>1. /\ head \o one \in Seq(S) /\ Len(head \o one) = Len(head) + Len(one)
          /\ \A i \in 1 .. Len(head) + Len(one) :
               (head \o one)[i] = IF i <= Len(head) THEN head[i] ELSE one[i - Len(head)]
      BY <1>2, <1>4, ConcatProperties
    <3>2. QED
      BY <1>2, <1>4, <3>1, Zenon
  <2>2. n - 1 + 1 = n
    BY <1>1
  <2>3. ASSUME NEW i \in 1 .. n PROVE (head \o one)[i] = IF i < n THEN s[i] ELSE e
    <3>1. CASE i < n
      <4>1. i <= n - 1 /\ i \in 1 .. n - 1
        BY <1>1, <3>1
      <4>2. QED
        BY <1>2, <2>1, <2>2, <3>1, <4>1
    <3>2. CASE ~(i < n)
      <4>1. ~(i <= n - 1) /\ i - (n - 1) = 1
        BY <1>1, <3>2
      <4>2. QED
        BY <1>4, <2>1, <2>2, <3>2, <4>1
    <3>3. QED
      BY <3>1, <3>2
  <2>4. QED
    BY <2>1, <2>2, <2>3
<1> DEFINE front == head \o one
<1>7. /\ front \in Seq(S) /\ Len(front) = n
      /\ \A i \in 1 .. n : front[i] = IF i < n THEN s[i] ELSE e
  BY <1>6
<1> HIDE DEF front
<1>8. /\ front \o tail \in Seq(S) /\ Len(front \o tail) = n + (Len(s) - n + 1)
      /\ \A i \in 1 .. n + (Len(s) - n + 1) :
           (front \o tail)[i] = IF i <= n THEN front[i] ELSE tail[i - n]
  BY <1>3, <1>7, ConcatProperties
<1>9. n + (Len(s) - n + 1) = Len(s) + 1
  BY <1>1
<1>10. ASSUME NEW i \in 1 .. Len(s) + 1
       PROVE  (front \o tail)[i] = IF i < n THEN s[i] ELSE IF i = n THEN e ELSE s[i - 1]
  <2>1. CASE i <= n
    BY <1>1, <1>7, <1>8, <1>9, <2>1
  <2>2. CASE ~(i <= n)
    <3>1. i - n \in 1 .. Len(s) - n + 1 /\ n - 1 + (i - n) = i - 1 /\ ~(i < n) /\ i # n
      BY <1>1, <2>2
    <3>2. QED
      BY <1>3, <1>8, <1>9, <2>2, <3>1
  <2>3. QED
    BY <2>1, <2>2
<1>11. QED
  BY <1>5, <1>8, <1>9, <1>10 DEF front

LEMMA RemoveAtProperties ==
  ASSUME NEW S, NEW s \in Seq(S), NEW n \in 1 .. Len(s)
  PROVE  /\ RemoveAt(s, n) \in Seq(S)
         /\ Len(RemoveAt(s, n)) = Len(s) - 1
         /\ \A i \in 1 .. Len(s) - 1 :
              RemoveAt(s, n)[i] = IF i < n THEN s[i] ELSE s[i + 1]
<1> DEFINE head == SubSeq(s, 1, n - 1)
           tail == SubSeq(s, n + 1, Len(s))
<1>1. Len(s) \in Nat /\ n \in Nat /\ n >= 1 /\ n <= Len(s)
  OBVIOUS
<1>2. head \in Seq(S) /\ Len(head) = n - 1 /\ \A i \in 1 .. n - 1 : head[i] = s[i]
  BY <1>1
<1>3. /\ tail \in Seq(S) /\ Len(tail) = Len(s) - n
      /\ \A i \in 1 .. Len(s) - n : tail[i] = s[n + i]
  BY <1>1
<1>4. RemoveAt(s, n) = head \o tail
  BY DEF RemoveAt
<1> HIDE DEF head, tail
<1>5. /\ head \o tail \in Seq(S) /\ Len(head \o tail) = (n - 1) + (Len(s) - n)
      /\ \A i \in 1 .. (n - 1) + (Len(s) - n) :
           (head \o tail)[i] = IF i <= n - 1 THEN head[i] ELSE tail[i - (n - 1)]
  <2>1. /\ head \o tail \in Seq(S) /\ Len(head \o tail) = Len(head) + Len(tail)
        /\ \A i \in 1 .. Len(head) + Len(tail) :
             (head \o tail)[i] = IF i <= Len(head) THEN head[i] ELSE tail[i - Len(head)]
    BY <1>2, <1>3, ConcatProperties
  <2>2. QED
    BY <1>2, <1>3, <2>1, Zenon
<1>6. (n - 1) + (Len(s) - n) = Len(s) - 1
  BY <1>1
<1>7. ASSUME NEW i \in 1 .. Len(s) - 1
      PROVE  (head \o tail)[i] = IF i < n THEN s[i] ELSE s[i + 1]
  <2>1. CASE i < n
    <3>1. i <= n - 1 /\ i \in 1 .. n - 1
      BY <1>1, <2>1
    <3>2. QED
      BY <1>2, <1>5, <1>6, <2>1, <3>1
  <2>2. CASE ~(i < n)
    <3>1. i - (n - 1) \in 1 .. Len(s) - n /\ n + (i - (n - 1)) = i + 1 /\ ~(i <= n - 1)
      BY <1>1, <2>2
    <3>2. QED
      BY <1>3, <1>5, <1>6, <2>2, <3>1
  <2>3. QED
    BY <2>1, <2>2
<1>8. QED
  BY <1>4, <1>5, <1>6, <1>7

\* A set of numbers that is not empty has a least one.
LEMMA LeastNumber ==
  ASSUME NEW S \in SUBSET Nat, S # {}
  PROVE  \E n \in S : \A y \in S : n <= y
<1> DEFINE below == {0 .. n : n \in S}
<1>1. below \subseteq FiniteSubsetsOf(Nat)
  <2>1. \A n \in S : IsFiniteSet(0 .. n) /\ 0 .. n \subseteq Nat
    BY FS_Interval
  <2>2. QED
    BY <2>1 DEF FiniteSubsetsOf
<1>2. PICK b \in below : \A c \in below : ~ (<<c, b>> \in StrictSubsetOrdering(Nat))
  <2>1. below # {}
    OBVIOUS
  <2>2. QED
    BY <1>1, <2>1, WFMin, FS_StrictSubsetOrderingWellFounded
<1>3. PICK least \in S : b = 0 .. least
  OBVIOUS
<1>4. ASSUME NEW y \in S, ~(least <= y) PROVE FALSE
  <2>1. 0 .. y \subseteq 0 .. least /\ least \in 0 .. least /\ least \notin 0 .. y
    BY <1>4
  <2>2. 0 .. y \in SUBSET Nat /\ 0 .. least \in SUBSET Nat /\ 0 .. y # 0 .. least
    BY <2>1
  <2>3. <<0 .. y, 0 .. least>> \in StrictSubsetOrdering(Nat)
    BY <2>1, <2>2, Zenon DEF StrictSubsetOrdering
  <2>4. QED
    BY <1>2, <1>3, <2>3
<1>5. QED
  BY <1>4

----------------------------------------------------------------------------
(* The list of items.                                                       *)

LEMMA InOrderParts ==
  ASSUME NEW its, InOrder(its)
  PROVE  /\ its \in Seq(Item) /\ Len(its) \in Nat /\ DOMAIN its = 1 .. Len(its)
         /\ \A i \in 1 .. Len(its) : /\ its[i] \in Item /\ its[i].name \in Providers
                                    /\ its[i].priority \in Int /\ its[i].priority >= 0
         /\ \A i, j \in 1 .. Len(its) : i < j => /\ its[i].priority <= its[j].priority
                                                /\ its[i].name # its[j].name
<1>1. its \in Seq(Item)
  BY DEF InOrder
<1>2. Len(its) \in Nat /\ DOMAIN its = 1 .. Len(its) /\ \A i \in 1 .. Len(its) : its[i] \in Item
  BY <1>1
<1>3. \A e \in Item : e.name \in Providers /\ e.priority \in Int
  BY DEF Item
<1>4. QED
  BY <1>1, <1>2, <1>3 DEF InOrder

\* The item e has come between those of lower priority and the others.
Placed(its, n, e, new) ==
  /\ n \in 1 .. Len(its) + 1
  /\ e \in Item /\ e.priority >= 0 /\ e.name \notin NameSet(its)
  /\ \A i \in 1 .. n - 1 : its[i].priority <= e.priority
  /\ \A i \in n .. Len(its) : e.priority <= its[i].priority
  /\ new \in Seq(Item) /\ Len(new) = Len(its) + 1
  /\ \A i \in 1 .. Len(its) + 1 :
        new[i] = IF i < n THEN its[i] ELSE IF i = n THEN e ELSE its[i - 1]

LEMMA PlacedOK ==
  ASSUME NEW its, InOrder(its), NEW n, NEW e, NEW new, Placed(its, n, e, new)
  PROVE  InOrder(new) /\ NameSet(new) = NameSet(its) \cup {e.name}
<1> USE DEF Placed
<1>1. /\ its \in Seq(Item) /\ Len(its) \in Nat /\ n \in Nat /\ n >= 1 /\ n <= Len(its) + 1
      /\ DOMAIN its = 1 .. Len(its) /\ DOMAIN new = 1 .. Len(its) + 1
  BY InOrderParts
<1>2. \A i \in 1 .. Len(its) : its[i] \in Item /\ its[i].priority \in Int /\ its[i].priority >= 0
                               /\ its[i].name # e.name
  BY <1>1, InOrderParts DEF NameSet
<1>3. \A i, j \in 1 .. Len(its) : i < j => /\ its[i].priority <= its[j].priority
                                           /\ its[i].name # its[j].name
  BY <1>1 DEF InOrder
<1>4. e.priority \in Int
  BY DEF Item
<1>5. \A i \in 1 .. Len(its) + 1 : new[i].priority >= 0
  <2> TAKE i \in 1 .. Len(its) + 1
  <2>1. CASE i < n
    BY <1>1, <1>2, <2>1
  <2>2. CASE i = n
    BY <1>1, <2>2
  <2>3. CASE i > n
    <3>1. i - 1 \in 1 .. Len(its) /\ ~(i < n) /\ i # n
      BY <1>1, <2>3
    <3>2. QED
      BY <1>2, <3>1
  <2>4. QED
    BY <1>1, <2>1, <2>2, <2>3
<1>6. ASSUME NEW i \in 1 .. Len(its) + 1, NEW j \in 1 .. Len(its) + 1, i < j
      PROVE  new[i].priority <= new[j].priority /\ new[i].name # new[j].name
  <2>1. CASE j < n
    <3>1. i \in 1 .. Len(its) /\ j \in 1 .. Len(its) /\ i < n
      BY <1>1, <1>6, <2>1
    <3>2. QED
      BY <1>3, <1>6, <2>1, <3>1
  <2>2. CASE j = n
    <3>1. i \in 1 .. Len(its) /\ i \in 1 .. n - 1 /\ i < n /\ ~(j < n)
      BY <1>1, <1>6, <2>2
    <3>2. QED
      BY <1>2, <2>2, <3>1
  <2>3. CASE j > n
    <3>1. j - 1 \in 1 .. Len(its) /\ j - 1 \in n .. Len(its) /\ ~(j < n) /\ j # n
      BY <1>1, <2>3
    <3>2. new[j] = its[j - 1]
      BY <3>1
    <3>3. CASE i < n
      <4>1. i \in 1 .. Len(its) /\ i < j - 1
        BY <1>1, <2>3, <3>3
      <4>2. QED
        BY <1>3, <3>1, <3>2, <3>3, <4>1
    <3>4. CASE i = n
      <4>1. new[i] = e
        BY <1>1, <3>4
      <4>2. QED
        BY <1>2, <3>1, <3>2, <4>1
    <3>5. CASE i > n
      <4>1. i - 1 \in 1 .. Len(its) /\ ~(i < n) /\ i # n /\ i - 1 < j - 1
        BY <1>1, <1>6, <3>5
      <4>2. QED
        BY <1>3, <3>1, <3>2, <4>1
    <3>6. QED
      BY <1>1, <3>3, <3>4, <3>5
  <2>4. QED
    BY <1>1, <2>1, <2>2, <2>3
<1>7. InOrder(new)
  BY <1>1, <1>5, <1>6 DEF InOrder
<1>8. NameSet(new) \subseteq NameSet(its) \cup {e.name}
  <2> SUFFICES ASSUME NEW i \in 1 .. Len(its) + 1
               PROVE  new[i].name \in NameSet(its) \cup {e.name}
    BY <1>1 DEF NameSet
  <2>1. CASE i < n
    BY <1>1, <2>1 DEF NameSet
  <2>2. CASE i = n
    BY <1>1, <2>2
  <2>3. CASE i > n
    <3>1. i - 1 \in 1 .. Len(its) /\ ~(i < n) /\ i # n
      BY <1>1, <2>3
    <3>2. QED
      BY <1>1, <3>1 DEF NameSet
  <2>4. QED
    BY <1>1, <2>1, <2>2, <2>3
<1>9. NameSet(its) \cup {e.name} \subseteq NameSet(new)
  <2>1. e.name \in NameSet(new)
    <3>1. n \in DOMAIN new /\ new[n] = e
      BY <1>1
    <3>2. QED
      BY <3>1 DEF NameSet
  <2>2. ASSUME NEW i \in 1 .. Len(its) PROVE its[i].name \in NameSet(new)
    <3>1. CASE i < n
      <4>1. i \in 1 .. Len(its) + 1 /\ new[i] = its[i]
        BY <1>1, <3>1
      <4>2. QED
        BY <1>1, <4>1 DEF NameSet
    <3>2. CASE ~(i < n)
      <4>1. i + 1 \in 1 .. Len(its) + 1 /\ ~(i + 1 < n) /\ i + 1 # n /\ i + 1 - 1 = i
        BY <1>1, <3>2
      <4>2. new[i + 1] = its[i]
        BY <4>1
      <4>3. QED
        BY <1>1, <4>1, <4>2 DEF NameSet
    <3>3. QED
      BY <3>1, <3>2
  <2>3. QED
    BY <1>1, <2>1, <2>2 DEF NameSet
<1>10. QED
  BY <1>7, <1>8, <1>9

LEMMA PlaceForProperties ==
  ASSUME NEW its, InOrder(its), NEW priority \in Int
  PROVE  LET n == PlaceFor(its, priority)
         IN  /\ n \in 1 .. Len(its) + 1
             /\ \A i \in 1 .. n - 1 : its[i].priority < priority
             /\ n <= Len(its) => its[n].priority >= priority
<1> DEFINE S == {n \in 1 .. Len(its) + 1 : n <= Len(its) => its[n].priority >= priority}
<1>1. /\ Len(its) \in Nat /\ its \in Seq(Item)
      /\ \A i \in 1 .. Len(its) : its[i].priority \in Int
  BY InOrderParts
<1>2. S \subseteq Nat /\ Len(its) + 1 \in S
  BY <1>1
<1>3. PICK n \in S : \A y \in S : n <= y
  <2> HIDE DEF S
  <2>1. QED
    BY <1>2, LeastNumber
<1>4. \A i \in 1 .. n - 1 : its[i].priority < priority
  <2> SUFFICES ASSUME NEW i \in 1 .. n - 1, ~(its[i].priority < priority) PROVE FALSE
    OBVIOUS
  <2>1. i \in 1 .. Len(its) /\ ~(n <= i)
    BY <1>1
  <2>2. i \in S
    BY <1>1, <2>1
  <2>3. QED
    BY <1>3, <2>1, <2>2
<1>5. \E x \in 1 .. Len(its) + 1 :
        /\ \A i \in 1 .. x - 1 : its[i].priority < priority
        /\ x <= Len(its) => its[x].priority >= priority
  BY <1>4
<1>6. QED
  BY <1>5, Zenon DEF PlaceFor

LEMMA AddItemOK ==
  ASSUME NEW its, InOrder(its), NEW name \in Providers, name \notin NameSet(its),
         NEW file \in Files \cup {-1}, file \in Files => name = Offers[file],
         NEW priority \in Int
  PROVE  /\ InOrder(AddItem(its, name, file, priority))
         /\ NameSet(AddItem(its, name, file, priority)) = NameSet(its) \cup {name}
<1> DEFINE Of(given) == [name |-> name, file |-> file, priority |-> given]
<1>1. /\ its \in Seq(Item) /\ Len(its) \in Nat /\ DOMAIN its = 1 .. Len(its)
      /\ \A i \in 1 .. Len(its) : its[i].priority \in Int /\ its[i].priority >= 0
  BY InOrderParts
<1>2. CASE priority < 0
  <2> DEFINE given == IF its = <<>> THEN 0 ELSE Last(its).priority
             e == Of(given)
             new == Append(its, e)
  <2>1. AddItem(its, name, file, priority) = new
    BY <1>2 DEF AddItem
  <2>2. /\ given \in Int /\ given >= 0
        /\ \A i \in 1 .. Len(its) : its[i].priority <= given
    <3>1. CASE its = <<>>
      BY <3>1
    <3>2. CASE its # <<>>
      <4>1. Len(its) \in 1 .. Len(its)
        BY <1>1, <3>2, EmptySeq
      <4>2. given = its[Len(its)].priority
        BY <3>2 DEF Last
      <4>3. \A i \in 1 .. Len(its) : i < Len(its) => its[i].priority <= its[Len(its)].priority
        BY <1>1, <4>1 DEF InOrder
      <4> HIDE DEF given
      <4>4. QED
        BY <1>1, <4>1, <4>2, <4>3
    <3>3. QED
      BY <3>1, <3>2
  <2> HIDE DEF given
  <2>3. e \in Item /\ e.name = name /\ e.priority = given
    BY <2>2 DEF Item
  <2> HIDE DEF e
  <2>4. /\ new \in Seq(Item) /\ Len(new) = Len(its) + 1
        /\ \A i \in 1 .. Len(its) : new[i] = its[i]
        /\ new[Len(its) + 1] = e
    BY <1>1, <2>3, AppendProperties
  <2> HIDE DEF new
  <2>5. \A i \in 1 .. Len(its) + 1 :
          new[i] = IF i < Len(its) + 1 THEN its[i] ELSE IF i = Len(its) + 1 THEN e ELSE its[i - 1]
    BY <1>1, <2>4
  <2> DEFINE n == Len(its) + 1
  <2>6. /\ n \in 1 .. Len(its) + 1
        /\ \A i \in 1 .. n - 1 : its[i].priority <= e.priority
        /\ \A i \in n .. Len(its) : e.priority <= its[i].priority
        /\ \A i \in 1 .. Len(its) + 1 :
             new[i] = IF i < n THEN its[i] ELSE IF i = n THEN e ELSE its[i - 1]
    <3>1. n \in 1 .. Len(its) + 1
      BY <1>1
    <3>2. \A i \in 1 .. n - 1 : its[i].priority <= e.priority
      BY <1>1, <2>2, <2>3
    <3>3. \A i \in n .. Len(its) : FALSE
      BY <1>1
    <3>4. QED
      BY <2>5, <3>1, <3>2, <3>3
  <2> HIDE DEF n
  <2>7. InOrder(new) /\ NameSet(new) = NameSet(its) \cup {e.name}
    <3>1. e.priority >= 0 /\ e.name \notin NameSet(its)
      BY <2>2, <2>3
    <3>2. Placed(its, n, e, new)
      BY <2>3, <2>4, <2>6, <3>1 DEF Placed
    <3>3. QED
      BY <3>2, PlacedOK
  <2>8. QED
    BY <2>1, <2>3, <2>7
<1>3. CASE ~(priority < 0)
  <2> DEFINE n == PlaceFor(its, priority)
             e == Of(priority)
             new == InsertAt(its, n, e)
  <2>1. AddItem(its, name, file, priority) = new
    BY <1>3 DEF AddItem
  <2>2. e \in Item /\ e.name = name /\ e.priority = priority /\ e.priority >= 0
    BY <1>3 DEF Item
  <2> HIDE DEF e
  <2>3. /\ n \in 1 .. Len(its) + 1
        /\ \A i \in 1 .. n - 1 : its[i].priority < priority
        /\ n <= Len(its) => its[n].priority >= priority
    BY PlaceForProperties
  <2> HIDE DEF n
  <2>4. /\ new \in Seq(Item) /\ Len(new) = Len(its) + 1
        /\ \A i \in 1 .. Len(its) + 1 :
             new[i] = IF i < n THEN its[i] ELSE IF i = n THEN e ELSE its[i - 1]
    BY SMTT(30), <1>1, <2>2, <2>3, InsertAtProperties
  <2> HIDE DEF new
  <2>5. \A i \in 1 .. n - 1 : its[i].priority <= e.priority
    <3> TAKE i \in 1 .. n - 1
    <3>1. i \in 1 .. Len(its)
      BY <1>1, <2>3
    <3>2. QED
      BY SMTT(30), <1>1, <2>2, <2>3, <3>1
  <2>6. \A i \in n .. Len(its) : e.priority <= its[i].priority
    <3> TAKE i \in n .. Len(its)
    <3>1. n \in 1 .. Len(its) /\ i \in 1 .. Len(its) /\ (n = i \/ n < i)
      BY <1>1, <2>3
    <3>2. its[n].priority <= its[i].priority
      BY <1>1, <3>1 DEF InOrder
    <3>3. QED
      BY <1>1, <2>2, <2>3, <3>1, <3>2
  <2>7. InOrder(new) /\ NameSet(new) = NameSet(its) \cup {e.name}
    <3>1. e.name \notin NameSet(its)
      BY <2>2
    <3>2. Placed(its, n, e, new)
      BY <2>2, <2>3, <2>4, <2>5, <2>6, <3>1 DEF Placed
    <3>3. QED
      BY <3>2, PlacedOK
  <2>8. QED
    BY <2>1, <2>2, <2>7
<1>4. QED
  BY <1>2, <1>3

LEMMA RemoveAtOK ==
  ASSUME NEW its, InOrder(its), NEW n \in DOMAIN its
  PROVE  /\ InOrder(RemoveAt(its, n))
         /\ NameSet(RemoveAt(its, n)) = NameSet(its) \ {its[n].name}
<1> DEFINE new == RemoveAt(its, n)
<1>1. /\ its \in Seq(Item) /\ Len(its) \in Nat /\ DOMAIN its = 1 .. Len(its)
      /\ n \in Nat /\ n >= 1 /\ n <= Len(its)
      /\ \A i \in 1 .. Len(its) : its[i].priority >= 0
      /\ \A i, j \in 1 .. Len(its) : i < j => /\ its[i].priority <= its[j].priority
                                             /\ its[i].name # its[j].name
  BY DEF InOrder
<1>2. /\ new \in Seq(Item) /\ Len(new) = Len(its) - 1
      /\ \A i \in 1 .. Len(its) - 1 : new[i] = IF i < n THEN its[i] ELSE its[i + 1]
  BY <1>1, RemoveAtProperties
<1> HIDE DEF new
<1>3. DOMAIN new = 1 .. Len(its) - 1
  BY <1>2
<1> DEFINE Old(i) == IF i < n THEN i ELSE i + 1
<1>4. /\ \A i \in 1 .. Len(its) - 1 : new[i] = its[Old(i)] /\ Old(i) \in 1 .. Len(its) \ {n}
      /\ \A i, j \in 1 .. Len(its) - 1 : i < j => Old(i) < Old(j)
      /\ \A k \in 1 .. Len(its) \ {n} : \E i \in 1 .. Len(its) - 1 : Old(i) = k
  <2>1. \A i \in 1 .. Len(its) - 1 : new[i] = its[Old(i)] /\ Old(i) \in 1 .. Len(its) \ {n}
    BY <1>1, <1>2
  <2>2. \A i, j \in 1 .. Len(its) - 1 : i < j => Old(i) < Old(j)
    BY <1>1
  <2>3. ASSUME NEW k \in 1 .. Len(its) \ {n} PROVE \E i \in 1 .. Len(its) - 1 : Old(i) = k
    <3>1. CASE k < n
      <4>1. k \in 1 .. Len(its) - 1 /\ Old(k) = k
        BY <1>1, <3>1
      <4>2. QED
        BY <4>1
    <3>2. CASE ~(k < n)
      <4>1. k - 1 \in 1 .. Len(its) - 1 /\ ~(k - 1 < n) /\ k - 1 + 1 = k
        BY <1>1, <3>2
      <4>2. QED
        BY <4>1
    <3>3. QED
      BY <3>1, <3>2
  <2>4. QED
    BY <2>1, <2>2, <2>3
<1> HIDE DEF Old
<1>5. InOrder(new)
  <2>1. \A i \in 1 .. Len(its) - 1 : new[i].priority >= 0
    BY <1>1, <1>4
  <2>2. \A i, j \in 1 .. Len(its) - 1 : i < j => /\ new[i].priority <= new[j].priority
                                                /\ new[i].name # new[j].name
    BY <1>1, <1>4
  <2>3. QED
    BY <1>2, <1>3, <2>1, <2>2 DEF InOrder
<1>6. NameSet(new) \subseteq NameSet(its) \ {its[n].name}
  <2> SUFFICES ASSUME NEW i \in 1 .. Len(its) - 1
               PROVE  new[i].name \in NameSet(its) /\ new[i].name # its[n].name
    BY <1>3 DEF NameSet
  <2>1. new[i] = its[Old(i)] /\ Old(i) \in 1 .. Len(its) /\ Old(i) # n
    BY <1>4
  <2>2. Old(i) < n \/ n < Old(i)
    BY <1>1, <2>1
  <2>3. QED
    BY <1>1, <2>1, <2>2 DEF NameSet
<1>7. NameSet(its) \ {its[n].name} \subseteq NameSet(new)
  <2> SUFFICES ASSUME NEW k \in 1 .. Len(its), its[k].name # its[n].name
               PROVE  its[k].name \in NameSet(new)
    BY <1>1 DEF NameSet
  <2>1. PICK i \in 1 .. Len(its) - 1 : Old(i) = k
    BY <1>4
  <2>2. QED
    BY <1>3, <1>4, <2>1 DEF NameSet
<1>8. QED
  BY <1>5, <1>6, <1>7 DEF new

----------------------------------------------------------------------------
(* The scan.                                                                *)

LEMMA LoadFileOK ==
  ASSUME NEW its, InOrder(its), NEW f \in Files
  PROVE  /\ InOrder(LoadFile(its, f))
         /\ NameSet(its) \subseteq NameSet(LoadFile(its, f))
         /\ Offers[f] \in Skipped \cup NameSet(LoadFile(its, f))
<1>1. /\ Offers[f] \in Providers /\ Config[Offers[f]] \in Int /\ Offers[f] # Default
  BY ManagerAssumption
<1>2. CASE \E i \in DOMAIN its : its[i].file = f
  <2>1. PICK i \in DOMAIN its : its[i].file = f
    BY <1>2
  <2>2. its[i] \in Item
    BY InOrderParts
  <2>3. its[i].name = Offers[f]
    BY <2>1, <2>2 DEF Item
  <2>4. Offers[f] \in NameSet(its)
    BY <2>3 DEF NameSet
  <2>5. LoadFile(its, f) = its
    BY <1>2 DEF LoadFile
  <2>6. QED
    BY <2>4, <2>5
<1>3. CASE Offers[f] \in NameSet(its) \cup Skipped
  <2>1. LoadFile(its, f) = its
    BY <1>3 DEF LoadFile, HaveAlready
  <2>2. QED
    BY <1>3, <2>1
<1>4. CASE (\A i \in DOMAIN its : its[i].file # f) /\ Offers[f] \notin NameSet(its) \cup Skipped
  <2>1. LoadFile(its, f) = AddItem(its, Offers[f], f, Config[Offers[f]])
    BY <1>1, <1>4 DEF LoadFile, HaveAlready
  <2>2. QED
    BY <1>1, <1>4, <2>1, AddItemOK
<1>5. QED
  BY <1>2, <1>3, <1>4

\* The list after the first files, from the list after those before the last.
ScanStep(its, f) == IF f \in disk THEN LoadFile(its, f) ELSE its

LEMMA ScanStepOK ==
  ASSUME NEW its, InOrder(its), NEW f \in Files
  PROVE  /\ InOrder(ScanStep(its, f))
         /\ NameSet(its) \subseteq NameSet(ScanStep(its, f))
         /\ f \in disk => Offers[f] \in Skipped \cup NameSet(ScanStep(its, f))
BY LoadFileOK DEF ScanStep

LEMMA ScanExists ==
  ASSUME InOrder(items)
  PROVE  \E g : g = [n \in {0} \cup Files |-> IF n = 0 THEN items ELSE ScanStep(g[n - 1], n)]
<1> DEFINE N == Cardinality(Files)
           Lists == {its \in Seq(Item) : InOrder(its)}
           UpTo(g, k) == g[0] = items /\ \A n \in 1 .. k : g[n] = ScanStep(g[n - 1], n)
           Bad == {k \in 0 .. N : ~ \E g \in [0 .. k -> Lists] : UpTo(g, k)}
<1>1. N \in Nat /\ Files = 1 .. N
  BY ManagerAssumption, FS_CardinalityType
<1> HIDE DEF N
<1>2. items \in Lists
  BY DEF InOrder
<1>3. \A its \in Lists, n \in 1 .. N : ScanStep(its, n) \in Lists
  BY <1>1, ScanStepOK DEF InOrder
<1> HIDE DEF Lists
<1>4. Bad = {}
  <2> SUFFICES ASSUME Bad # {} PROVE FALSE
    OBVIOUS
  <2>1. PICK b \in Bad : \A y \in Bad : b <= y
    <3>1. Bad \subseteq Nat
      BY <1>1
    <3> HIDE DEF Bad
    <3>2. QED
      BY <3>1, LeastNumber
  <2>2. b \in 0 .. N /\ ~ \E g \in [0 .. b -> Lists] : UpTo(g, b)
    OBVIOUS
  <2>3. CASE b = 0
    <3> DEFINE g == [n \in 0 .. b |-> items]
    <3>1. g \in [0 .. b -> Lists] /\ UpTo(g, b)
      BY <1>2, <2>3
    <3>2. QED
      BY <2>2, <3>1
  <2>4. CASE b # 0
    <3>1. b \in Nat /\ b \in 1 .. N /\ b - 1 \in 0 .. N /\ ~(b <= b - 1)
      BY <1>1, <2>2, <2>4
    <3>2. b - 1 \notin Bad
      BY <2>1, <3>1
    <3>3. PICK h \in [0 .. b - 1 -> Lists] : UpTo(h, b - 1)
      BY <3>1, <3>2
    <3> DEFINE g == [n \in 0 .. b |-> IF n < b THEN h[n] ELSE ScanStep(h[b - 1], b)]
    <3>4. g \in [0 .. b -> Lists]
      <4>1. h[b - 1] \in Lists /\ \A n \in 0 .. b - 1 : h[n] \in Lists
        BY <3>1, <3>3
      <4>2. ScanStep(h[b - 1], b) \in Lists
        BY <1>3, <3>1, <4>1
      <4>3. \A n \in 0 .. b : n < b => n \in 0 .. b - 1
        BY <3>1
      <4>4. QED
        BY <4>1, <4>2, <4>3
    <3>5. /\ \A n \in 0 .. b - 1 : g[n] = h[n]
          /\ g[b] = ScanStep(h[b - 1], b)
      BY <3>1
    <3> HIDE DEF g
    <3>6. g[0] = items
      BY <3>1, <3>3, <3>5
    <3>7. ASSUME NEW n \in 1 .. b PROVE g[n] = ScanStep(g[n - 1], n)
      <4>1. n - 1 \in 0 .. b - 1 /\ g[n - 1] = h[n - 1]
        BY <3>1, <3>5
      <4>2. CASE n = b
        BY <3>5, <4>1, <4>2
      <4>3. CASE n # b
        <5>1. n \in 1 .. b - 1 /\ n \in 0 .. b - 1
          BY <3>1, <4>3
        <5>2. QED
          BY <3>3, <3>5, <4>1, <5>1
      <4>4. QED
        BY <4>2, <4>3
    <3>8. QED
      BY <2>2, <3>4, <3>6, <3>7
  <2>5. QED
    BY <2>3, <2>4
<1>5. PICK g \in [0 .. N -> Lists] : UpTo(g, N)
  <2>1. N \in 0 .. N /\ N \notin Bad
    BY <1>1, <1>4
  <2>2. QED
    BY <2>1
<1>6. {0} \cup Files = 0 .. N
  BY <1>1
<1>7. g = [n \in {0} \cup Files |-> IF n = 0 THEN items ELSE ScanStep(g[n - 1], n)]
  <2>1. \A n \in 0 .. N : g[n] = IF n = 0 THEN items ELSE ScanStep(g[n - 1], n)
    <3> TAKE n \in 0 .. N
    <3>1. CASE n = 0
      BY <1>5, <3>1
    <3>2. CASE n # 0
      <4>1. n \in 1 .. N
        BY <1>1, <3>2
      <4>2. QED
        BY <1>5, <3>2, <4>1
    <3>3. QED
      BY <3>1, <3>2
  <2>2. QED
    BY <1>5, <1>6, <2>1
<1>8. QED
  BY <1>7

LEMMA ScanOK ==
  ASSUME InOrder(items), disk \subseteq Files
  PROVE  /\ InOrder(Scanned)
         /\ NameSet(items) \subseteq NameSet(Scanned)
         /\ {Offers[f] : f \in disk} \ Skipped \subseteq NameSet(Scanned)
<1> DEFINE N == Cardinality(Files)
           g == ScannedTo
<1>1. N \in Nat /\ Files = 1 .. N
  BY ManagerAssumption, FS_CardinalityType
<1>2. g = [n \in {0} \cup Files |-> IF n = 0 THEN items ELSE ScanStep(g[n - 1], n)]
  BY ScanExists DEF ScannedTo, ScanStep
<1> HIDE DEF N, g
<1>3. g[0] = items /\ \A n \in 1 .. N : g[n] = ScanStep(g[n - 1], n)
  <2>1. 0 \in {0} \cup Files /\ \A n \in 1 .. N : n \in {0} \cup Files /\ n # 0
    BY <1>1
  <2>2. QED
    BY <1>2, <2>1
<1> DEFINE Good(k) ==
             /\ InOrder(g[k]) /\ NameSet(items) \subseteq NameSet(g[k])
             /\ \A f \in disk : f <= k => Offers[f] \in Skipped \cup NameSet(g[k])
           Bad == {k \in 0 .. N : ~Good(k)}
<1>4. Bad = {}
  <2> SUFFICES ASSUME Bad # {} PROVE FALSE
    OBVIOUS
  <2>1. PICK b \in Bad : \A y \in Bad : b <= y
    <3>1. Bad \subseteq Nat
      BY <1>1
    <3> HIDE DEF Bad
    <3>2. QED
      BY <3>1, LeastNumber
  <2>2. b \in 0 .. N /\ ~Good(b)
    OBVIOUS
  <2>3. CASE b = 0
    <3>1. \A f \in disk : ~(f <= b)
      BY <1>1, <2>3
    <3>2. Good(b)
      BY <1>3, <2>3, <3>1
    <3>3. QED
      BY <2>2, <3>2
  <2>4. CASE b # 0
    <3>1. b \in Nat /\ b \in 1 .. N /\ b - 1 \in 0 .. N /\ ~(b <= b - 1) /\ b \in Files
      BY <1>1, <2>2, <2>4
    <3>2. Good(b - 1)
      BY <2>1, <3>1
    <3>3. g[b] = ScanStep(g[b - 1], b)
      BY <1>3, <3>1
    <3> DEFINE before == g[b - 1]
    <3>4. /\ InOrder(before) /\ NameSet(items) \subseteq NameSet(before)
          /\ \A f \in disk : f <= b - 1 => Offers[f] \in Skipped \cup NameSet(before)
          /\ g[b] = ScanStep(before, b)
      BY <3>2, <3>3
    <3> HIDE DEF before
    <3>5. /\ InOrder(g[b]) /\ NameSet(before) \subseteq NameSet(g[b])
          /\ b \in disk => Offers[b] \in Skipped \cup NameSet(g[b])
      BY <3>1, <3>4, ScanStepOK
    <3>6. ASSUME NEW f \in disk, f <= b PROVE Offers[f] \in Skipped \cup NameSet(g[b])
      <4>1. f <= b - 1 \/ f = b
        BY <1>1, <3>1, <3>6
      <4>2. QED
        BY <3>4, <3>5, <4>1
    <3>7. QED
      BY <2>2, <3>4, <3>5, <3>6
  <2>5. QED
    BY <2>3, <2>4
<1>5. Good(N)
  BY <1>1, <1>4
<1>6. Scanned = g[N]
  BY DEF Scanned, g, N
<1>7. \A f \in disk : f <= N
  BY <1>1
<1>8. QED
  BY <1>5, <1>6, <1>7

----------------------------------------------------------------------------
(* What a thread does to its call.                                          *)

LEMMA Different ==
  /\ NoProvider # Default /\ NoProvider \notin Providers /\ Default \notin Providers
  /\ Random \in Types /\ NoProvider \notin Threads
BY ManagerAssumption DEF NoProvider, Default

LEMMA CallFields ==
  ASSUME NEW c \in CallType
  PROVE  /\ c.kind \in Kinds /\ c.type \in Types /\ c.name \in Names /\ c.priority \in Int
         /\ c.known \in SUBSET Providers /\ c.scanned \in BOOLEAN
         /\ c.left \in Seq(Providers) /\ c.seen \in Seq(Providers) /\ c.p \in Names
BY DEF CallType

LEMMA IdleOK ==
  ASSUME NEW names, NEW files, NEW done
  PROVE  Idle \in CallType /\ CallOK("idle", Idle, names, files, done)
<1>1. <<>> \in Seq(Providers) /\ NoProvider \in Names /\ "none" \in Kinds
  BY DEF Names, Kinds
<1>2. Idle \in CallType
  BY <1>1, Different DEF Idle, Call, CallType
<1>3. /\ Idle.kind = "none" /\ Idle.known = {} /\ Idle.scanned = FALSE /\ Idle.p = NoProvider
      /\ Idle.seen = <<>> /\ Idle.name = NoProvider
  BY DEF Idle, Call
<1>4. KindOK("idle", Idle)
  BY <1>3 DEF KindOK, Looking
<1>5. FoundOK("idle", Idle, names, files, done)
  <2>1. DOMAIN Idle.seen = {}
    BY <1>3
  <2>2. QED
    BY <1>3, <2>1, Different DEF FoundOK, Looking
<1>6. NamedOK("idle", Idle) /\ WalkOK("idle", Idle) /\ MadeOK("idle", Idle)
  BY DEF NamedOK, WalkOK, MadeOK, Looking
<1>7. QED
  BY <1>2, <1>4, <1>5, <1>6 DEF CallOK

\* Names, files and initialized providers that come in addition change nothing.
LEMMA CallKept ==
  ASSUME NEW s, NEW c, NEW names, NEW files, NEW done, NEW names2, NEW files2, NEW done2,
         CallOK(s, c, names, files, done),
         names \subseteq names2, files \subseteq files2, done \subseteq done2
  PROVE  CallOK(s, c, names2, files2, done2)
<1>1. FoundOK(s, c, names, files, done)
  BY DEF CallOK
<1>2. {Offers[f] : f \in files} \subseteq {Offers[f] : f \in files2}
  OBVIOUS
<1>3. c.known \subseteq names2 \cup ({Offers[f] : f \in files2} \ Skipped)
  BY <1>1, <1>2 DEF FoundOK
<1>4. FoundOK(s, c, names2, files2, done2)
  BY <1>1, <1>3 DEF FoundOK
<1>5. QED
  BY <1>4 DEF CallOK

LEMMA BeginOK ==
  ASSUME NEW kind \in Kinds \ {"none"}, NEW type \in Types, NEW name \in Names,
         NEW priority \in Int, kind \in {"insert", "set"} => name \in Providers,
         NEW known \in SUBSET Providers, NEW names, NEW files, NEW done,
         known \subseteq names \cup ({Offers[f] : f \in files} \ Skipped)
  PROVE  LET c == [Call(kind, type, name, priority) EXCEPT !.known = known]
         IN  c \in CallType /\ c.kind = kind /\ CallOK("first", c, names, files, done)
<1> DEFINE c == [Call(kind, type, name, priority) EXCEPT !.known = known]
<1>1. /\ c.kind = kind /\ c.name = name /\ c.known = known /\ c.scanned = FALSE
      /\ c.seen = <<>> /\ c.p = NoProvider
  BY DEF Call
<1>2. <<>> \in Seq(Providers) /\ NoProvider \in Names
  BY DEF Names
<1>3. c \in CallType
  BY <1>2 DEF Call, CallType
<1> HIDE DEF c
<1>4. KindOK("first", c)
  BY <1>1 DEF KindOK, Looking
<1>5. FoundOK("first", c, names, files, done)
  <2>1. DOMAIN c.seen = {}
    BY <1>1
  <2>2. QED
    BY <1>1, <2>1, Different DEF FoundOK, Looking
<1>6. NamedOK("first", c) /\ WalkOK("first", c) /\ MadeOK("first", c)
  BY DEF NamedOK, WalkOK, MadeOK, Looking
<1>7. QED
  BY <1>1, <1>3, <1>4, <1>5, <1>6 DEF CallOK, c

\* scanned is said of a scan of this call only, after which all it knew is in the list.
LEMMA FirstOK ==
  ASSUME NEW c \in CallType, NEW names, NEW files, NEW done, NEW names2, NEW b \in BOOLEAN,
         CallOK("first", c, names, files, done), names \subseteq names2,
         b => {Offers[f] : f \in files} \ Skipped \subseteq names2
  PROVE  LET c2 == [c EXCEPT !.scanned = b]
         IN  /\ c2 \in CallType /\ c2.kind = c.kind /\ AfterScan(c) \in PCs \ {"idle", "init"}
             /\ CallOK(AfterScan(c), c2, names2, files, done)
<1> DEFINE c2 == [c EXCEPT !.scanned = b]
<1> USE CallFields
<1>1. c2 \in CallType
  BY DEF CallType
<1>2. /\ c2.kind = c.kind /\ c2.name = c.name /\ c2.known = c.known /\ c2.scanned = b
      /\ c2.seen = c.seen /\ c2.p = c.p /\ c2.type = c.type
  BY DEF CallType
<1> HIDE DEF c2
<1>3. KindOK("first", c) /\ FoundOK("first", c, names, files, done)
  BY DEF CallOK
<1>4. c.kind # "none"
  BY <1>3 DEF KindOK
<1>5. \/ AfterScan(c) = "add" /\ c.kind = "insert"
      \/ AfterScan(c) = "change" /\ c.kind = "set"
      \/ AfterScan(c) = "made" /\ c.kind = "scan"
      \/ AfterScan(c) = "named" /\ c.kind \in Asking /\ c.name # NoProvider
      \/ AfterScan(c) = "copy" /\ c.kind \in Asking /\ c.name = NoProvider
  <2>1. CASE c.kind \in {"insert", "set", "scan"}
    BY <2>1 DEF AfterScan
  <2>2. CASE c.kind \in Asking /\ c.name # NoProvider
    BY <2>2 DEF AfterScan, Asking
  <2>3. CASE c.kind \in Asking /\ c.name = NoProvider
    BY <2>3 DEF AfterScan, Asking
  <2>4. QED
    BY <1>4, <2>1, <2>2, <2>3 DEF Kinds, Asking
<1>6. KindOK(AfterScan(c), c2)
  BY <1>2, <1>3, <1>5 DEF KindOK, Looking, Asking
<1>7. FoundOK(AfterScan(c), c2, names2, files, done)
  <2>1. c2.known \subseteq names2 \cup ({Offers[f] : f \in files} \ Skipped)
    BY <1>2, <1>3 DEF FoundOK
  <2>2. c2.scanned => c2.known \subseteq names2
    BY <1>2, <1>3 DEF FoundOK
  <2>3. (c2.p \in Providers => c2.p \in names2) /\ \A i \in DOMAIN c2.seen : c2.seen[i] \in names2
    BY <1>2, <1>3 DEF FoundOK
  <2>4. AfterScan(c) \notin Looking /\ ~(AfterScan(c) = "made" /\ c2.kind \in Asking)
    BY <1>2, <1>5 DEF Looking, Asking
  <2>5. AfterScan(c) # "features"
    BY <1>5
  <2>6. QED
    BY <2>1, <2>2, <2>3, <2>4, <2>5 DEF FoundOK
<1>8. NamedOK(AfterScan(c), c2) /\ WalkOK(AfterScan(c), c2) /\ MadeOK(AfterScan(c), c2)
  BY <1>2, <1>5, Different DEF NamedOK, WalkOK, MadeOK, Looking, Asking
<1>9. AfterScan(c) \in PCs \ {"idle", "init"}
  BY <1>5 DEF PCs
<1>10. QED
  BY <1>1, <1>2, <1>6, <1>7, <1>8, <1>9 DEF CallOK, c2

LEMMA RescanOK ==
  ASSUME NEW c \in CallType, NEW names, NEW files, NEW done, NEW names2,
         NEW s \in {"rescan_named", "rescan_all"},
         CallOK(s, c, names, files, done), names \subseteq names2,
         {Offers[f] : f \in files} \ Skipped \subseteq names2
  PROVE  LET c2 == [c EXCEPT !.scanned = TRUE]
             s2 == IF s = "rescan_named" THEN "named" ELSE "copy"
         IN  c2 \in CallType /\ c2.kind = c.kind /\ CallOK(s2, c2, names2, files, done)
<1> DEFINE c2 == [c EXCEPT !.scanned = TRUE]
           s2 == IF s = "rescan_named" THEN "named" ELSE "copy"
<1> USE CallFields
<1>1. c2 \in CallType
  BY DEF CallType
<1>2. /\ c2.kind = c.kind /\ c2.name = c.name /\ c2.known = c.known /\ c2.scanned = TRUE
      /\ c2.seen = c.seen /\ c2.p = c.p /\ c2.type = c.type
  BY DEF CallType
<1> HIDE DEF c2
<1>3. KindOK(s, c) /\ FoundOK(s, c, names, files, done)
  BY DEF CallOK
<1>4. \/ s2 = "named" /\ s = "rescan_named" /\ c.name # NoProvider /\ c.kind \in Asking
      \/ s2 = "copy" /\ s = "rescan_all" /\ c.name = NoProvider /\ c.kind \in Asking
  BY <1>3 DEF KindOK
<1> HIDE DEF s2
<1>5. KindOK(s2, c2)
  BY <1>2, <1>3, <1>4 DEF KindOK, Looking, Asking
<1>6. FoundOK(s2, c2, names2, files, done)
  <2>1. c2.known \subseteq names2
    BY <1>2, <1>3 DEF FoundOK
  <2>2. (c2.p \in Providers => c2.p \in names2) /\ \A i \in DOMAIN c2.seen : c2.seen[i] \in names2
    BY <1>2, <1>3 DEF FoundOK
  <2>3. s2 \notin Looking /\ s2 # "made" /\ s2 # "features"
    BY <1>4 DEF Looking
  <2>4. QED
    BY <2>1, <2>2, <2>3 DEF FoundOK
<1>7. NamedOK(s2, c2) /\ WalkOK(s2, c2) /\ MadeOK(s2, c2)
  BY <1>2, <1>3, <1>4, Different DEF NamedOK, WalkOK, MadeOK, Looking
<1>8. QED
  BY <1>1, <1>2, <1>5, <1>6, <1>7 DEF CallOK, c2, s2

\* A search by name finds a provider, which may have to be initialized.
LEMMA FindOK ==
  ASSUME NEW c \in CallType, NEW names \in SUBSET Providers, NEW files, NEW done,
         CallOK("named", c, names, files, done), c.name \in names
  PROVE  LET c2 == [c EXCEPT !.p = c.name]
         IN  c2 \in CallType /\ c2.kind = c.kind /\ CallOK("ensure_init", c2, names, files, done)
<1> DEFINE c2 == [c EXCEPT !.p = c.name]
<1> USE CallFields
<1>1. c2 \in CallType
  BY DEF CallType
<1>2. /\ c2.kind = c.kind /\ c2.name = c.name /\ c2.known = c.known /\ c2.scanned = c.scanned
      /\ c2.seen = c.seen /\ c2.p = c.name /\ c2.type = c.type
  BY DEF CallType
<1> HIDE DEF c2
<1>3. KindOK("named", c) /\ FoundOK("named", c, names, files, done)
  BY DEF CallOK
<1>4. c.name # NoProvider /\ c.kind \in Asking
  BY <1>3 DEF KindOK
<1>5. KindOK("ensure_init", c2)
  BY <1>2, <1>3, <1>4 DEF KindOK, Looking, Asking
<1>6. FoundOK("ensure_init", c2, names, files, done)
  BY <1>2, <1>3 DEF FoundOK
<1>7. NamedOK("ensure_init", c2) /\ WalkOK("ensure_init", c2) /\ MadeOK("ensure_init", c2)
  BY <1>2, <1>4 DEF NamedOK, WalkOK, MadeOK
<1>8. QED
  BY <1>1, <1>2, <1>5, <1>6, <1>7 DEF CallOK, c2

LEMMA FindDefaultOK ==
  ASSUME NEW c \in CallType, NEW names, NEW files, NEW done,
         CallOK("named", c, names, files, done), c.name = Default
  PROVE  LET c2 == [c EXCEPT !.p = Default]
         IN  c2 \in CallType /\ c2.kind = c.kind /\ CallOK("made", c2, names, files, done)
<1> DEFINE c2 == [c EXCEPT !.p = Default]
<1> USE CallFields
<1>1. c2 \in CallType
  BY DEF CallType, Names
<1>2. /\ c2.kind = c.kind /\ c2.name = c.name /\ c2.known = c.known /\ c2.scanned = c.scanned
      /\ c2.seen = c.seen /\ c2.p = Default /\ c2.type = c.type
  BY DEF CallType
<1> HIDE DEF c2
<1>3. KindOK("named", c) /\ FoundOK("named", c, names, files, done)
  BY DEF CallOK
<1>4. c.kind \in Asking
  BY <1>3 DEF KindOK
<1>5. KindOK("made", c2)
  BY <1>2, <1>3, <1>4 DEF KindOK, Looking, Asking
<1>6. FoundOK("made", c2, names, files, done)
  BY <1>2, <1>3, Different DEF FoundOK, Looking
<1>7. NamedOK("made", c2) /\ WalkOK("made", c2) /\ MadeOK("made", c2)
  BY <1>2, Different DEF NamedOK, WalkOK, MadeOK, Looking
<1>8. QED
  BY <1>1, <1>2, <1>5, <1>6, <1>7 DEF CallOK, c2

\* A search by name that has failed: it is done again after a scan, and after that
\* all providers are looked at.
LEMMA NamedFailsOK ==
  ASSUME NEW c \in CallType, NEW names, NEW files, NEW done, NEW s \in {"named", "features"},
         CallOK(s, c, names, files, done), c.name # NoProvider,
         c.scanned /\ c.name \in c.known \cup {Default} => ~Able_(c.name, c)
  PROVE  CallOK(IF c.scanned THEN "copy" ELSE "rescan_named", c, names, files, done)
<1> DEFINE s2 == IF c.scanned THEN "copy" ELSE "rescan_named"
<1> USE CallFields
<1>1. KindOK(s, c) /\ FoundOK(s, c, names, files, done)
  BY DEF CallOK
<1>2. c.kind \in Asking
  BY <1>1 DEF KindOK, Looking
<1>3. (s2 = "copy" /\ c.scanned) \/ s2 = "rescan_named"
  OBVIOUS
<1> HIDE DEF s2
<1>4. KindOK(s2, c)
  BY <1>1, <1>2, <1>3 DEF KindOK, Looking, Asking
<1>5. FoundOK(s2, c, names, files, done)
  <2>1. s2 \notin Looking /\ s2 # "made" /\ s2 # "features"
    BY <1>3 DEF Looking
  <2>2. QED
    BY <1>1, <2>1 DEF FoundOK
<1>6. NamedOK(s2, c) /\ WalkOK(s2, c) /\ MadeOK(s2, c)
  BY <1>3 DEF NamedOK, WalkOK, MadeOK, Looking
<1>7. QED
  BY <1>4, <1>5, <1>6 DEF CallOK, s2

\* The walk begins with the whole list.
LEMMA CopyOK ==
  ASSUME NEW c \in CallType, NEW names, NEW files, NEW done, NEW copy \in Seq(Providers),
         CallOK("copy", c, names, files, done),
         names = {copy[i] : i \in DOMAIN copy}
  PROVE  LET c2 == [c EXCEPT !.left = copy, !.seen = copy, !.name = NoProvider,
                             !.p = NoProvider]
         IN  c2 \in CallType /\ c2.kind = c.kind /\ CallOK("walk", c2, names, files, done)
<1> DEFINE c2 == [c EXCEPT !.left = copy, !.seen = copy, !.name = NoProvider, !.p = NoProvider]
<1> USE CallFields
<1>1. NoProvider \in Names
  BY DEF Names
<1>2. c2 \in CallType
  BY <1>1 DEF CallType
<1>3. /\ c2.kind = c.kind /\ c2.known = c.known /\ c2.scanned = c.scanned /\ c2.type = c.type
      /\ c2.seen = copy /\ c2.left = copy /\ c2.p = NoProvider /\ c2.name = NoProvider
  BY DEF CallType
<1> HIDE DEF c2
<1>4. KindOK("copy", c) /\ FoundOK("copy", c, names, files, done)
  BY DEF CallOK
<1>5. KindOK("walk", c2)
  BY <1>3, <1>4, Different DEF KindOK, Looking, Asking
<1>6. FoundOK("walk", c2, names, files, done)
  <2>1. \A i \in DOMAIN c2.seen : c2.seen[i] \in names
    BY <1>3
  <2>2. "walk" \notin Looking
    BY DEF Looking
  <2>3. QED
    BY <1>3, <1>4, <2>1, <2>2, Different DEF FoundOK
<1>7. WalkOK("walk", c2)
  <2> DEFINE n == Len(copy)
  <2>1. n \in Nat
    OBVIOUS
  <2>2. n - n = 0
    BY <2>1
  <2>3. c2.scanned => \A q \in c2.known : \E i \in DOMAIN c2.seen : c2.seen[i] = q
    BY <1>3, <1>4 DEF FoundOK
  <2>4. \A i \in 1 .. Len(c2.left) : c2.left[i] = c2.seen[Len(c2.seen) - Len(c2.left) + i]
    BY <1>3, <2>1
  <2>5. \A i \in 1 .. Len(c2.seen) - Len(c2.left) : FALSE
    BY <1>3, <2>1, <2>2
  <2>6. Len(c2.left) <= Len(c2.seen) /\ "walk" \notin Looking
    BY <1>3, <2>1 DEF Looking
  <2>7. QED
    BY <2>3, <2>4, <2>5, <2>6 DEF WalkOK
<1>8. NamedOK("walk", c2) /\ MadeOK("walk", c2)
  BY DEF NamedOK, MadeOK, Looking
<1>9. QED
  BY <1>2, <1>3, <1>5, <1>6, <1>7, <1>8 DEF CallOK, c2

LEMMA WalkOnOK ==
  ASSUME NEW c \in CallType, NEW names, NEW files, NEW done,
         CallOK("walk", c, names, files, done), c.left # <<>>
  PROVE  LET c2 == [c EXCEPT !.p = Head(c.left), !.left = Tail(c.left)]
         IN  c2 \in CallType /\ c2.kind = c.kind /\ CallOK("ensure_init", c2, names, files, done)
<1> DEFINE c2 == [c EXCEPT !.p = Head(c.left), !.left = Tail(c.left)]
           seen == c.seen
           left == c.left
           rest == Tail(left)
           k == Len(seen) - Len(left)
<1>1. seen \in Seq(Providers) /\ left \in Seq(Providers) /\ c.p \in Names
  BY CallFields
<1>2. /\ Len(left) \in Nat /\ Len(left) >= 1 /\ Len(seen) \in Nat /\ Head(left) = left[1]
      /\ left[1] \in Providers /\ rest \in Seq(Providers) /\ Len(rest) = Len(left) - 1
      /\ \A i \in 1 .. Len(left) - 1 : rest[i] = left[i + 1]
  <2>1. left # <<>> /\ Len(left) \in Nat /\ Len(seen) \in Nat
    BY <1>1
  <2> HIDE DEF left, seen
  <2>2. QED
    BY <1>1, <2>1
<1>3. c2 \in CallType
  BY <1>2, CallFields DEF CallType, Names
<1>4. /\ c2.kind = c.kind /\ c2.known = c.known /\ c2.scanned = c.scanned /\ c2.type = c.type
      /\ c2.seen = seen /\ c2.left = rest /\ c2.p = left[1] /\ c2.name = c.name
  BY <1>2 DEF CallType
<1>5. KindOK("walk", c) /\ FoundOK("walk", c, names, files, done) /\ WalkOK("walk", c)
  BY DEF CallOK
<1>6. c.name = NoProvider /\ c.kind \in Asking
  BY <1>5 DEF KindOK
<1>7. /\ Len(left) <= Len(seen)
      /\ \A i \in 1 .. Len(left) : left[i] = seen[k + i]
      /\ c.scanned => \A q \in c.known : \E i \in DOMAIN seen : seen[i] = q
      /\ \A i \in 1 .. k : ~Able_(seen[i], c)
  BY <1>5, <1>6 DEF WalkOK
<1>8. /\ \A i \in DOMAIN seen : seen[i] \in names
      /\ c.known \subseteq names \cup ({Offers[f] : f \in files} \ Skipped)
      /\ c.scanned => c.known \subseteq names
  BY <1>5 DEF FoundOK
<1>9. DOMAIN seen = 1 .. Len(seen)
  BY <1>1
<1> HIDE DEF c2, seen, left, rest
<1>10. /\ k \in Nat /\ k + 1 \in 1 .. Len(seen) /\ left[1] = seen[k + 1]
       /\ Len(seen) - Len(rest) = k + 1
       /\ \A i \in 1 .. Len(rest) : rest[i] = seen[(k + 1) + i]
  <2>1. k \in Nat /\ k + 1 \in 1 .. Len(seen) /\ Len(seen) - Len(rest) = k + 1
    BY <1>2, <1>7
  <2>2. left[1] = seen[k + 1]
    BY <1>2, <1>7
  <2>3. ASSUME NEW i \in 1 .. Len(rest) PROVE rest[i] = seen[(k + 1) + i]
    <3>1. i + 1 \in 1 .. Len(left) /\ i \in 1 .. Len(left) - 1 /\ k + (i + 1) = (k + 1) + i
      BY <1>2, <2>1
    <3>2. QED
      BY <1>2, <1>7, <3>1
  <2>4. QED
    BY <2>1, <2>2, <2>3
<1>11. left[1] \in names
  BY <1>8, <1>9, <1>10
<1>12. KindOK("ensure_init", c2)
  BY <1>4, <1>5, <1>6 DEF KindOK, Looking, Asking
<1>13. FoundOK("ensure_init", c2, names, files, done)
  BY <1>2, <1>4, <1>8, <1>11 DEF FoundOK
<1>14. WalkOK("ensure_init", c2)
  <2> DEFINE j == k + 1
  <2>1. j >= 1 /\ j - 1 = k /\ Len(rest) <= Len(seen)
    BY <1>2, <1>7, <1>10
  <2>2. \A i \in 1 .. j - 1 : ~Able_(seen[i], c2)
    BY <1>4, <1>7, <2>1 DEF Able_
  <2>3. Len(c2.seen) - Len(c2.left) = j
    BY <1>4, <1>10
  <2>4. c2.p = seen[j] /\ \A i \in 1 .. Len(rest) : rest[i] = seen[j + i]
    BY <1>4, <1>10
  <2> HIDE DEF j
  <2>5. QED
    BY <1>4, <1>7, <2>1, <2>2, <2>3, <2>4 DEF WalkOK
<1>15. NamedOK("ensure_init", c2) /\ MadeOK("ensure_init", c2)
  BY <1>4, <1>6 DEF NamedOK, MadeOK
<1>16. QED
  BY <1>3, <1>4, <1>12, <1>13, <1>14, <1>15 DEF CallOK, c2, left

\* The walk has come to the end of its list.
LEMMA WalkEnds ==
  ASSUME NEW c \in CallType, NEW names, NEW files, NEW done,
         CallOK("walk", c, names, files, done), c.left = <<>>
  PROVE  /\ c.name = NoProvider /\ c.kind \in Asking
         /\ \A i \in DOMAIN c.seen : ~Able_(c.seen[i], c)
         /\ c.scanned => \A q \in c.known : ~Able_(q, c)
<1>1. KindOK("walk", c) /\ WalkOK("walk", c)
  BY DEF CallOK
<1>2. c.name = NoProvider /\ c.kind \in Asking
  BY <1>1 DEF KindOK
<1>3. Len(c.left) = 0 /\ Len(c.seen) \in Nat /\ DOMAIN c.seen = 1 .. Len(c.seen)
  BY CallFields
<1>4. Len(c.seen) - Len(c.left) = Len(c.seen)
  BY <1>3
<1>5. /\ \A i \in 1 .. Len(c.seen) - Len(c.left) : ~Able_(c.seen[i], c)
      /\ c.scanned => \A q \in c.known : \E i \in DOMAIN c.seen : c.seen[i] = q
  BY <1>1, <1>2 DEF WalkOK
<1>6. \A i \in DOMAIN c.seen : ~Able_(c.seen[i], c)
  BY <1>3, <1>4, <1>5
<1>7. QED
  BY <1>2, <1>5, <1>6

LEMMA WalkDefaultOK ==
  ASSUME NEW c \in CallType, NEW names, NEW files, NEW done,
         CallOK("walk", c, names, files, done), c.left = <<>>
  PROVE  LET c2 == [c EXCEPT !.p = Default]
         IN  c2 \in CallType /\ c2.kind = c.kind /\ CallOK("made", c2, names, files, done)
<1> DEFINE c2 == [c EXCEPT !.p = Default]
<1> USE CallFields
<1>1. c2 \in CallType
  BY DEF CallType, Names
<1>2. /\ c2.kind = c.kind /\ c2.name = c.name /\ c2.known = c.known /\ c2.scanned = c.scanned
      /\ c2.seen = c.seen /\ c2.p = Default /\ c2.type = c.type
  BY DEF CallType
<1> HIDE DEF c2
<1>3. KindOK("walk", c) /\ FoundOK("walk", c, names, files, done)
  BY DEF CallOK
<1>4. /\ c.name = NoProvider /\ c.kind \in Asking
      /\ \A i \in DOMAIN c.seen : ~Able_(c.seen[i], c)
  BY WalkEnds
<1>5. KindOK("made", c2)
  BY <1>2, <1>3, <1>4 DEF KindOK, Looking, Asking
<1>6. FoundOK("made", c2, names, files, done)
  BY <1>2, <1>3, Different DEF FoundOK, Looking
<1>7. MadeOK("made", c2)
  BY <1>2, <1>4, Different DEF MadeOK, Able_
<1>8. NamedOK("made", c2) /\ WalkOK("made", c2)
  BY <1>2, <1>4, Different DEF NamedOK, WalkOK, Looking
<1>9. QED
  BY <1>1, <1>2, <1>5, <1>6, <1>7, <1>8 DEF CallOK, c2

\* Nobody in the list can do it: that is said when all was scanned before.
LEMMA WalkFailsOK ==
  ASSUME NEW c \in CallType, NEW names, NEW files, NEW done,
         CallOK("walk", c, names, files, done), c.left = <<>>, c.type \notin DefaultTypes
  PROVE  LET c2 == [c EXCEPT !.p = NoProvider]
             s2 == IF c.scanned THEN "made" ELSE "rescan_all"
         IN  c2 \in CallType /\ c2.kind = c.kind /\ CallOK(s2, c2, names, files, done)
<1> DEFINE c2 == [c EXCEPT !.p = NoProvider]
           s2 == IF c.scanned THEN "made" ELSE "rescan_all"
<1> USE CallFields
<1>1. c2 \in CallType
  BY DEF CallType, Names
<1>2. /\ c2.kind = c.kind /\ c2.name = c.name /\ c2.known = c.known /\ c2.scanned = c.scanned
      /\ c2.seen = c.seen /\ c2.p = NoProvider /\ c2.type = c.type
  BY DEF CallType
<1>3. (s2 = "made" /\ c.scanned) \/ s2 = "rescan_all"
  OBVIOUS
<1> HIDE DEF c2, s2
<1>4. KindOK("walk", c) /\ FoundOK("walk", c, names, files, done)
  BY DEF CallOK
<1>5. /\ c.name = NoProvider /\ c.kind \in Asking
      /\ \A i \in DOMAIN c.seen : ~Able_(c.seen[i], c)
      /\ c.scanned => \A q \in c.known : ~Able_(q, c)
  BY WalkEnds
<1>6. KindOK(s2, c2)
  BY <1>2, <1>3, <1>4, <1>5 DEF KindOK, Looking, Asking
<1>7. FoundOK(s2, c2, names, files, done)
  <2>1. s2 \notin Looking /\ s2 # "features"
    BY <1>3 DEF Looking
  <2>2. QED
    BY <1>2, <1>4, <2>1, Different DEF FoundOK
<1>8. MadeOK(s2, c2)
  <2>1. \A q : Able_(q, c2) <=> Able_(q, c)
    BY <1>2 DEF Able_
  <2>2. ~Able_(Default, c)
    BY DEF Able_
  <2>3. s2 = "made" => \A q \in c2.known \cup {Default} : ~Able_(q, c2)
    BY <1>2, <1>3, <1>5, <2>1, <2>2
  <2>4. QED
    BY <1>2, <1>5, <2>1, <2>3 DEF MadeOK
<1>9. NamedOK(s2, c2) /\ WalkOK(s2, c2)
  BY <1>2, <1>3, <1>5 DEF NamedOK, WalkOK, Looking
<1>10. QED
  BY <1>1, <1>2, <1>6, <1>7, <1>8, <1>9 DEF CallOK, c2, s2

\* The steps of ensureInit().
LEMMA LookingOK ==
  ASSUME NEW c \in CallType, NEW names, NEW files, NEW done, NEW done2,
         NEW s \in Looking, NEW s2 \in Looking,
         CallOK(s, c, names, files, done), s2 = "features" => c.p \in done2
  PROVE  c.p \in Providers /\ CallOK(s2, c, names, files, done2)
<1>1. /\ KindOK(s, c) /\ FoundOK(s, c, names, files, done) /\ NamedOK(s, c) /\ WalkOK(s, c)
  BY DEF CallOK
<1>2. /\ s2 \notin {"idle", "lost", "add", "change", "made", "first", "named", "rescan_named",
                    "walk", "rescan_all", "copy"}
      /\ c.kind \in Asking
  BY <1>1 DEF Looking, KindOK
<1>3. KindOK(s2, c)
  BY <1>1, <1>2 DEF KindOK
<1>4. FoundOK(s2, c, names, files, done2)
  BY <1>1, <1>2 DEF FoundOK
<1>5. NamedOK(s2, c)
  BY <1>1, <1>2 DEF NamedOK
<1>6. WalkOK(s2, c)
  <2>1. s # "walk"
    BY DEF Looking
  <2>2. QED
    BY <1>1, <1>2, <2>1, Zenon DEF WalkOK
<1>7. MadeOK(s2, c)
  BY <1>2 DEF MadeOK
<1>8. QED
  BY <1>1, <1>3, <1>4, <1>5, <1>6, <1>7 DEF CallOK, FoundOK

\* The provider that is looked at can do it: no one before it in the list can.
LEMMA FeaturesOK ==
  ASSUME NEW c \in CallType, NEW names, NEW files, NEW done,
         CallOK("features", c, names, files, done), c.type \in Features[c.p]
  PROVE  CallOK("made", c, names, files, done)
<1>1. /\ KindOK("features", c) /\ FoundOK("features", c, names, files, done)
      /\ NamedOK("features", c) /\ WalkOK("features", c)
  BY DEF CallOK
<1>2. c.kind \in Asking /\ c.p \in Providers /\ c.p # NoProvider
  BY <1>1, Different DEF KindOK, FoundOK, Looking
<1>3. KindOK("made", c)
  BY <1>1, <1>2 DEF KindOK, Looking
<1>4. FoundOK("made", c, names, files, done)
  BY <1>1, <1>2 DEF FoundOK, Looking
<1>5. NamedOK("made", c) /\ WalkOK("made", c)
  BY <1>2 DEF NamedOK, WalkOK, Looking
<1>6. ASSUME c.name = NoProvider
      PROVE  \A i \in DOMAIN c.seen : Able_(c.seen[i], c) => \E j \in 1 .. i : c.seen[j] = c.p
  <2> DEFINE seen == c.seen
             k == Len(seen) - Len(c.left)
  <2>1. "features" \in Looking
    BY DEF Looking
  <2>2. k >= 1 /\ c.p = seen[k] /\ \A i \in 1 .. k - 1 : ~Able_(seen[i], c)
    BY <1>1, <1>6, <2>1 DEF WalkOK
  <2>3. k \in Int /\ DOMAIN seen = 1 .. Len(seen) /\ Len(seen) \in Nat
    <3>1. seen \in Seq(Providers) /\ c.left \in Seq(Providers)
      BY CallFields
    <3>2. Len(seen) \in Nat /\ Len(c.left) \in Nat /\ DOMAIN seen = 1 .. Len(seen)
      BY <3>1
    <3>3. QED
      BY <3>2
  <2> HIDE DEF seen, k
  <2>4. ASSUME NEW i \in DOMAIN seen, Able_(seen[i], c) PROVE \E j \in 1 .. i : seen[j] = c.p
    <3>1. k \in 1 .. i
      BY <2>2, <2>3, <2>4
    <3>2. QED
      BY <2>2, <3>1
  <2>5. QED
    BY <2>4 DEF seen
<1>7. MadeOK("made", c)
  BY <1>2, <1>6 DEF MadeOK
<1>8. QED
  BY <1>3, <1>4, <1>5, <1>7 DEF CallOK

\* It cannot: the walk goes on behind it.
LEMMA FeaturesWalkOK ==
  ASSUME NEW c \in CallType, NEW names, NEW files, NEW done,
         CallOK("features", c, names, files, done), c.type \notin Features[c.p],
         c.name = NoProvider
  PROVE  CallOK("walk", c, names, files, done)
<1>1. /\ KindOK("features", c) /\ FoundOK("features", c, names, files, done)
      /\ NamedOK("features", c) /\ WalkOK("features", c)
  BY DEF CallOK
<1>2. c.kind \in Asking /\ c.p \in Providers
  BY <1>1 DEF KindOK, FoundOK, Looking
<1>3. KindOK("walk", c)
  BY <1>1, <1>2 DEF KindOK, Looking
<1>4. FoundOK("walk", c, names, files, done)
  BY <1>1, <1>2 DEF FoundOK, Looking
<1>5. WalkOK("walk", c)
  <2> DEFINE seen == c.seen
             k == Len(seen) - Len(c.left)
  <2>1. "features" \in Looking /\ "walk" \notin Looking
    BY DEF Looking
  <2>2. /\ k >= 1 /\ c.p = seen[k] /\ \A i \in 1 .. k - 1 : ~Able_(seen[i], c)
        /\ Len(c.left) <= Len(seen)
        /\ \A i \in 1 .. Len(c.left) : c.left[i] = seen[k + i]
        /\ c.scanned => \A q \in c.known : \E i \in DOMAIN seen : seen[i] = q
    BY <1>1, <2>1, Zenon DEF WalkOK
  <2>3. k \in Int
    <3>1. seen \in Seq(Providers) /\ c.left \in Seq(Providers)
      BY CallFields
    <3>2. Len(seen) \in Nat /\ Len(c.left) \in Nat
      BY <3>1
    <3>3. QED
      BY <3>2
  <2>4. ~Able_(seen[k], c)
    BY <1>2, <2>2, Different DEF Able_
  <2> HIDE DEF k
  <2>5. \A i \in 1 .. k : ~Able_(seen[i], c)
    <3> HIDE DEF seen
    <3>1. \A i \in 1 .. k : i = k \/ i \in 1 .. k - 1
      BY <2>3
    <3>2. QED
      BY <2>2, <2>4, <3>1
  <2>6. QED
    BY <2>1, <2>2, <2>5, Zenon DEF WalkOK, seen, k
<1>6. NamedOK("walk", c) /\ MadeOK("walk", c)
  BY DEF NamedOK, MadeOK, Looking
<1>7. QED
  BY <1>3, <1>4, <1>5, <1>6 DEF CallOK

----------------------------------------------------------------------------
(* The steps.                                                               *)

LEMMA InitManager == Init => ManagerIInv
<1> SUFFICES ASSUME Init PROVE ManagerIInv
  OBVIOUS
<1> USE DEF Init
<1>1. Types_
  <2>1. Idle \in CallType
    BY IdleOK
  <2>2. MaxCalls \in Nat
    BY ManagerAssumption
  <2>3. calls \in 0 .. MaxCalls
    BY <2>2
  <2>4. QED
    BY <2>1, <2>3 DEF Types_, Names, PCs
<1>2. list = NamesOf(items)
  BY DEF NamesOf
<1>3. InOrder(items)
  BY DEF InOrder
<1>4. InitInv
  BY DEF InitInv
<1>5. CallsOK
  BY IdleOK DEF CallsOK
<1>6. RngHeld /\ UnloadInv
  BY Different DEF RngHeld, UnloadInv, DeinitBeforeDelete, RandomIsAlive
<1>7. QED
  BY <1>1, <1>2, <1>3, <1>4, <1>5, <1>6 DEF ManagerIInv

\* A thread that has begun keeps the library from being unloaded.
LEMMA NotUnloading ==
  ASSUME ManagerIInv, NEW t \in Threads, pc[t] # "idle"
  PROVE  unloading = "no"
BY DEF ManagerIInv, UnloadInv

LEMMA CallsKept ==
  ASSUME ManagerIInv, NEW t \in Threads, NEW s \in PCs, NEW c \in CallType,
         pc' = [pc EXCEPT ![t] = s], call' = [call EXCEPT ![t] = c],
         NameSet(items) \subseteq NameSet(items'), disk \subseteq disk',
         initted \subseteq initted',
         CallOK(s, c, NameSet(items'), disk', initted')
  PROVE  /\ CallsOK'
         /\ pc' \in [Threads -> PCs] /\ call' \in [Threads -> CallType]
         /\ pc'[t] = s /\ call'[t] = c
         /\ \A u \in Threads : u # t => pc'[u] = pc[u] /\ call'[u] = call[u]
<1>1. Types_ /\ CallsOK
  BY DEF ManagerIInv
<1>2. /\ pc' \in [Threads -> PCs] /\ call' \in [Threads -> CallType]
      /\ pc'[t] = s /\ call'[t] = c
      /\ \A u \in Threads : u # t => pc'[u] = pc[u] /\ call'[u] = call[u]
  BY <1>1 DEF Types_
<1>3. ASSUME NEW u \in Threads
      PROVE  CallOK(pc'[u], call'[u], NameSet(items'), disk', initted')
  <2>1. CASE u = t
    BY <1>2, <2>1
  <2>2. CASE u # t
    <3>1. CallOK(pc[u], call[u], NameSet(items), disk, initted)
      BY <1>1 DEF CallsOK
    <3>2. CallOK(pc[u], call[u], NameSet(items'), disk', initted')
      BY <3>1, CallKept
    <3>3. QED
      BY <1>2, <2>2, <3>2
  <2>3. QED
    BY <2>1, <2>2
<1>4. CallsOK'
  BY <1>3 DEF CallsOK
<1>5. QED
  BY <1>2, <1>4

\* Threads that neither begin nor end an initialization leave the mutexes as they are.
LEMMA InitInvKept ==
  ASSUME ManagerIInv, NEW t \in Threads, pc[t] # "init", pc'[t] # "init",
         \A u \in Threads : u # t => pc'[u] = pc[u] /\ call'[u] = call[u],
         UNCHANGED << init_done, initted, m >>
  PROVE  InitInv'
<1>1. InitInv /\ m \in [Providers -> Threads \cup {NoProvider}]
  BY DEF ManagerIInv, Types_
<1>2. ASSUME NEW p \in Providers
      PROVE  /\ p \in init_done' \ initted' <=> m'[p] # NoProvider
             /\ m'[p] # NoProvider => pc'[m'[p]] = "init" /\ call'[m'[p]].p = p
  <2>1. p \in init_done \ initted <=> m[p] # NoProvider
    BY <1>1 DEF InitInv
  <2>2. ASSUME m[p] # NoProvider PROVE pc'[m[p]] = "init" /\ call'[m[p]].p = p
    <3>1. m[p] \in Threads /\ pc[m[p]] = "init" /\ call[m[p]].p = p
      BY <1>1, <2>2 DEF InitInv
    <3>2. m[p] # t
      BY <3>1
    <3>3. QED
      BY <3>1, <3>2
  <2>3. QED
    BY <2>1, <2>2
<1>3. ASSUME NEW u \in Threads, pc'[u] = "init" PROVE m'[call'[u].p] = u
  <2>1. u # t
    BY <1>3
  <2>2. pc[u] = "init" /\ call'[u] = call[u]
    BY <1>3, <2>1
  <2>3. QED
    BY <1>1, <2>2 DEF InitInv
<1>4. QED
  BY <1>2, <1>3 DEF InitInv

\* A thread goes on with the call c, and the lists have no names less than before.
Moves(t, s, c) ==
  /\ pc[t] \notin {"idle", "init"} /\ s \in PCs \ {"init"} /\ c \in CallType
  /\ pc' = [pc EXCEPT ![t] = s] /\ call' = [call EXCEPT ![t] = c]
  /\ UNCHANGED << disk, inits, global, unload, calls >>
  /\ InOrder(items') /\ list' = NamesOf(items') /\ first_scan' \in BOOLEAN
  /\ NameSet(items) \subseteq NameSet(items')
  /\ CallOK(s, c, NameSet(items'), disk, initted)
  /\ call[t].kind # "random" \/ (c.kind = "random" /\ s # "idle")

LEMMA ThreadMoves ==
  ASSUME ManagerIInv, NEW t \in Threads, NEW s, NEW c, Moves(t, s, c)
  PROVE  ManagerIInv'
<1> USE DEF Moves, inits, global, unload
<1>1. /\ CallsOK'
      /\ pc' \in [Threads -> PCs] /\ call' \in [Threads -> CallType]
      /\ pc'[t] = s /\ call'[t] = c
      /\ \A u \in Threads : u # t => pc'[u] = pc[u] /\ call'[u] = call[u]
  BY CallsKept
<1>2. Types_'
  BY <1>1 DEF ManagerIInv, Types_
<1>3. InitInv'
  BY <1>1, InitInvKept
<1>4. RngHeld'
  <2> SUFFICES ASSUME rng_mutex # NoProvider
               PROVE  call'[rng_mutex].kind = "random" /\ pc'[rng_mutex] # "idle"
    BY DEF RngHeld
  <2>1. rng_mutex \in Threads /\ call[rng_mutex].kind = "random" /\ pc[rng_mutex] # "idle"
    BY DEF ManagerIInv, Types_, RngHeld
  <2>2. CASE rng_mutex = t
    BY <1>1, <2>1, <2>2
  <2>3. CASE rng_mutex # t
    BY <1>1, <2>1, <2>3
  <2>4. QED
    BY <2>2, <2>3
<1>5. UnloadInv'
  <2>1. unloading = "no"
    BY NotUnloading
  <2>2. UnloadInv
    BY DEF ManagerIInv
  <2>3. QED
    BY <2>1, <2>2 DEF UnloadInv, DeinitBeforeDelete, RandomIsAlive
<1>6. QED
  BY <1>1, <1>2, <1>3, <1>4, <1>5 DEF ManagerIInv

\* Where the lists stay, and the call stays of its kind.
LEMMA ThreadGoesOn ==
  ASSUME ManagerIInv, NEW t \in Threads, NEW s \in PCs \ {"init", "idle"}, NEW c \in CallType,
         pc[t] \notin {"idle", "init"},
         pc' = [pc EXCEPT ![t] = s], call' = [call EXCEPT ![t] = c], Same,
         c.kind = call[t].kind, CallOK(s, c, NameSet(items), disk, initted)
  PROVE  ManagerIInv'
<1>1. UNCHANGED << disk, inits, global, unload, calls >> /\ UNCHANGED << first_scan, items, list >>
  BY DEF Same, manager
<1>2. InOrder(items) /\ list = NamesOf(items) /\ first_scan \in BOOLEAN
  BY DEF ManagerIInv, Types_
<1>3. InOrder(items') /\ list' = NamesOf(items') /\ first_scan' \in BOOLEAN
      /\ NameSet(items) \subseteq NameSet(items') /\ NameSet(items') = NameSet(items)
  BY <1>1, <1>2
<1>4. CallOK(s, c, NameSet(items'), disk, initted)
  BY <1>3
<1>5. Moves(t, s, c)
  BY <1>1, <1>3, <1>4 DEF Moves
<1>6. QED
  BY <1>5, ThreadMoves

\* What is known of the call of a thread.
LEMMA CallKnown ==
  ASSUME ManagerIInv, NEW t \in Threads
  PROVE  /\ call[t] \in CallType /\ pc[t] \in PCs
         /\ CallOK(pc[t], call[t], NameSet(items), disk, initted)
         /\ call \in [Threads -> CallType]
         /\ NameSet(items) \in SUBSET Providers /\ disk \in SUBSET Files /\ InOrder(items)
<1>1. Types_ /\ CallsOK /\ InOrder(items)
  BY DEF ManagerIInv
<1>2. NameSet(items) \in SUBSET Providers
  BY <1>1, InOrderParts DEF NameSet
<1>3. QED
  BY <1>1, <1>2 DEF Types_, CallsOK

LEMMA BeginStep ==
  ASSUME ManagerIInv, UnloadAlone, NEW t \in Threads,
         NEW kind \in Kinds \ {"none"}, NEW type \in Types, NEW name \in Names,
         NEW priority \in Int, kind \in {"insert", "set"} => name \in Providers,
         Begin(t, Call(kind, type, name, priority)),
         \/ rng_mutex' = rng_mutex
         \/ rng_mutex' = t /\ kind = "random"
  PROVE  ManagerIInv'
<1> DEFINE c == [Call(kind, type, name, priority) EXCEPT !.known = Known]
<1>1. /\ pc[t] = "idle" /\ unloading = "no" /\ calls < MaxCalls /\ calls' = calls + 1
      /\ call' = [call EXCEPT ![t] = c] /\ pc' = [pc EXCEPT ![t] = "first"]
  BY DEF Begin, Goto
<1>2. UNCHANGED << first_scan, items, list, disk, init_done, initted, m, unloading,
                   deinitted, unloads, rng >>
  BY DEF Begin, manager, inits, unload
<1>3. Known \in SUBSET Providers /\ Known \subseteq NameSet(items) \cup ({Offers[f] : f \in disk} \ Skipped)
  <2>1. \A f \in disk : Offers[f] \in Providers
    BY CallKnown, ManagerAssumption
  <2>2. QED
    BY <2>1, CallKnown DEF Known
<1>4. c \in CallType /\ c.kind = kind /\ CallOK("first", c, NameSet(items), disk, initted)
  BY <1>3, BeginOK
<1> HIDE DEF c
<1>5. "first" \in PCs /\ NameSet(items') = NameSet(items) /\ disk' = disk /\ initted' = initted
  BY <1>2 DEF PCs
<1>6. CallOK("first", c, NameSet(items'), disk', initted')
  BY <1>4, <1>5
<1>7. /\ CallsOK'
      /\ pc' \in [Threads -> PCs] /\ call' \in [Threads -> CallType]
      /\ pc'[t] = "first" /\ call'[t] = c
      /\ \A u \in Threads : u # t => pc'[u] = pc[u] /\ call'[u] = call[u]
  BY <1>1, <1>4, <1>5, <1>6, CallsKept
<1>8. Types_'
  <2>1. Types_ /\ MaxCalls \in Nat
    BY ManagerAssumption DEF ManagerIInv
  <2>2. calls' \in 0 .. MaxCalls
    BY <1>1, <2>1 DEF Types_
  <2>3. QED
    BY <1>2, <1>7, <2>1, <2>2 DEF Types_
<1>9. list' = NamesOf(items') /\ InOrder(items')
  BY <1>2 DEF ManagerIInv
<1>10. InitInv'
  BY <1>1, <1>2, <1>7, InitInvKept
<1>11. RngHeld'
  <2> SUFFICES ASSUME rng_mutex' # NoProvider
               PROVE  call'[rng_mutex'].kind = "random" /\ pc'[rng_mutex'] # "idle"
    BY DEF RngHeld
  <2>1. CASE rng_mutex' = t /\ kind = "random"
    BY <1>4, <1>7, <2>1
  <2>2. CASE rng_mutex' = rng_mutex
    <3>1. rng_mutex \in Threads /\ call[rng_mutex].kind = "random" /\ pc[rng_mutex] # "idle"
      BY <2>2 DEF ManagerIInv, Types_, RngHeld
    <3>2. rng_mutex # t
      BY <1>1, <3>1
    <3>3. QED
      BY <1>7, <2>2, <3>1, <3>2
  <2>3. QED
    BY <2>1, <2>2
<1>12. UnloadInv'
  BY <1>1, <1>2 DEF ManagerIInv, UnloadInv, DeinitBeforeDelete, RandomIsAlive
<1>13. Types_' /\ rng_mutex' \in Threads \cup {NoProvider}
  BY <1>8 DEF Types_
<1>14. QED
  BY <1>7, <1>9, <1>10, <1>11, <1>12, <1>13 DEF ManagerIInv

LEMMA CallsBegin ==
  ASSUME ManagerIInv, UnloadAlone, NEW t \in Threads
  PROVE  /\ \A type \in Types, name \in Names : getContext(t, type, name) => ManagerIInv'
         /\ randomChar(t) => ManagerIInv'
         /\ \A p \in Direct, priority \in Priorities :
              insertProvider(t, p, priority) => ManagerIInv'
         /\ \A p \in Providers, priority \in Priorities :
              setProviderPriority(t, p, priority) => ManagerIInv'
         /\ scanForPlugins(t) => ManagerIInv'
<1>1. /\ Random \in Types /\ NoProvider \in Names /\ Providers \subseteq Names
      /\ Direct \subseteq Providers /\ Priorities \subseteq Int
      /\ {"get", "random", "insert", "set", "scan"} \subseteq Kinds \ {"none"}
  BY ManagerAssumption DEF Names, Kinds
<1>2. ASSUME NEW type \in Types, NEW name \in Names, getContext(t, type, name)
      PROVE  ManagerIInv'
  BY <1>1, <1>2, BeginStep DEF getContext
<1>3. ASSUME randomChar(t) PROVE ManagerIInv'
  BY <1>1, <1>3, BeginStep DEF randomChar
<1>4. ASSUME NEW p \in Direct, NEW priority \in Priorities, insertProvider(t, p, priority)
      PROVE  ManagerIInv'
  BY <1>1, <1>4, BeginStep DEF insertProvider
<1>5. ASSUME NEW p \in Providers, NEW priority \in Priorities, setProviderPriority(t, p, priority)
      PROVE  ManagerIInv'
  BY <1>1, <1>5, BeginStep DEF setProviderPriority
<1>6. ASSUME scanForPlugins(t) PROVE ManagerIInv'
  BY <1>1, <1>6, BeginStep DEF scanForPlugins
<1>7. QED
  BY <1>2, <1>3, <1>4, <1>5, <1>6

\* What a scan does to the lists.
LEMMA StoreScanOK ==
  ASSUME ManagerIInv, StoreScan
  PROVE  /\ InOrder(items') /\ list' = NamesOf(items') /\ first_scan' \in BOOLEAN
         /\ NameSet(items) \subseteq NameSet(items')
         /\ {Offers[f] : f \in disk} \ Skipped \subseteq NameSet(items')
<1>1. InOrder(items) /\ disk \subseteq Files
  BY CallKnown DEF ManagerIInv, Types_
<1>2. items' = Scanned /\ list' = NamesOf(Scanned) /\ first_scan' = TRUE
  BY DEF StoreScan
<1>3. QED
  BY <1>1, <1>2, ScanOK

LEMMA EnsureFirstScanStep ==
  ASSUME ManagerIInv, NEW t \in Threads, EnsureFirstScan(t)
  PROVE  ManagerIInv'
<1> DEFINE s == AfterScan(call[t])
           c == [call[t] EXCEPT !.scanned = ~first_scan]
<1>1. /\ pc[t] = "first" /\ pc' = [pc EXCEPT ![t] = s]
      /\ UNCHANGED << disk, inits, global, unload, calls >>
  BY DEF EnsureFirstScan, Goto
<1>2. call' = [call EXCEPT ![t] = c]
  BY CallKnown DEF EnsureFirstScan
<1>3. CASE first_scan /\ call[t].kind # "scan"
  <2>1. UNCHANGED << first_scan, items, list >>
    BY <1>3 DEF EnsureFirstScan, manager
  <2> DEFINE b == ~first_scan
  <2>3. b \in BOOLEAN /\ ~b
    BY <1>3
  <2> HIDE DEF b
  <2>5. c \in CallType /\ c.kind = call[t].kind /\ s \in PCs \ {"idle", "init"}
        /\ CallOK(s, c, NameSet(items), disk, initted)
    <3>1. /\ call[t] \in CallType /\ CallOK("first", call[t], NameSet(items), disk, initted)
          /\ NameSet(items) \subseteq NameSet(items)
      BY <1>1, CallKnown
    <3>2. b => {Offers[f] : f \in disk} \ Skipped \subseteq NameSet(items)
      BY <2>3
    <3>3. c = [call[t] EXCEPT !.scanned = b]
      BY DEF b
    <3>4. QED
      BY <2>3, <3>1, <3>2, <3>3, FirstOK, Zenon
  <2>4. Same
    BY <1>1, <2>1 DEF Same, manager
  <2> HIDE DEF s, c
  <2>6. QED
    BY <1>1, <1>2, <2>4, <2>5, ThreadGoesOn
<1>4. CASE ~(first_scan /\ call[t].kind # "scan")
  <2>1. StoreScan
    BY <1>4 DEF EnsureFirstScan
  <2>2. /\ InOrder(items') /\ list' = NamesOf(items') /\ first_scan' \in BOOLEAN
        /\ NameSet(items) \subseteq NameSet(items')
        /\ {Offers[f] : f \in disk} \ Skipped \subseteq NameSet(items')
    BY <2>1, StoreScanOK
  <2> DEFINE b == ~first_scan
  <2>3. b \in BOOLEAN
    BY DEF ManagerIInv, Types_
  <2> HIDE DEF b
  <2>4. c \in CallType /\ c.kind = call[t].kind /\ s \in PCs \ {"idle", "init"}
        /\ CallOK(s, c, NameSet(items'), disk, initted)
    <3>1. call[t] \in CallType /\ CallOK("first", call[t], NameSet(items), disk, initted)
      BY <1>1, CallKnown
    <3>2. c = [call[t] EXCEPT !.scanned = b]
      BY DEF b
    <3>3. QED
      BY <2>2, <2>3, <3>1, <3>2, FirstOK, Zenon
  <2> HIDE DEF s, c
  <2>5. Moves(t, s, c)
    BY <1>1, <1>2, <2>2, <2>4 DEF Moves
  <2>6. QED
    BY <2>5, ThreadMoves
<1>5. QED
  BY <1>3, <1>4

LEMMA RescanStep ==
  ASSUME ManagerIInv, NEW t \in Threads, Rescan(t)
  PROVE  ManagerIInv'
<1> DEFINE s == IF pc[t] = "rescan_named" THEN "named" ELSE "copy"
           c == [call[t] EXCEPT !.scanned = TRUE]
<1>1. /\ pc[t] \in {"rescan_named", "rescan_all"} /\ pc' = [pc EXCEPT ![t] = s]
      /\ UNCHANGED << disk, inits, global, unload, calls >>
  BY DEF Rescan, Goto
<1>2. call' = [call EXCEPT ![t] = c]
  BY CallKnown DEF Rescan
<1>3. /\ InOrder(items') /\ list' = NamesOf(items') /\ first_scan' \in BOOLEAN
      /\ NameSet(items) \subseteq NameSet(items')
      /\ {Offers[f] : f \in disk} \ Skipped \subseteq NameSet(items')
  BY StoreScanOK DEF Rescan
<1>4. c \in CallType /\ c.kind = call[t].kind /\ CallOK(s, c, NameSet(items'), disk, initted)
  BY <1>1, <1>3, CallKnown, RescanOK
<1>5. s \in PCs \ {"idle", "init"}
  BY DEF PCs
<1> HIDE DEF s, c
<1>6. Moves(t, s, c)
  BY <1>1, <1>2, <1>3, <1>4, <1>5 DEF Moves
<1>7. QED
  BY <1>6, ThreadMoves

LEMMA FindStep ==
  ASSUME ManagerIInv, NEW t \in Threads, Find(t)
  PROVE  ManagerIInv'
<1> DEFINE c == [call[t] EXCEPT !.p = call[t].name]
<1>1. /\ pc[t] = "named" /\ call[t].name \in NameSet(items)
      /\ pc' = [pc EXCEPT ![t] = "ensure_init"] /\ Same
  BY DEF Find, Goto
<1>2. call' = [call EXCEPT ![t] = c]
  BY CallKnown DEF Find
<1>3. c \in CallType /\ c.kind = call[t].kind /\ CallOK("ensure_init", c, NameSet(items), disk, initted)
  BY <1>1, CallKnown, FindOK
<1> HIDE DEF c
<1>4. "ensure_init" \in PCs \ {"init", "idle"}
  BY DEF PCs
<1>5. QED
  BY <1>1, <1>2, <1>3, <1>4, ThreadGoesOn

LEMMA FindDefaultStep ==
  ASSUME ManagerIInv, NEW t \in Threads, FindDefault(t)
  PROVE  ManagerIInv'
<1> DEFINE c == [call[t] EXCEPT !.p = Default]
<1>1. /\ pc[t] = "named" /\ call[t].name = Default
      /\ pc' = [pc EXCEPT ![t] = "made"] /\ Same
  BY DEF FindDefault, Goto
<1>2. call' = [call EXCEPT ![t] = c]
  BY CallKnown DEF FindDefault
<1>3. c \in CallType /\ c.kind = call[t].kind /\ CallOK("made", c, NameSet(items), disk, initted)
  BY <1>1, CallKnown, FindDefaultOK
<1> HIDE DEF c
<1>4. "made" \in PCs \ {"init", "idle"}
  BY DEF PCs
<1>5. QED
  BY <1>1, <1>2, <1>3, <1>4, ThreadGoesOn

\* A call that stays as it was is one that is stored again.
LEMMA CallStays ==
  ASSUME ManagerIInv, NEW t \in Threads, UNCHANGED call
  PROVE  call' = [call EXCEPT ![t] = call[t]]
BY CallKnown

LEMMA FindNothingStep ==
  ASSUME ManagerIInv, NEW t \in Threads, FindNothing(t)
  PROVE  ManagerIInv'
<1> DEFINE c == call[t]
           s == IF c.scanned THEN "copy" ELSE "rescan_named"
<1>1. /\ pc[t] = "named" /\ c.name \notin NameSet(items)
      /\ c.name = Default => c.type \notin DefaultTypes
      /\ pc' = [pc EXCEPT ![t] = s] /\ UNCHANGED call /\ Same
  BY DEF FindNothing, NamedFails, Goto
<1>2. call' = [call EXCEPT ![t] = c]
  BY <1>1, CallStays
<1>3. c \in CallType /\ CallOK("named", c, NameSet(items), disk, initted)
  BY <1>1, CallKnown
<1> HIDE DEF c
<1>4. c.scanned => c.known \subseteq NameSet(items)
  BY <1>3 DEF CallOK, FoundOK
<1>5. c.name # NoProvider
  BY <1>3 DEF CallOK, KindOK
<1>6. c.scanned /\ c.name \in c.known \cup {Default} => ~Able_(c.name, c)
  BY <1>1, <1>4, Different DEF Able_
<1>7. CallOK(s, c, NameSet(items), disk, initted)
  BY <1>3, <1>5, <1>6, NamedFailsOK
<1>8. s \in PCs \ {"init", "idle"}
  BY DEF PCs
<1> HIDE DEF s
<1>9. QED
  BY <1>1, <1>2, <1>3, <1>7, <1>8, ThreadGoesOn DEF c

LEMMA NamesOfOK ==
  ASSUME NEW its, InOrder(its)
  PROVE  /\ NamesOf(its) \in Seq(Providers) /\ Len(NamesOf(its)) = Len(its)
         /\ \A i \in 1 .. Len(its) : NamesOf(its)[i] = its[i].name
         /\ NameSet(its) = {NamesOf(its)[i] : i \in DOMAIN NamesOf(its)}
<1>1. /\ Len(its) \in Nat /\ DOMAIN its = 1 .. Len(its)
      /\ \A i \in 1 .. Len(its) : its[i].name \in Providers
  BY InOrderParts
<1>2. NamesOf(its) = [i \in 1 .. Len(its) |-> its[i].name]
  BY <1>1 DEF NamesOf
<1> DEFINE l == NamesOf(its)
<1>3. l \in Seq(Providers) /\ Len(l) = Len(its) /\ DOMAIN l = 1 .. Len(its)
      /\ \A i \in 1 .. Len(its) : l[i] = its[i].name
  BY <1>1, <1>2
<1>4. NameSet(its) = {l[i] : i \in DOMAIN l}
  <2> HIDE DEF l
  <2>1. QED
    BY <1>1, <1>3 DEF NameSet
<1>5. QED
  BY <1>3, <1>4

LEMMA CopyListStep ==
  ASSUME ManagerIInv, NEW t \in Threads, CopyList(t)
  PROVE  ManagerIInv'
<1> DEFINE copy == NamesOf(items)
           c == [call[t] EXCEPT !.left = copy, !.seen = copy, !.name = NoProvider, !.p = NoProvider]
<1>1. pc[t] = "copy" /\ pc' = [pc EXCEPT ![t] = "walk"] /\ Same
  BY DEF CopyList, Goto
<1>2. call' = [call EXCEPT ![t] = c]
  BY CallKnown DEF CopyList
<1>3. copy \in Seq(Providers) /\ NameSet(items) = {copy[i] : i \in DOMAIN copy}
  BY CallKnown, NamesOfOK
<1> HIDE DEF copy
<1>4. c \in CallType /\ c.kind = call[t].kind /\ CallOK("walk", c, NameSet(items), disk, initted)
  <2>1. call[t] \in CallType /\ CallOK("copy", call[t], NameSet(items), disk, initted)
    BY <1>1, CallKnown
  <2>2. QED
    BY <1>3, <2>1, CopyOK, Zenon
<1> HIDE DEF c
<1>5. "walk" \in PCs \ {"init", "idle"}
  BY DEF PCs
<1>6. QED
  BY <1>1, <1>2, <1>4, <1>5, ThreadGoesOn

LEMMA WalkOnStep ==
  ASSUME ManagerIInv, NEW t \in Threads, WalkOn(t)
  PROVE  ManagerIInv'
<1> DEFINE c == [call[t] EXCEPT !.p = Head(call[t].left), !.left = Tail(call[t].left)]
<1>1. pc[t] = "walk" /\ call[t].left # <<>> /\ pc' = [pc EXCEPT ![t] = "ensure_init"] /\ Same
  BY DEF WalkOn, Goto
<1>2. call' = [call EXCEPT ![t] = c]
  BY CallKnown DEF WalkOn
<1>3. c \in CallType /\ c.kind = call[t].kind /\ CallOK("ensure_init", c, NameSet(items), disk, initted)
  <2>1. call[t] \in CallType /\ CallOK("walk", call[t], NameSet(items), disk, initted)
    BY <1>1, CallKnown
  <2>2. QED
    BY <1>1, <2>1, WalkOnOK, Zenon
<1> HIDE DEF c
<1>4. "ensure_init" \in PCs \ {"init", "idle"}
  BY DEF PCs
<1>5. QED
  BY <1>1, <1>2, <1>3, <1>4, ThreadGoesOn

LEMMA WalkDefaultStep ==
  ASSUME ManagerIInv, NEW t \in Threads, WalkDefault(t)
  PROVE  ManagerIInv'
<1> DEFINE c == [call[t] EXCEPT !.p = Default]
<1>1. pc[t] = "walk" /\ call[t].left = <<>> /\ pc' = [pc EXCEPT ![t] = "made"] /\ Same
  BY DEF WalkDefault, Goto
<1>2. call' = [call EXCEPT ![t] = c]
  BY CallKnown DEF WalkDefault
<1>3. c \in CallType /\ c.kind = call[t].kind /\ CallOK("made", c, NameSet(items), disk, initted)
  BY <1>1, CallKnown, WalkDefaultOK
<1> HIDE DEF c
<1>4. "made" \in PCs \ {"init", "idle"}
  BY DEF PCs
<1>5. QED
  BY <1>1, <1>2, <1>3, <1>4, ThreadGoesOn

LEMMA WalkFailsStep ==
  ASSUME ManagerIInv, NEW t \in Threads, WalkFails(t)
  PROVE  ManagerIInv'
<1> DEFINE c == [call[t] EXCEPT !.p = NoProvider]
           s == IF call[t].scanned THEN "made" ELSE "rescan_all"
<1>1. /\ pc[t] = "walk" /\ call[t].left = <<>> /\ call[t].type \notin DefaultTypes
      /\ pc' = [pc EXCEPT ![t] = s] /\ Same
  BY DEF WalkFails, AllFail, Goto
<1>2. call' = [call EXCEPT ![t] = c]
  BY CallKnown DEF WalkFails
<1>3. c \in CallType /\ c.kind = call[t].kind /\ CallOK(s, c, NameSet(items), disk, initted)
  BY <1>1, CallKnown, WalkFailsOK
<1>4. s \in PCs \ {"init", "idle"}
  BY DEF PCs
<1> HIDE DEF s, c
<1>5. QED
  BY <1>1, <1>2, <1>3, <1>4, ThreadGoesOn

LEMMA FeaturesStep ==
  ASSUME ManagerIInv, NEW t \in Threads, Features_(t)
  PROVE  ManagerIInv'
<1> DEFINE c == call[t]
<1>1. pc[t] = "features" /\ UNCHANGED call /\ Same
  BY DEF Features_
<1>2. call' = [call EXCEPT ![t] = c]
  BY <1>1, CallStays
<1>3. c \in CallType /\ CallOK("features", c, NameSet(items), disk, initted)
  BY <1>1, CallKnown
<1>4. {"made", "walk", "copy", "rescan_named"} \subseteq PCs \ {"init", "idle"}
  BY DEF PCs
<1>5. CASE c.type \in Features[c.p]
  <2>1. pc' = [pc EXCEPT ![t] = "made"]
    BY <1>5 DEF Features_, Goto
  <2>2. CallOK("made", c, NameSet(items), disk, initted)
    BY <1>3, <1>5, FeaturesOK
  <2>3. QED
    BY <1>1, <1>2, <1>3, <1>4, <2>1, <2>2, ThreadGoesOn
<1>6. CASE c.type \notin Features[c.p] /\ c.name # NoProvider
  <2> DEFINE s == IF c.scanned THEN "copy" ELSE "rescan_named"
  <2>1. pc' = [pc EXCEPT ![t] = s]
    BY <1>6 DEF Features_, NamedFails, Goto
  <2>2. c.p \in Providers /\ c.p = c.name
    BY <1>3, <1>6 DEF CallOK, FoundOK, NamedOK, Looking
  <2>3. ~Able_(c.name, c)
    BY <1>6, <2>2, Different DEF Able_
  <2>4. CallOK(s, c, NameSet(items), disk, initted)
    BY <1>3, <1>6, <2>3, NamedFailsOK
  <2>5. s \in PCs \ {"init", "idle"}
    BY <1>4
  <2> HIDE DEF s
  <2>6. QED
    BY <1>1, <1>2, <1>3, <2>1, <2>4, <2>5, ThreadGoesOn
<1>7. CASE c.type \notin Features[c.p] /\ c.name = NoProvider
  <2>1. pc' = [pc EXCEPT ![t] = "walk"]
    BY <1>7 DEF Features_, Goto
  <2>2. CallOK("walk", c, NameSet(items), disk, initted)
    BY <1>3, <1>7, FeaturesWalkOK
  <2>3. QED
    BY <1>1, <1>2, <1>3, <1>4, <2>1, <2>2, ThreadGoesOn
<1>8. QED
  BY <1>5, <1>6, <1>7

\* A thread in ensureInit() has a provider of the list, which is initialized if nobody
\* is initializing it and somebody has begun.
LEMMA EnsureInitStep ==
  ASSUME ManagerIInv, NEW t \in Threads, EnsureInit(t)
  PROVE  ManagerIInv'
<1> DEFINE c == call[t]
           p == c.p
<1>1. /\ pc[t] = "ensure_init" /\ m[p] = NoProvider
      /\ UNCHANGED << first_scan, items, list, disk, rng, rng_mutex, unloading, deinitted,
                      unloads, call, calls >>
  BY DEF EnsureInit, manager, global, unload
<1>2. call' = [call EXCEPT ![t] = c]
  BY <1>1, CallStays
<1>3. c \in CallType /\ CallOK("ensure_init", c, NameSet(items), disk, initted)
  BY <1>1, CallKnown
<1>4. {"ensure_init", "init", "features"} = Looking
  BY DEF Looking
<1>5. InitInv /\ m \in [Providers -> Threads \cup {NoProvider}] /\ init_done \subseteq Providers
      /\ initted \subseteq init_done /\ Types_
  BY DEF ManagerIInv, Types_
<1>6. p \in Providers
  BY <1>3, <1>4, LookingOK
<1>7. CASE p \in init_done
  <2>1. pc' = [pc EXCEPT ![t] = "features"] /\ Same
    BY <1>1, <1>7 DEF EnsureInit, Goto, Same, manager, global, unload
  <2>2. p \in initted
    BY <1>1, <1>5, <1>6, <1>7 DEF InitInv
  <2>3. CallOK("features", c, NameSet(items), disk, initted)
    BY <1>3, <1>4, <2>2, LookingOK
  <2>4. "features" \in PCs \ {"init", "idle"}
    BY DEF PCs
  <2>5. QED
    BY <1>1, <1>2, <1>3, <2>1, <2>3, <2>4, ThreadGoesOn
<1>8. CASE p \notin init_done
  <2>1. /\ pc' = [pc EXCEPT ![t] = "init"] /\ init_done' = init_done \cup {p}
        /\ m' = [m EXCEPT ![p] = t] /\ initted' = initted
    BY <1>8 DEF EnsureInit, Goto
  <2>2. CallOK("init", c, NameSet(items), disk, initted)
    BY <1>3, <1>4, LookingOK
  <2>3. "init" \in PCs /\ NameSet(items') = NameSet(items) /\ disk' = disk
    BY <1>1 DEF PCs
  <2>4. /\ CallsOK'
        /\ pc' \in [Threads -> PCs] /\ call' \in [Threads -> CallType]
        /\ pc'[t] = "init" /\ call'[t] = c
        /\ \A u \in Threads : u # t => pc'[u] = pc[u] /\ call'[u] = call[u]
    <3>1. CallOK("init", c, NameSet(items'), disk', initted')
      BY <2>1, <2>2, <2>3
    <3>2. NameSet(items) \subseteq NameSet(items') /\ disk \subseteq disk' /\ initted \subseteq initted'
      BY <2>1, <2>3
    <3> HIDE DEF c, p
    <3>3. QED
      BY <1>2, <1>3, <2>1, <2>3, <3>1, <3>2, CallsKept
  <2>5. /\ m' \in [Providers -> Threads \cup {NoProvider}] /\ m'[p] = t
        /\ \A q \in Providers : q # p => m'[q] = m[q]
    BY <1>5, <1>6, <2>1
  <2>6. Types_'
    BY <1>1, <1>5, <1>6, <2>1, <2>4, <2>5 DEF Types_
  <2>7. InitInv'
    <3>1. ASSUME NEW q \in Providers
          PROVE  /\ q \in init_done' \ initted' <=> m'[q] # NoProvider
                 /\ m'[q] # NoProvider => pc'[m'[q]] = "init" /\ call'[m'[q]].p = q
      <4>1. CASE q = p
        BY <1>5, <1>8, <2>1, <2>4, <2>5, <4>1, Different
      <4>2. CASE q # p
        <5>1. (q \in init_done' \ initted' <=> m'[q] # NoProvider) /\ m'[q] = m[q]
          BY <1>5, <2>1, <2>5, <4>2 DEF InitInv
        <5>2. ASSUME m[q] # NoProvider PROVE pc'[m[q]] = "init" /\ call'[m[q]].p = q
          <6>1. m[q] \in Threads /\ pc[m[q]] = "init" /\ call[m[q]].p = q
            BY <1>5, <5>2 DEF InitInv
          <6>2. m[q] # t
            BY <1>1, <6>1
          <6>3. QED
            BY <2>4, <6>1, <6>2
        <5>3. QED
          BY <5>1, <5>2
      <4>3. QED
        BY <4>1, <4>2
    <3>2. ASSUME NEW u \in Threads, pc'[u] = "init" PROVE m'[call'[u].p] = u
      <4>1. CASE u = t
        BY <2>4, <2>5, <4>1
      <4>2. CASE u # t
        <5>1. pc[u] = "init" /\ call'[u] = call[u]
          BY <2>4, <3>2, <4>2
        <5>2. m[call[u].p] = u /\ u # NoProvider
          BY <1>5, <5>1, Different DEF InitInv
        <5>3. call[u].p \in Providers
          BY <1>4, <5>1, CallKnown, LookingOK
        <5>4. call[u].p # p
          BY <1>1, <5>2
        <5>5. QED
          BY <2>5, <5>1, <5>2, <5>3, <5>4
      <4>3. QED
        BY <4>1, <4>2
    <3>3. QED
      BY <3>1, <3>2 DEF InitInv
  <2>8. RngHeld'
    BY <1>1, <2>4, <1>5 DEF ManagerIInv, RngHeld, Types_
  <2>9. UnloadInv'
    <3>1. unloading = "no"
      BY <1>1, NotUnloading
    <3>2. QED
      BY <1>1, <3>1 DEF ManagerIInv, UnloadInv, DeinitBeforeDelete, RandomIsAlive
  <2>10. list' = NamesOf(items') /\ InOrder(items')
    BY <1>1 DEF ManagerIInv
  <2>11. QED
    BY <2>4, <2>6, <2>7, <2>8, <2>9, <2>10 DEF ManagerIInv
<1>9. QED
  BY <1>7, <1>8

LEMMA InitReturnsStep ==
  ASSUME ManagerIInv, NEW t \in Threads, InitReturns(t)
  PROVE  ManagerIInv'
<1> DEFINE c == call[t]
           p == c.p
<1>1. /\ pc[t] = "init" /\ pc' = [pc EXCEPT ![t] = "features"]
      /\ initted' = initted \cup {p} /\ m' = [m EXCEPT ![p] = NoProvider]
      /\ UNCHANGED << first_scan, items, list, disk, init_done, rng, rng_mutex, unloading,
                      deinitted, unloads, call, calls >>
  BY DEF InitReturns, Goto, manager, global, unload
<1>2. call' = [call EXCEPT ![t] = c]
  BY <1>1, CallStays
<1>3. c \in CallType /\ CallOK("init", c, NameSet(items), disk, initted)
  BY <1>1, CallKnown
<1>4. {"ensure_init", "init", "features"} = Looking
  BY DEF Looking
<1>5. InitInv /\ m \in [Providers -> Threads \cup {NoProvider}] /\ init_done \subseteq Providers
      /\ initted \subseteq init_done /\ Types_
  BY DEF ManagerIInv, Types_
<1>6. p \in Providers /\ p \in initted'
  BY <1>1, <1>3, <1>4, LookingOK
<1>7. m[p] = t /\ t # NoProvider /\ p \in init_done
  BY <1>1, <1>5, <1>6, Different DEF InitInv
<1>8. CallOK("features", c, NameSet(items), disk, initted')
  BY <1>3, <1>4, <1>6, LookingOK
<1>9. "features" \in PCs /\ NameSet(items') = NameSet(items) /\ disk' = disk
  BY <1>1 DEF PCs
<1>10. /\ CallsOK'
       /\ pc' \in [Threads -> PCs] /\ call' \in [Threads -> CallType]
       /\ pc'[t] = "features" /\ call'[t] = c
       /\ \A u \in Threads : u # t => pc'[u] = pc[u] /\ call'[u] = call[u]
  <2>1. CallOK("features", c, NameSet(items'), disk', initted')
    BY <1>8, <1>9
  <2>2. NameSet(items) \subseteq NameSet(items') /\ disk \subseteq disk' /\ initted \subseteq initted'
    BY <1>1, <1>9
  <2> HIDE DEF c, p
  <2>3. QED
    BY <1>1, <1>2, <1>3, <1>9, <2>1, <2>2, CallsKept
<1>11. /\ m' \in [Providers -> Threads \cup {NoProvider}] /\ m'[p] = NoProvider
       /\ \A q \in Providers : q # p => m'[q] = m[q]
  BY <1>1, <1>5, <1>6
<1>12. Types_'
  BY <1>1, <1>5, <1>7, <1>10, <1>11 DEF Types_
<1>13. InitInv'
  <2>1. ASSUME NEW q \in Providers
        PROVE  /\ q \in init_done' \ initted' <=> m'[q] # NoProvider
               /\ m'[q] # NoProvider => pc'[m'[q]] = "init" /\ call'[m'[q]].p = q
    <3>1. CASE q = p
      BY <1>1, <1>11, <3>1
    <3>2. CASE q # p
      <4>1. (q \in init_done' \ initted' <=> m'[q] # NoProvider) /\ m'[q] = m[q]
        BY <1>1, <1>5, <1>11, <3>2 DEF InitInv
      <4>2. ASSUME m[q] # NoProvider PROVE pc'[m[q]] = "init" /\ call'[m[q]].p = q
        <5>1. m[q] \in Threads /\ pc[m[q]] = "init" /\ call[m[q]].p = q
          BY <1>5, <4>2 DEF InitInv
        <5>2. m[q] # t
          BY <3>2, <5>1
        <5>3. QED
          BY <1>10, <5>1, <5>2
      <4>3. QED
        BY <4>1, <4>2
    <3>3. QED
      BY <3>1, <3>2
  <2>2. ASSUME NEW u \in Threads, pc'[u] = "init" PROVE m'[call'[u].p] = u
    <3>1. u # t
      BY <1>10, <2>2
    <3>2. pc[u] = "init" /\ call'[u] = call[u]
      BY <1>10, <2>2, <3>1
    <3>3. m[call[u].p] = u
      BY <1>5, <3>2 DEF InitInv
    <3>4. call[u].p \in Providers
      BY <1>4, <3>2, CallKnown, LookingOK
    <3>5. call[u].p # p
      BY <1>7, <3>1, <3>3
    <3>6. QED
      BY <1>11, <3>2, <3>3, <3>4, <3>5
  <2>3. QED
    BY <2>1, <2>2 DEF InitInv
<1>14. RngHeld'
  BY <1>1, <1>5, <1>10 DEF ManagerIInv, RngHeld, Types_
<1>15. UnloadInv'
  <2>1. unloading = "no"
    BY <1>1, NotUnloading
  <2>2. QED
    BY <1>1, <2>1 DEF ManagerIInv, UnloadInv, DeinitBeforeDelete, RandomIsAlive
<1>16. list' = NamesOf(items') /\ InOrder(items')
  BY <1>1 DEF ManagerIInv
<1>17. QED
  BY <1>10, <1>12, <1>13, <1>14, <1>15, <1>16 DEF ManagerIInv

LEMMA ReturnStep ==
  ASSUME ManagerIInv, NEW t \in Threads, Return(t)
  PROVE  ManagerIInv'
<1>1. /\ pc[t] = "made" /\ pc' = [pc EXCEPT ![t] = "idle"] /\ call' = [call EXCEPT ![t] = Idle]
      /\ UNCHANGED << first_scan, items, list, disk, init_done, initted, m, unloading,
                      deinitted, unloads, calls >>
  BY DEF Return, Goto, manager, inits, unload
<1>2. /\ Idle \in CallType /\ CallOK("idle", Idle, NameSet(items'), disk', initted')
      /\ "idle" \in PCs
  BY IdleOK DEF PCs
<1>3. InOrder(items') /\ list' = NamesOf(items') /\ first_scan' \in BOOLEAN
      /\ NameSet(items) \subseteq NameSet(items') /\ disk' = disk /\ initted' = initted
  BY <1>1 DEF ManagerIInv, Types_
<1>4. CASE call[t].kind # "random"
  <2>1. UNCHANGED << disk, inits, global, unload, calls >>
    BY <1>1, <1>4 DEF Return, inits, unload
  <2>2. Moves(t, "idle", Idle)
    BY <1>1, <1>2, <1>3, <1>4, <2>1 DEF Moves
  <2>3. QED
    BY <2>2, ThreadMoves
<1>5. CASE call[t].kind = "random"
  <2>1. rng' = call[t].p /\ rng_mutex' = NoProvider
    BY <1>5 DEF Return
  <2>2. /\ CallsOK'
        /\ pc' \in [Threads -> PCs] /\ call' \in [Threads -> CallType]
        /\ pc'[t] = "idle" /\ call'[t] = Idle
        /\ \A u \in Threads : u # t => pc'[u] = pc[u] /\ call'[u] = call[u]
    BY <1>1, <1>2, <1>3, CallsKept
  <2>3. call[t].p \in Names /\ (call[t].p \in Providers => call[t].p \in NameSet(items'))
    <3>1. call[t] \in CallType /\ CallOK("made", call[t], NameSet(items), disk, initted)
      BY <1>1, CallKnown
    <3>2. QED
      BY <1>3, <3>1, CallFields DEF CallOK, FoundOK
  <2>4. Types_'
    BY <1>1, <2>1, <2>2, <2>3 DEF ManagerIInv, Types_
  <2>5. InitInv'
    BY <1>1, <2>2, InitInvKept
  <2>6. RngHeld'
    BY <2>1 DEF RngHeld
  <2>7. UnloadInv'
    <3>1. unloading' = "no"
      BY <1>1, NotUnloading
    <3>2. QED
      BY <2>1, <2>3, <3>1 DEF UnloadInv, DeinitBeforeDelete, RandomIsAlive
  <2>8. QED
    BY <1>3, <2>2, <2>4, <2>5, <2>6, <2>7 DEF ManagerIInv
<1>6. QED
  BY <1>4, <1>5

\* The lists are changed by a call of add() or changePriority(), which ends with that.
LEMMA ListsChange ==
  ASSUME ManagerIInv, NEW t \in Threads, pc[t] \in {"add", "change"},
         pc' = [pc EXCEPT ![t] = "idle"], call' = [call EXCEPT ![t] = Idle],
         UNCHANGED << disk, inits, global, unload, calls >>, UNCHANGED first_scan,
         InOrder(items'), list' = NamesOf(items'), NameSet(items) \subseteq NameSet(items')
  PROVE  ManagerIInv'
<1>1. Idle \in CallType /\ CallOK("idle", Idle, NameSet(items'), disk, initted)
  BY IdleOK
<1>2. KindOK(pc[t], call[t])
  BY CallKnown DEF CallOK
<1>3. call[t].kind # "random"
  BY <1>2 DEF KindOK
<1>4. "idle" \in PCs \ {"init"} /\ first_scan' \in BOOLEAN
  BY DEF PCs, ManagerIInv, Types_
<1>5. Moves(t, "idle", Idle)
  BY <1>1, <1>3, <1>4 DEF Moves
<1>6. QED
  BY <1>5, ThreadMoves

LEMMA AddStep ==
  ASSUME ManagerIInv, NEW t \in Threads, Add(t)
  PROVE  ManagerIInv'
<1> DEFINE name == call[t].name
           priority == call[t].priority
<1>1. /\ pc[t] = "add" /\ pc' = [pc EXCEPT ![t] = "idle"] /\ call' = [call EXCEPT ![t] = Idle]
      /\ UNCHANGED << disk, inits, global, unload, calls >>
  BY DEF Add, Goto
<1>2. InOrder(items) /\ list = NamesOf(items)
  BY DEF ManagerIInv
<1>3. name \in Providers /\ priority \in Int
  <2>1. call[t] \in CallType /\ KindOK("add", call[t])
    BY <1>1, CallKnown DEF CallOK
  <2>2. QED
    BY <2>1, CallFields DEF KindOK
<1>4. CASE HaveAlready(items, name)
  <2>1. UNCHANGED << first_scan, items, list >>
    BY <1>4 DEF Add, manager
  <2>2. QED
    BY <1>1, <1>2, <2>1, ListsChange
<1>5. CASE ~HaveAlready(items, name)
  <2>1. items' = AddItem(items, name, -1, priority) /\ list' = NamesOf(items')
        /\ UNCHANGED first_scan
    BY <1>5 DEF Add
  <2>2. name \notin NameSet(items)
    BY <1>5 DEF HaveAlready
  <2>3. -1 \notin Files
    <3> DEFINE N == Cardinality(Files)
    <3>1. Files = 1 .. N /\ N \in Nat
      BY ManagerAssumption, FS_CardinalityType
    <3> HIDE DEF N
    <3>2. QED
      BY <3>1
  <2> HIDE DEF name, priority
  <2>4. InOrder(items') /\ NameSet(items) \subseteq NameSet(items')
    BY <1>2, <1>3, <2>1, <2>2, <2>3, AddItemOK
  <2>5. QED
    BY <1>1, <2>1, <2>4, ListsChange
<1>6. QED
  BY <1>4, <1>5

LEMMA ChangePriorityStep ==
  ASSUME ManagerIInv, NEW t \in Threads, ChangePriority(t)
  PROVE  ManagerIInv'
<1> DEFINE name == call[t].name
           priority == call[t].priority
           found == {i \in DOMAIN items : items[i].name = name}
           n == CHOOSE i \in found : \A j \in found : i <= j
           file == items[n].file
<1>1. /\ pc[t] = "change" /\ pc' = [pc EXCEPT ![t] = "idle"] /\ call' = [call EXCEPT ![t] = Idle]
      /\ UNCHANGED << disk, inits, global, unload, calls >>
  BY DEF ChangePriority, Goto
<1>2. InOrder(items) /\ list = NamesOf(items)
  BY DEF ManagerIInv
<1>3. priority \in Int
  BY CallKnown, CallFields
<1>4. CASE found = {}
  <2>1. UNCHANGED << first_scan, items, list >>
    BY <1>4 DEF ChangePriority, manager
  <2>2. QED
    BY <1>1, <1>2, <2>1, ListsChange
<1>5. CASE found # {}
  <2>1. items' = AddItem(RemoveAt(items, n), name, file, priority) /\ list' = NamesOf(items')
        /\ UNCHANGED first_scan
    BY <1>5 DEF ChangePriority
  <2>2. n \in found
    <3>1. found \in SUBSET Nat
      BY <1>2, InOrderParts
    <3> HIDE DEF found
    <3>2. QED
      BY <1>5, <3>1, LeastNumber
  <2>3. n \in DOMAIN items /\ items[n].name = name
    BY <2>2
  <2>4. items[n] \in Item
    BY <1>2, <2>3, InOrderParts
  <2>5. name \in Providers /\ file \in Files \cup {-1} /\ (file \in Files => name = Offers[file])
    BY <2>3, <2>4 DEF Item
  <2>6. /\ InOrder(RemoveAt(items, n))
        /\ NameSet(RemoveAt(items, n)) = NameSet(items) \ {name}
    <3> HIDE DEF n
    <3>1. /\ InOrder(RemoveAt(items, n))
          /\ NameSet(RemoveAt(items, n)) = NameSet(items) \ {items[n].name}
      BY <1>2, <2>3, RemoveAtOK
    <3>2. QED
      BY <2>3, <3>1
  <2> DEFINE rest == RemoveAt(items, n)
  <2> HIDE DEF rest, file, n, found
  <2>7. /\ InOrder(AddItem(rest, name, file, priority))
        /\ NameSet(AddItem(rest, name, file, priority)) = NameSet(rest) \cup {name}
    BY <1>3, <2>5, <2>6, AddItemOK DEF rest
  <2>8. InOrder(items') /\ NameSet(items) \subseteq NameSet(items')
    BY <2>1, <2>6, <2>7 DEF rest
  <2>9. QED
    BY <1>1, <2>1, <2>8, ListsChange
<1>6. QED
  BY <1>4, <1>5

LEMMA InstallStep ==
  ASSUME ManagerIInv, NEW f \in Files, Install(f)
  PROVE  ManagerIInv'
<1>1. /\ disk' = disk \cup {f}
      /\ UNCHANGED << first_scan, items, list, init_done, initted, m, rng, rng_mutex, pc, call,
                      calls, unloading, deinitted, unloads >>
  BY DEF Install, manager, inits, global, thread, unload
<1>2. Types_'
  BY <1>1 DEF ManagerIInv, Types_
<1>3. CallsOK'
  <2> SUFFICES ASSUME NEW u \in Threads
               PROVE  CallOK(pc[u], call[u], NameSet(items), disk', initted)
    BY <1>1 DEF CallsOK
  <2>1. CallOK(pc[u], call[u], NameSet(items), disk, initted)
    BY CallKnown
  <2>2. QED
    BY <1>1, <2>1, CallKept
<1>4. InitInv' /\ RngHeld' /\ UnloadInv' /\ list' = NamesOf(items') /\ InOrder(items')
  BY <1>1 DEF ManagerIInv, InitInv, RngHeld, UnloadInv, DeinitBeforeDelete, RandomIsAlive
<1>5. QED
  BY <1>2, <1>3, <1>4 DEF ManagerIInv

----------------------------------------------------------------------------
(* unloadAllPlugins().                                                      *)

\* While it goes on, no thread is in the library.
LEMMA AllIdle ==
  ASSUME ManagerIInv, \A t \in Threads : pc[t] = "idle"
  PROVE  /\ \A t \in Threads : call[t] = Idle
         /\ \A p \in Providers : m[p] = NoProvider
         /\ rng_mutex = NoProvider
<1>1. ASSUME NEW t \in Threads PROVE call[t] = Idle
  <2>1. KindOK("idle", call[t])
    BY CallKnown DEF CallOK
  <2>2. QED
    BY <2>1 DEF KindOK
<1>2. ASSUME NEW p \in Providers, m[p] # NoProvider PROVE FALSE
  <2>1. m[p] \in Threads /\ pc[m[p]] = "init"
    BY <1>2 DEF ManagerIInv, Types_, InitInv
  <2>2. QED
    BY <2>1
<1>3. ASSUME rng_mutex # NoProvider PROVE FALSE
  BY <1>3 DEF ManagerIInv, Types_, RngHeld
<1>4. QED
  BY <1>1, <1>2, <1>3

LEMMA UnloadRandomStep ==
  ASSUME ManagerIInv, UnloadAlone, UnloadRandom
  PROVE  ManagerIInv'
<1>1. /\ \A t \in Threads : pc[t] = "idle"
      /\ unloading' = "deinit" /\ rng' = IF rng = Default THEN rng ELSE NoProvider
      /\ UNCHANGED << first_scan, items, list, disk, init_done, initted, m, rng_mutex, pc, call,
                      calls, deinitted >>
  BY DEF UnloadRandom, manager, inits, thread
<1>2. rng' \in {Default, NoProvider}
  BY <1>1
<1>3. Types_'
  BY <1>1, <1>2 DEF ManagerIInv, Types_, Names
<1>4. CallsOK' /\ InitInv' /\ RngHeld' /\ list' = NamesOf(items') /\ InOrder(items')
  BY <1>1 DEF ManagerIInv, CallsOK, InitInv, RngHeld
<1>5. UnloadInv'
  BY <1>1, <1>2, Different DEF UnloadInv, DeinitBeforeDelete, RandomIsAlive
<1>6. QED
  BY <1>3, <1>4, <1>5 DEF ManagerIInv

LEMMA DeinitStep ==
  ASSUME ManagerIInv, Deinit
  PROVE  ManagerIInv'
<1>1. /\ unloading = "deinit" /\ unloading' = "delete"
      /\ deinitted' = deinitted \cup (init_done \cap NameSet(items))
      /\ UNCHANGED << first_scan, items, list, disk, init_done, initted, m, rng, rng_mutex, pc,
                      call, calls >>
  BY DEF Deinit, manager, inits, global, thread
<1>2. Types_'
  BY <1>1 DEF ManagerIInv, Types_
<1>3. CallsOK' /\ InitInv' /\ RngHeld' /\ list' = NamesOf(items') /\ InOrder(items')
  BY <1>1 DEF ManagerIInv, CallsOK, InitInv, RngHeld
<1>4. (\A t \in Threads : pc[t] = "idle") /\ rng \in {Default, NoProvider}
  BY <1>1 DEF ManagerIInv, UnloadInv
<1>5. DeinitBeforeDelete'
  BY <1>1 DEF DeinitBeforeDelete, NameSet
<1>6. UnloadInv'
  BY <1>1, <1>4, <1>5, Different DEF UnloadInv, RandomIsAlive
<1>7. QED
  BY <1>2, <1>3, <1>6 DEF ManagerIInv

LEMMA TailOK ==
  ASSUME NEW its, InOrder(its), its # <<>>
  PROVE  /\ InOrder(Tail(its)) /\ Tail(NamesOf(its)) = NamesOf(Tail(its))
         /\ 1 \in DOMAIN its /\ Head(its) = its[1]
         /\ \A i \in DOMAIN Tail(its) : /\ i + 1 \in DOMAIN its /\ Tail(its)[i] = its[i + 1]
                                        /\ its[i + 1].name # its[1].name
<1> DEFINE rest == Tail(its)
           n == Len(its)
<1>1. its \in Seq(Item) /\ n \in Nat /\ n >= 1 /\ DOMAIN its = 1 .. n
  BY InOrderParts, EmptySeq
<1>2. /\ rest \in Seq(Item) /\ Len(rest) = n - 1 /\ DOMAIN rest = 1 .. n - 1
      /\ \A i \in 1 .. n - 1 : rest[i] = its[i + 1]
  BY <1>1
<1>3. Head(its) = its[1] /\ 1 \in DOMAIN its
  BY <1>1
<1>4. NamesOf(its) \in Seq(Providers) /\ Len(NamesOf(its)) = n
      /\ \A i \in 1 .. n : NamesOf(its)[i] = its[i].name
  BY NamesOfOK
<1> HIDE DEF rest, n
<1>5. \A i \in 1 .. n - 1 : i \in 1 .. n /\ i + 1 \in 1 .. n /\ 1 \in 1 .. n /\ 1 < i + 1
  BY <1>1
<1>6. InOrder(rest)
  <2>1. \A i \in 1 .. n - 1 : rest[i].priority >= 0
    BY <1>1, <1>2, <1>5 DEF InOrder
  <2>2. ASSUME NEW i \in 1 .. n - 1, NEW j \in 1 .. n - 1, i < j
        PROVE  rest[i].priority <= rest[j].priority /\ rest[i].name # rest[j].name
    <3>1. i + 1 < j + 1 /\ i + 1 \in 1 .. n /\ j + 1 \in 1 .. n
      BY <1>1, <2>2
    <3>2. its[i + 1].priority <= its[j + 1].priority /\ its[i + 1].name # its[j + 1].name
      BY <1>1, <3>1 DEF InOrder
    <3>3. QED
      BY <1>2, <3>2
  <2>3. QED
    BY <1>2, <2>1, <2>2 DEF InOrder
<1>7. Tail(NamesOf(its)) = NamesOf(rest)
  <2> DEFINE l == NamesOf(its)
  <2>1. l \in Seq(Providers) /\ Len(l) = n /\ \A i \in 1 .. n : l[i] = its[i].name
    BY <1>4
  <2> HIDE DEF l
  <2>2. /\ Tail(l) \in Seq(Providers) /\ Len(Tail(l)) = n - 1
        /\ \A i \in 1 .. n - 1 : Tail(l)[i] = l[i + 1]
    <3>1. l # <<>>
      BY <1>1, <2>1
    <3>2. QED
      BY <2>1, <3>1
  <2>3. /\ NamesOf(rest) \in Seq(Providers) /\ Len(NamesOf(rest)) = n - 1
        /\ \A i \in 1 .. n - 1 : NamesOf(rest)[i] = rest[i].name
    BY <1>2, <1>6, NamesOfOK
  <2>4. \A i \in 1 .. n - 1 : l[i + 1] = rest[i].name
    BY <1>2, <1>5, <2>1
  <2>5. QED
    BY <2>2, <2>3, <2>4, SeqEqual, Zenon DEF l
<1>8. \A i \in 1 .. n - 1 : its[i + 1].name # its[1].name
  BY <1>1, <1>5 DEF InOrder
<1>9. QED
  BY <1>1, <1>2, <1>3, <1>5, <1>6, <1>7, <1>8 DEF rest

LEMMA DeleteStep ==
  ASSUME ManagerIInv, Delete
  PROVE  ManagerIInv'
<1> DEFINE p == Head(items).name
<1>1. /\ unloading = "delete" /\ items # <<>> /\ items' = Tail(items) /\ list' = Tail(list)
      /\ init_done' = init_done \ {p} /\ initted' = initted \ {p}
      /\ deinitted' = deinitted \ {p} /\ m' = [m EXCEPT ![p] = NoProvider]
      /\ pc' = [t \in Threads |-> IF Uses(t, p) THEN "lost" ELSE pc[t]]
      /\ UNCHANGED << first_scan, disk, rng, rng_mutex, call, calls, unloading >>
  BY DEF Delete, global
<1>2. (\A t \in Threads : pc[t] = "idle") /\ rng \in {Default, NoProvider} /\ DeinitBeforeDelete
  BY <1>1 DEF ManagerIInv, UnloadInv
<1>3. /\ \A t \in Threads : call[t] = Idle
      /\ \A q \in Providers : m[q] = NoProvider
      /\ rng_mutex = NoProvider
  BY <1>2, AllIdle
<1>4. /\ InOrder(items') /\ Tail(list) = NamesOf(items') /\ p = items[1].name
      /\ \A i \in DOMAIN items' : /\ i + 1 \in DOMAIN items /\ items'[i] = items[i + 1]
                                  /\ items[i + 1].name # p
  BY <1>1, TailOK DEF ManagerIInv
<1> HIDE DEF p
<1>5. \A t \in Threads : pc'[t] = "idle"
  <2> TAKE t \in Threads
  <2>1. call[t].left = <<>> /\ pc[t] = "idle"
    BY <1>2, <1>3 DEF Idle, Call
  <2>2. ToSet(call[t].left) = {}
    BY <2>1 DEF ToSet
  <2>3. ~Uses(t, p)
    BY <2>1, <2>2 DEF Uses
  <2>4. QED
    BY <1>1, <2>1, <2>3
<1>6. Types_'
  <2>1. Types_ /\ "idle" \in PCs
    BY DEF ManagerIInv, PCs
  <2>2. pc' \in [Threads -> PCs]
    BY <1>1, <1>5, <2>1
  <2>3. m' \in [Providers -> Threads \cup {NoProvider}]
    BY <1>1, <2>1 DEF Types_
  <2>4. QED
    BY <1>1, <2>1, <2>2, <2>3 DEF Types_
<1>7. \A q \in Providers : m'[q] = NoProvider
  BY <1>1, <1>3 DEF ManagerIInv, Types_
<1>8. InitInv'
  <2>1. init_done = initted
    BY <1>3 DEF ManagerIInv, InitInv, Types_
  <2>2. QED
    BY <1>1, <1>5, <1>7, <2>1 DEF InitInv
<1>9. CallsOK'
  BY <1>1, <1>3, <1>5, IdleOK DEF CallsOK
<1>10. RngHeld'
  BY <1>1, <1>3 DEF RngHeld
<1>11. DeinitBeforeDelete'
  <2> SUFFICES ASSUME NEW i \in DOMAIN items', items'[i].name \in init_done'
               PROVE  items'[i].name \in deinitted'
    BY DEF DeinitBeforeDelete
  <2>1. i + 1 \in DOMAIN items /\ items'[i] = items[i + 1] /\ items[i + 1].name # p
    BY <1>4
  <2>2. QED
    BY <1>1, <1>2, <2>1 DEF DeinitBeforeDelete
<1>12. UnloadInv'
  BY <1>1, <1>2, <1>5, <1>11, Different DEF UnloadInv, RandomIsAlive
<1>13. QED
  BY <1>1, <1>4, <1>6, <1>8, <1>9, <1>10, <1>12 DEF ManagerIInv

LEMMA UnloadedStep ==
  ASSUME ManagerIInv, Unloaded
  PROVE  ManagerIInv'
<1>1. /\ unloading' = "no" /\ unloading = "delete"
      /\ UNCHANGED << first_scan, items, list, disk, init_done, initted, m, rng, rng_mutex, pc,
                      call, calls, deinitted >>
  BY DEF Unloaded, manager, inits, global, thread
<1>2. Types_'
  BY <1>1 DEF ManagerIInv, Types_
<1>3. CallsOK' /\ InitInv' /\ RngHeld' /\ list' = NamesOf(items') /\ InOrder(items')
  BY <1>1 DEF ManagerIInv, CallsOK, InitInv, RngHeld
<1>4. UnloadInv'
  BY <1>1 DEF ManagerIInv, UnloadInv, DeinitBeforeDelete, RandomIsAlive
<1>5. QED
  BY <1>2, <1>3, <1>4 DEF ManagerIInv

----------------------------------------------------------------------------
(* What the invariant gives.                                                *)

LEMMA NextManager ==
  ASSUME ManagerIInv, UnloadAlone, Next
  PROVE  ManagerIInv'
<1>1. ASSUME NEW t \in Threads, NEW type \in Types, NEW name \in Names, getContext(t, type, name)
      PROVE  ManagerIInv'
  BY <1>1, CallsBegin
<1>2. ASSUME NEW t \in Threads, randomChar(t) PROVE ManagerIInv'
  BY <1>2, CallsBegin
<1>3. ASSUME NEW t \in Threads, NEW p \in Direct, NEW priority \in Priorities,
             insertProvider(t, p, priority)
      PROVE  ManagerIInv'
  BY <1>3, CallsBegin
<1>4. ASSUME NEW t \in Threads, NEW p \in Providers, NEW priority \in Priorities,
             setProviderPriority(t, p, priority)
      PROVE  ManagerIInv'
  BY <1>4, CallsBegin
<1>5. ASSUME NEW t \in Threads, scanForPlugins(t) PROVE ManagerIInv'
  BY <1>5, CallsBegin
<1>6. ASSUME NEW t \in Threads, Steps(t) PROVE ManagerIInv'
  <2>1. CASE EnsureFirstScan(t) \/ Rescan(t)
    BY <2>1, EnsureFirstScanStep, RescanStep
  <2>2. CASE Find(t) \/ FindDefault(t) \/ FindNothing(t)
    BY <2>2, FindStep, FindDefaultStep, FindNothingStep
  <2>3. CASE CopyList(t) \/ WalkOn(t) \/ WalkDefault(t) \/ WalkFails(t)
    BY <2>3, CopyListStep, WalkOnStep, WalkDefaultStep, WalkFailsStep
  <2>4. CASE EnsureInit(t) \/ InitReturns(t) \/ Features_(t) \/ Return(t)
    BY <2>4, EnsureInitStep, InitReturnsStep, FeaturesStep, ReturnStep
  <2>5. CASE Add(t) \/ ChangePriority(t)
    BY <2>5, AddStep, ChangePriorityStep
  <2>6. QED
    BY <1>6, <2>1, <2>2, <2>3, <2>4, <2>5 DEF Steps
<1>7. ASSUME NEW f \in Files, Install(f) PROVE ManagerIInv'
  BY <1>7, InstallStep
<1>8. CASE UnloadRandom \/ Deinit \/ Delete \/ Unloaded
  BY <1>8, UnloadRandomStep, DeinitStep, DeleteStep, UnloadedStep
<1>9. QED
  BY <1>1, <1>2, <1>3, <1>4, <1>5, <1>6, <1>7, <1>8 DEF Next

LEMMA StutterManager ==
  ASSUME ManagerIInv, UNCHANGED vars
  PROVE  ManagerIInv'
BY DEF ManagerIInv, vars, manager, inits, global, thread, unload, Types_, InitInv, CallsOK,
       RngHeld, UnloadInv, DeinitBeforeDelete, RandomIsAlive

LEMMA ManagerInvariant ==
  ASSUME UnloadAlone
  PROVE  Spec => []ManagerIInv
<1>1. Init => ManagerIInv
  BY InitManager
<1>2. ManagerIInv /\ [Next]_vars => ManagerIInv'
  BY NextManager, StutterManager
<1>3. QED
  BY <1>1, <1>2, PTL DEF Spec

LEMMA ConsistentHolds ==
  ASSUME ManagerIInv
  PROVE  Consistent
<1>1. TypeOK
  <2>1. items \in Seq([name : Providers, file : Files \cup {-1}, priority : Nat])
    <3> DEFINE S == [name : Providers, file : Files \cup {-1}, priority : Nat]
    <3>1. items \in Seq(Item) /\ Len(items) \in Nat /\ DOMAIN items = 1 .. Len(items)
          /\ \A i \in 1 .. Len(items) : items[i] \in Item /\ items[i].priority >= 0
      BY InOrderParts DEF ManagerIInv
    <3>2. \A e \in Item : e.priority >= 0 => e \in S
      BY DEF Item
    <3> HIDE DEF S
    <3>3. \A i \in 1 .. Len(items) : items[i] \in S
      BY <3>1, <3>2
    <3>4. items \in Seq(S)
      BY <3>1, <3>3, ElementOfSeq, SeqDef
    <3>5. QED
      BY <3>4 DEF S
  <2>2. QED
    BY <2>1 DEF ManagerIInv, Types_, TypeOK
<1>2. ListsAgree
  BY DEF ManagerIInv, InOrder, ListsAgree
<1>3. HoldersRun
  <2>1. \A p \in Providers : m[p] # NoProvider => pc[m[p]] = "init" /\ call[m[p]].p = p
    BY DEF ManagerIInv, InitInv
  <2>2. ASSUME rng_mutex # NoProvider
        PROVE  call[rng_mutex].kind = "random" /\ pc[rng_mutex] \notin {"idle", "lost"}
    <3>1. rng_mutex \in Threads
      BY <2>2 DEF ManagerIInv, Types_
    <3>2. KindOK(pc[rng_mutex], call[rng_mutex])
      BY <3>1, CallKnown DEF CallOK
    <3>3. QED
      BY <2>2, <3>2 DEF ManagerIInv, RngHeld, KindOK
  <2>3. QED
    BY <2>1, <2>2 DEF HoldersRun
<1>4. UnloadsInOrder
  BY DEF ManagerIInv, UnloadInv, UnloadsInOrder
<1>5. QED
  BY <1>1, <1>2, <1>3, <1>4 DEF Consistent

LEMMA RightProviderHolds ==
  ASSUME ManagerIInv
  PROVE  RightProvider
<1> SUFFICES ASSUME NEW t \in Threads
             PROVE
    /\ call[t].p \in Providers /\ (pc[t] = "features" \/ Found(t)) => call[t].p \in initted
    /\ Found(t) /\ call[t].p = NoProvider => \A p \in call[t].known \cup {Default} : ~Able(p, t)
    /\ pc[t] = "copy" /\ call[t].name \in call[t].known \cup {Default} => ~Able(call[t].name, t)
    /\ Found(t) /\ call[t].name = NoProvider =>
         \A i \in DOMAIN call[t].seen :
           Able(call[t].seen[i], t) => \E j \in 1 .. i : call[t].seen[j] = call[t].p
  BY DEF RightProvider, InitBeforeUse, NoneMeansNone, NominatedIsUsed, FirstAbleIsUsed
<1> DEFINE c == call[t]
<1>1. \A p : Able(p, t) <=> Able_(p, c)
  BY DEF Able, Able_
<1>2. Found(t) <=> pc[t] = "made" /\ c.kind \in Asking
  BY DEF Found, Asking
<1>3. /\ FoundOK(pc[t], c, NameSet(items), disk, initted)
      /\ NamedOK(pc[t], c) /\ MadeOK(pc[t], c)
  BY CallKnown DEF CallOK
<1> HIDE DEF c
<1>4. c.p \in Providers /\ (pc[t] = "features" \/ Found(t)) => c.p \in initted
  BY <1>2, <1>3 DEF FoundOK
<1>5. Found(t) /\ c.p = NoProvider => \A p \in c.known \cup {Default} : ~Able(p, t)
  BY <1>1, <1>2, <1>3 DEF NamedOK, MadeOK
<1>6. pc[t] = "copy" /\ c.name \in c.known \cup {Default} => ~Able(c.name, t)
  BY <1>1, <1>3 DEF NamedOK
<1>7. Found(t) /\ c.name = NoProvider =>
        \A i \in DOMAIN c.seen : Able(c.seen[i], t) => \E j \in 1 .. i : c.seen[j] = c.p
  BY <1>1, <1>2, <1>3 DEF MadeOK
<1>8. QED
  BY <1>4, <1>5, <1>6, <1>7 DEF c

\* The list of items is in the order of priorities and names every provider once,
\* providers() returns the same list, the mutex of an item is held by the thread in its
\* provider's init(), rng_mutex by one that is making the global Random, and unloading
\* calls every deinit() before it deletes: for any number of threads and providers,
\* when unloadAllPlugins() is called by the only thread that uses the library.
THEOREM ManagerConsistent ==
  ASSUME UnloadAlone
  PROVE  Spec => []Consistent
<1>1. ManagerIInv => Consistent
  BY ConsistentHolds
<1>2. Spec => []ManagerIInv
  BY ManagerInvariant
<1>3. QED
  BY <1>1, <1>2, PTL

\* A call returns the provider that its nomination and the priorities ask for, after
\* its init() has returned, and none only when none that it could have found can do it,
\* while other threads scan, add and reorder (getProviderForType(), ensureInit()).
THEOREM CallsGetTheRightProvider ==
  ASSUME UnloadAlone
  PROVE  Spec => []RightProvider
<1>1. ManagerIInv => RightProvider
  BY RightProviderHolds
<1>2. Spec => []ManagerIInv
  BY ManagerInvariant
<1>3. QED
  BY <1>1, <1>2, PTL

----------------------------------------------------------------------------
(* SoftKey: who uses a key object.                                          *)

KeyObject == [priv : BOOLEAN, sign : BOOLEAN, due : Nat]
KeyUse == [op : {"none", "decrypt", "sign", "access"},
           pc : {"idle", "file", "askFile", "askPassphrase", "read"}, right : BOOLEAN]

KeyTypes ==
  /\ entry \in [file : BOOLEAN, asks : BOOLEAN, timeout : Nat \cup {Never}, open : BOOLEAN]
  /\ now \in Nat
  /\ object \in [PrivateKeys -> Objects]
  /\ key \in [Objects -> KeyObject]
  /\ use \in [PrivateKeys -> KeyUse]
  /\ begun \subseteq PrivateKeys

\* The object of h is of h alone.
Alone(h) == \A g \in PrivateKeys \ {h} : object[g] # object[h]

\* A signature has its key; and an operation that decrypts or signs, and waits for the
\* passphrase, has an object of its own, as a signature that is begun has.
KeyIInv ==
  /\ KeyTypes
  /\ \A h \in begun : key[object[h]].sign /\ Alone(h)
  /\ \A h \in PrivateKeys : use[h].op \in {"decrypt", "sign"} => Alone(h)

\* There is an object left for a clone, since two PrivateKeys share one.
LEMMA SomeIsFree ==
  ASSUME object \in [PrivateKeys -> Objects], NEW h \in PrivateKeys, ~Alone(h)
  PROVE  \E n \in Objects : \A g \in PrivateKeys : object[g] # n
<1> SUFFICES ASSUME \A n \in Objects : \E g \in PrivateKeys : object[g] = n
             PROVE  FALSE
  OBVIOUS
<1>1. object \in Surjection(PrivateKeys, Objects)
  BY DEF Surjection
<1>2. IsFiniteSet(PrivateKeys) /\ Cardinality(PrivateKeys) \in Nat
  BY KeyAssumption, FS_CardinalityType
<1>3. Cardinality(Objects) = Cardinality(PrivateKeys)
  BY <1>2, FS_Interval DEF Objects
<1>4. object \in Injection(PrivateKeys, Objects)
  BY <1>1, <1>2, <1>3, FS_SurjSameCardinalityImpliesInj
<1>5. QED
  BY <1>4 DEF Injection, IsInjective, Alone

\* A use of h gives it an object of its own, and nobody else's changes.
LEMMA DetachedAlone ==
  ASSUME KeyTypes, NEW h \in PrivateKeys
  PROVE  /\ Detached(h)[1] \in Objects /\ Detached(h)[2] \in [Objects -> KeyObject]
         /\ \A g \in PrivateKeys \ {h} : object[g] # Detached(h)[1]
         /\ \A n \in Objects \ {Detached(h)[1]} : Detached(h)[2][n] = key[n]
         /\ Alone(h) => Detached(h)[1] = object[h] /\ Detached(h)[2] = key
<1> DEFINE free == Objects \ {object[g] : g \in PrivateKeys}
           o == CHOOSE n \in free : TRUE
           clone == [Fresh EXCEPT !.priv = key[object[h]].priv]
<1>1. object \in [PrivateKeys -> Objects] /\ key \in [Objects -> KeyObject]
  BY DEF KeyTypes
<1>2. CASE Alone(h)
  <2>1. Detached(h) = <<object[h], key>>
    BY <1>2 DEF Detached, Alone
  <2>2. QED
    BY <1>1, <1>2, <2>1 DEF Alone
<1>3. CASE ~Alone(h)
  <2>1. Detached(h) = <<o, [key EXCEPT ![o] = clone]>>
    BY <1>3 DEF Detached, Alone
  <2>2. free # {}
    BY <1>1, <1>3, SomeIsFree
  <2>3. o \in free
    BY <2>2
  <2>4. o \in Objects /\ \A g \in PrivateKeys : object[g] # o
    BY <2>3
  <2>5. clone \in KeyObject
    BY <1>1 DEF Fresh, KeyObject
  <2> HIDE DEF free, o, clone
  <2>6. QED
    BY <1>1, <1>3, <2>1, <2>4, <2>5
<1>4. QED
  BY <1>2, <1>3

LEMMA KeyInitOK == KeyInit => KeyIInv
<1> SUFFICES ASSUME KeyInit PROVE KeyIInv
  OBVIOUS
<1>1. ASSUME NEW h \in PrivateKeys PROVE 1 \in Objects
  <2>1. Cardinality(PrivateKeys) \in Nat /\ Cardinality(PrivateKeys) # 0
    BY KeyAssumption, FS_CardinalityType, FS_EmptySet
  <2>2. QED
    BY <2>1 DEF Objects
<1>2. object \in [PrivateKeys -> Objects]
  BY <1>1 DEF KeyInit
<1>3. /\ Fresh \in KeyObject /\ NoUse \in KeyUse
      /\ Closed \in [file : BOOLEAN, asks : BOOLEAN, timeout : Nat \cup {Never}, open : BOOLEAN]
  BY DEF Fresh, KeyObject, NoUse, KeyUse, Closed
<1>4. KeyTypes
  BY <1>2, <1>3 DEF KeyInit, KeyTypes
<1>5. QED
  BY <1>4 DEF KeyIInv, KeyInit, NoUse

\* What a step of one PrivateKey h has to be for the others to go on: it moves to an object
\* that nobody has, or stays, and changes no other object.
LEMMA OthersGoOn ==
  ASSUME KeyIInv, NEW h \in PrivateKeys, NEW o \in Objects,
         object' = [object EXCEPT ![h] = o], \A g \in PrivateKeys \ {h} : object[g] # o,
         \A n \in Objects \ {o} : key'[n] = key[n],
         begun' \ {h} = begun \ {h}, begun' \subseteq PrivateKeys,
         h \in begun' => key'[o].sign,
         \A g \in PrivateKeys \ {h} : use'[g] = use[g],
         KeyTypes'
  PROVE  KeyIInv'
<1>1. object \in [PrivateKeys -> Objects]
  BY DEF KeyIInv, KeyTypes
<1>2. object'[h] = o /\ \A g \in PrivateKeys \ {h} : object'[g] = object[g]
  BY <1>1
<1>3. Alone(h)'
  BY <1>2 DEF Alone
<1>4. ASSUME NEW g \in PrivateKeys \ {h}, Alone(g) PROVE Alone(g)'
  BY <1>2, <1>4 DEF Alone
<1>5. ASSUME NEW g \in begun' PROVE key'[object'[g]].sign /\ Alone(g)'
  <2>1. CASE g = h
    BY <1>2, <1>3, <1>5, <2>1
  <2>2. CASE g # h
    <3>1. g \in begun /\ g \in PrivateKeys \ {h}
      BY <1>5, <2>2
    <3>2. key[object[g]].sign /\ Alone(g)
      BY <3>1 DEF KeyIInv
    <3>3. QED
      BY <1>1, <1>2, <1>4, <3>1, <3>2
  <2>3. QED
    BY <2>1, <2>2
<1>6. ASSUME NEW g \in PrivateKeys, use'[g].op \in {"decrypt", "sign"} PROVE Alone(g)'
  BY <1>3, <1>4, <1>6 DEF KeyIInv
<1>7. QED
  BY <1>5, <1>6 DEF KeyIInv

LEMMA UseStep ==
  ASSUME KeyIInv, NEW h \in PrivateKeys, NEW op \in {"decrypt", "sign"}, Use(h, op)
  PROVE  KeyIInv'
<1> DEFINE o == Detached(h)[1]
           detached == Detached(h)[2]
           k == Expires(detached[o])
<1>1. /\ KeyTypes /\ object \in [PrivateKeys -> Objects] /\ use \in [PrivateKeys -> KeyUse]
      /\ begun \subseteq PrivateKeys
  BY DEF KeyIInv, KeyTypes
<1>2. /\ o \in Objects /\ detached \in [Objects -> KeyObject]
      /\ \A g \in PrivateKeys \ {h} : object[g] # o
      /\ \A n \in Objects \ {o} : detached[n] = key[n]
      /\ h \in begun => detached[o].sign
  <2>1. h \in begun => Alone(h) /\ key[object[h]].sign
    BY DEF KeyIInv
  <2>2. QED
    BY <1>1, <2>1, DetachedAlone
<1>3. k \in KeyObject /\ k.sign = detached[o].sign
  BY <1>2 DEF Expires, KeyObject
<1>4. /\ object' = [object EXCEPT ![h] = o] /\ UNCHANGED <<entry, now>>
      /\ \/ /\ key' = [detached EXCEPT ![o] = Granted(k, op)]
            /\ begun' = Begins(h, op) /\ use' = use
         \/ /\ key' = [detached EXCEPT ![o] = k]
            /\ use' = [use EXCEPT ![h] = [NoUse EXCEPT !.op = op, !.pc = "file"]]
            /\ begun' = begun
  BY DEF Use
<1> HIDE DEF o, detached, k
<1>5. /\ Granted(k, op) \in KeyObject /\ Begins(h, op) \ {h} = begun \ {h}
      /\ Begins(h, op) \subseteq PrivateKeys
      /\ h \in Begins(h, op) => Granted(k, op).sign
  BY <1>1, <1>2, <1>3 DEF Granted, Begins, KeyObject
<1>6. [NoUse EXCEPT !.op = op, !.pc = "file"] \in KeyUse
  BY DEF NoUse, KeyUse
<1>7. KeyTypes'
  BY <1>1, <1>2, <1>3, <1>4, <1>5, <1>6 DEF KeyTypes
<1>8. /\ \A n \in Objects \ {o} : key'[n] = key[n]
      /\ begun' \ {h} = begun \ {h} /\ begun' \subseteq PrivateKeys
      /\ h \in begun' => key'[o].sign
      /\ \A g \in PrivateKeys \ {h} : use'[g] = use[g]
  BY <1>1, <1>2, <1>3, <1>4, <1>5
<1>9. QED
  BY <1>2, <1>4, <1>7, <1>8, OthersGoOn

LEMMA UpdateOrEndStep ==
  ASSUME KeyIInv, NEW h \in PrivateKeys, Update(h) \/ EndSign(h)
  PROVE  KeyIInv'
<1>1. /\ KeyTypes /\ object \in [PrivateKeys -> Objects] /\ key \in [Objects -> KeyObject]
      /\ begun \subseteq PrivateKeys
  BY DEF KeyIInv, KeyTypes
<1>2. h \in begun /\ Alone(h) /\ key[object[h]].sign
  BY DEF Update, EndSign, KeyIInv
<1>3. Detached(h)[1] = object[h] /\ Detached(h)[2] = key
  BY <1>1, <1>2, DetachedAlone
<1>4. /\ object' = [object EXCEPT ![h] = object[h]] /\ UNCHANGED <<entry, now, use>>
      /\ \/ key' = key /\ begun' = begun
         \/ key' = [key EXCEPT ![object[h]].sign = FALSE] /\ begun' = begun \ {h}
  BY <1>3 DEF Update, EndSign
<1>5. KeyTypes'
  <2>1. object' = object /\ begun' \subseteq PrivateKeys
    BY <1>1, <1>4
  <2>2. key' \in [Objects -> KeyObject]
    <3>1. CASE key' = key
      BY <1>1, <3>1
    <3>2. CASE key' = [key EXCEPT ![object[h]].sign = FALSE]
      BY <1>1, <3>2 DEF KeyObject
    <3>3. QED
      BY <1>4, <3>1, <3>2
  <2>3. QED
    BY <1>1, <1>4, <2>1, <2>2 DEF KeyTypes
<1>6. /\ object[h] \in Objects /\ \A g \in PrivateKeys \ {h} : object[g] # object[h]
      /\ \A n \in Objects \ {object[h]} : key'[n] = key[n]
      /\ begun' \ {h} = begun \ {h} /\ begun' \subseteq PrivateKeys
      /\ h \in begun' => key'[object[h]].sign
  BY <1>1, <1>2, <1>4 DEF Alone
<1>7. QED
  BY <1>4, <1>5, <1>6, OthersGoOn

\* A step that moves no object and begins and ends no signature.
LEMMA NobodyMoves ==
  ASSUME KeyIInv, object' = object, \A n \in Objects : key'[n].sign = key[n].sign,
         begun' = begun, KeyTypes',
         \A g \in PrivateKeys : use'[g].op \in {use[g].op, "none", "access"}
  PROVE  KeyIInv'
<1>1. \A g \in PrivateKeys : Alone(g) => Alone(g)'
  BY DEF Alone
<1>2. QED
  BY <1>1 DEF KeyIInv, KeyTypes

LEMMA EnsureAccessStep ==
  ASSUME KeyIInv, NEW h \in PrivateKeys, EnsureAccess(h)
  PROVE  KeyIInv'
<1>1. KeyTypes /\ [NoUse EXCEPT !.op = "access", !.pc = "file"] \in KeyUse
  BY DEF KeyIInv, NoUse, KeyUse
<1>2. /\ use' = [use EXCEPT ![h] = [NoUse EXCEPT !.op = "access", !.pc = "file"]]
      /\ UNCHANGED <<entry, now, object, key, begun>>
  BY DEF EnsureAccess
<1>3. [NoUse EXCEPT !.op = "access", !.pc = "file"].op = "access"
  BY DEF NoUse
<1>4. KeyTypes' /\ \A g \in PrivateKeys : use'[g].op \in {use[g].op, "none", "access"}
  BY <1>1, <1>2, <1>3 DEF KeyTypes
<1>5. QED
  BY <1>2, <1>4, NobodyMoves

LEMMA PromptStep ==
  ASSUME KeyIInv, "sign" \notin Declines, NEW h \in PrivateKeys,
         FindFile(h) \/ Decline(h) \/ \E right \in BOOLEAN : Answer(h, right)
  PROVE  KeyIInv'
<1>1. KeyTypes /\ NoUse \in KeyUse /\ NoUse.op = "none"
  BY DEF KeyIInv, NoUse, KeyUse
<1>2. UNCHANGED <<entry, now, object, key, begun>>
  BY DEF FindFile, Decline, Answer, Begins
<1>3. CASE FindFile(h)
  <2>1. PICK where \in {"askFile", "askPassphrase", "read"}, right \in BOOLEAN :
          use' = [use EXCEPT ![h].pc = where, ![h].right = right]
    <3>1. use' = [use EXCEPT ![h].pc = IF ~reachable THEN "askFile"
                                       ELSE IF entry.asks THEN "askPassphrase" ELSE "read",
                             ![h].right = ~entry.asks]
      BY <1>3 DEF FindFile
    <3>2. QED
      BY <3>1
  <2>2. KeyTypes' /\ \A g \in PrivateKeys : use'[g].op \in {use[g].op, "none", "access"}
    BY <1>1, <1>2, <2>1 DEF KeyTypes, KeyUse
  <2>3. QED
    BY <1>2, <2>2, NobodyMoves
<1>4. CASE Decline(h)
  <2>1. use' = [use EXCEPT ![h] = NoUse]
    BY <1>4 DEF Decline
  <2>2. KeyTypes' /\ \A g \in PrivateKeys : use'[g].op \in {use[g].op, "none", "access"}
    BY <1>1, <1>2, <2>1 DEF KeyTypes
  <2>3. QED
    BY <1>2, <2>2, NobodyMoves
<1>5. ASSUME NEW right \in BOOLEAN, Answer(h, right) PROVE KeyIInv'
  <2>1. PICK where \in {"file", "read"} : use' = [use EXCEPT ![h].pc = where, ![h].right = right]
    BY <1>1, <1>5 DEF Answer, KeyTypes
  <2>2. KeyTypes' /\ \A g \in PrivateKeys : use'[g].op \in {use[g].op, "none", "access"}
    BY <1>1, <1>2, <2>1 DEF KeyTypes, KeyUse
  <2>3. QED
    BY <1>2, <2>2, NobodyMoves
<1>6. QED
  BY <1>3, <1>4, <1>5

LEMMA ReadStep ==
  ASSUME KeyIInv, NEW h \in PrivateKeys, Read(h)
  PROVE  KeyIInv'
<1> DEFINE o == object[h]
           op == use[h].op
           read == [key[o] EXCEPT
                      !.priv = TRUE, !.due = IF entry.timeout = Never THEN @ ELSE now + entry.timeout]
<1>1. /\ KeyTypes /\ object \in [PrivateKeys -> Objects] /\ key \in [Objects -> KeyObject]
      /\ use \in [PrivateKeys -> KeyUse] /\ begun \subseteq PrivateKeys
      /\ now \in Nat /\ entry.timeout \in Nat \cup {Never}
  BY DEF KeyIInv, KeyTypes
<1>2. o \in Objects /\ key[o] \in KeyObject
  BY <1>1
<1>3. read \in KeyObject /\ read.sign = key[o].sign
  <2>1. (IF entry.timeout = Never THEN key[o].due ELSE now + entry.timeout) \in Nat
    BY <1>1, <1>2 DEF KeyObject
  <2>2. QED
    BY <1>2, <2>1 DEF KeyObject
<1>4. /\ object' = object /\ UNCHANGED <<entry, now>>
      /\ \/ /\ key' = IF op = "access" THEN key ELSE [key EXCEPT ![o] = Granted(read, op)]
            /\ use' = [use EXCEPT ![h] = NoUse] /\ begun' = Begins(h, op)
         \/ use' = [use EXCEPT ![h].pc = "file"] /\ UNCHANGED <<key, begun>>
  BY DEF Read
<1> HIDE DEF read
<1>5. NoUse \in KeyUse /\ NoUse.op = "none"
  BY DEF NoUse, KeyUse
<1>6. CASE use' = [use EXCEPT ![h].pc = "file"] /\ UNCHANGED <<key, begun>>
  <2>1. KeyTypes' /\ \A g \in PrivateKeys : use'[g].op \in {use[g].op, "none", "access"}
    BY <1>1, <1>4, <1>6 DEF KeyTypes, KeyUse
  <2>2. QED
    BY <1>4, <1>6, <2>1, NobodyMoves
<1>7. CASE /\ key' = IF op = "access" THEN key ELSE [key EXCEPT ![o] = Granted(read, op)]
           /\ use' = [use EXCEPT ![h] = NoUse] /\ begun' = Begins(h, op)
  <2>1. Granted(read, op) \in KeyObject
    BY <1>3 DEF Granted, KeyObject
  <2>2. Begins(h, op) \subseteq PrivateKeys
    BY <1>1 DEF Begins
  <2>3. KeyTypes'
    BY <1>1, <1>2, <1>4, <1>5, <1>7, <2>1, <2>2 DEF KeyTypes
  <2>4. CASE op = "sign"
    <3>1. \A g \in PrivateKeys \ {h} : object[g] # o
      BY <2>4 DEF KeyIInv, Alone
    <3>2. /\ object' = [object EXCEPT ![h] = o]
          /\ \A n \in Objects \ {o} : key'[n] = key[n]
          /\ begun' \ {h} = begun \ {h} /\ begun' \subseteq PrivateKeys
          /\ \A g \in PrivateKeys \ {h} : use'[g] = use[g]
      BY <1>1, <1>4, <1>7, <2>2, <2>4 DEF Begins
    <3>3. key'[o].sign
      BY <1>1, <1>2, <1>3, <1>7, <2>4 DEF Granted, KeyObject
    <3>4. QED
      BY <1>2, <2>3, <3>1, <3>2, <3>3, OthersGoOn
  <2>5. CASE op # "sign"
    <3>1. begun' = begun /\ Granted(read, op) = read
      BY <1>7, <2>5 DEF Begins, Granted
    <3>2. \A n \in Objects : key'[n].sign = key[n].sign
      BY <1>1, <1>2, <1>3, <1>7, <3>1
    <3>3. \A g \in PrivateKeys : use'[g].op \in {use[g].op, "none", "access"}
      BY <1>1, <1>5, <1>7
    <3>4. QED
      BY <1>4, <2>3, <3>1, <3>2, <3>3, NobodyMoves
  <2>6. QED
    BY <2>4, <2>5
<1>8. QED
  BY <1>4, <1>6, <1>7

LEMMA CopyStep ==
  ASSUME KeyIInv, Midway = FALSE, NEW h \in PrivateKeys, NEW g \in PrivateKeys, Copy(h, g)
  PROVE  KeyIInv'
<1>1. /\ KeyTypes /\ object \in [PrivateKeys -> Objects] /\ key \in [Objects -> KeyObject]
      /\ begun \subseteq PrivateKeys /\ NoUse.op = "none"
  BY DEF KeyIInv, KeyTypes, NoUse
<1>2. /\ object' = [object EXCEPT ![h] = object[g]] /\ begun' = begun \ {h}
      /\ key' = [o \in Objects |-> IF \E i \in PrivateKeys : object'[i] = o THEN key[o] ELSE Fresh]
      /\ UNCHANGED <<entry, now, use>>
      /\ use[h] = NoUse /\ use[g] = NoUse /\ g \notin begun
  BY DEF Copy
<1>3. Fresh \in KeyObject
  BY DEF Fresh, KeyObject
<1>4. KeyTypes'
  BY <1>1, <1>2, <1>3 DEF KeyTypes
<1>5. ASSUME NEW i \in PrivateKeys \ {g, h}, Alone(i)
      PROVE  Alone(i)' /\ object'[i] = object[i] /\ key'[object'[i]] = key[object[i]]
  BY <1>1, <1>2, <1>5 DEF Alone
<1>6. \A i \in begun' : i \in begun /\ i \in PrivateKeys \ {g, h}
  BY <1>1, <1>2
<1>7. \A i \in PrivateKeys : use'[i].op \in {"decrypt", "sign"} => i \notin {g, h}
  BY <1>1, <1>2
<1>8. QED
  BY <1>2, <1>4, <1>5, <1>6, <1>7 DEF KeyIInv

LEMMA EntryStep ==
  ASSUME KeyIInv, Open \/ Tick \/ Medium \/ UNCHANGED keyVars
  PROVE  KeyIInv'
<1>1. KeyTypes /\ UNCHANGED <<object, key, use, begun>>
  BY DEF KeyIInv, Open, Tick, Medium, keyVars
<1>2. /\ now' \in Nat
      /\ entry' \in [file : BOOLEAN, asks : BOOLEAN, timeout : Nat \cup {Never}, open : BOOLEAN]
  <2>1. CASE Open
    BY <1>1, <2>1, KeyAssumption DEF KeyTypes, Open, Never
  <2>2. CASE ~Open
    BY <1>1, <2>2 DEF KeyTypes, Tick, Medium, keyVars
  <2>3. QED
    BY <2>1, <2>2
<1>3. KeyTypes'
  BY <1>1, <1>2 DEF KeyTypes
<1>4. QED
  BY <1>1, <1>3, NobodyMoves

\* For any number of PrivateKeys of an entry, as long as none is copied while it signs, and a
\* refused startSign() counts as not begun: a signature keeps the key it began with, and an
\* object of its own.
THEOREM SignaturesStand ==
  ASSUME "sign" \notin Declines, Midway = FALSE
  PROVE  KeySpec => []SigningStands
<1>1. KeyIInv /\ [KeyNext]_keyVars => KeyIInv'
  BY UseStep, UpdateOrEndStep, EnsureAccessStep, PromptStep, ReadStep, CopyStep, EntryStep
  DEF KeyNext
<1>2. KeyIInv => SigningStands
  BY DEF KeyIInv, KeyTypes, KeyObject, Alone, SigningStands, KeyTypeOK
<1>3. QED
  BY <1>1, <1>2, KeyInitOK, PTL DEF KeySpec
=============================================================================
