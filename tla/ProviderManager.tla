-------------------------- MODULE ProviderManager --------------------------
(***************************************************************************)
(* The providers of the library: ProviderManager (qca_plugin.cpp) and the   *)
(* functions of qca_core.cpp by which threads load, scan, order, choose and *)
(* unload providers.  A step of a thread is what it does with one mutex:    *)
(* scan_mutex and providerMutex are taken and given back inside a step, the *)
(* mutex of a ProviderItem is held while its provider is initialized, and   *)
(* rng_mutex while the global Random is made.                               *)
(*                                                                         *)
(* A provider is known by its name.  A plugin file is a number, its place   *)
(* in the directory, and offers the provider Offers[file]; files appear on  *)
(* disk at any time.  unloadAllPlugins() takes no mutex of the manager:     *)
(* UnloadAlone says that it is called when no other thread is using the     *)
(* library.  When it is not, a thread that holds a provider or an item that *)
(* is deleted is "lost": what it does next is undefined.                    *)
(***************************************************************************)
EXTENDS Integers, FiniteSets, SequencesExt

CONSTANTS
    Threads,
    Providers,     \* names, without that of the default provider
    Types, Random, \* types of context, and the one that global_random() wants
    Features,      \* Features[p]: the types provider p can create
    DefaultTypes,  \* the types of the default provider
    Files, Offers, \* plugin files and the provider each offers
    Skipped,       \* skip_plugins of the configuration
    Config,        \* plugin_priorities: a priority, or -1, for each provider
    Direct,        \* providers the application may add with insertProvider()
    Priorities,    \* the priorities it passes, -1 included
    UnloadAlone,
    MaxCalls, MaxUnloads  \* bounds: calls of threads; calls of unloadAllPlugins()

NoProvider == "none"
Default == "default"

ASSUME ManagerAssumption ==
    /\ Features \in [Providers -> SUBSET Types] /\ DefaultTypes \subseteq Types
    /\ Random \in DefaultTypes
    /\ IsFiniteSet(Files) /\ Files = 1 .. Cardinality(Files)
    /\ Offers \in [Files -> Providers] /\ Skipped \subseteq Providers
    /\ Config \in [Providers -> Int] /\ Direct \subseteq Providers /\ Priorities \subseteq Int
    /\ UnloadAlone \in BOOLEAN /\ MaxCalls \in Nat /\ MaxUnloads \in Nat
    /\ {NoProvider, Default} \cap Providers = {} /\ NoProvider \notin Threads

VARIABLES
    first_scan,
    items,        \* providerItemList: [name, file, priority]
    list,         \* providerList: names
    disk,         \* the plugin files there are
    init_done, initted,  \* providers whose init() has begun, and has returned
    m,            \* m[p]: the thread in ensureInit() of p
    rng, rng_mutex,      \* provider of the global Random; the mutex's holder
    pc, call,     \* where each thread is, and what it is doing
    unloading,    \* where unloadAllPlugins() is
    deinitted,    \* providers whose deinit() has been called
    calls, unloads       \* counters for the bounds

manager == << first_scan, items, list >>
inits == << init_done, initted, m >>
global == << rng, rng_mutex >>
thread == << pc, call, calls >>
unload == << unloading, deinitted, unloads >>
vars == << manager, disk, inits, global, thread, unload >>

(* What a call wants; known: the providers it could find when it began;      *)
(* scanned, left: locals of getProviderForType() and findFor();              *)
(* seen: the whole of the list that was copied or searched.                  *)
Call(kind, type, name, priority) ==
    [kind |-> kind, type |-> type, name |-> name, priority |-> priority,
     known |-> {}, scanned |-> FALSE, left |-> <<>>, seen |-> <<>>, p |-> NoProvider]

Idle == Call("none", Random, NoProvider, 0)

Init ==
    /\ first_scan = FALSE /\ items = <<>> /\ list = <<>>
    /\ disk \in SUBSET Files
    /\ init_done = {} /\ initted = {} /\ m = [p \in Providers |-> NoProvider]
    /\ rng = NoProvider /\ rng_mutex = NoProvider
    /\ pc = [t \in Threads |-> "idle"] /\ call = [t \in Threads |-> Idle] /\ calls = 0
    /\ unloading = "no" /\ deinitted = {} /\ unloads = 0

----------------------------------------------------------------------------
(* The list.                                                                 *)

NamesOf(its) == [i \in DOMAIN its |-> its[i].name]
NameSet(its) == {its[i].name : i \in DOMAIN its}

HaveAlready(its, name) == name = Default \/ name \in NameSet(its)

(* The place before the first item with the same or a greater priority.      *)
PlaceFor(its, priority) ==
    CHOOSE n \in 1 .. Len(its) + 1 :
        /\ \A i \in 1 .. n - 1 : its[i].priority < priority
        /\ n <= Len(its) => its[n].priority >= priority

(* addItem(): for -1, at the end with the priority of the last item.         *)
AddItem(its, name, file, priority) ==
    LET Item(given) == [name |-> name, file |-> file, priority |-> given]
    IN  IF priority < 0
        THEN Append(its, Item(IF its = <<>> THEN 0 ELSE Last(its).priority))
        ELSE InsertAt(its, PlaceFor(its, priority), Item(priority))

(* A file is loaded unless it, or its provider, is there already, or the     *)
(* configuration says to skip the provider.                                  *)
LoadFile(its, file) ==
    IF \/ \E i \in DOMAIN its : its[i].file = file
       \/ HaveAlready(its, Offers[file])
       \/ Offers[file] \in Skipped
    THEN its
    ELSE AddItem(its, Offers[file], file, Config[Offers[file]])

(* scan(): all plugin files on disk, in the directory's order.               *)
ScannedTo[n \in {0} \cup Files] ==
    IF n = 0 THEN items
    ELSE IF n \in disk THEN LoadFile(ScannedTo[n - 1], n)
    ELSE ScannedTo[n - 1]

Scanned == ScannedTo[Cardinality(Files)]

(* The two lists are changed together.                                       *)
StoreScan ==
    /\ first_scan' = TRUE
    /\ items' = Scanned /\ list' = NamesOf(Scanned)

----------------------------------------------------------------------------
(* The calls.                                                                *)

Goto(t, step) == pc' = [pc EXCEPT ![t] = step]

Known == NameSet(items) \cup ({Offers[f] : f \in disk} \ Skipped)

Begin(t, c) ==
    /\ pc[t] = "idle" /\ calls < MaxCalls /\ (UnloadAlone => unloading = "no")
    /\ calls' = calls + 1
    /\ call' = [call EXCEPT ![t] = [c EXCEPT !.known = Known]]
    /\ Goto(t, "first")
    /\ UNCHANGED << manager, disk, inits, unload, rng >>

getContext(t, type, name) ==
    Begin(t, Call("get", type, name, 0)) /\ UNCHANGED rng_mutex

(* randomChar() and its like, when there is no global Random yet.            *)
randomChar(t) ==
    /\ rng_mutex = NoProvider /\ rng = NoProvider /\ rng_mutex' = t
    /\ Begin(t, Call("random", Random, NoProvider, 0))

insertProvider(t, p, priority) ==
    Begin(t, Call("insert", Random, p, priority)) /\ UNCHANGED rng_mutex

setProviderPriority(t, p, priority) ==
    Begin(t, Call("set", Random, p, priority)) /\ UNCHANGED rng_mutex

scanForPlugins(t) == Begin(t, Call("scan", Random, NoProvider, 0)) /\ UNCHANGED rng_mutex

(* Every call begins with ensure_first_scan(), but scanForPlugins(), which   *)
(* scans whatever was done before.                                           *)
AfterScan(c) == CASE c.kind = "insert" -> "add"
                  [] c.kind = "set" -> "change"
                  [] c.kind = "scan" -> "made"
                  [] c.kind \in {"get", "random"} /\ c.name # NoProvider -> "named"
                  [] OTHER -> "copy"

(* Mutant: it says that it has scanned whether or not it has.                *)
EnsureFirstScanAlways(t) ==
    /\ pc[t] = "first"
    /\ IF first_scan /\ call[t].kind # "scan" THEN UNCHANGED manager ELSE StoreScan
    /\ call' = [call EXCEPT ![t].scanned = TRUE]
    /\ Goto(t, AfterScan(call[t]))
    /\ UNCHANGED << disk, inits, global, unload, calls >>

EnsureFirstScan(t) ==
    /\ pc[t] = "first"
    /\ IF first_scan /\ call[t].kind # "scan" THEN UNCHANGED manager ELSE StoreScan
    /\ call' = [call EXCEPT ![t].scanned = ~first_scan]
    /\ Goto(t, AfterScan(call[t]))
    /\ UNCHANGED << disk, inits, global, unload, calls >>

(* The scan after a search that found nothing, by name or among all.         *)
Rescan(t) ==
    /\ pc[t] \in {"rescan_named", "rescan_all"}
    /\ StoreScan
    /\ call' = [call EXCEPT ![t].scanned = TRUE]
    /\ Goto(t, IF pc[t] = "rescan_named" THEN "named" ELSE "copy")
    /\ UNCHANGED << disk, inits, global, unload, calls >>

NamedFails(t) == Goto(t, IF call[t].scanned THEN "copy" ELSE "rescan_named")
AllFail(t) == Goto(t, IF call[t].scanned THEN "made" ELSE "rescan_all")

Same == UNCHANGED << manager, disk, inits, global, unload, calls >>

(* find(name); the default provider is initialized by setDefault().          *)
Find(t) ==
    /\ pc[t] = "named" /\ call[t].name \in NameSet(items)
    /\ call' = [call EXCEPT ![t].p = call[t].name]
    /\ Goto(t, "ensure_init")
    /\ Same

FindDefault(t) ==
    /\ pc[t] = "named" /\ call[t].name = Default /\ call[t].type \in DefaultTypes
    /\ call' = [call EXCEPT ![t].p = Default]
    /\ Goto(t, "made")
    /\ Same

FindNothing(t) ==
    /\ pc[t] = "named" /\ call[t].name \notin NameSet(items)
    /\ call[t].name = Default => call[t].type \notin DefaultTypes
    /\ NamedFails(t)
    /\ UNCHANGED call /\ Same

(* findFor("", type) copies the list and walks the copy.                     *)
CopyList(t) ==
    /\ pc[t] = "copy"
    /\ call' = [call EXCEPT ![t].left = NamesOf(items), ![t].seen = NamesOf(items),
                            ![t].name = NoProvider, ![t].p = NoProvider]
    /\ Goto(t, "walk")
    /\ Same

WalkOn(t) ==
    /\ pc[t] = "walk" /\ call[t].left # <<>>
    /\ call' = [call EXCEPT ![t].p = Head(call[t].left),
                            ![t].left = Tail(call[t].left)]
    /\ Goto(t, "ensure_init")
    /\ Same

WalkDefault(t) ==
    /\ pc[t] = "walk" /\ call[t].left = <<>> /\ call[t].type \in DefaultTypes
    /\ call' = [call EXCEPT ![t].p = Default]
    /\ Goto(t, "made")
    /\ Same

WalkFails(t) ==
    /\ pc[t] = "walk" /\ call[t].left = <<>> /\ call[t].type \notin DefaultTypes
    /\ call' = [call EXCEPT ![t].p = NoProvider]
    /\ AllFail(t)
    /\ Same

(* Mutant: init_done is looked at before the mutex is taken.                 *)
EnsureInitUnlocked(t) ==
    LET p == call[t].p
    IN  /\ pc[t] = "ensure_init" /\ (m[p] = NoProvider \/ p \in init_done)
        /\ IF p \in init_done
           THEN Goto(t, "features") /\ UNCHANGED inits
           ELSE /\ init_done' = init_done \cup {p}
                /\ m' = [m EXCEPT ![p] = t]
                /\ Goto(t, "init") /\ UNCHANGED initted
        /\ UNCHANGED << manager, disk, global, unload, call, calls >>

(* ensureInit(): the item's mutex is held from the test of init_done until   *)
(* init() and configChanged() have returned.                                 *)
EnsureInit(t) ==
    LET p == call[t].p
    IN  /\ pc[t] = "ensure_init" /\ m[p] = NoProvider
        /\ IF p \in init_done
           THEN Goto(t, "features") /\ UNCHANGED inits
           ELSE /\ init_done' = init_done \cup {p}
                /\ m' = [m EXCEPT ![p] = t]
                /\ Goto(t, "init") /\ UNCHANGED initted
        /\ UNCHANGED << manager, disk, global, unload, call, calls >>

(* Mutant: the mutex is not given back.                                      *)
InitReturnsLocked(t) ==
    /\ pc[t] = "init"
    /\ initted' = initted \cup {call[t].p}
    /\ Goto(t, "features")
    /\ UNCHANGED << manager, disk, init_done, m, global, unload, call, calls >>

InitReturns(t) ==
    LET p == call[t].p
    IN  /\ pc[t] = "init"
        /\ initted' = initted \cup {p}
        /\ m' = [m EXCEPT ![p] = NoProvider]
        /\ Goto(t, "features")
        /\ UNCHANGED << manager, disk, init_done, global, unload, call, calls >>

(* The test of features(): a walk goes on, a search by name has failed.      *)
Features_(t) ==
    /\ pc[t] = "features"
    /\ IF call[t].type \in Features[call[t].p] THEN Goto(t, "made")
       ELSE IF call[t].name # NoProvider THEN NamedFails(t)
       ELSE Goto(t, "walk")
    /\ UNCHANGED call /\ Same

(* The call is over; the context belongs to the provider that was found.     *)
Return(t) ==
    /\ pc[t] = "made"
    /\ Goto(t, "idle")
    /\ call' = [call EXCEPT ![t] = Idle]
    /\ IF call[t].kind = "random" THEN rng' = call[t].p /\ rng_mutex' = NoProvider
       ELSE UNCHANGED global
    /\ UNCHANGED << manager, disk, inits, unload, calls >>

(* ProviderManager::add().                                                   *)
Add(t) ==
    LET name == call[t].name
    IN  /\ pc[t] = "add"
        /\ IF HaveAlready(items, name) THEN UNCHANGED manager
           ELSE /\ items' = AddItem(items, name, -1, call[t].priority)
                /\ list' = NamesOf(items')
                /\ UNCHANGED first_scan
        /\ call' = [call EXCEPT ![t] = Idle] /\ Goto(t, "idle")
        /\ UNCHANGED << disk, inits, global, unload, calls >>

(* changePriority(): the item is taken out and added again.                  *)
ChangePriority(t) ==
    LET name == call[t].name
        found == {i \in DOMAIN items : items[i].name = name}
    IN  /\ pc[t] = "change"
        /\ IF found = {} THEN UNCHANGED manager
           ELSE LET n == CHOOSE i \in found : \A j \in found : i <= j
                IN  /\ items' = AddItem(RemoveAt(items, n), name, items[n].file,
                                        call[t].priority)
                    /\ list' = NamesOf(items')
                    /\ UNCHANGED first_scan
        /\ call' = [call EXCEPT ![t] = Idle] /\ Goto(t, "idle")
        /\ UNCHANGED << disk, inits, global, unload, calls >>

(* A plugin is installed.                                                    *)
Install(f) ==
    /\ f \notin disk
    /\ disk' = disk \cup {f}
    /\ UNCHANGED << manager, inits, global, thread, unload >>

----------------------------------------------------------------------------
(* unloadAllPlugins(): the global Random of a plugin is deleted, what has    *)
(* been initialized is deinitialized, and the items are deleted in turn.     *)

UnloadRandom ==
    /\ unloading = "no" /\ unloads < MaxUnloads /\ rng_mutex = NoProvider
    /\ UnloadAlone => \A t \in Threads : pc[t] = "idle"
    /\ unloads' = unloads + 1 /\ unloading' = "deinit"
    /\ rng' = IF rng = Default THEN rng ELSE NoProvider
    /\ UNCHANGED << manager, disk, inits, thread, rng_mutex, deinitted >>

(* Mutant: each provider is deinitialized when its turn has come.            *)
DeinitInTurn ==
    /\ unloading = "deinit" /\ unloading' = "delete"
    /\ deinitted' = deinitted \cup (IF items = <<>> THEN {} ELSE {Head(items).name})
    /\ UNCHANGED << manager, disk, inits, global, thread, unloads >>

Deinit ==
    /\ unloading = "deinit" /\ unloading' = "delete"
    /\ deinitted' = deinitted \cup (init_done \cap NameSet(items))
    /\ UNCHANGED << manager, disk, inits, global, thread, unloads >>

Uses(t, p) == \/ p \in ToSet(call[t].left)
              \/ p = call[t].p /\ pc[t] \in {"ensure_init", "init", "features", "made"}
              \/ pc[t] = "lost"

Delete ==
    /\ unloading = "delete" /\ items # <<>>
    /\ LET p == Head(items).name
       IN  /\ items' = Tail(items) /\ list' = Tail(list)
           /\ init_done' = init_done \ {p} /\ initted' = initted \ {p}
           /\ deinitted' = deinitted \ {p}
           /\ m' = [m EXCEPT ![p] = NoProvider]
           /\ pc' = [t \in Threads |-> IF Uses(t, p) THEN "lost" ELSE pc[t]]
    /\ UNCHANGED << first_scan, disk, global, call, calls, unloading, unloads >>

Unloaded ==
    /\ unloading = "delete" /\ items = <<>>
    /\ unloading' = "no"
    /\ UNCHANGED << manager, disk, inits, global, thread, deinitted, unloads >>

----------------------------------------------------------------------------
Names == Providers \cup {Default, NoProvider}

Steps(t) ==
    \/ EnsureFirstScan(t) \/ Rescan(t)
    \/ Find(t) \/ FindDefault(t) \/ FindNothing(t)
    \/ CopyList(t) \/ WalkOn(t) \/ WalkDefault(t) \/ WalkFails(t)
    \/ EnsureInit(t) \/ InitReturns(t) \/ Features_(t) \/ Return(t)
    \/ Add(t) \/ ChangePriority(t)

Next ==
    \/ \E t \in Threads, type \in Types, name \in Names : getContext(t, type, name)
    \/ \E t \in Threads : randomChar(t)
    \/ \E t \in Threads, p \in Direct, priority \in Priorities : insertProvider(t, p, priority)
    \/ \E t \in Threads, p \in Providers, priority \in Priorities :
          setProviderPriority(t, p, priority)
    \/ \E t \in Threads : scanForPlugins(t)
    \/ \E t \in Threads : Steps(t)
    \/ \E f \in Files : Install(f)
    \/ UnloadRandom \/ Deinit \/ Delete \/ Unloaded

Spec == Init /\ [][Next]_vars

----------------------------------------------------------------------------
PCs == {"idle", "first", "rescan_named", "rescan_all", "named", "copy", "walk", "ensure_init",
        "init", "features", "made", "add", "change", "lost"}

(* The type of every variable.                                               *)
TypeOK ==
    /\ first_scan \in BOOLEAN /\ disk \subseteq Files
    /\ items \in Seq([name : Providers, file : Files \cup {-1}, priority : Nat])
    /\ init_done \subseteq Providers /\ initted \subseteq init_done
    /\ m \in [Providers -> Threads \cup {NoProvider}]
    /\ rng \in Names /\ rng_mutex \in Threads \cup {NoProvider}
    /\ pc \in [Threads -> PCs] /\ calls \in 0 .. MaxCalls
    /\ unloading \in {"no", "deinit", "delete"} /\ deinitted \subseteq Providers

(* The list of items is in the order of priorities and names every provider  *)
(* once, and the list that providers() returns is the same list, through     *)
(* additions, changes of priority, scans and unloads (addItem()).            *)
ListsAgree ==
    /\ list = NamesOf(items)
    /\ \A i, j \in DOMAIN items : i < j => /\ items[i].priority <= items[j].priority
                                           /\ items[i].name # items[j].name

Found(t) == pc[t] = "made" /\ call[t].kind \in {"get", "random"}
Able(p, t) == p # NoProvider /\ call[t].type \in IF p = Default THEN DefaultTypes ELSE Features[p]

(* No thread asks a provider for its features or for a context before its    *)
(* init() has returned, though another thread may have begun it.             *)
InitBeforeUse ==
    \A t \in Threads :
        call[t].p \in Providers /\ (pc[t] = "features" \/ Found(t)) => call[t].p \in initted

(* A call that returns nothing is right: no provider that was in the list or *)
(* on disk when it began, and is not to be skipped, can do it.               *)
NoneMeansNone ==
    \A t \in Threads : Found(t) /\ call[t].p = NoProvider
                           => \A p \in call[t].known \cup {Default} : ~Able(p, t)

(* The provider that is nominated is used when it can do it, even one whose  *)
(* plugin was installed after the last scan.                                 *)
NominatedIsUsed ==
    \A t \in Threads : pc[t] = "copy" /\ call[t].name \in call[t].known \cup {Default}
                           => ~Able(call[t].name, t)

(* The provider that is used otherwise comes before every other one of the   *)
(* list that can do it, and the default one is used when there is no other.  *)
FirstAbleIsUsed ==
    \A t \in Threads :
        Found(t) /\ call[t].name = NoProvider =>
            \A i \in DOMAIN call[t].seen :
                Able(call[t].seen[i], t) =>
                    \E j \in 1 .. i : call[t].seen[j] = call[t].p

(* What a call returns is what the nominations and priorities ask for, as    *)
(* of the time of the call, and initialized, while other threads scan, add   *)
(* and reorder.                                                              *)
RightProvider == InitBeforeUse /\ NoneMeansNone /\ NominatedIsUsed /\ FirstAbleIsUsed

(* No provider is deleted while one that has been initialized, and may use   *)
(* it, has not had its deinit(): "deinit() will be called on all providers   *)
(* before any of the providers are destructed" (qca_core.h).                 *)
DeinitBeforeDelete ==
    unloading = "delete" => \A i \in DOMAIN items :
        items[i].name \in init_done => items[i].name \in deinitted

(* The global Random is of a provider that is there.                         *)
RandomIsAlive == rng \in Providers => rng \in NameSet(items)

(* Unloading leaves nothing that refers to what it deletes.                  *)
UnloadsInOrder == DeinitBeforeDelete /\ RandomIsAlive

(* A mutex is held by a thread that goes on: that of an item by the thread  *)
(* that is in its provider's init(), rng_mutex by one that is making the     *)
(* global Random and may itself wait for an item.  So no two threads wait    *)
(* for each other, and a thread waits no longer than an init() takes.        *)
HoldersRun ==
    /\ \A p \in Providers : m[p] # NoProvider => pc[m[p]] = "init" /\ call[m[p]].p = p
    /\ rng_mutex # NoProvider =>
          call[rng_mutex].kind = "random" /\ pc[rng_mutex] \notin {"idle", "lost"}

(* The manager's lists and mutexes fit together whatever the threads do, and *)
(* also while everything is unloaded.                                        *)
Consistent == TypeOK /\ ListsAgree /\ HoldersRun /\ UnloadsInOrder

(* Said of the program and not so: init() "will be called when your plugin   *)
(* is loaded" (qca_core.h); it is called when the provider is first looked   *)
(* at.                                                                       *)
InitWhenLoaded ==
    \A i \in DOMAIN items : items[i].name \in init_done \/ \E t \in Threads : pc[t] # "idle"

(* Said of the program and not so: deinit() is called on all providers       *)
(* "just before provider destruction" (qca_core.h); a provider that was      *)
(* never looked at is deleted without.                                       *)
DeinitAll == unloading = "delete" => NameSet(items) \subseteq deinitted
============================================================================
