------------------------------ MODULE SoftStore ------------------------------
(* The key store of plugins/qca-softstore, which follows the configuration:  *)
(* it gets a new id with every change, so that the tracker takes it for      *)
(* another store.  The tracker's thread and a thread of the application.      *)
EXTENDS Integers

CONSTANTS
  Parallel,  \* whether the thread that reads the list is not the one that configures
  MaxConfig  \* bound

VARIABLES
  config,   \* _config, as the number of changes
  last_id, entries,  \* the configuration that _entries is made of, or Partial
  updating, \* _updateConfig() is running
  posted,   \* the doReady() and doUpdated() events, which do the same to the list
  known,    \* the id of the store in the tracker's list, or 0
  shown,    \* the entries that the application has read
  told      \* the application has been told of the store, and not read it yet

vars == <<config, last_id, entries, updating, posted, known, shown, told>>

Partial == -1

Init ==
  /\ config = 0 /\ last_id = 0 /\ entries = 0 /\ updating = FALSE
  /\ posted = 0 /\ known = 0 /\ shown = 0 /\ told = FALSE

\* _updateConfig(): the id first, the entries one by one, the event at the end.
BeginsUpdate == last_id' = last_id + 1 /\ entries' = Partial
EndsUpdate(n) == entries' = config /\ posted' = posted + n

\* createContext() and start(), in the tracker thread.
CreateContext ==
  /\ last_id = 0
  /\ last_id' = 1
  /\ EndsUpdate(2)
  /\ UNCHANGED <<config, updating, known, shown, told>>

\* configChanged(), in a thread of the application.
ConfigChanged ==
  /\ ~updating /\ config < MaxConfig
  /\ config' = config + 1
  /\ IF last_id = 0 THEN UNCHANGED <<last_id, entries, updating>>
                    ELSE BeginsUpdate /\ updating' = TRUE
  /\ UNCHANGED <<posted, known, shown, told>>

ConfigHasChanged ==
  /\ updating
  /\ updating' = FALSE
  /\ EndsUpdate(1)
  /\ UNCHANGED <<config, last_id, known, shown, told>>

\* busyEnd() and updated() make the tracker ask for keyStores(): another id is
\* another store, which the application is told of.
UpdateStores ==
  /\ posted > 0
  /\ posted' = posted - 1
  /\ known' = last_id
  /\ told' = (told \/ known # last_id)
  /\ UNCHANGED <<config, last_id, entries, updating, shown>>

\* The application reads the list when it is told of the store; it is the thread
\* that changes the configuration unless Parallel.
EntryList ==
  /\ told
  /\ updating => Parallel
  /\ told' = FALSE
  /\ shown' = entries
  /\ UNCHANGED <<config, last_id, entries, updating, posted, known>>

Next ==
  CreateContext \/ ConfigChanged \/ ConfigHasChanged \/ UpdateStores \/ EntryList

\* Both threads go on; nothing makes the application want the store.
Fairness ==
  /\ WF_vars(UpdateStores)
  /\ WF_vars(ConfigHasChanged \/ EntryList)

Spec == Init /\ [][Next]_vars
FairSpec == Spec /\ Fairness

----------------------------------------------------------------------------
TypeOK ==
  /\ entries \in Partial .. MaxConfig /\ shown \in Partial .. MaxConfig
  /\ known \in 0 .. last_id

\* Once the configuration rests, the application shows its entries, though the
\* tracker may look at the list while it is being made.
ListFollows == <>[](last_id = 0 \/ shown = config)
=============================================================================
