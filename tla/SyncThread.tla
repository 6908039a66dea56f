----------------------------- MODULE SyncThread -----------------------------
(***************************************************************************)
(* SyncThread (src/src/support/syncthread.cpp): an owner starts and stops  *)
(* a worker thread, callers run methods in it.  start(), stop() and call() *)
(* all sleep on the one wait condition w under the one mutex m, and the    *)
(* worker wakes one sleeper.  KeyStoreThread (src/src/qca_keystore.cpp)    *)
(* adds call_mutex, so that only one trackercall() is inside call().       *)
(*                                                                         *)
(* A section that takes m and gives it back, or sleeps on w, is one        *)
(* action, enabled when m is free.  The two places that hold m for longer  *)
(* are shown by m: the worker from run() until agent_started(), the owner  *)
(* while stop() waits for the thread to finish.                            *)
(***************************************************************************)
EXTENDS Naturals, Sequences

CONSTANTS
  Callers,       \* the threads that use trackercall()
  None

ASSUME NoneAssumption == None \notin Callers

VARIABLES
  m,             \* who holds the mutex over several steps: "free", "worker", "owner"
  call_mutex,    \* the caller that holds it, or None
  owner,         \* where the owner's thread is
  caller,        \* where each caller's thread is
  worker,        \* where the worker thread is
  loop,          \* the pointers loop and agent are set
  tracker,       \* atStart() has built the object that is called
  events,        \* the posted events of the worker's event loop
  running,       \* the caller whose method the worker runs, or None
  last_ret,      \* the caller whose method's result it is, or None
  got            \* the result each caller returned with

vars == <<m, call_mutex, owner, caller, worker, loop, tracker, events,
          running, last_ret, got>>

started == [type |-> "started"]
quit == [type |-> "quit"]
call_do(c) == [type |-> "call_do", for |-> c]

Init ==
  /\ m = "free"
  /\ call_mutex = None
  /\ owner = "down"
  /\ caller = [c \in Callers |-> "idle"]
  /\ worker = "none"
  /\ loop = FALSE
  /\ tracker = FALSE
  /\ events = <<>>
  /\ running = None
  /\ last_ret = None
  /\ got = [c \in Callers |-> None]

----------------------------------------------------------------------------
(* w.wakeOne(): one of the threads asleep on w, if any, will go on.         *)

WakeOwner ==
  /\ owner \in {"start_wait", "stop_wait"}
  /\ owner' = IF owner = "start_wait" THEN "start_woken" ELSE "stop_woken"
  /\ UNCHANGED caller

WakeCaller ==
  \E c \in Callers :
    /\ caller[c] = "wait"
    /\ caller' = [caller EXCEPT ![c] = "woken"]
    /\ UNCHANGED owner

wakeOne ==
  \/ WakeOwner
  \/ WakeCaller
  \/ /\ owner \notin {"start_wait", "stop_wait"}
     /\ \A c \in Callers : caller[c] # "wait"
     /\ UNCHANGED <<owner, caller>>

----------------------------------------------------------------------------
(* The owner's thread.                                                      *)

start ==
  /\ owner = "down"
  /\ m = "free"
  /\ owner' = "start_wait"
  /\ worker' = "born"
  /\ UNCHANGED <<m, call_mutex, caller, loop, tracker, events, running, last_ret, got>>

start_return ==
  /\ owner = "start_woken"
  /\ m = "free"
  /\ owner' = "up"
  /\ UNCHANGED <<m, call_mutex, caller, worker, loop, tracker, events, running, last_ret, got>>

\* quit is posted to the loop, which lives in the worker thread.  The owner
\* stops the thread only when nobody uses it: KeyStoreManager::shutdown().
stop ==
  /\ owner = "up"
  /\ m = "free"
  /\ loop
  /\ \A c \in Callers : caller[c] = "idle"
  /\ owner' = "stop_wait"
  /\ events' = Append(events, quit)
  /\ UNCHANGED <<m, call_mutex, caller, worker, loop, tracker, running, last_ret, got>>

\* Awake, stop() holds m while it waits for the thread itself to finish.
stop_join ==
  /\ owner = "stop_woken"
  /\ m = "free"
  /\ m' = "owner"
  /\ owner' = "join"
  /\ UNCHANGED <<call_mutex, caller, worker, loop, tracker, events, running, last_ret, got>>

stop_return ==
  /\ owner = "join"
  /\ worker = "finished"
  /\ m' = "free"
  /\ owner' = "down"
  /\ worker' = "none"
  /\ UNCHANGED <<call_mutex, caller, loop, tracker, events, running, last_ret, got>>

----------------------------------------------------------------------------
(* The callers' threads: trackercall().                                     *)

trackercall(c) ==
  /\ owner = "up"
  /\ caller[c] = "idle"
  /\ caller' = [caller EXCEPT ![c] = "blocked"]
  /\ UNCHANGED <<m, call_mutex, owner, worker, loop, tracker, events, running, last_ret, got>>

\* Mutant: call_mutex is not taken.
call_mutex_lockMissing(c) ==
  /\ caller[c] = "blocked"
  /\ caller' = [caller EXCEPT ![c] = "locked"]
  /\ UNCHANGED <<m, call_mutex, owner, worker, loop, tracker, events, running, last_ret, got>>

call_mutex_lock(c) ==
  /\ caller[c] = "blocked"
  /\ call_mutex = None
  /\ call_mutex' = c
  /\ caller' = [caller EXCEPT ![c] = "locked"]
  /\ UNCHANGED <<m, owner, worker, loop, tracker, events, running, last_ret, got>>

\* call() posts call_do to the agent and sleeps.
call(c) ==
  /\ caller[c] = "locked"
  /\ m = "free"
  /\ events' = Append(events, call_do(c))
  /\ caller' = [caller EXCEPT ![c] = "wait"]
  /\ UNCHANGED <<m, call_mutex, owner, worker, loop, tracker, running, last_ret, got>>

call_return(c) ==
  /\ caller[c] = "woken"
  /\ m = "free"
  /\ got' = [got EXCEPT ![c] = last_ret]
  /\ last_ret' = None
  /\ caller' = [caller EXCEPT ![c] = "idle"]
  /\ call_mutex' = None
  /\ UNCHANGED <<m, owner, worker, loop, tracker, events, running>>

----------------------------------------------------------------------------
(* The worker thread.                                                       *)

\* run(), up to loop->exec(): the new agent posts `started' to itself.
run ==
  /\ worker = "born"
  /\ m = "free"
  /\ m' = "worker"
  /\ loop' = TRUE
  /\ events' = <<started>>
  /\ worker' = "exec"
  /\ UNCHANGED <<call_mutex, owner, caller, tracker, running, last_ret, got>>

\* Mutant: the event stays in the queue.
ReceivedAgain(event) ==
  /\ worker = "exec"
  /\ events # <<>>
  /\ Head(events) = event
  /\ UNCHANGED events

Received(event) ==
  /\ worker = "exec"
  /\ events # <<>>
  /\ Head(events) = event
  /\ events' = Tail(events)

\* Mutant: the owner is woken before atStart().
agent_startedEarly ==
  /\ Received(started)
  /\ wakeOne
  /\ m' = "free"
  /\ UNCHANGED <<call_mutex, worker, loop, tracker, running, last_ret, got>>

agent_started ==
  /\ Received(started)
  /\ tracker' = TRUE
  /\ wakeOne
  /\ m' = "free"
  /\ UNCHANGED <<call_mutex, worker, loop, running, last_ret, got>>

\* SyncThreadAgent::call_do runs the method without holding m ...
agent_call_do(c) ==
  /\ Received(call_do(c))
  /\ running' = c
  /\ worker' = "call"
  /\ UNCHANGED <<m, call_mutex, owner, caller, loop, tracker, last_ret, got>>

\* ... and call_ret takes it to hand over the result.
agent_call_ret ==
  /\ worker = "call"
  /\ m = "free"
  /\ last_ret' = running
  /\ running' = None
  /\ worker' = "exec"
  /\ wakeOne
  /\ UNCHANGED <<m, call_mutex, loop, tracker, events, got>>

exec_quit ==
  /\ Received(quit)
  /\ worker' = "end"
  /\ UNCHANGED <<m, call_mutex, owner, caller, loop, tracker, running, last_ret, got>>

\* The rest of run(): atEnd(), the agent is deleted with its posted events.
run_end ==
  /\ worker = "end"
  /\ m = "free"
  /\ tracker' = FALSE
  /\ loop' = FALSE
  /\ events' = <<>>
  /\ worker' = "finished"
  /\ wakeOne
  /\ UNCHANGED <<m, call_mutex, running, last_ret, got>>

----------------------------------------------------------------------------
Owner == start \/ start_return \/ stop \/ stop_join \/ stop_return

Caller(c) == trackercall(c) \/ call_mutex_lock(c) \/ call(c) \/ call_return(c)

Worker ==
  \/ run \/ agent_started \/ agent_call_ret \/ exec_quit \/ run_end
  \/ \E c \in Callers : agent_call_do(c)

Next == Owner \/ Worker \/ \E c \in Callers : Caller(c)

Spec == Init /\ [][Next]_vars

(* The scheduler runs every thread that is not blocked.  The owner need not *)
(* start or stop the thread, nor a caller call; which of several threads    *)
(* gets call_mutex next is up to the system, and one may wait forever.      *)
Fairness ==
  /\ WF_vars(Worker)
  /\ WF_vars(start_return \/ stop_join \/ stop_return)
  /\ \A c \in Callers : WF_vars(call(c) \/ call_return(c))

FairSpec == Spec /\ Fairness

----------------------------------------------------------------------------
(* Properties.                                                              *)

TypeOK ==
  /\ m \in {"free", "worker", "owner"}
  /\ call_mutex \in Callers \cup {None}
  /\ owner \in {"down", "start_wait", "start_woken", "up", "stop_wait", "stop_woken", "join"}
  /\ caller \in [Callers -> {"idle", "blocked", "locked", "wait", "woken"}]
  /\ worker \in {"none", "born", "exec", "call", "end", "finished"}
  /\ loop \in BOOLEAN /\ tracker \in BOOLEAN
  /\ loop <=> worker \in {"exec", "call", "end"}
  /\ events \in Seq({started, quit} \cup {call_do(c) : c \in Callers})
  /\ running \in Callers \cup {None}
  /\ last_ret \in Callers \cup {None}
  /\ got \in [Callers -> Callers \cup {None}]

\* A call returns the result of its own method, not that of a call that
\* another thread has in progress, though last_ret and w are shared.
OwnResult == \A c \in Callers : got[c] \in {c, None}

\* A wakeup is never given to the wrong thread: whoever the worker has to
\* wake is asleep on w alone, so that wakeOne() cannot miss it.
OneSleeper ==
  \A c, d \in Callers :
    /\ caller[c] = "wait" /\ caller[d] \in {"wait", "woken"} => c = d
    /\ caller[c] = "wait" => owner = "up"

\* The worker never has to wait for m while the owner, holding m, waits for
\* the worker to finish.
NoJoinDeadlock == owner = "join" => worker = "finished"

----------------------------------------------------------------------------
(* SyncThread implements RemoteCall: a caller asks when it has call_mutex,  *)
(* and its method is run from the start of call_do until call() returns.    *)
requestPhase ==
  [c \in Callers |->
     IF caller[c] \in {"idle", "blocked"} THEN "idle"
     ELSE IF running = c \/ last_ret = c THEN "run" ELSE "asked"]

ownerPhase ==
  CASE owner \in {"start_wait", "start_woken"} -> "starting"
    [] owner \in {"stop_wait", "stop_woken", "join"} -> "stopping"
    [] OTHER -> owner

Promise == INSTANCE RemoteCall WITH phase <- ownerPhase, ready <- tracker, request <- requestPhase

\* Every step of the threads is a step that RemoteCall allows.
ImplementsRemoteCall == Promise!Spec

\* Under fair scheduling start(), stop() and every call return.
AllReturn == Promise!Returns
=============================================================================
