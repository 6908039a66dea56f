---------------------------- MODULE Synchronizer ----------------------------
(***************************************************************************)
(* Synchronizer (src/src/support/synchronizer.cpp): waitForCondition()     *)
(* lends an object to a worker thread, which runs an event loop for it     *)
(* until the object calls conditionMet() or the caller's time is up, and   *)
(* gives it back.                                                          *)
(*                                                                         *)
(* Caller and worker sleep on the one wait condition w under the one mutex *)
(* m.  A section that takes m and gives it back, or sleeps on w, is one    *)
(* action, enabled when m is free.  The worker holds m for longer from the *)
(* moment it is awake until its loop has delivered `started'.              *)
(***************************************************************************)
EXTENDS Naturals, Sequences

CONSTANTS
  TimeoutWhen  \* where the worker can be when the caller's time is up

\* "asleep": not yet awake; "running": in its loop; "leaving": past its last
\* look at the queue, but loop is still set.
VARIABLES
  m,         \* "worker" while the worker holds the mutex over several steps, or "free"
  main,      \* where the caller's thread is
  active,    \* start() has been called, and stop() has not returned
  do_quit,
  cond_met,
  timed,     \* msecs # -1 in the current or last waitForCondition()
  result,    \* what the last waitForCondition() returned, or "none"
  home,      \* obj is in the caller's thread, not in the worker's
  worker,    \* where the worker thread is
  loop,      \* the pointer loop is set
  exit,      \* the event loop has been told to quit
  events,    \* its posted events, other than obj's
  due,       \* obj has an event on which it will call conditionMet()
  met,       \* history: conditionMet() has been called in this waitForCondition()
  strayed    \* history: a limit has run out while the worker was not in its loop

progVars == <<m, main, active, do_quit, cond_met, timed, result, home, worker,
              loop, exit, events, due, met>>
vars == <<progVars, strayed>>

Init ==
  /\ m = "free"
  /\ main = "idle"
  /\ active = FALSE
  /\ do_quit = FALSE
  /\ cond_met = FALSE
  /\ timed = FALSE
  /\ result = "none"
  /\ home = TRUE
  /\ worker = "none"
  /\ loop = FALSE
  /\ exit = FALSE
  /\ events = <<>>
  /\ due = FALSE
  /\ met = FALSE
  /\ strayed = FALSE

Bool(b) == IF b THEN "true" ELSE "false"

----------------------------------------------------------------------------
(* w.wakeOne(), by either side: the other one, if asleep, will go on.       *)

WokenMain ==
  CASE main = "start_wait" -> "start_woken"
    [] main \in {"wait", "quit_wait"} -> "woken"
    [] OTHER -> main

WokenWorker == IF worker = "sleep" THEN "awake" ELSE worker

----------------------------------------------------------------------------
(* The caller's thread.                                                     *)

\* waitForCondition() starts the thread if this was not done yet, and waits
\* until it sleeps.
start ==
  /\ main = "idle" /\ ~active
  /\ m = "free"
  /\ active' = TRUE
  /\ do_quit' = FALSE
  /\ worker' = "born"
  /\ main' = "start_wait"
  /\ UNCHANGED <<m, cond_met, timed, result, home, loop, exit, events, due, met>>

\* obj is moved to the worker's thread; the move fails if it is not here.
move ==
  /\ main = "start_woken" \/ (main = "idle" /\ active)
  /\ main = "start_woken" => m = "free"
  /\ timed' \in BOOLEAN
  /\ cond_met' = FALSE
  /\ met' = FALSE
  /\ home' = FALSE
  /\ main' = "moved"
  /\ UNCHANGED <<m, active, do_quit, result, worker, loop, exit, events, due>>

wait ==
  /\ main = "moved"
  /\ m = "free"
  /\ worker' = WokenWorker
  /\ main' = "wait"
  /\ UNCHANGED <<m, active, do_quit, cond_met, timed, result, home, loop, exit, events, due, met>>

WorkerIs ==
  CASE ~loop -> "asleep"
    [] worker = "leaving" -> "leaving"
    [] OTHER -> "running"

\* Mutant: the second wait is missing.
timeout_quitAtOnce ==
  /\ main = "wait" /\ timed
  /\ m = "free"
  /\ WorkerIs \in TimeoutWhen
  /\ loop
  /\ events' = Append(events, "quit")
  /\ main' = "idle"
  /\ result' = Bool(cond_met)
  /\ UNCHANGED <<m, active, do_quit, cond_met, timed, home, worker, loop, exit, due, met>>

\* The time is up and the caller has m.  If the worker is running its loop,
\* the loop is told to quit and the caller waits once more ...
timeout_quit ==
  /\ main = "wait" /\ timed
  /\ m = "free"
  /\ WorkerIs \in TimeoutWhen
  /\ loop
  /\ events' = Append(events, "quit")
  /\ main' = "quit_wait"
  /\ UNCHANGED <<m, active, do_quit, cond_met, timed, result, home, worker, loop, exit, due, met>>

\* ... and otherwise returns.
timeout_return ==
  /\ main = "wait" /\ timed
  /\ m = "free"
  /\ WorkerIs \in TimeoutWhen
  /\ ~loop
  /\ main' = "idle"
  /\ result' = Bool(cond_met)
  /\ UNCHANGED <<m, active, do_quit, cond_met, timed, home, worker, loop, exit, events, due, met>>

return ==
  /\ main = "woken"
  /\ m = "free"
  /\ main' = "idle"
  /\ result' = Bool(cond_met)
  /\ UNCHANGED <<m, active, do_quit, cond_met, timed, home, worker, loop, exit, events, due, met>>

\* The destructor's stop().
stop ==
  /\ main = "idle" /\ active
  /\ m = "free"
  /\ do_quit' = TRUE
  /\ worker' = WokenWorker
  /\ main' = "join"
  /\ UNCHANGED <<m, active, cond_met, timed, result, home, loop, exit, events, due, met>>

\* The next Synchronizer of the same object begins where the first one did.
stop_return ==
  /\ main = "join"
  /\ worker = "finished"
  /\ main' = "idle"
  /\ active' = FALSE
  /\ worker' = "none"
  /\ do_quit' = FALSE
  /\ cond_met' = FALSE
  /\ timed' = FALSE
  /\ result' = "none"
  /\ met' = FALSE
  /\ exit' = FALSE
  /\ events' = <<>>
  /\ UNCHANGED <<m, home, loop, due>>

----------------------------------------------------------------------------
(* The object.                                                              *)

\* Something that obj reacts to with conditionMet() has been posted to it.
Happen ==
  /\ ~due
  /\ due' = TRUE
  /\ UNCHANGED <<m, main, active, do_quit, cond_met, timed, result, home, worker,
                 loop, exit, events, met>>

conditionMet ==
  /\ met' = (met \/ main \notin {"idle", "join"})
  /\ IF loop THEN exit' = TRUE /\ cond_met' = TRUE
             ELSE UNCHANGED <<exit, cond_met>>

\* obj's event is delivered by the loop of the thread that obj is in.
Delivered ==
  /\ due
  /\ due' = FALSE
  /\ conditionMet
  /\ \/ ~home /\ worker = "exec"
     \/ home /\ main = "idle"
  /\ UNCHANGED <<m, main, active, do_quit, timed, result, home, worker, loop, events>>

----------------------------------------------------------------------------
(* The worker thread.                                                       *)

\* run(), up to the first sleep.
run ==
  /\ worker = "born"
  /\ m = "free"
  /\ main' = WokenMain
  /\ worker' = "sleep"
  /\ UNCHANGED <<m, active, do_quit, cond_met, timed, result, home, loop, exit, events, due, met>>

\* The loop and a new agent are set up, and exec() clears the exit flag.
exec ==
  /\ worker = "awake"
  /\ m = "free"
  /\ ~do_quit
  /\ m' = "worker"
  /\ loop' = TRUE
  /\ exit' = FALSE
  /\ events' = Append(events, "started")
  /\ worker' = "exec"
  /\ UNCHANGED <<main, active, do_quit, cond_met, timed, result, home, due, met>>

run_quit ==
  /\ worker = "awake"
  /\ m = "free"
  /\ do_quit
  /\ worker' = "finished"
  /\ UNCHANGED <<m, main, active, do_quit, cond_met, timed, result, home, loop, exit, events, due, met>>

agent_started ==
  /\ worker = "exec"
  /\ events # <<>> /\ Head(events) = "started"
  /\ events' = Tail(events)
  /\ m' = "free"
  /\ UNCHANGED <<main, active, do_quit, cond_met, timed, result, home, worker, loop, exit, due, met>>

loop_quit ==
  /\ worker = "exec"
  /\ events # <<>> /\ Head(events) = "quit"
  /\ events' = Tail(events)
  /\ exit' = TRUE
  /\ UNCHANGED <<m, main, active, do_quit, cond_met, timed, result, home, worker, loop, due, met>>

\* Mutant: loop is 0 when obj's event is flushed.
exec_returnDeaf ==
  /\ worker = "exec"
  /\ exit
  /\ m = "free"
  /\ events' = <<>>
  /\ \/ due /\ due' = FALSE /\ met' = TRUE
     \/ UNCHANGED <<due, met>>
  /\ home' = TRUE
  /\ worker' = "leaving"
  /\ UNCHANGED <<m, main, active, do_quit, cond_met, timed, result, loop, exit>>

\* The exit flag is looked at when the events that were queued are delivered,
\* `started' among them.  Then the queue is flushed, which may bring obj's
\* event, and obj goes back.
exec_return ==
  /\ worker = "exec"
  /\ exit
  /\ m = "free"
  /\ events' = <<>>
  /\ \/ due /\ due' = FALSE /\ conditionMet
     \/ UNCHANGED <<due, cond_met, met, exit>>
  /\ home' = TRUE
  /\ worker' = "leaving"
  /\ UNCHANGED <<m, main, active, do_quit, timed, result, loop>>

\* The caller is woken, and the worker sleeps until the next wait.
sleep ==
  /\ worker = "leaving"
  /\ m = "free"
  /\ loop' = FALSE
  /\ main' = WokenMain
  /\ worker' = "sleep"
  /\ UNCHANGED <<m, active, do_quit, cond_met, timed, result, home, exit, events, due, met>>

----------------------------------------------------------------------------
Main == start \/ move \/ wait \/ timeout_quit \/ timeout_return \/ return \/ stop \/ stop_return

Worker == run \/ exec \/ run_quit \/ agent_started \/ loop_quit \/ exec_return \/ sleep

TimeUp == main = "wait" /\ main' \in {"quit_wait", "idle"}

Next ==
  /\ Main \/ Worker \/ Happen \/ Delivered
  /\ strayed' = (strayed \/ (TimeUp /\ WorkerIs # "running"))

Spec == Init /\ [][Next]_vars

(* A thread that is not blocked runs, an event that is posted is delivered  *)
(* by a loop that runs, and time passes.  Nothing makes the caller wait or  *)
(* stop, nor the condition happen.                                          *)
Fairness ==
  /\ WF_progVars(Worker)
  /\ WF_progVars(Delivered)
  /\ WF_progVars(wait \/ return \/ stop_return)
  /\ WF_progVars(timeout_quit \/ timeout_return)
  /\ WF_progVars(main = "start_woken" /\ move)

FairSpec == Spec /\ Fairness

----------------------------------------------------------------------------
(* Properties.                                                              *)

TypeOK ==
  /\ m \in {"free", "worker"}
  /\ main \in {"idle", "start_wait", "start_woken", "moved", "wait", "quit_wait",
               "woken", "join"}
  /\ {active, do_quit, cond_met, timed, home, loop, exit, due, met, strayed} \subseteq BOOLEAN
  /\ result \in {"none", "true", "false"}
  /\ worker \in {"none", "born", "sleep", "awake", "exec", "leaving", "finished"}
  /\ events \in Seq({"started", "quit"}) /\ Len(events) <= 2
  /\ m = "worker" => worker = "exec"
  /\ loop <=> worker \in {"exec", "leaving"}

\* When waitForCondition() has returned, the worker is done with the object:
\* it sleeps, and the object is in the caller's thread again.  That is so until
\* a limit runs out before the worker has woken up, or as it leaves its loop.
WorkerIsDone ==
  main \in {"idle", "join"} =>
    home /\ ~loop /\ worker \in {"none", "sleep", "awake", "finished"}
WorkerDone == ~strayed => WorkerIsDone

\* Whoever has the object, the caller's wait, the worker's loop and the queued
\* events fit together.
WaitConsistent == TypeOK /\ WorkerDone

\* A wait without a time limit returns when, and only when, conditionMet() has
\* been called: nothing else ends it.  Under the same condition.
EndsOnlyWhenMet == main = "idle" /\ ~timed => result # "false"
BlocksUntilMet == ~strayed => EndsOnlyWhenMet

\* waitForCondition() returns true exactly if conditionMet() has been called since
\* it began: no call of obj's is ignored, however late it comes, and none of an
\* earlier wait is reported, whenever limits run out.
HonestResult == main = "idle" /\ result # "none" => (result = "true") = met

\* What a wait returns with is true, and a wait without a limit returns with
\* nothing but the condition.
HonestWait == HonestResult /\ BlocksUntilMet

\* A wait with a time limit returns, condition or not; one without returns
\* once the condition has happened; the destructor returns.
TimedReturns == main = "moved" /\ timed ~> main = "idle" \/ strayed
MetReturns == main # "idle" /\ due ~> main = "idle" \/ strayed
StopReturns == main = "join" ~> main = "idle" \/ strayed
CallsReturn == TimedReturns /\ MetReturns /\ StopReturns
=============================================================================
