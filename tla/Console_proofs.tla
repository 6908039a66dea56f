--------------------------- MODULE Console_proofs ---------------------------
(***************************************************************************)
(* Proofs about Synchronizer: the object is where the caller believes it   *)
(* to be, and the result of a wait is true; and about Console: prompts get *)
(* what was typed, in order.                                               *)
(*                                                                         *)
(* What the lines of keys mean is a fold, of which TLS_proofs has lemmas.   *)
(***************************************************************************)
EXTENDS Console, Synchronizer, TLS_proofs

(***************************************************************************)
(* Synchronizer.                                                           *)
(***************************************************************************)

\* The posted events: `started' while the worker holds m, and at most one quit,
\* that of the caller who waits for it, or one that came too late for its loop.
EventsAre ==
  \/ m = "worker" /\ events \in {<<"started">>, <<"quit", "started">>}
  \/ m = "free" /\ events = <<>>
  \/ m = "free" /\ events = <<"quit">> /\ (main = "quit_wait" \/ ~loop)

\* The thread is there exactly while start() has been called, and is new only
\* while the caller waits for it.
ThreadIs ==
  /\ worker = "none" <=> ~active
  /\ ~active => main = "idle"
  /\ worker = "born" => main = "start_wait"

\* The caller's position says what the worker does and who has the object.
WorkerAt ==
  \/ main = "idle" /\ worker \in {"none", "sleep"} /\ home /\ ~do_quit
  \/ main = "join" /\ worker \in {"awake", "finished"} /\ home /\ do_quit
  \/ main = "start_wait" /\ worker = "born" /\ home /\ ~do_quit
  \/ main \in {"start_woken", "woken"} /\ worker = "sleep" /\ home /\ ~do_quit
  \/ main = "moved" /\ worker = "sleep" /\ ~home /\ ~do_quit
  \/ main = "wait" /\ worker = "awake" /\ ~home /\ ~do_quit
  \/ main \in {"wait", "quit_wait"} /\ worker = "exec" /\ ~home /\ ~do_quit
  \/ main \in {"wait", "quit_wait"} /\ worker = "leaving" /\ home /\ ~do_quit

\* Only the limit makes a loop quit before the condition was met.
QuitIsMet ==
  /\ events \in {<<"quit">>, <<"quit", "started">>} => main = "quit_wait"
  /\ worker = "leaving" => events = <<>>
  /\ main = "wait" /\ worker = "exec" /\ exit => cond_met
  /\ main = "wait" /\ worker = "leaving" => cond_met
  /\ main = "woken" /\ ~timed => cond_met

\* What the caller will report is what happened.
MetIsKnown ==
  /\ main \in {"moved", "wait", "quit_wait", "woken"} => cond_met = met
  /\ main = "quit_wait" => timed

\* TypeOK but for the queue, whose type follows from EventsAre.
Types ==
  /\ m \in {"free", "worker"}
  /\ main \in {"idle", "start_wait", "start_woken", "moved", "wait", "quit_wait",
               "woken", "join"}
  /\ active \in BOOLEAN /\ do_quit \in BOOLEAN /\ cond_met \in BOOLEAN
  /\ timed \in BOOLEAN /\ home \in BOOLEAN /\ loop \in BOOLEAN /\ exit \in BOOLEAN
  /\ due \in BOOLEAN /\ met \in BOOLEAN /\ strayed \in BOOLEAN
  /\ result \in {"none", "true", "false"}
  /\ worker \in {"none", "born", "sleep", "awake", "exec", "leaving", "finished"}
  /\ m = "worker" => worker = "exec"
  /\ loop <=> worker \in {"exec", "leaving"}

IInv ==
  /\ Types
  /\ EventsAre
  /\ ThreadIs
  /\ MetIsKnown
  /\ HonestResult
  /\ ~strayed => WorkerAt /\ QuitIsMet /\ EndsOnlyWhenMet

\* What posting to a queue and delivering from it makes of it.
LEMMA AppendPair ==
  ASSUME NEW S, NEW e \in S, NEW f \in S
  PROVE  Append(<<e>>, f) = <<e, f>>
<1>1. <<e>> \in Seq(S) /\ <<e, f>> \in Seq(S) /\ Len(<<e>>) = 1 /\ Len(<<e, f>>) = 2
  OBVIOUS
<1>2. Append(<<e>>, f) \in Seq(S) /\ Len(Append(<<e>>, f)) = 2
  BY <1>1, AppendProperties
<1>3. 1 \in 1 .. Len(<<e>>) /\ <<e>>[1] = e /\ Len(<<e>>) + 1 = 2
  OBVIOUS
<1>4. Append(<<e>>, f)[1] = e /\ Append(<<e>>, f)[2] = f
  BY <1>1, <1>3, AppendProperties
<1>5. <<e, f>>[1] = e /\ <<e, f>>[2] = f
  OBVIOUS
<1>6. \A i \in 1 .. Len(<<e, f>>) : Append(<<e>>, f)[i] = <<e, f>>[i]
  BY <1>1, <1>4, <1>5
<1>7. QED
  BY <1>1, <1>2, <1>6, SeqEqual

\* Queues of one and of two events.
LEMMA Queues ==
  /\ \A e : Append(<<>>, e) = <<e>> /\ Head(<<e>>) = e /\ Tail(<<e>>) = <<>> /\ <<e>> # <<>>
  /\ \A e, f : <<e, f>> # <<>> /\ Head(<<e, f>>) = e /\ Tail(<<e, f>>) = <<f>>
  /\ Append(<<"quit">>, "started") = <<"quit", "started">>
  /\ \A e, f : e # f => <<e>> # <<f>>
  /\ \A e, f, g : <<e>> # <<f, g>>
<1>1. \A e : Append(<<>>, e) = <<e>> /\ Head(<<e>>) = e /\ Tail(<<e>>) = <<>> /\ <<e>> # <<>>
  OBVIOUS
<1>2. \A e, f : <<e, f>> # <<>> /\ Head(<<e, f>>) = e /\ Tail(<<e, f>>) = <<f>>
  OBVIOUS
<1>3. Append(<<"quit">>, "started") = <<"quit", "started">>
  <2> DEFINE S == {"quit", "started"}
  <2>1. "quit" \in S /\ "started" \in S
    OBVIOUS
  <2> HIDE DEF S
  <2>2. QED
    BY <2>1, AppendPair
<1>4. \A e, f : e # f => <<e>> # <<f>>
  OBVIOUS
<1>5. \A e, f, g : <<e>> # <<f, g>>
  OBVIOUS
<1>6. QED
  BY <1>1, <1>2, <1>3, <1>4, <1>5

\* The queues that there can be have events in them, two at most.
LEMMA QueueTypes ==
  \A q \in {<<>>, <<"started">>, <<"quit">>, <<"quit", "started">>} :
    q \in Seq({"started", "quit"}) /\ Len(q) <= 2
<1>1. <<>> \in Seq({"started", "quit"}) /\ Len(<<>>) <= 2
  OBVIOUS
<1>2. \A e \in {"started", "quit"} : <<e>> \in Seq({"started", "quit"}) /\ Len(<<e>>) <= 2
  OBVIOUS
<1>3. <<"quit", "started">> \in Seq({"started", "quit"}) /\ Len(<<"quit", "started">>) <= 2
  OBVIOUS
<1>4. QED
  BY <1>1, <1>2, <1>3

\* The inductive invariant gives the types.
LEMMA IInvType == IInv => TypeOK
<1> SUFFICES ASSUME IInv PROVE TypeOK
  OBVIOUS
<1>1. events \in Seq({"started", "quit"}) /\ Len(events) <= 2
  BY QueueTypes DEF IInv, EventsAre
<1>2. {active, do_quit, cond_met, timed, home, loop, exit, due, met, strayed} \subseteq BOOLEAN
  BY DEF IInv, Types
<1>3. QED
  BY <1>1, <1>2 DEF IInv, Types, TypeOK

\* It holds at the start,
LEMMA InitIInv == Init => IInv
<1> SUFFICES ASSUME Init PROVE IInv
  OBVIOUS
<1>1. Types
  BY DEF Init, Types
<1>2. EventsAre /\ ThreadIs /\ MetIsKnown /\ HonestResult
  BY DEF Init, EventsAre, ThreadIs, MetIsKnown, HonestResult
<1>3. WorkerAt /\ QuitIsMet /\ EndsOnlyWhenMet
  BY Queues DEF Init, WorkerAt, QuitIsMet, EndsOnlyWhenMet
<1>4. QED
  BY <1>1, <1>2, <1>3 DEF IInv

----------------------------------------------------------------------------
(* The caller's steps.  strayed is set by those in which time is up.         *)

Step == strayed' = (strayed \/ (TimeUp /\ WorkerIs # "running"))

\* A step after which no limit has run out outside the loop is one before which
\* none had, and in which time is up, if so, while the worker runs its loop.
LEMMA StrayedStays ==
  ASSUME IInv, Step, ~strayed'
  PROVE  ~strayed /\ (TimeUp => loop /\ worker # "leaving")
BY DEF IInv, Types, Step, WorkerIs

\* start keeps the invariant of Synchronizer.
LEMMA startStep ==
  ASSUME IInv, Step, start
  PROVE  IInv'
<1>1. Types' /\ ThreadIs'
  BY DEF start, Step, IInv, Types, ThreadIs
<1>2. EventsAre'
  BY Queues DEF start, IInv, Types, EventsAre
<1>3. MetIsKnown' /\ HonestResult'
  BY DEF start, IInv, Types, MetIsKnown, HonestResult
<1>4. ASSUME ~strayed' PROVE WorkerAt'
  BY <1>4, StrayedStays DEF start, IInv, Types, ThreadIs, WorkerAt
<1>5. ASSUME ~strayed' PROVE QuitIsMet'
  BY <1>5, StrayedStays, Queues
  DEF start, IInv, Types, WorkerAt, MetIsKnown, QuitIsMet, EventsAre
<1>6. ASSUME ~strayed' PROVE EndsOnlyWhenMet'
  BY <1>6, StrayedStays DEF start, IInv, Types, WorkerAt, QuitIsMet, EndsOnlyWhenMet
<1>7. QED
  BY <1>1, <1>2, <1>3, <1>4, <1>5, <1>6 DEF IInv

\* move keeps the invariant of Synchronizer.
LEMMA moveStep ==
  ASSUME IInv, Step, move
  PROVE  IInv'
<1>1. Types' /\ ThreadIs'
  BY DEF move, Step, IInv, Types, ThreadIs
<1>2. EventsAre'
  BY Queues DEF move, IInv, Types, EventsAre
<1>3. MetIsKnown' /\ HonestResult'
  BY DEF move, IInv, Types, MetIsKnown, HonestResult
<1>4. ASSUME ~strayed' PROVE WorkerAt'
  BY <1>4, StrayedStays DEF move, IInv, Types, ThreadIs, WorkerAt
<1>5. ASSUME ~strayed' PROVE QuitIsMet'
  BY <1>5, StrayedStays, Queues
  DEF move, IInv, Types, WorkerAt, MetIsKnown, QuitIsMet, EventsAre
<1>6. ASSUME ~strayed' PROVE EndsOnlyWhenMet'
  BY <1>6, StrayedStays DEF move, IInv, Types, WorkerAt, QuitIsMet, EndsOnlyWhenMet
<1>7. QED
  BY <1>1, <1>2, <1>3, <1>4, <1>5, <1>6 DEF IInv

\* wait keeps the invariant of Synchronizer.
LEMMA waitStep ==
  ASSUME IInv, Step, wait
  PROVE  IInv'
<1>1. Types' /\ ThreadIs'
  BY DEF wait, WokenWorker, Step, IInv, Types, ThreadIs
<1>2. EventsAre'
  BY Queues DEF wait, WokenWorker, IInv, Types, EventsAre
<1>3. MetIsKnown' /\ HonestResult'
  BY DEF wait, WokenWorker, IInv, Types, MetIsKnown, HonestResult
<1>4. ASSUME ~strayed' PROVE WorkerAt'
  BY <1>4, StrayedStays DEF wait, WokenWorker, IInv, Types, ThreadIs, WorkerAt
<1>5. ASSUME ~strayed' PROVE QuitIsMet'
  BY <1>5, StrayedStays, Queues
  DEF wait, WokenWorker, IInv, Types, WorkerAt, MetIsKnown, QuitIsMet, EventsAre
<1>6. ASSUME ~strayed' PROVE EndsOnlyWhenMet'
  BY <1>6, StrayedStays DEF wait, WokenWorker, IInv, Types, WorkerAt, QuitIsMet, EndsOnlyWhenMet
<1>7. QED
  BY <1>1, <1>2, <1>3, <1>4, <1>5, <1>6 DEF IInv

\* timeout_quit keeps the invariant of Synchronizer.
LEMMA timeout_quitStep ==
  ASSUME IInv, Step, timeout_quit
  PROVE  IInv'
<1>1. Types' /\ ThreadIs'
  BY DEF timeout_quit, TimeUp, Step, IInv, Types, ThreadIs
<1>2. EventsAre'
  BY Queues DEF timeout_quit, TimeUp, IInv, Types, EventsAre
<1>3. MetIsKnown' /\ HonestResult'
  BY DEF timeout_quit, TimeUp, IInv, Types, MetIsKnown, HonestResult
<1>4. ASSUME ~strayed' PROVE WorkerAt'
  BY <1>4, StrayedStays DEF timeout_quit, TimeUp, IInv, Types, ThreadIs, WorkerAt
<1>5. ASSUME ~strayed' PROVE QuitIsMet'
  BY <1>5, StrayedStays, Queues
  DEF timeout_quit, TimeUp, IInv, Types, WorkerAt, MetIsKnown, QuitIsMet, EventsAre
<1>6. ASSUME ~strayed' PROVE EndsOnlyWhenMet'
  BY <1>6, StrayedStays
  DEF timeout_quit, TimeUp, IInv, Types, WorkerAt, QuitIsMet, EndsOnlyWhenMet
<1>7. QED
  BY <1>1, <1>2, <1>3, <1>4, <1>5, <1>6 DEF IInv

\* timeout_return keeps the invariant of Synchronizer.
LEMMA timeout_returnStep ==
  ASSUME IInv, Step, timeout_return
  PROVE  IInv'
<1>1. Types' /\ ThreadIs'
  BY DEF timeout_return, Bool, TimeUp, Step, IInv, Types, ThreadIs
<1>2. EventsAre'
  BY Queues DEF timeout_return, Bool, TimeUp, IInv, Types, EventsAre
<1>3. MetIsKnown' /\ HonestResult'
  BY DEF timeout_return, Bool, TimeUp, IInv, Types, MetIsKnown, HonestResult
<1>4. ASSUME ~strayed' PROVE WorkerAt'
  BY <1>4, StrayedStays DEF timeout_return, Bool, TimeUp, IInv, Types, ThreadIs, WorkerAt
<1>5. ASSUME ~strayed' PROVE QuitIsMet'
  BY <1>5, StrayedStays, Queues
  DEF timeout_return, Bool, TimeUp, IInv, Types, WorkerAt, MetIsKnown, QuitIsMet, EventsAre
<1>6. ASSUME ~strayed' PROVE EndsOnlyWhenMet'
  BY <1>6, StrayedStays
  DEF timeout_return, Bool, TimeUp, IInv, Types, WorkerAt, QuitIsMet, EndsOnlyWhenMet
<1>7. QED
  BY <1>1, <1>2, <1>3, <1>4, <1>5, <1>6 DEF IInv

\* return keeps the invariant of Synchronizer.
LEMMA returnStep ==
  ASSUME IInv, Step, return
  PROVE  IInv'
<1>1. Types' /\ ThreadIs'
  BY DEF return, Bool, Step, IInv, Types, ThreadIs
<1>2. EventsAre'
  BY Queues DEF return, Bool, IInv, Types, EventsAre
<1>3. MetIsKnown' /\ HonestResult'
  BY DEF return, Bool, IInv, Types, MetIsKnown, HonestResult
<1>4. ASSUME ~strayed' PROVE WorkerAt'
  BY <1>4, StrayedStays DEF return, Bool, IInv, Types, ThreadIs, WorkerAt
<1>5. ASSUME ~strayed' PROVE QuitIsMet'
  BY <1>5, StrayedStays, Queues
  DEF return, Bool, IInv, Types, WorkerAt, MetIsKnown, QuitIsMet, EventsAre
<1>6. ASSUME ~strayed' PROVE EndsOnlyWhenMet'
  BY <1>6, StrayedStays DEF return, Bool, IInv, Types, WorkerAt, QuitIsMet, EndsOnlyWhenMet
<1>7. QED
  BY <1>1, <1>2, <1>3, <1>4, <1>5, <1>6 DEF IInv

\* stop keeps the invariant of Synchronizer.
LEMMA stopStep ==
  ASSUME IInv, Step, stop
  PROVE  IInv'
<1>1. Types' /\ ThreadIs'
  BY DEF stop, WokenWorker, Step, IInv, Types, ThreadIs
<1>2. EventsAre'
  BY Queues DEF stop, WokenWorker, IInv, Types, EventsAre
<1>3. MetIsKnown' /\ HonestResult'
  BY DEF stop, WokenWorker, IInv, Types, MetIsKnown, HonestResult
<1>4. ASSUME ~strayed' PROVE WorkerAt'
  BY <1>4, StrayedStays DEF stop, WokenWorker, IInv, Types, ThreadIs, WorkerAt
<1>5. ASSUME ~strayed' PROVE QuitIsMet'
  BY <1>5, StrayedStays, Queues
  DEF stop, WokenWorker, IInv, Types, WorkerAt, MetIsKnown, QuitIsMet, EventsAre
<1>6. ASSUME ~strayed' PROVE EndsOnlyWhenMet'
  BY <1>6, StrayedStays DEF stop, WokenWorker, IInv, Types, WorkerAt, QuitIsMet, EndsOnlyWhenMet
<1>7. QED
  BY <1>1, <1>2, <1>3, <1>4, <1>5, <1>6 DEF IInv

\* stop_return keeps the invariant of Synchronizer.
LEMMA stop_returnStep ==
  ASSUME IInv, Step, stop_return
  PROVE  IInv'
<1>1. Types' /\ ThreadIs'
  BY DEF stop_return, Step, IInv, Types, ThreadIs
<1>2. EventsAre'
  BY Queues DEF stop_return, IInv, Types, EventsAre
<1>3. MetIsKnown' /\ HonestResult'
  BY DEF stop_return, IInv, Types, MetIsKnown, HonestResult
<1>4. ASSUME ~strayed' PROVE WorkerAt'
  BY <1>4, StrayedStays DEF stop_return, IInv, Types, ThreadIs, WorkerAt
<1>5. ASSUME ~strayed' PROVE QuitIsMet'
  BY <1>5, StrayedStays, Queues
  DEF stop_return, IInv, Types, WorkerAt, MetIsKnown, QuitIsMet, EventsAre
<1>6. ASSUME ~strayed' PROVE EndsOnlyWhenMet'
  BY <1>6, StrayedStays DEF stop_return, IInv, Types, WorkerAt, QuitIsMet, EndsOnlyWhenMet
<1>7. QED
  BY <1>1, <1>2, <1>3, <1>4, <1>5, <1>6 DEF IInv

----------------------------------------------------------------------------
(* The object's steps.                                                    *)

\* Happen keeps the invariant of Synchronizer.
LEMMA HappenStep ==
  ASSUME IInv, Step, Happen
  PROVE  IInv'
<1>1. Types' /\ ThreadIs'
  BY DEF Happen, Step, IInv, Types, ThreadIs
<1>2. EventsAre'
  BY Queues DEF Happen, IInv, Types, EventsAre
<1>3. MetIsKnown' /\ HonestResult'
  BY DEF Happen, IInv, Types, MetIsKnown, HonestResult
<1>4. ASSUME ~strayed' PROVE WorkerAt'
  BY <1>4, StrayedStays DEF Happen, IInv, Types, ThreadIs, WorkerAt
<1>5. ASSUME ~strayed' PROVE QuitIsMet'
  BY <1>5, StrayedStays, Queues
  DEF Happen, IInv, Types, WorkerAt, MetIsKnown, QuitIsMet, EventsAre
<1>6. ASSUME ~strayed' PROVE EndsOnlyWhenMet'
  BY <1>6, StrayedStays DEF Happen, IInv, Types, WorkerAt, QuitIsMet, EndsOnlyWhenMet
<1>7. QED
  BY <1>1, <1>2, <1>3, <1>4, <1>5, <1>6 DEF IInv

\* Delivered keeps the invariant of Synchronizer.
LEMMA DeliveredStep ==
  ASSUME IInv, Step, Delivered
  PROVE  IInv'
<1>1. Types' /\ ThreadIs'
  BY DEF Delivered, conditionMet, Step, IInv, Types, ThreadIs
<1>2. EventsAre'
  BY Queues DEF Delivered, conditionMet, IInv, Types, EventsAre
<1>3. MetIsKnown' /\ HonestResult'
  BY DEF Delivered, conditionMet, IInv, Types, MetIsKnown, HonestResult
<1>4. ASSUME ~strayed' PROVE WorkerAt'
  BY <1>4, StrayedStays DEF Delivered, conditionMet, IInv, Types, ThreadIs, WorkerAt
<1>5. ASSUME ~strayed' PROVE QuitIsMet'
  BY <1>5, StrayedStays, Queues
  DEF Delivered, conditionMet, IInv, Types, WorkerAt, MetIsKnown, QuitIsMet, EventsAre
<1>6. ASSUME ~strayed' PROVE EndsOnlyWhenMet'
  BY <1>6, StrayedStays
  DEF Delivered, conditionMet, IInv, Types, WorkerAt, QuitIsMet, EndsOnlyWhenMet
<1>7. QED
  BY <1>1, <1>2, <1>3, <1>4, <1>5, <1>6 DEF IInv

----------------------------------------------------------------------------
(* The worker's steps.                                                    *)

\* run keeps the invariant of Synchronizer.
LEMMA runStep ==
  ASSUME IInv, Step, run
  PROVE  IInv'
<1>1. Types' /\ ThreadIs'
  BY DEF run, WokenMain, Step, IInv, Types, ThreadIs
<1>2. EventsAre'
  BY Queues DEF run, WokenMain, IInv, Types, EventsAre
<1>3. MetIsKnown' /\ HonestResult'
  BY DEF run, WokenMain, IInv, Types, MetIsKnown, HonestResult
<1>4. ASSUME ~strayed' PROVE WorkerAt'
  BY <1>4, StrayedStays DEF run, WokenMain, IInv, Types, ThreadIs, WorkerAt
<1>5. ASSUME ~strayed' PROVE QuitIsMet'
  BY <1>5, StrayedStays, Queues
  DEF run, WokenMain, IInv, Types, WorkerAt, MetIsKnown, QuitIsMet, EventsAre
<1>6. ASSUME ~strayed' PROVE EndsOnlyWhenMet'
  BY <1>6, StrayedStays DEF run, WokenMain, IInv, Types, WorkerAt, QuitIsMet, EndsOnlyWhenMet
<1>7. QED
  BY <1>1, <1>2, <1>3, <1>4, <1>5, <1>6 DEF IInv

\* exec keeps the invariant of Synchronizer.
LEMMA execStep ==
  ASSUME IInv, Step, exec
  PROVE  IInv'
<1>1. Types' /\ ThreadIs'
  BY DEF exec, Step, IInv, Types, ThreadIs
<1>2. EventsAre'
  BY Queues DEF exec, IInv, Types, EventsAre
<1>3. MetIsKnown' /\ HonestResult'
  BY DEF exec, IInv, Types, MetIsKnown, HonestResult
<1>4. ASSUME ~strayed' PROVE WorkerAt'
  BY <1>4, StrayedStays DEF exec, IInv, Types, ThreadIs, WorkerAt
<1>5. ASSUME ~strayed' PROVE QuitIsMet'
  <2>1. events = <<>> /\ events' = <<"started">>
    BY <1>5, StrayedStays, Queues DEF exec, IInv, Types, EventsAre, WorkerAt, QuitIsMet
  <2>2. main # "woken"
    BY <1>5, StrayedStays DEF exec, IInv, WorkerAt
  <2>3. QED
    BY <2>1, <2>2, Queues DEF exec, QuitIsMet
<1>6. ASSUME ~strayed' PROVE EndsOnlyWhenMet'
  BY <1>6, StrayedStays DEF exec, IInv, Types, WorkerAt, QuitIsMet, EndsOnlyWhenMet
<1>7. QED
  BY <1>1, <1>2, <1>3, <1>4, <1>5, <1>6 DEF IInv

\* run_quit keeps the invariant of Synchronizer.
LEMMA run_quitStep ==
  ASSUME IInv, Step, run_quit
  PROVE  IInv'
<1>1. Types' /\ ThreadIs'
  BY DEF run_quit, Step, IInv, Types, ThreadIs
<1>2. EventsAre'
  BY Queues DEF run_quit, IInv, Types, EventsAre
<1>3. MetIsKnown' /\ HonestResult'
  BY DEF run_quit, IInv, Types, MetIsKnown, HonestResult
<1>4. ASSUME ~strayed' PROVE WorkerAt'
  BY <1>4, StrayedStays DEF run_quit, IInv, Types, ThreadIs, WorkerAt
<1>5. ASSUME ~strayed' PROVE QuitIsMet'
  BY <1>5, StrayedStays, Queues
  DEF run_quit, IInv, Types, WorkerAt, MetIsKnown, QuitIsMet, EventsAre
<1>6. ASSUME ~strayed' PROVE EndsOnlyWhenMet'
  BY <1>6, StrayedStays DEF run_quit, IInv, Types, WorkerAt, QuitIsMet, EndsOnlyWhenMet
<1>7. QED
  BY <1>1, <1>2, <1>3, <1>4, <1>5, <1>6 DEF IInv

\* agent_started keeps the invariant of Synchronizer.
LEMMA agent_startedStep ==
  ASSUME IInv, Step, agent_started
  PROVE  IInv'
<1>1. Types' /\ ThreadIs'
  BY DEF agent_started, Step, IInv, Types, ThreadIs
<1>2. EventsAre'
  BY Queues DEF agent_started, IInv, Types, EventsAre
<1>3. MetIsKnown' /\ HonestResult'
  BY DEF agent_started, IInv, Types, MetIsKnown, HonestResult
<1>4. ASSUME ~strayed' PROVE WorkerAt'
  BY <1>4, StrayedStays DEF agent_started, IInv, Types, ThreadIs, WorkerAt
<1>5. ASSUME ~strayed' PROVE QuitIsMet'
  <2>1. events = <<"started">> /\ events' = <<>>
    BY Queues DEF agent_started, IInv, EventsAre
  <2>2. QED
    BY <1>5, <2>1, StrayedStays, Queues DEF agent_started, IInv, QuitIsMet
<1>6. ASSUME ~strayed' PROVE EndsOnlyWhenMet'
  BY <1>6, StrayedStays DEF agent_started, IInv, Types, WorkerAt, QuitIsMet, EndsOnlyWhenMet
<1>7. QED
  BY <1>1, <1>2, <1>3, <1>4, <1>5, <1>6 DEF IInv

\* loop_quit keeps the invariant of Synchronizer.
LEMMA loop_quitStep ==
  ASSUME IInv, Step, loop_quit
  PROVE  IInv'
<1>1. Types' /\ ThreadIs'
  BY DEF loop_quit, Step, IInv, Types, ThreadIs
<1>2. EventsAre'
  <2>1. CASE events = <<"quit", "started">>
    BY <2>1, Queues DEF loop_quit, IInv, Types, EventsAre
  <2>2. CASE events = <<"quit">>
    BY <2>2, Queues DEF loop_quit, IInv, Types, EventsAre
  <2>3. QED
    BY <2>1, <2>2, Queues DEF loop_quit, IInv, EventsAre
<1>3. MetIsKnown' /\ HonestResult'
  BY DEF loop_quit, IInv, Types, MetIsKnown, HonestResult
<1>4. ASSUME ~strayed' PROVE WorkerAt'
  BY <1>4, StrayedStays DEF loop_quit, IInv, Types, ThreadIs, WorkerAt
<1>5. ASSUME ~strayed' PROVE QuitIsMet'
  BY <1>5, StrayedStays, Queues
  DEF loop_quit, IInv, Types, WorkerAt, MetIsKnown, QuitIsMet, EventsAre
<1>6. ASSUME ~strayed' PROVE EndsOnlyWhenMet'
  BY <1>6, StrayedStays DEF loop_quit, IInv, Types, WorkerAt, QuitIsMet, EndsOnlyWhenMet
<1>7. QED
  BY <1>1, <1>2, <1>3, <1>4, <1>5, <1>6 DEF IInv

\* exec_return keeps the invariant of Synchronizer.
LEMMA exec_returnStep ==
  ASSUME IInv, Step, exec_return
  PROVE  IInv'
<1>1. Types' /\ ThreadIs'
  BY DEF exec_return, conditionMet, Step, IInv, Types, ThreadIs
<1>2. EventsAre'
  BY Queues DEF exec_return, conditionMet, IInv, Types, EventsAre
<1>3. MetIsKnown' /\ HonestResult'
  BY DEF exec_return, conditionMet, IInv, Types, MetIsKnown, HonestResult
<1>4. ASSUME ~strayed' PROVE WorkerAt'
  BY <1>4, StrayedStays DEF exec_return, conditionMet, IInv, Types, ThreadIs, WorkerAt
<1>5. ASSUME ~strayed' PROVE QuitIsMet'
  <2>1. main = "wait" => cond_met
    BY <1>5, StrayedStays DEF exec_return, IInv, QuitIsMet
  <2>2. cond_met => cond_met'
    BY DEF exec_return, conditionMet
  <2>3. main # "woken"
    BY <1>5, StrayedStays DEF exec_return, IInv, WorkerAt
  <2>4. QED
    BY <2>1, <2>2, <2>3, Queues DEF exec_return, QuitIsMet
<1>6. ASSUME ~strayed' PROVE EndsOnlyWhenMet'
  BY <1>6, StrayedStays
  DEF exec_return, conditionMet, IInv, Types, WorkerAt, QuitIsMet, EndsOnlyWhenMet
<1>7. QED
  BY <1>1, <1>2, <1>3, <1>4, <1>5, <1>6 DEF IInv

\* sleep keeps the invariant of Synchronizer.
LEMMA sleepStep ==
  ASSUME IInv, Step, sleep
  PROVE  IInv'
<1>1. Types' /\ ThreadIs'
  BY DEF sleep, WokenMain, Step, IInv, Types, ThreadIs
<1>2. EventsAre'
  BY Queues DEF sleep, WokenMain, IInv, Types, EventsAre
<1>3. MetIsKnown' /\ HonestResult'
  BY DEF sleep, WokenMain, IInv, Types, MetIsKnown, HonestResult
<1>4. ASSUME ~strayed' PROVE WorkerAt'
  BY <1>4, StrayedStays DEF sleep, WokenMain, IInv, Types, ThreadIs, WorkerAt
<1>5. ASSUME ~strayed' PROVE QuitIsMet'
  <2>1. main \in {"wait", "quit_wait"} /\ main' = "woken" /\ worker' = "sleep"
    BY <1>5, StrayedStays DEF sleep, WokenMain, IInv, WorkerAt
  <2>2. ~timed => cond_met
    BY <1>5, <2>1, StrayedStays DEF sleep, IInv, Types, MetIsKnown, QuitIsMet
  <2>3. events \notin {<<"quit">>, <<"quit", "started">>}
    BY <1>5, StrayedStays, Queues DEF sleep, IInv, QuitIsMet
  <2>4. QED
    BY <2>1, <2>2, <2>3 DEF sleep, QuitIsMet
<1>6. ASSUME ~strayed' PROVE EndsOnlyWhenMet'
  BY <1>6, StrayedStays DEF sleep, WokenMain, IInv, Types, WorkerAt, QuitIsMet, EndsOnlyWhenMet
<1>7. QED
  BY <1>1, <1>2, <1>3, <1>4, <1>5, <1>6 DEF IInv

----------------------------------------------------------------------------
(* The theorems.                                                          *)

\* Every state satisfies IInv.
THEOREM Invariance == Spec => []IInv
<1>1. ASSUME IInv, [Next]_vars PROVE IInv'
  <2>1. CASE UNCHANGED vars
    BY <1>1, <2>1 DEF vars, progVars, IInv, Types, EventsAre, ThreadIs, MetIsKnown,
                      HonestResult, WorkerAt, QuitIsMet, EndsOnlyWhenMet
  <2>2. CASE Next
    <3>1. Step
      BY <2>2 DEF Next, Step
    <3>2. CASE Main
      BY <1>1, <3>1, <3>2, startStep, moveStep, waitStep, timeout_quitStep, timeout_returnStep,
         returnStep, stopStep, stop_returnStep DEF Main
    <3>3. CASE Worker
      BY <1>1, <3>1, <3>3, runStep, execStep, run_quitStep, agent_startedStep, loop_quitStep,
         exec_returnStep, sleepStep DEF Worker
    <3>4. QED
      BY <1>1, <2>2, <3>1, <3>2, <3>3, HappenStep, DeliveredStep DEF Next
  <2>3. QED
    BY <1>1, <2>1, <2>2
<1>2. QED
  BY <1>1, InitIInv, PTL DEF Spec

\* WaitConsistent: the object is in the caller's thread, and the worker asleep, when a wait has
\* returned: for any of the moments at which limits can run out.
THEOREM ConsistentHolds == Spec => []WaitConsistent
<1>1. IInv => WaitConsistent
  BY IInvType DEF IInv, WorkerAt, WaitConsistent, WorkerDone, WorkerIsDone, Types
<1>2. QED
  BY <1>1, Invariance, PTL

\* HonestWait: the result of a wait is whether conditionMet() was called in it, and a wait
\* without a limit ends with nothing else.
THEOREM HonestWaitHolds == Spec => []HonestWait
<1>1. IInv => HonestWait
  BY DEF IInv, HonestWait, BlocksUntilMet
<1>2. QED
  BY <1>1, Invariance, PTL

(***************************************************************************)
(* Console: what keys mean.                                                *)
(***************************************************************************)

\* A key takes a line to a line.
LEMMA EditKeeps ==
  ASSUME NEW line \in Seq(Keys), NEW key \in Keys
  PROVE  Edit(line, key) \in Seq(Keys)
<1>1. line # <<>> => Front(line) \in Seq(Keys)
  BY SubSeqProperties DEF Front
<1>2. Append(line, key) \in Seq(Keys)
  BY AppendProperties
<1> QED BY <1>1, <1>2 DEF Edit

\* t has what is shown after each of the keys.
Shown(t, keys) ==
  /\ t \in [0 .. Len(keys) -> Seq(Keys)]
  /\ t[0] = <<>>
  /\ \A i \in 1 .. Len(keys) : t[i] = Edit(t[i - 1], keys[i])

\* Edited() goes through such lines, one per key.
LEMMA EditedIs ==
  ASSUME NEW keys \in Seq(Keys)
  PROVE  \E t : Shown(t, keys) /\ Edited(keys) = t[Len(keys)]
<1> DEFINE N == Len(keys)
           F == [x \in Seq(Keys) \X Keys |-> Edit(x[1], x[2])]
           P(g) == g = [s \in SUBSET DOMAIN keys |-> IF s = {} THEN <<>>
                                                     ELSE Edit(g[s \ {Max(s)}], keys[Max(s)])]
           it == CHOOSE g : P(g)
           t == [i \in 0 .. N |-> it[1 .. i]]
<1>1. N \in Nat /\ DOMAIN keys = 1 .. N /\ keys \in [1 .. N -> Keys]
  OBVIOUS
<1>2. <<>> \in Seq(Keys)
  BY Empties
<1>3. F \in [Seq(Keys) \X Keys -> Seq(Keys)]
  BY EditKeeps
<1>4. \A line \in Seq(Keys), key \in Keys : F[<<line, key>>] = Edit(line, key)
  OBVIOUS
<1>5. Edited(keys) = it[1 .. N]
  <2>1. Edited(keys) = it[DOMAIN keys]
    BY Zenon DEF Edited, FoldLeft, MapThenFoldSet
  <2> HIDE DEF it, N
  <2> QED BY <1>1, <2>1
<1> HIDE DEF F, N
<1>6. \E g : P(g)
  <2>1. PICK g \in [SUBSET (1 .. N) -> Seq(Keys)] : Folds(g, N, F, <<>>, keys)
    BY <1>1, <1>2, <1>3, FoldExists
  <2>2. ASSUME NEW s \in SUBSET (1 .. N)
        PROVE  g[s] = IF s = {} THEN <<>> ELSE Edit(g[s \ {Max(s)}], keys[Max(s)])
    <3>1. CASE s = {}
      BY <2>1, <3>1 DEF Folds
    <3>2. CASE s # {}
      <4>1. g[s] = F[<<g[s \ {Max(s)}], keys[Max(s)]>>]
        BY <2>1, <3>2 DEF Folds
      <4>2. Max(s) \in 1 .. N
        BY <1>1, <3>2, MaxIsIn
      <4>3. g[s \ {Max(s)}] \in Seq(Keys) /\ keys[Max(s)] \in Keys
        BY <1>1, <2>1, <4>2
      <4> QED BY <1>4, <3>2, <4>1, <4>3
    <3> QED BY <3>1, <3>2
  <2>3. P(g)
    BY <1>1, <2>1, <2>2
  <2> QED BY <2>3
<1>7. it = [s \in SUBSET (1 .. N) |-> IF s = {} THEN <<>>
                                      ELSE Edit(it[s \ {Max(s)}], keys[Max(s)])]
  <2> HIDE DEF P
  <2>1. P(it)
    BY <1>6
  <2> QED BY <1>1, <2>1 DEF P
<1> HIDE DEF it
<1>8. t[0] = <<>> /\ t[N] = it[1 .. N]
  <2>1. 1 .. 0 = {} /\ 1 .. 0 \in SUBSET (1 .. N)
    OBVIOUS
  <2>2. it[{}] = <<>>
    BY <1>7, <2>1
  <2>3. t[0] = it[1 .. 0] /\ t[N] = it[1 .. N]
    BY <1>1
  <2> QED BY <2>1, <2>2, <2>3
<1>9. ASSUME NEW i \in 1 .. N PROVE t[i] = Edit(t[i - 1], keys[i])
  <2>1. 1 .. i \in SUBSET (1 .. N) /\ i \in 1 .. i /\ 1 .. i # {} /\ (1 .. i) \ {i} = 1 .. i - 1
    BY <1>1, FirstOnes
  <2>2. i \in Nat /\ Max(1 .. i) = i
    BY <1>1, <2>1, MaxIs
  <2>3. it[1 .. i] = Edit(it[(1 .. i) \ {i}], keys[i])
    BY <1>7, <2>1, <2>2
  <2>4. t[i] = it[1 .. i] /\ t[i - 1] = it[1 .. i - 1]
    BY <1>1
  <2> QED BY <2>1, <2>3, <2>4
<1> HIDE DEF t
<1>10. t \in [0 .. N -> Seq(Keys)]
  <2> DEFINE S == {i \in 0 .. N : t[i] \in Seq(Keys)}
  <2>1. 0 \in S
    <3>1. 0 \in 0 .. N
      BY <1>1
    <3>2. t[0] \in Seq(Keys)
      BY <1>2, <1>8, Zenon
    <3> QED BY <3>1, <3>2, Zenon
  <2>2. ASSUME NEW i \in 1 .. N, i - 1 \in S PROVE i \in S
    <3>1. t[i - 1] \in Seq(Keys) /\ keys[i] \in Keys /\ i \in 0 .. N
      BY <1>1, <2>2
    <3> QED BY <1>9, <3>1, EditKeeps
  <2> HIDE DEF S
  <2>3. 0 .. N \subseteq S
    BY <1>1, <2>1, <2>2, UpTo
  <2>4. \A i \in 0 .. N : t[i] \in Seq(Keys)
    BY <2>3 DEF S
  <2>5. t = [i \in 0 .. N |-> t[i]]
    BY DEF t
  <2> QED BY <2>4, <2>5
<1>11. Shown(t, keys)
  BY <1>8, <1>9, <1>10 DEF Shown, N
<1> QED BY <1>5, <1>8, <1>11 DEF N

\* Two tables of the same keys are the same, as far as both go.
LEMMA ShownAgree ==
  ASSUME NEW s \in Seq(Keys), NEW z \in Seq(Keys), NEW t, NEW u, Shown(t, s), Shown(u, z),
         NEW N \in Nat, N <= Len(s), N <= Len(z), \A i \in 1 .. N : s[i] = z[i]
  PROVE  t[N] = u[N]
<1> DEFINE S == {i \in 0 .. N : t[i] = u[i]}
<1>1. 0 \in S
  <2>1. t[0] = <<>> /\ u[0] = <<>> /\ 0 \in 0 .. N
    BY DEF Shown
  <2> QED BY <2>1
<1>2. ASSUME NEW i \in 1 .. N, i - 1 \in S PROVE i \in S
  <2>1. i \in 1 .. Len(s) /\ i \in 1 .. Len(z) /\ i \in 0 .. N /\ s[i] = z[i]
    OBVIOUS
  <2>2. t[i] = Edit(t[i - 1], s[i]) /\ u[i] = Edit(u[i - 1], z[i])
    BY <2>1 DEF Shown
  <2>3. t[i - 1] = u[i - 1]
    BY <1>2
  <2> QED BY <2>1, <2>2, <2>3
<1> HIDE DEF S
<1>3. 0 .. N \subseteq S
  BY <1>1, <1>2, UpTo
<1>4. N \in 0 .. N
  OBVIOUS
<1> QED BY <1>3, <1>4 DEF S

\* A key more edits what the keys before it have left.
LEMMA EditedGrows ==
  ASSUME NEW keys \in Seq(Keys), NEW key \in Keys
  PROVE  /\ Edited(keys) \in Seq(Keys)
         /\ Edited(Append(keys, key)) = Edit(Edited(keys), key)
<1>1. PICK t : Shown(t, keys) /\ Edited(keys) = t[Len(keys)]
  BY EditedIs
<1>2. PICK more : more = Append(keys, key)
  OBVIOUS
<1>3. more \in Seq(Keys) /\ Len(more) = Len(keys) + 1 /\ more[Len(keys) + 1] = key
      /\ \A i \in 1 .. Len(keys) : more[i] = keys[i]
  BY <1>2, AppendIs
<1>4. PICK u : Shown(u, more) /\ Edited(more) = u[Len(more)]
  BY <1>3, EditedIs
<1>5. Len(keys) \in Nat /\ Len(keys) <= Len(keys) /\ Len(keys) <= Len(more)
  BY <1>3
<1>6. t[Len(keys)] = u[Len(keys)]
  BY <1>1, <1>3, <1>4, <1>5, ShownAgree
<1>7. u[Len(keys) + 1] = Edit(u[Len(keys)], key)
  <2>1. Len(keys) + 1 \in 1 .. Len(more) /\ (Len(keys) + 1) - 1 = Len(keys)
    BY <1>3, <1>5
  <2> QED BY <1>3, <1>4, <2>1 DEF Shown
<1>8. t[Len(keys)] \in Seq(Keys)
  BY <1>1, <1>5 DEF Shown
<1> QED BY <1>1, <1>2, <1>3, <1>4, <1>6, <1>7, <1>8

\* No key shows nothing.
LEMMA NothingEdited == Edited(<<>>) = <<>>
<1>1. <<>> \in Seq(Keys) /\ Len(<<>>) = 0
  BY Empties
<1>2. PICK t : Shown(t, <<>>) /\ Edited(<<>>) = t[Len(<<>>)]
  BY <1>1, EditedIs
<1> QED BY <1>1, <1>2 DEF Shown

\* A key that is typed leaves the earlier ones where they are,
LEMMA TypedStays ==
  ASSUME NEW s \in Seq(Keys), NEW key, NEW a \in Nat, a >= 1, NEW b \in Nat, b <= Len(s)
  PROVE  SubSeq(Append(s, key), a, b) = SubSeq(s, a, b)
OBVIOUS

\* and a key that is read goes behind those that were read before it.
LEMMA LineGrows ==
  ASSUME NEW s \in Seq(Keys), NEW a \in Nat, a >= 1, NEW b \in Nat, a <= b + 1, b + 1 <= Len(s)
  PROVE  /\ SubSeq(s, a, b) \in Seq(Keys)
         /\ SubSeq(s, a, b + 1) = Append(SubSeq(s, a, b), s[b + 1])
<1>1. SubSeq(s, a, b) \in Seq(Keys)
  <2>1. \A i \in a .. b : s[i] \in Keys
    OBVIOUS
  <2> QED BY <2>1, SubSeqProperties
<1>2. SubSeq(s, a, b + 1) = SubSeq(s, a, (b + 1) - 1) \o <<s[b + 1]>>
  <2>1. a \in 1 .. Len(s) /\ b + 1 \in a .. Len(s)
    OBVIOUS
  <2> QED BY <2>1, SubSeqRecursiveSecond
<1>3. (b + 1) - 1 = b /\ s[b + 1] \in Keys
  OBVIOUS
<1> QED BY <1>1, <1>2, <1>3, AppendIsConcat

\* The last key of a line and those before it.
LEMMA LineEnds ==
  ASSUME NEW s \in Seq(Keys), NEW key \in Keys
  PROVE  /\ Append(s, key) # <<>> /\ Last(Append(s, key)) = key /\ Front(Append(s, key)) = s
         /\ ToSet(Append(s, key)) = ToSet(s) \cup {key}
<1>1. Append(s, key) \in Seq(Keys) /\ Append(s, key) # <<>> /\ Len(Append(s, key)) = Len(s) + 1
      /\ Append(s, key)[Len(s) + 1] = key /\ \A i \in 1 .. Len(s) : Append(s, key)[i] = s[i]
  BY AppendProperties
<1>2. Front(Append(s, key)) = s
  BY <1>1 DEF Front
<1>3. ToSet(Append(s, key)) = ToSet(s) \cup {key}
  <2>1. DOMAIN Append(s, key) = 1 .. Len(s) + 1 /\ DOMAIN s = 1 .. Len(s)
    BY <1>1
  <2> QED BY <1>1, <2>1 DEF ToSet
<1> QED BY <1>1, <1>2, <1>3 DEF Last

\* Lists of keys are put together in any order.
LEMMA Reassociated == \A u, v, w \in Seq(Keys) : (u \o v) \o w = u \o (v \o w)
BY ConcatAssociative

\* Keys that move from the front of one list to the end of another keep their
\* order.
LEMMA Rejoined ==
  ASSUME NEW s \in Seq(Keys), NEW z \in Seq(Keys), NEW n \in 1 .. Len(z)
  PROVE  (s \o SubSeq(z, 1, n)) \o SubSeq(z, n + 1, Len(z)) = s \o z
<1>1. Len(z) \in Nat /\ n \in Int /\ n + 1 \in Int
  OBVIOUS
<1>2. SubSeq(z, 1, n) \in Seq(Keys)
  <2>1. \A i \in 1 .. n : z[i] \in Keys
    OBVIOUS
  <2> QED BY <1>1, <2>1, SubSeqProperties
<1>3. SubSeq(z, n + 1, Len(z)) \in Seq(Keys)
  <2>1. \A i \in n + 1 .. Len(z) : z[i] \in Keys
    OBVIOUS
  <2> QED BY <1>1, <2>1, SubSeqProperties
<1>4. PICK p \in Seq(Keys) : p = SubSeq(z, 1, n)
  BY <1>2, Zenon
<1>5. PICK q \in Seq(Keys) : q = SubSeq(z, n + 1, Len(z))
  BY <1>3, Zenon
<1>6. p \o q = z
  <2>1. 1 \in 1 .. Len(z) + 1 /\ n \in 1 - 1 .. Len(z) /\ Len(z) \in n .. Len(z)
    OBVIOUS
  <2>2. SubSeq(z, 1, n) \o SubSeq(z, n + 1, Len(z)) = SubSeq(z, 1, Len(z))
    BY <2>1, ConcatAdjacentSubSeq
  <2>3. SubSeq(z, 1, Len(z)) = z
    OBVIOUS
  <2> QED BY <1>4, <1>5, <2>2, <2>3
<1>7. (s \o p) \o q = s \o (p \o q)
  BY Reassociated, Zenon
<1> QED BY <1>4, <1>5, <1>6, <1>7, Zenon

\* A key that goes behind one list goes behind both.
LEMMA AppendedBehind ==
  ASSUME NEW s \in Seq(Keys), NEW z \in Seq(Keys), NEW key \in Keys
  PROVE  Append(s \o z, key) = s \o Append(z, key)
<1>1. s \o z \in Seq(Keys) /\ <<key>> \in Seq(Keys)
  BY ConcatProperties
<1>2. Append(s \o z, key) = (s \o z) \o <<key>> /\ Append(z, key) = z \o <<key>>
  BY <1>1, AppendIsConcat
<1>3. (s \o z) \o <<key>> = s \o (z \o <<key>>)
  BY <1>1, Reassociated, Zenon
<1> QED BY <1>2, <1>3

\* The first of some of the keys, and those behind it.
LEMMA FirstOff ==
  ASSUME NEW s \in Seq(Keys), NEW a \in Nat, NEW b \in Nat, a >= 1, a <= b, b <= Len(s),
         NEW key \in Keys, NEW z \in Seq(Keys), SubSeq(s, a, b) = <<key>> \o z
  PROVE  s[a] = key /\ SubSeq(s, a + 1, b) = z
<1>1. PICK p : p = <<key>> \o z
  OBVIOUS
<1>2. p \in Seq(Keys) /\ Len(p) = Len(z) + 1 /\ p[1] = key /\ \A i \in 1 .. Len(z) : p[i + 1] = z[i]
  BY <1>1
<1>3. /\ Len(p) = b - a + 1 /\ \A i \in 1 .. b - a + 1 : p[i] = s[a + i - 1]
  BY <1>1
<1>4. s[a] = key
  BY <1>2, <1>3
<1>5. PICK q : q = SubSeq(s, a + 1, b)
  OBVIOUS
<1>6. q \in Seq(Keys) /\ Len(q) = b - a /\ \A i \in 1 .. b - a : q[i] = s[a + 1 + i - 1]
  <2>1. \A i \in a + 1 .. b : s[i] \in Keys
    OBVIOUS
  <2>2. a + 1 \in Int /\ b \in Int
    OBVIOUS
  <2>3. q \in Seq(Keys)
    BY <1>5, <2>1, <2>2, SubSeqProperties
  <2> QED BY <1>5, <2>3
<1>7. Len(q) = Len(z) /\ Len(z) \in Nat
  <2>1. Len(z) \in Nat /\ Len(z) + 1 = b - a + 1 /\ b - a \in Int
    BY <1>2, <1>3
  <2> QED BY <1>6, <2>1
<1>8. ASSUME NEW i \in 1 .. Len(z) PROVE q[i] = z[i]
  <2>1. q[i] = s[a + i]
    BY <1>6, <1>7
  <2>2. z[i] = p[i + 1] /\ i + 1 \in 1 .. b - a + 1
    BY <1>2, <1>3
  <2>3. p[i + 1] = s[a + (i + 1) - 1]
    BY <1>3, <2>2
  <2> QED BY <2>1, <2>2, <2>3
<1>9. q = z
  BY <1>6, <1>7, <1>8, SeqEqual
<1> QED BY <1>4, <1>5, <1>9

----------------------------------------------------------------------------
(* Console: the inductive invariant.                                         *)

Hows == {"typed", "closed", "failed"}
Consoles ==
  [there : BOOLEAN, own_con : BOOLEAN, released : BOOLEAN, buf : Seq(Keys), valid : BOOLEAN]
Refs ==
  [console : BOOLEAN, connected : BOOLEAN, lateTrigger : BOOLEAN, late_read : BOOLEAN,
   late_close : BOOLEAN]
Prompts ==
  [charMode : BOOLEAN, result : Seq(Keys), done : BOOLEAN, waiting : BOOLEAN, asked : BOOLEAN]
Answers == [how : Hows, charMode : BOOLEAN, result : Seq(Keys), upTo : Nat]
ConsoleSignals == {"readyRead", "inputClosed", "finished"}
Starting == {"valid", "avail", "connect"}

ConsoleTypes ==
  /\ typed \in Seq(Keys) /\ tty \in Seq(Keys) /\ hungup \in BOOLEAN
  /\ con \in Consoles /\ ref \in Refs /\ prompt \in Prompts
  /\ posted \in Seq(ConsoleSignals)
  /\ pc \in {"loop", "slot", "reading", "late_close"} \cup Starting
  /\ calls \in Nat /\ used \in Nat
  /\ answers \in Seq(Answers)
  /\ used + Len(con.buf) + Len(tty) <= Len(typed)
  /\ Len(prompt.result) <= IF prompt.charMode THEN 1 ELSE InputMax

\* Before the first call there is nothing but, perhaps, the program's console.
NotAsked ==
  calls = 0 =>
    /\ pc = "loop" /\ ~ref.console /\ posted = <<>> /\ answers = <<>> /\ used = 0 /\ ~prompt.asked
    /\ ~con.own_con
    /\ ~con.there => tty = typed

\* How far the answers go.
LastUpTo == IF answers = <<>> THEN 0 ELSE answers[Len(answers)].upTo

\* The console.
ConsoleShape ==
  /\ ~con.there \/ con.released => ~con.valid /\ con.buf = <<>>
  /\ ~con.there => ~con.own_con
  /\ con.there /\ ~con.released /\ ~con.valid => hungup

\* The prompt that is shown has the reference's console, and only it reads.
PromptShape ==
  /\ ref.connected => ref.console
  /\ ref.lateTrigger => ref.connected
  /\ ref.console => con.there /\ ~con.released /\ prompt.asked /\ ~prompt.done
  /\ ~ref.console => used = LastUpTo
  /\ prompt.waiting => prompt.asked
  /\ pc = "reading" => ref.console

\* A prompt that is being started has read nothing.
StartShape ==
  /\ pc \in Starting => /\ ref.console /\ ~ref.connected /\ ~prompt.waiting
                        /\ used = LastUpTo /\ prompt.result = <<>>
  /\ pc = "avail" /\ ref.late_close => ~con.valid

\* A start has failed only when nothing will come any more, from no console.
Failure ==
  "finished" \in ToSet(posted) =>
    /\ hungup /\ ~con.valid /\ con.buf = <<>>
    /\ ref.console => pc \in {"valid", "avail"} /\ (pc = "avail" => ref.late_close)
    /\ bad = "no" => ~prompt.waiting

\* A prompt that has not ended has its end to come.
AnswersTold == {i \in DOMAIN answers : answers[i].how # "failed"}
EndsCounted == Cardinality(AnswersTold) + (IF calls = 0 \/ prompt.done THEN 0 ELSE 1) <= calls

\* The program has a console for good.
Programs == con.there /\ ~con.own_con

AnswersGrow == \A i \in 1 .. Len(answers) : answers[i].upTo <= used

\* What the prompt that is shown has read, and what it shows of it.
SoFar == SubSeq(typed, LastUpTo + 1, used)
InProgress ==
  Programs /\ ref.console =>
    /\ prompt.charMode => used = LastUpTo /\ prompt.result = <<>>
    /\ ~prompt.charMode => "newline" \notin ToSet(SoFar) /\ prompt.result = Edited(SoFar)

\* A prompt that was answered was answered with this line.
AnswerIs(a, line) ==
  a.how = "typed" =>
    /\ line # <<>>
    /\ a.charMode => line = a.result
    /\ ~a.charMode => /\ Last(line) = "newline" /\ "newline" \notin ToSet(Front(line))
                      /\ a.result = Edited(line)
LineFrom(i) == IF i = 1 THEN 1 ELSE answers[i - 1].upTo + 1
LineOf(i) == SubSeq(typed, LineFrom(i), answers[i].upTo)
AnswersRight == Programs => \A i \in 1 .. Len(answers) : AnswerIs(answers[i], LineOf(i))

\* What is about the prompt, and what about the keys.
ShapeInv ==
  /\ ConsoleTypes /\ NotAsked /\ ConsoleShape /\ PromptShape /\ StartShape /\ Failure /\ EndsCounted
  /\ AnswersGrow
KeysInv == InProgress /\ AnswersRight /\ KeysKept
ConsoleInv == ShapeInv /\ KeysInv

----------------------------------------------------------------------------
(* Console: what the proofs need of lists.                                   *)

\* A signal that is posted, and one that is delivered.
LEMMA PostedIs ==
  ASSUME ConsoleTypes
  PROVE  /\ \A s \in ConsoleSignals : /\ Append(posted, s) \in Seq(ConsoleSignals)
                                      /\ ToSet(Append(posted, s)) = ToSet(posted) \cup {s}
         /\ posted # <<>> => /\ Head(posted) \in ToSet(posted) /\ Tail(posted) \in Seq(ConsoleSignals)
                             /\ ToSet(Tail(posted)) \subseteq ToSet(posted)
<1>1. posted \in Seq(ConsoleSignals)
  BY DEF ConsoleTypes
<1>2. ASSUME NEW s \in ConsoleSignals
      PROVE  /\ Append(posted, s) \in Seq(ConsoleSignals)
             /\ ToSet(Append(posted, s)) = ToSet(posted) \cup {s}
  <2>1. Append(posted, s) \in Seq(ConsoleSignals) /\ Len(Append(posted, s)) = Len(posted) + 1
        /\ Append(posted, s)[Len(posted) + 1] = s
        /\ \A i \in 1 .. Len(posted) : Append(posted, s)[i] = posted[i]
    BY <1>1, AppendProperties
  <2>2. DOMAIN Append(posted, s) = 1 .. Len(posted) + 1 /\ DOMAIN posted = 1 .. Len(posted)
    BY <1>1, <2>1
  <2> QED BY <2>1, <2>2 DEF ToSet
<1>3. ASSUME posted # <<>>
      PROVE  /\ Head(posted) \in ToSet(posted) /\ Tail(posted) \in Seq(ConsoleSignals)
             /\ ToSet(Tail(posted)) \subseteq ToSet(posted)
  <2>1. /\ Tail(posted) \in Seq(ConsoleSignals) /\ Len(Tail(posted)) = Len(posted) - 1
        /\ \A i \in 1 .. Len(Tail(posted)) : Tail(posted)[i] = posted[i + 1]
    BY <1>1, <1>3, HeadTailProperties
  <2>2. /\ DOMAIN Tail(posted) = 1 .. Len(posted) - 1 /\ DOMAIN posted = 1 .. Len(posted)
        /\ Len(posted) \in Nat
    BY <1>1, <2>1
  <2>3. Head(posted) = posted[1] /\ 1 \in DOMAIN posted
    BY <1>1, <1>3
  <2>4. ToSet(Tail(posted)) \subseteq ToSet(posted)
    <3>1. ASSUME NEW i \in DOMAIN Tail(posted) PROVE Tail(posted)[i] \in ToSet(posted)
      <4>1. Tail(posted)[i] = posted[i + 1] /\ i + 1 \in DOMAIN posted
        BY <2>1, <2>2
      <4> QED BY <4>1 DEF ToSet
    <3> QED BY <3>1 DEF ToSet
  <2> QED BY <2>1, <2>3, <2>4 DEF ToSet
<1> QED BY <1>2, <1>3

\* Nothing is posted twice at the start.
LEMMA NonePosted == ToSet(<<>>) = {}
BY DEF ToSet

\* What has been told is counted.
LEMMA Counting ==
  ASSUME ConsoleTypes
  PROVE  IsFiniteSet(AnswersTold) /\ Cardinality(AnswersTold) \in Nat
<1>1. IsFiniteSet(1 .. Len(answers)) /\ DOMAIN answers = 1 .. Len(answers)
  BY FS_Interval DEF ConsoleTypes
<1>2. IsFiniteSet(AnswersTold)
  BY <1>1, FS_Subset DEF AnswersTold
<1> QED BY <1>2, FS_CardinalityType

\* An answer more.
LEMMA OneAnswerMore ==
  ASSUME ConsoleTypes, AnswersGrow, NEW a \in Answers, a.upTo \in used .. used + 1,
         answers' = Append(answers, a), used' = a.upTo
  PROVE  /\ answers' \in Seq(Answers) /\ LastUpTo' = used' /\ AnswersGrow'
         /\ Len(answers') = Len(answers) + 1 /\ answers'[Len(answers) + 1] = a
         /\ \A i \in 1 .. Len(answers) : answers'[i] = answers[i]
         /\ Cardinality(AnswersTold') \in Nat
         /\ Cardinality(AnswersTold') = Cardinality(AnswersTold) + (IF a.how = "failed" THEN 0 ELSE 1)
<1>1. /\ answers' \in Seq(Answers) /\ Len(answers') = Len(answers) + 1
      /\ answers'[Len(answers) + 1] = a /\ answers' # <<>>
      /\ \A i \in 1 .. Len(answers) : answers'[i] = answers[i]
  <2>1. answers \in Seq(Answers)
    BY DEF ConsoleTypes
  <2> QED BY <2>1, AppendProperties
<1>2. Len(answers) \in Nat /\ used \in Nat /\ answers \in Seq(Answers)
  BY DEF ConsoleTypes
<1>3. LastUpTo' = used'
  BY <1>1, <1>2 DEF LastUpTo
<1>4. AnswersGrow'
  <2>1. ASSUME NEW i \in 1 .. Len(answers') PROVE answers'[i].upTo <= used'
    <3>1. CASE i = Len(answers) + 1
      BY <1>1, <1>2, <3>1
    <3>2. CASE i # Len(answers) + 1
      <4>1. i \in 1 .. Len(answers)
        BY <1>1, <1>2, <3>2
      <4>2. answers[i] \in Answers /\ answers'[i] = answers[i]
        BY <1>1, <1>2, <4>1
      <4>3. answers[i].upTo \in Nat
        BY <4>2 DEF Answers
      <4>4. answers[i].upTo <= used
        BY <4>1 DEF AnswersGrow
      <4> QED BY <1>2, <4>2, <4>3, <4>4
    <3> QED BY <3>1, <3>2
  <2> QED BY <2>1 DEF AnswersGrow
<1>5. DOMAIN answers = 1 .. Len(answers) /\ DOMAIN answers' = 1 .. Len(answers) + 1
  BY <1>1, <1>2
<1>6. IsFiniteSet(AnswersTold) /\ Cardinality(AnswersTold) \in Nat
  BY Counting
<1>7. AnswersTold' = AnswersTold \cup (IF a.how = "failed" THEN {} ELSE {Len(answers) + 1})
  BY <1>1, <1>2, <1>5 DEF AnswersTold
<1>8. Len(answers) + 1 \notin AnswersTold
  BY <1>2, <1>5 DEF AnswersTold
<1>9. Cardinality(AnswersTold') = Cardinality(AnswersTold) + (IF a.how = "failed" THEN 0 ELSE 1)
  <2>1. CASE a.how = "failed"
    BY <1>6, <1>7, <2>1
  <2>2. CASE a.how # "failed"
    BY <1>6, <1>7, <1>8, <2>2, FS_AddElement
  <2> QED BY <2>1, <2>2
<1> QED BY <1>1, <1>3, <1>4, <1>6, <1>9

----------------------------------------------------------------------------
(* Console: every step keeps the shape.                                      *)

\* The shape stays when Type is taken.
LEMMA TypeShape ==
  ASSUME ShapeInv, NEW key \in Keys, Type(key)
  PROVE  ShapeInv'
<1>1. ConsoleTypes /\ NotAsked /\ ConsoleShape /\ PromptShape /\ StartShape /\ Failure /\ EndsCounted
  BY DEF ShapeInv
<1>2. ConsoleTypes'
  BY <1>1, PostedIs, ConsoleAssumption DEF Type, user, program, consoleHistory, ConsoleTypes,
     Consoles, Refs, Prompts, ConsoleSignals, Starting, NotAsked
<1>3. NotAsked'
  BY <1>1 DEF Type, user, program, consoleHistory, NotAsked, ConsoleTypes, Consoles
<1>4. ConsoleShape'
  BY <1>1 DEF Type, user, program, consoleHistory, NotAsked, ConsoleShape, ConsoleTypes, Consoles,
     Refs
<1>5. PromptShape'
  BY <1>1 DEF Type, user, program, consoleHistory, PromptShape, StartShape, NotAsked, LastUpTo,
     ConsoleTypes, Consoles, Refs, Prompts, Starting
<1>6. StartShape'
  BY <1>1 DEF Type, user, program, consoleHistory, PromptShape, StartShape, LastUpTo, ConsoleTypes,
     Consoles, Refs, Prompts, Starting
<1>7. Failure'
  BY <1>1, PostedIs DEF Type, user, program, consoleHistory, Failure, PromptShape, StartShape,
     ConsoleShape, ConsoleTypes, ConsoleSignals, Consoles, Refs, Prompts, Starting
<1>8. EndsCounted'
  BY <1>1, Counting DEF Type, user, program, consoleHistory, EndsCounted, AnswersTold,
     ConsoleTypes, Prompts, PromptShape, NotAsked
<1>9. AnswersGrow'
  BY DEF Type, user, program, consoleHistory, ShapeInv, AnswersGrow
<1> QED BY <1>2, <1>3, <1>4, <1>5, <1>6, <1>7, <1>8, <1>9 DEF ShapeInv

\* The shape stays when HangUp is taken.
LEMMA HangUpShape ==
  ASSUME ShapeInv, HangUp
  PROVE  ShapeInv'
<1>1. ConsoleTypes /\ NotAsked /\ ConsoleShape /\ PromptShape /\ StartShape /\ Failure /\ EndsCounted
  BY DEF ShapeInv
<1>2. ConsoleTypes'
  BY <1>1, PostedIs, ConsoleAssumption DEF HangUp, user, program, consoleHistory, ConsoleTypes,
     Consoles, Refs, Prompts, ConsoleSignals, Starting, NotAsked
<1>3. NotAsked'
  BY <1>1 DEF HangUp, user, program, consoleHistory, NotAsked, ConsoleTypes, Consoles
<1>4. ConsoleShape'
  BY <1>1 DEF HangUp, user, program, consoleHistory, NotAsked, ConsoleShape, ConsoleTypes,
     Consoles, Refs
<1>5. PromptShape'
  BY <1>1 DEF HangUp, user, program, consoleHistory, PromptShape, StartShape, NotAsked, LastUpTo,
     ConsoleTypes, Consoles, Refs, Prompts, Starting
<1>6. StartShape'
  BY <1>1 DEF HangUp, user, program, consoleHistory, PromptShape, StartShape, LastUpTo,
     ConsoleTypes, Consoles, Refs, Prompts, Starting
<1>7. Failure'
  BY <1>1, PostedIs DEF HangUp, user, program, consoleHistory, Failure, PromptShape, StartShape,
     ConsoleShape, ConsoleTypes, ConsoleSignals, Consoles, Refs, Prompts, Starting
<1>8. EndsCounted'
  BY <1>1, Counting DEF HangUp, user, program, consoleHistory, EndsCounted, AnswersTold,
     ConsoleTypes, Prompts, PromptShape, NotAsked
<1>9. AnswersGrow'
  BY DEF HangUp, user, program, consoleHistory, ShapeInv, AnswersGrow
<1> QED BY <1>2, <1>3, <1>4, <1>5, <1>6, <1>7, <1>8, <1>9 DEF ShapeInv

\* The shape stays when in_readyRead is taken.
LEMMA in_readyReadShape ==
  ASSUME ShapeInv, in_readyRead
  PROVE  ShapeInv'
<1>1. ConsoleTypes /\ NotAsked /\ ConsoleShape /\ PromptShape /\ StartShape /\ Failure /\ EndsCounted
  BY DEF ShapeInv
<1>2. ConsoleTypes'
  <2>1. con.buf \in Seq(Keys) /\ tty \in Seq(Keys) /\ used \in Nat
    BY <1>1 DEF ConsoleTypes, Consoles
  <2>2. PICK n \in 1 .. Len(tty) : /\ con' = [con EXCEPT !.buf = @ \o SubSeq(tty, 1, n)]
                                   /\ tty' = SubSeq(tty, n + 1, Len(tty))
    BY DEF in_readyRead
  <2>3. /\ SubSeq(tty, 1, n) \in Seq(Keys) /\ Len(SubSeq(tty, 1, n)) = n
        /\ tty' \in Seq(Keys) /\ Len(tty') = Len(tty) - n
    BY <2>1, <2>2, SubSeqProperties
  <2>4. PICK all : all = con.buf \o SubSeq(tty, 1, n)
    OBVIOUS
  <2>5. all \in Seq(Keys) /\ Len(all) = Len(con.buf) + n
    BY <2>1, <2>3, <2>4, ConcatProperties
  <2>6. con' \in Consoles /\ con'.buf = all
    BY <1>1, <2>2, <2>4, <2>5 DEF ConsoleTypes, Consoles
  <2>7. used + Len(con'.buf) + Len(tty') = used + Len(con.buf) + Len(tty)
    <3>1. Len(con.buf) \in Nat /\ Len(tty) \in Nat /\ n \in Nat
      BY <2>1
    <3>2. Len(con'.buf) = Len(con.buf) + n /\ Len(tty') = Len(tty) - n
      BY <2>3, <2>5, <2>6
    <3> QED BY <2>1, <3>1, <3>2
  <2>8. posted' \in Seq(ConsoleSignals)
    <3>1. Append(posted, "readyRead") \in Seq(ConsoleSignals)
      BY <1>1, PostedIs DEF ConsoleSignals
    <3> QED BY <1>1, <3>1 DEF in_readyRead, Signals, ConsoleTypes
  <2> QED BY <1>1, <2>3, <2>6, <2>7, <2>8 DEF in_readyRead, Signals, program, ConsoleTypes
<1>3. NotAsked'
  BY <1>1 DEF in_readyRead, Signals, user, program, consoleHistory, NotAsked, PromptShape,
     ConsoleShape, ConsoleTypes, Consoles, Refs
<1>4. ConsoleShape'
  BY <1>1 DEF in_readyRead, Signals, user, program, consoleHistory, NotAsked, ConsoleShape,
     ConsoleTypes, Consoles, Refs
<1>5. PromptShape'
  BY <1>1 DEF in_readyRead, Signals, user, program, consoleHistory, PromptShape, StartShape,
     NotAsked, LastUpTo, ConsoleTypes, Consoles, Refs, Prompts, Starting
<1>6. StartShape'
  BY <1>1 DEF in_readyRead, Signals, user, program, consoleHistory, PromptShape, StartShape,
     LastUpTo, ConsoleTypes, Consoles, Refs, Prompts, Starting
<1>7. Failure'
  BY <1>1, PostedIs DEF in_readyRead, Signals, user, program, consoleHistory, Failure, PromptShape,
     StartShape, ConsoleShape, ConsoleTypes, ConsoleSignals, Consoles, Refs, Prompts, Starting
<1>8. EndsCounted'
  BY <1>1, Counting DEF in_readyRead, Signals, user, program, consoleHistory, EndsCounted,
     AnswersTold, ConsoleTypes, Prompts, PromptShape, NotAsked
<1>9. AnswersGrow'
  BY DEF in_readyRead, Signals, user, program, consoleHistory, ShapeInv, AnswersGrow
<1> QED BY <1>2, <1>3, <1>4, <1>5, <1>6, <1>7, <1>8, <1>9 DEF ShapeInv

\* The shape stays when in_closed is taken.
LEMMA in_closedShape ==
  ASSUME ShapeInv, in_closed
  PROVE  ShapeInv'
<1>1. ConsoleTypes /\ NotAsked /\ ConsoleShape /\ PromptShape /\ StartShape /\ Failure /\ EndsCounted
  BY DEF ShapeInv
<1>2. ConsoleTypes'
  <2>1. con' \in Consoles /\ con'.buf = con.buf
    BY <1>1 DEF in_closed, ConsoleTypes, Consoles
  <2>2. posted' \in Seq(ConsoleSignals)
    <3>1. Append(posted, "inputClosed") \in Seq(ConsoleSignals)
      BY <1>1, PostedIs DEF ConsoleSignals
    <3> QED BY <1>1, <3>1 DEF in_closed, Signals, ConsoleTypes
  <2> QED BY <1>1, <2>1, <2>2 DEF in_closed, Signals, user, program, ConsoleTypes
<1>3. NotAsked'
  BY <1>1 DEF in_closed, Signals, user, program, consoleHistory, NotAsked, PromptShape,
     ConsoleShape, ConsoleTypes, Consoles, Refs
<1>4. ConsoleShape'
  BY <1>1 DEF in_closed, Signals, user, program, consoleHistory, NotAsked, ConsoleShape,
     ConsoleTypes, Consoles, Refs
<1>5. PromptShape'
  BY <1>1 DEF in_closed, Signals, user, program, consoleHistory, PromptShape, StartShape, NotAsked,
     LastUpTo, ConsoleTypes, Consoles, Refs, Prompts, Starting
<1>6. StartShape'
  BY <1>1 DEF in_closed, Signals, user, program, consoleHistory, PromptShape, StartShape, LastUpTo,
     ConsoleTypes, Consoles, Refs, Prompts, Starting
<1>7. Failure'
  BY <1>1, PostedIs DEF in_closed, Signals, user, program, consoleHistory, Failure, PromptShape,
     StartShape, ConsoleShape, ConsoleTypes, ConsoleSignals, Consoles, Refs, Prompts, Starting
<1>8. EndsCounted'
  BY <1>1, Counting DEF in_closed, Signals, user, program, consoleHistory, EndsCounted,
     AnswersTold, ConsoleTypes, Prompts, PromptShape, NotAsked
<1>9. AnswersGrow'
  BY DEF in_closed, Signals, user, program, consoleHistory, ShapeInv, AnswersGrow
<1> QED BY <1>2, <1>3, <1>4, <1>5, <1>6, <1>7, <1>8, <1>9 DEF ShapeInv

\* The shape stays when CreateConsole is taken.
LEMMA CreateConsoleShape ==
  ASSUME ShapeInv, CreateConsole
  PROVE  ShapeInv'
<1>1. ConsoleTypes /\ NotAsked /\ ConsoleShape /\ PromptShape /\ StartShape /\ Failure /\ EndsCounted
  BY DEF ShapeInv
<1>2. ConsoleTypes'
  BY <1>1, PostedIs, ConsoleAssumption DEF CreateConsole, Opened, user, program, consoleHistory,
     ConsoleTypes, Consoles, Refs, Prompts, ConsoleSignals, Starting, NotAsked
<1>3. NotAsked'
  BY <1>1 DEF CreateConsole, Opened, user, program, consoleHistory, NotAsked, ConsoleTypes, Consoles
<1>4. ConsoleShape'
  BY <1>1 DEF CreateConsole, Opened, user, program, consoleHistory, NotAsked, ConsoleShape,
     ConsoleTypes, Consoles, Refs
<1>5. PromptShape'
  BY <1>1 DEF CreateConsole, Opened, user, program, consoleHistory, PromptShape, StartShape,
     NotAsked, LastUpTo, ConsoleTypes, Consoles, Refs, Prompts, Starting
<1>6. StartShape'
  BY <1>1 DEF CreateConsole, Opened, user, program, consoleHistory, PromptShape, StartShape,
     LastUpTo, ConsoleTypes, Consoles, Refs, Prompts, Starting
<1>7. Failure'
  BY <1>1, PostedIs DEF CreateConsole, Opened, user, program, consoleHistory, Failure, PromptShape,
     StartShape, ConsoleShape, ConsoleTypes, ConsoleSignals, Consoles, Refs, Prompts, Starting
<1>8. EndsCounted'
  BY <1>1, Counting DEF CreateConsole, Opened, user, program, consoleHistory, EndsCounted,
     AnswersTold, ConsoleTypes, Prompts, PromptShape, NotAsked
<1>9. AnswersGrow'
  BY DEF CreateConsole, Opened, user, program, consoleHistory, ShapeInv, AnswersGrow
<1> QED BY <1>2, <1>3, <1>4, <1>5, <1>6, <1>7, <1>8, <1>9 DEF ShapeInv

\* The shape stays when release is taken.
LEMMA releaseShape ==
  ASSUME ShapeInv, release
  PROVE  ShapeInv'
<1>1. ConsoleTypes /\ NotAsked /\ ConsoleShape /\ PromptShape /\ StartShape /\ Failure /\ EndsCounted
  BY DEF ShapeInv
<1>2. ConsoleTypes'
  <2>1. <<>> \in Seq(Keys) /\ Len(<<>>) = 0
    BY Empties
  <2>2. con' \in Consoles /\ con'.buf = <<>> /\ tty' = <<>>
    BY <1>1, <2>1 DEF release, ConsoleTypes, Consoles
  <2>3. used + Len(con'.buf) + Len(tty') <= Len(typed)
    BY <1>1, <2>1, <2>2 DEF ConsoleTypes, Consoles
  <2> QED BY <1>1, <2>1, <2>2, <2>3 DEF release, program, consoleHistory, ConsoleTypes
<1>3. NotAsked'
  BY <1>1 DEF release, user, program, consoleHistory, NotAsked, ConsoleTypes, Consoles
<1>4. ConsoleShape'
  BY <1>1 DEF release, user, program, consoleHistory, NotAsked, ConsoleShape, ConsoleTypes,
     Consoles, Refs
<1>5. PromptShape'
  BY <1>1 DEF release, user, program, consoleHistory, PromptShape, StartShape, NotAsked, LastUpTo,
     ConsoleTypes, Consoles, Refs, Prompts, Starting
<1>6. StartShape'
  BY <1>1 DEF release, user, program, consoleHistory, PromptShape, StartShape, LastUpTo,
     ConsoleTypes, Consoles, Refs, Prompts, Starting
<1>7. Failure'
  BY <1>1, PostedIs DEF release, user, program, consoleHistory, Failure, PromptShape, StartShape,
     ConsoleShape, ConsoleTypes, ConsoleSignals, Consoles, Refs, Prompts, Starting
<1>8. EndsCounted'
  BY <1>1, Counting DEF release, user, program, consoleHistory, EndsCounted, AnswersTold,
     ConsoleTypes, Prompts, PromptShape, NotAsked
<1>9. AnswersGrow'
  BY DEF release, user, program, consoleHistory, ShapeInv, AnswersGrow
<1> QED BY <1>2, <1>3, <1>4, <1>5, <1>6, <1>7, <1>8, <1>9 DEF ShapeInv

\* The shape stays when Ask is taken.
LEMMA AskShape ==
  ASSUME ShapeInv, NEW charMode \in BOOLEAN, Ask(charMode)
  PROVE  ShapeInv'
<1>1. ConsoleTypes /\ NotAsked /\ ConsoleShape /\ PromptShape /\ StartShape /\ Failure /\ EndsCounted
  BY DEF ShapeInv
<1>2. ConsoleTypes'
  <2>1. <<>> \in Seq(Keys) /\ Len(<<>>) = 0
    BY Empties
  <2>2. con' \in Consoles /\ used + Len(con'.buf) + Len(tty) <= Len(typed)
    <3>1. CASE con.there
      BY <1>1, <3>1 DEF Ask, ConsoleTypes
    <3>2. CASE ~con.there
      <4>1. con' = [there |-> TRUE, own_con |-> TRUE, released |-> FALSE, buf |-> <<>>,
                   valid |-> ~hungup]
        BY <3>2 DEF Ask, Opened
      <4>2. con' \in Consoles /\ con'.buf = <<>>
        BY <1>1, <2>1, <4>1 DEF ConsoleTypes, Consoles
      <4> QED BY <1>1, <2>1, <4>2 DEF ConsoleTypes, Consoles
    <3> QED BY <3>1, <3>2
  <2>3. ref' \in Refs /\ prompt' \in Prompts /\ prompt'.result = <<>>
    BY <2>1 DEF Ask, NoRef, Refs, Prompts
  <2>4. Len(prompt'.result) <= IF prompt'.charMode THEN 1 ELSE InputMax
    BY <2>1, <2>3, ConsoleAssumption
  <2>5. /\ typed' = typed /\ tty' = tty /\ hungup' = hungup /\ posted' = posted
        /\ answers' = answers /\ used' = used /\ calls' = calls + 1 /\ pc' = "valid"
    BY DEF Ask, user
  <2>6. used' + Len(con'.buf) + Len(tty') <= Len(typed')
    BY <2>2, <2>5
  <2>7. calls' \in Nat /\ pc' \in Starting
    BY <1>1, <2>5 DEF ConsoleTypes, Starting
  <2> HIDE DEF Ask
  <2> QED BY <1>1, <2>2, <2>3, <2>4, <2>5, <2>6, <2>7 DEF ConsoleTypes
<1>3. NotAsked'
  BY <1>1 DEF Ask, Opened, NoRef, user, program, consoleHistory, NotAsked, ConsoleTypes, Consoles
<1>4. ConsoleShape'
  BY <1>1 DEF Ask, Opened, NoRef, user, program, consoleHistory, NotAsked, ConsoleShape,
     ConsoleTypes, Consoles, Refs
<1>5. PromptShape'
  BY <1>1 DEF Ask, Opened, NoRef, user, program, consoleHistory, PromptShape, StartShape, NotAsked,
     LastUpTo, ConsoleTypes, Consoles, Refs, Prompts, Starting
<1>6. StartShape'
  BY <1>1 DEF Ask, Opened, NoRef, user, program, consoleHistory, PromptShape, StartShape, LastUpTo,
     ConsoleTypes, Consoles, Refs, Prompts, Starting
<1>7. Failure'
  BY <1>1, PostedIs DEF Ask, Opened, NoRef, user, program, consoleHistory, Failure, PromptShape,
     StartShape, ConsoleShape, ConsoleTypes, ConsoleSignals, Consoles, Refs, Prompts, Starting
<1>8. EndsCounted'
  BY <1>1, Counting DEF Ask, Opened, NoRef, user, program, consoleHistory, EndsCounted,
     AnswersTold, ConsoleTypes, Prompts, PromptShape, NotAsked
<1>9. AnswersGrow'
  BY DEF Ask, Opened, NoRef, user, program, consoleHistory, ShapeInv, AnswersGrow
<1> QED BY <1>2, <1>3, <1>4, <1>5, <1>6, <1>7, <1>8, <1>9 DEF ShapeInv

\* The shape stays when isValid is taken.
LEMMA isValidShape ==
  ASSUME ShapeInv, isValid
  PROVE  ShapeInv'
<1>1. ConsoleTypes /\ NotAsked /\ ConsoleShape /\ PromptShape /\ StartShape /\ Failure /\ EndsCounted
  BY DEF ShapeInv
<1>2. ConsoleTypes'
  BY <1>1, PostedIs, ConsoleAssumption DEF isValid, user, program, consoleHistory, ConsoleTypes,
     Consoles, Refs, Prompts, ConsoleSignals, Starting, NotAsked
<1>3. NotAsked'
  BY <1>1 DEF isValid, user, program, consoleHistory, NotAsked, ConsoleTypes, Consoles
<1>4. ConsoleShape'
  BY <1>1 DEF isValid, user, program, consoleHistory, NotAsked, ConsoleShape, ConsoleTypes,
     Consoles, Refs
<1>5. PromptShape'
  BY <1>1 DEF isValid, user, program, consoleHistory, PromptShape, StartShape, NotAsked, LastUpTo,
     ConsoleTypes, Consoles, Refs, Prompts, Starting
<1>6. StartShape'
  BY <1>1 DEF isValid, user, program, consoleHistory, PromptShape, StartShape, LastUpTo,
     ConsoleTypes, Consoles, Refs, Prompts, Starting
<1>7. Failure'
  BY <1>1, PostedIs DEF isValid, user, program, consoleHistory, Failure, PromptShape, StartShape,
     ConsoleShape, ConsoleTypes, ConsoleSignals, Consoles, Refs, Prompts, Starting
<1>8. EndsCounted'
  BY <1>1, Counting DEF isValid, user, program, consoleHistory, EndsCounted, AnswersTold,
     ConsoleTypes, Prompts, PromptShape, NotAsked
<1>9. AnswersGrow'
  BY DEF isValid, user, program, consoleHistory, ShapeInv, AnswersGrow
<1> QED BY <1>2, <1>3, <1>4, <1>5, <1>6, <1>7, <1>8, <1>9 DEF ShapeInv

\* The shape stays when start_fails is taken.
LEMMA start_failsShape ==
  ASSUME ShapeInv, start_fails
  PROVE  ShapeInv'
<1>1. ConsoleTypes /\ NotAsked /\ ConsoleShape /\ PromptShape /\ StartShape /\ Failure /\ EndsCounted
  BY DEF ShapeInv
<1>2. ConsoleTypes'
  BY <1>1, PostedIs, ConsoleAssumption DEF start_fails, Return, Reset, NoConsole, NoRef, user,
     program, consoleHistory, ConsoleTypes, Consoles, Refs, Prompts, ConsoleSignals, Starting,
     NotAsked
<1>3. NotAsked'
  BY <1>1 DEF start_fails, Return, Reset, NoConsole, NoRef, user, program, consoleHistory,
     NotAsked, ConsoleTypes, Consoles
<1>4. ConsoleShape'
  BY <1>1 DEF start_fails, Return, Reset, NoConsole, NoRef, user, program, consoleHistory,
     NotAsked, ConsoleShape, ConsoleTypes, Consoles, Refs
<1>5. PromptShape'
  BY <1>1 DEF start_fails, Return, Reset, NoConsole, NoRef, user, program, consoleHistory,
     PromptShape, StartShape, NotAsked, LastUpTo, ConsoleTypes, Consoles, Refs, Prompts, Starting
<1>6. StartShape'
  BY <1>1 DEF start_fails, Return, Reset, NoConsole, NoRef, user, program, consoleHistory,
     PromptShape, StartShape, LastUpTo, ConsoleTypes, Consoles, Refs, Prompts, Starting
<1>7. Failure'
  <2>1. hungup /\ ~con.valid /\ con.buf = <<>>
    BY <1>1 DEF start_fails, StartShape, PromptShape, ConsoleShape, Starting
  <2>2. hungup' /\ ~con'.valid /\ con'.buf = <<>>
    BY <2>1 DEF start_fails, Reset, NoConsole, user
  <2>3. ~ref'.console /\ ~prompt'.waiting
    BY <1>1 DEF start_fails, NoRef, StartShape, Starting
  <2> QED BY <2>2, <2>3 DEF Failure
<1>8. EndsCounted'
  BY <1>1, Counting DEF start_fails, Return, Reset, NoConsole, NoRef, user, program,
     consoleHistory, EndsCounted, AnswersTold, ConsoleTypes, Prompts, PromptShape, NotAsked
<1>9. AnswersGrow'
  BY DEF start_fails, Return, Reset, NoConsole, NoRef, user, program, consoleHistory, ShapeInv,
     AnswersGrow
<1> QED BY <1>2, <1>3, <1>4, <1>5, <1>6, <1>7, <1>8, <1>9 DEF ShapeInv

\* The shape stays when bytesAvailable is taken.
LEMMA bytesAvailableShape ==
  ASSUME ShapeInv, bytesAvailable
  PROVE  ShapeInv'
<1>1. ConsoleTypes /\ NotAsked /\ ConsoleShape /\ PromptShape /\ StartShape /\ Failure /\ EndsCounted
  BY DEF ShapeInv
<1>2. ConsoleTypes'
  BY <1>1, PostedIs, ConsoleAssumption DEF bytesAvailable, user, program, consoleHistory,
     ConsoleTypes, Consoles, Refs, Prompts, ConsoleSignals, Starting, NotAsked
<1>3. NotAsked'
  BY <1>1 DEF bytesAvailable, user, program, consoleHistory, NotAsked, ConsoleTypes, Consoles
<1>4. ConsoleShape'
  BY <1>1 DEF bytesAvailable, user, program, consoleHistory, NotAsked, ConsoleShape, ConsoleTypes,
     Consoles, Refs
<1>5. PromptShape'
  BY <1>1 DEF bytesAvailable, user, program, consoleHistory, PromptShape, StartShape, NotAsked,
     LastUpTo, ConsoleTypes, Consoles, Refs, Prompts, Starting
<1>6. StartShape'
  BY <1>1 DEF bytesAvailable, user, program, consoleHistory, PromptShape, StartShape, LastUpTo,
     ConsoleTypes, Consoles, Refs, Prompts, Starting
<1>7. Failure'
  BY <1>1, PostedIs DEF bytesAvailable, user, program, consoleHistory, Failure, PromptShape,
     StartShape, ConsoleShape, ConsoleTypes, ConsoleSignals, Consoles, Refs, Prompts, Starting
<1>8. EndsCounted'
  BY <1>1, Counting DEF bytesAvailable, user, program, consoleHistory, EndsCounted, AnswersTold,
     ConsoleTypes, Prompts, PromptShape, NotAsked
<1>9. AnswersGrow'
  BY DEF bytesAvailable, user, program, consoleHistory, ShapeInv, AnswersGrow
<1> QED BY <1>2, <1>3, <1>4, <1>5, <1>6, <1>7, <1>8, <1>9 DEF ShapeInv

\* The shape stays when connect is taken.
LEMMA connectShape ==
  ASSUME ShapeInv, connect
  PROVE  ShapeInv'
<1>1. ConsoleTypes /\ NotAsked /\ ConsoleShape /\ PromptShape /\ StartShape /\ Failure /\ EndsCounted
  BY DEF ShapeInv
<1>2. ConsoleTypes'
  BY <1>1, PostedIs, ConsoleAssumption DEF connect, Return, user, program, consoleHistory,
     ConsoleTypes, Consoles, Refs, Prompts, ConsoleSignals, Starting, NotAsked
<1>3. NotAsked'
  BY <1>1 DEF connect, Return, user, program, consoleHistory, NotAsked, ConsoleTypes, Consoles
<1>4. ConsoleShape'
  BY <1>1 DEF connect, Return, user, program, consoleHistory, NotAsked, ConsoleShape, ConsoleTypes,
     Consoles, Refs
<1>5. PromptShape'
  BY <1>1 DEF connect, Return, user, program, consoleHistory, PromptShape, StartShape, NotAsked,
     LastUpTo, ConsoleTypes, Consoles, Refs, Prompts, Starting
<1>6. StartShape'
  BY <1>1 DEF connect, Return, user, program, consoleHistory, PromptShape, StartShape, LastUpTo,
     ConsoleTypes, Consoles, Refs, Prompts, Starting
<1>7. Failure'
  BY <1>1, PostedIs DEF connect, Return, user, program, consoleHistory, Failure, PromptShape,
     StartShape, ConsoleShape, ConsoleTypes, ConsoleSignals, Consoles, Refs, Prompts, Starting
<1>8. EndsCounted'
  BY <1>1, Counting DEF connect, Return, user, program, consoleHistory, EndsCounted, AnswersTold,
     ConsoleTypes, Prompts, PromptShape, NotAsked
<1>9. AnswersGrow'
  BY DEF connect, Return, user, program, consoleHistory, ShapeInv, AnswersGrow
<1> QED BY <1>2, <1>3, <1>4, <1>5, <1>6, <1>7, <1>8, <1>9 DEF ShapeInv

\* The shape stays when waitForFinished is taken.
LEMMA waitForFinishedShape ==
  ASSUME ShapeInv, waitForFinished
  PROVE  ShapeInv'
<1>1. ConsoleTypes /\ NotAsked /\ ConsoleShape /\ PromptShape /\ StartShape /\ Failure /\ EndsCounted
  BY DEF ShapeInv
<1>2. ConsoleTypes'
  BY <1>1, PostedIs, ConsoleAssumption DEF waitForFinished, user, program, consoleHistory,
     ConsoleTypes, Consoles, Refs, Prompts, ConsoleSignals, Starting, NotAsked
<1>3. NotAsked'
  BY <1>1 DEF waitForFinished, user, program, consoleHistory, NotAsked, ConsoleTypes, Consoles
<1>4. ConsoleShape'
  BY <1>1 DEF waitForFinished, user, program, consoleHistory, NotAsked, ConsoleShape, ConsoleTypes,
     Consoles, Refs
<1>5. PromptShape'
  BY <1>1 DEF waitForFinished, user, program, consoleHistory, PromptShape, StartShape, NotAsked,
     LastUpTo, ConsoleTypes, Consoles, Refs, Prompts, Starting
<1>6. StartShape'
  BY <1>1 DEF waitForFinished, user, program, consoleHistory, PromptShape, StartShape, LastUpTo,
     ConsoleTypes, Consoles, Refs, Prompts, Starting
<1>7. Failure'
  BY <1>1, PostedIs DEF waitForFinished, user, program, consoleHistory, Failure, PromptShape,
     StartShape, ConsoleShape, ConsoleTypes, ConsoleSignals, Consoles, Refs, Prompts, Starting
<1>8. EndsCounted'
  BY <1>1, Counting DEF waitForFinished, user, program, consoleHistory, EndsCounted, AnswersTold,
     ConsoleTypes, Prompts, PromptShape, NotAsked
<1>9. AnswersGrow'
  BY DEF waitForFinished, user, program, consoleHistory, ShapeInv, AnswersGrow
<1> QED BY <1>2, <1>3, <1>4, <1>5, <1>6, <1>7, <1>8, <1>9 DEF ShapeInv

\* The shape stays when con_readyRead_returns is taken.
LEMMA con_readyRead_returnsShape ==
  ASSUME ShapeInv, con_readyRead_returns
  PROVE  ShapeInv'
<1>1. ConsoleTypes /\ NotAsked /\ ConsoleShape /\ PromptShape /\ StartShape /\ Failure /\ EndsCounted
  BY DEF ShapeInv
<1>2. ConsoleTypes'
  BY <1>1, PostedIs, ConsoleAssumption DEF con_readyRead_returns, Return, user, program,
     consoleHistory, ConsoleTypes, Consoles, Refs, Prompts, ConsoleSignals, Starting, NotAsked
<1>3. NotAsked'
  BY <1>1 DEF con_readyRead_returns, Return, user, program, consoleHistory, NotAsked, ConsoleTypes,
     Consoles
<1>4. ConsoleShape'
  BY <1>1 DEF con_readyRead_returns, Return, user, program, consoleHistory, NotAsked, ConsoleShape,
     ConsoleTypes, Consoles, Refs
<1>5. PromptShape'
  BY <1>1 DEF con_readyRead_returns, Return, user, program, consoleHistory, PromptShape,
     StartShape, NotAsked, LastUpTo, ConsoleTypes, Consoles, Refs, Prompts, Starting
<1>6. StartShape'
  BY <1>1 DEF con_readyRead_returns, Return, user, program, consoleHistory, PromptShape,
     StartShape, LastUpTo, ConsoleTypes, Consoles, Refs, Prompts, Starting
<1>7. Failure'
  BY <1>1, PostedIs DEF con_readyRead_returns, Return, user, program, consoleHistory, Failure,
     PromptShape, StartShape, ConsoleShape, ConsoleTypes, ConsoleSignals, Consoles, Refs, Prompts,
     Starting
<1>8. EndsCounted'
  BY <1>1, Counting DEF con_readyRead_returns, Return, user, program, consoleHistory, EndsCounted,
     AnswersTold, ConsoleTypes, Prompts, PromptShape, NotAsked
<1>9. AnswersGrow'
  BY DEF con_readyRead_returns, Return, user, program, consoleHistory, ShapeInv, AnswersGrow
<1> QED BY <1>2, <1>3, <1>4, <1>5, <1>6, <1>7, <1>8, <1>9 DEF ShapeInv

\* The shape stays when readyRead_delivered is taken.
LEMMA readyRead_deliveredShape ==
  ASSUME ShapeInv, readyRead_delivered
  PROVE  ShapeInv'
<1>1. ConsoleTypes /\ NotAsked /\ ConsoleShape /\ PromptShape /\ StartShape /\ Failure /\ EndsCounted
  BY DEF ShapeInv
<1>2. ConsoleTypes'
  BY <1>1, PostedIs, ConsoleAssumption DEF readyRead_delivered, Turn, user, program,
     consoleHistory, ConsoleTypes, Consoles, Refs, Prompts, ConsoleSignals, Starting, NotAsked
<1>3. NotAsked'
  BY <1>1 DEF readyRead_delivered, Turn, user, program, consoleHistory, NotAsked, ConsoleTypes,
     Consoles
<1>4. ConsoleShape'
  BY <1>1 DEF readyRead_delivered, Turn, user, program, consoleHistory, NotAsked, ConsoleShape,
     ConsoleTypes, Consoles, Refs
<1>5. PromptShape'
  BY <1>1 DEF readyRead_delivered, Turn, user, program, consoleHistory, PromptShape, StartShape,
     NotAsked, LastUpTo, ConsoleTypes, Consoles, Refs, Prompts, Starting
<1>6. StartShape'
  BY <1>1 DEF readyRead_delivered, Turn, user, program, consoleHistory, PromptShape, StartShape,
     LastUpTo, ConsoleTypes, Consoles, Refs, Prompts, Starting
<1>7. Failure'
  BY <1>1, PostedIs DEF readyRead_delivered, Turn, user, program, consoleHistory, Failure,
     PromptShape, StartShape, ConsoleShape, ConsoleTypes, ConsoleSignals, Consoles, Refs, Prompts,
     Starting
<1>8. EndsCounted'
  BY <1>1, Counting DEF readyRead_delivered, Turn, user, program, consoleHistory, EndsCounted,
     AnswersTold, ConsoleTypes, Prompts, PromptShape, NotAsked
<1>9. AnswersGrow'
  BY DEF readyRead_delivered, Turn, user, program, consoleHistory, ShapeInv, AnswersGrow
<1> QED BY <1>2, <1>3, <1>4, <1>5, <1>6, <1>7, <1>8, <1>9 DEF ShapeInv

\* The shape stays when doLate is taken.
LEMMA doLateShape ==
  ASSUME ShapeInv, doLate
  PROVE  ShapeInv'
<1>1. ConsoleTypes /\ NotAsked /\ ConsoleShape /\ PromptShape /\ StartShape /\ Failure /\ EndsCounted
  BY DEF ShapeInv
<1>2. ConsoleTypes'
  BY <1>1, PostedIs, ConsoleAssumption DEF doLate, user, program, consoleHistory, ConsoleTypes,
     Consoles, Refs, Prompts, ConsoleSignals, Starting, NotAsked
<1>3. NotAsked'
  BY <1>1 DEF doLate, user, program, consoleHistory, NotAsked, PromptShape, ConsoleShape,
     ConsoleTypes, Consoles, Refs
<1>4. ConsoleShape'
  BY <1>1 DEF doLate, user, program, consoleHistory, NotAsked, ConsoleShape, ConsoleTypes,
     Consoles, Refs
<1>5. PromptShape'
  BY <1>1 DEF doLate, user, program, consoleHistory, PromptShape, StartShape, NotAsked, LastUpTo,
     ConsoleTypes, Consoles, Refs, Prompts, Starting
<1>6. StartShape'
  BY <1>1 DEF doLate, user, program, consoleHistory, PromptShape, StartShape, LastUpTo,
     ConsoleTypes, Consoles, Refs, Prompts, Starting
<1>7. Failure'
  BY <1>1, PostedIs DEF doLate, user, program, consoleHistory, Failure, PromptShape, StartShape,
     ConsoleShape, ConsoleTypes, ConsoleSignals, Consoles, Refs, Prompts, Starting
<1>8. EndsCounted'
  BY <1>1, Counting DEF doLate, user, program, consoleHistory, EndsCounted, AnswersTold,
     ConsoleTypes, Prompts, PromptShape, NotAsked
<1>9. AnswersGrow'
  BY DEF doLate, user, program, consoleHistory, ShapeInv, AnswersGrow
<1> QED BY <1>2, <1>3, <1>4, <1>5, <1>6, <1>7, <1>8, <1>9 DEF ShapeInv

\* The shape stays when slot_returns is taken.
LEMMA slot_returnsShape ==
  ASSUME ShapeInv, slot_returns
  PROVE  ShapeInv'
<1>1. ConsoleTypes /\ NotAsked /\ ConsoleShape /\ PromptShape /\ StartShape /\ Failure /\ EndsCounted
  BY DEF ShapeInv
<1>2. ConsoleTypes'
  BY <1>1, PostedIs, ConsoleAssumption DEF slot_returns, Return, user, program, consoleHistory,
     ConsoleTypes, Consoles, Refs, Prompts, ConsoleSignals, Starting, NotAsked
<1>3. NotAsked'
  BY <1>1 DEF slot_returns, Return, user, program, consoleHistory, NotAsked, ConsoleTypes, Consoles
<1>4. ConsoleShape'
  BY <1>1 DEF slot_returns, Return, user, program, consoleHistory, NotAsked, ConsoleShape,
     ConsoleTypes, Consoles, Refs
<1>5. PromptShape'
  BY <1>1 DEF slot_returns, Return, user, program, consoleHistory, PromptShape, StartShape,
     NotAsked, LastUpTo, ConsoleTypes, Consoles, Refs, Prompts, Starting
<1>6. StartShape'
  BY <1>1 DEF slot_returns, Return, user, program, consoleHistory, PromptShape, StartShape,
     LastUpTo, ConsoleTypes, Consoles, Refs, Prompts, Starting
<1>7. Failure'
  BY <1>1, PostedIs DEF slot_returns, Return, user, program, consoleHistory, Failure, PromptShape,
     StartShape, ConsoleShape, ConsoleTypes, ConsoleSignals, Consoles, Refs, Prompts, Starting
<1>8. EndsCounted'
  BY <1>1, Counting DEF slot_returns, Return, user, program, consoleHistory, EndsCounted,
     AnswersTold, ConsoleTypes, Prompts, PromptShape, NotAsked
<1>9. AnswersGrow'
  BY DEF slot_returns, Return, user, program, consoleHistory, ShapeInv, AnswersGrow
<1> QED BY <1>2, <1>3, <1>4, <1>5, <1>6, <1>7, <1>8, <1>9 DEF ShapeInv

\* What a key makes of the line that is shown: in a line, it is edited.
LEMMA ProcessedIs ==
  ASSUME ConsoleTypes, NEW key \in Keys
  PROVE  /\ processChar(key) \in Seq(Keys)
         /\ Len(processChar(key)) <= IF prompt.charMode THEN 1 ELSE InputMax
         /\ prompt.charMode => processChar(key) = <<key>>
         /\ ~prompt.charMode => processChar(key) = Edit(prompt.result, key)
<1>1. /\ prompt.charMode \in BOOLEAN /\ prompt.result \in Seq(Keys) /\ InputMax \in Nat
      /\ Len(prompt.result) <= IF prompt.charMode THEN 1 ELSE InputMax
  BY ConsoleAssumption DEF ConsoleTypes, Prompts
<1>2. CASE prompt.charMode
  <2>1. processChar(key) = <<key>>
    BY <1>2 DEF processChar
  <2>2. <<key>> \in Seq(Keys) /\ Len(<<key>>) = 1
    OBVIOUS
  <2> QED BY <1>2, <2>1, <2>2
<1>3. CASE ~prompt.charMode
  <2>1. processChar(key) = IF key = "backspace" /\ prompt.result # <<>> THEN Front(prompt.result)
                           ELSE IF key = "x" /\ Len(prompt.result) < InputMax
                                THEN Append(prompt.result, key) ELSE prompt.result
    <3>1. CASE key = "backspace" /\ prompt.result # <<>>
      BY <1>3, <3>1 DEF processChar
    <3>2. CASE key = "x" /\ Len(prompt.result) < InputMax
      BY <1>3, <3>2 DEF processChar
    <3>3. CASE ~(key = "backspace" /\ prompt.result # <<>>)
               /\ ~(key = "x" /\ Len(prompt.result) < InputMax)
      BY <1>3, <3>3 DEF processChar
    <3> QED BY <3>1, <3>2, <3>3
  <2>2. processChar(key) = Edit(prompt.result, key)
    BY <2>1 DEF Edit
  <2>3. processChar(key) \in Seq(Keys)
    BY <1>1, <2>2, EditKeeps
  <2>4. Len(processChar(key)) <= InputMax
    <3>1. prompt.result # <<>> => Len(Front(prompt.result)) = Len(prompt.result) - 1
      <4>1. PICK s \in Seq(Keys) : s = prompt.result
        BY <1>1
      <4>2. s # <<>> => Len(s) \in Nat /\ Len(s) >= 1
        OBVIOUS
      <4>3. ASSUME s # <<>> PROVE Len(SubSeq(s, 1, Len(s) - 1)) = Len(s) - 1
        <5>1. PICK k \in Nat : k = Len(s) - 1
          BY <4>2, <4>3
        <5>2. \A i \in 1 .. k : s[i] \in Keys
          BY <4>2, <5>1
        <5>3. Len(SubSeq(s, 1, k)) = IF 1 <= k THEN k - 1 + 1 ELSE 0
          BY <5>2, SubSeqProperties
        <5>4. Len(SubSeq(s, 1, k)) = k
          BY <5>3
        <5> QED BY <5>1, <5>4, Zenon
      <4> QED BY <4>1, <4>3 DEF Front
    <3>2. Len(Append(prompt.result, key)) = Len(prompt.result) + 1
      BY <1>1
    <3>3. Len(prompt.result) \in Nat /\ Len(prompt.result) <= InputMax
      BY <1>1, <1>3
    <3> QED BY <1>1, <2>1, <3>1, <3>2, <3>3
  <2> QED BY <1>3, <2>2, <2>3, <2>4
<1> QED BY <1>1, <1>2, <1>3

\* The key that a prompt reads, and those that stay.
LEMMA BufferIs ==
  ASSUME ConsoleTypes, con.buf # <<>>
  PROVE  /\ Head(con.buf) \in Keys /\ Tail(con.buf) \in Seq(Keys)
         /\ Len(con.buf) = Len(Tail(con.buf)) + 1
         /\ con.buf = <<Head(con.buf)>> \o Tail(con.buf)
<1>1. con.buf \in Seq(Keys)
  BY DEF ConsoleTypes, Consoles
<1>2. PICK s \in Seq(Keys) : s = con.buf
  BY <1>1
<1>3. s # <<>>
  BY <1>2
<1>4. /\ Head(s) \in Keys /\ Tail(s) \in Seq(Keys) /\ Len(s) = Len(Tail(s)) + 1
      /\ s = <<Head(s)>> \o Tail(s)
  BY <1>3
<1> QED BY <1>2, <1>4

\* A prompt that has been asked for and not ended ends, typed or closed: c is
\* what it leaves in the console.
LEMMA EndsShape ==
  ASSUME ShapeInv, calls # 0, ~prompt.done,
         NEW c \in Consoles, NEW how \in {"typed", "closed"}, NEW line \in Seq(Keys),
         NEW upTo \in used .. used + 1,
         Ends(c, how, line, upTo), used' = upTo, UNCHANGED <<user, calls, bad>>,
         c.there = con.there, c.own_con = con.own_con, c.released = con.released,
         c.valid = con.valid, con.buf = <<>> => c.buf = <<>>,
         upTo + Len(c.buf) + Len(tty) <= Len(typed),
         Len(line) <= IF prompt.charMode THEN 1 ELSE InputMax,
         posted' \in Seq(ConsoleSignals), ToSet(posted') \subseteq ToSet(posted)
  PROVE  ShapeInv' /\ LastUpTo' = used'
<1>1. ConsoleTypes /\ NotAsked /\ ConsoleShape /\ PromptShape /\ StartShape /\ Failure /\ EndsCounted
      /\ AnswersGrow
  BY DEF ShapeInv
<1>2. /\ con' = Reset(c) /\ (pc' \in {"loop", "slot", "late_close"})
      /\ ref' = [ref EXCEPT !.console = FALSE, !.connected = FALSE, !.lateTrigger = FALSE]
      /\ prompt' = [prompt EXCEPT !.result = line, !.done = TRUE, !.waiting = FALSE, !.asked = FALSE]
      /\ typed' = typed /\ tty' = tty /\ hungup' = hungup /\ calls' = calls /\ bad' = bad
  BY DEF Ends, Return, user
<1>3. PICK a : a = [how |-> how, charMode |-> prompt.charMode, result |-> line, upTo |-> upTo]
  OBVIOUS
<1>4. a \in Answers /\ a.upTo = upTo /\ a.how # "failed" /\ answers' = Append(answers, a)
  <2>1. prompt.charMode \in BOOLEAN /\ upTo \in Nat
    BY <1>1 DEF ConsoleTypes, Prompts
  <2> QED BY <1>3, <2>1 DEF Answers, Hows, Ends, PromptTold
<1>5. /\ answers' \in Seq(Answers) /\ LastUpTo' = used' /\ AnswersGrow'
      /\ Cardinality(AnswersTold') = Cardinality(AnswersTold) + 1
  BY <1>1, <1>4, OneAnswerMore
<1>6. <<>> \in Seq(Keys) /\ Len(<<>>) = 0
  BY Empties
<1>7. con' \in Consoles /\ used' + Len(con'.buf) + Len(tty') <= Len(typed')
  <2>1. CASE c.own_con
    <3>1. con' = NoConsole
      BY <1>2, <2>1 DEF Reset
    <3>2. con' \in Consoles /\ con'.buf = <<>>
      BY <1>6, <3>1 DEF NoConsole, Consoles
    <3>3. upTo \in Nat /\ Len(c.buf) \in Nat /\ Len(tty) \in Nat /\ Len(typed) \in Nat
      BY <1>1 DEF ConsoleTypes, Consoles
    <3> QED BY <1>2, <1>6, <3>2, <3>3
  <2>2. CASE ~c.own_con
    BY <1>2, <2>2 DEF Reset
  <2> QED BY <2>1, <2>2
<1>8. ref' \in Refs /\ ~ref'.console /\ ~ref'.connected /\ ~ref'.lateTrigger
  BY <1>1, <1>2 DEF ConsoleTypes, Refs
<1>9. /\ prompt' \in Prompts /\ prompt'.result = line /\ prompt'.done
      /\ ~prompt'.waiting /\ ~prompt'.asked /\ prompt'.charMode = prompt.charMode
  BY <1>1, <1>2 DEF ConsoleTypes, Prompts
<1>10. ConsoleTypes'
  <2>1. used' \in Nat
    BY <1>1 DEF ConsoleTypes
  <2>2. Len(prompt'.result) <= IF prompt'.charMode THEN 1 ELSE InputMax
    BY <1>9
  <2> QED BY <1>1, <1>2, <1>5, <1>7, <1>8, <1>9, <2>1, <2>2 DEF ConsoleTypes
<1>11. NotAsked'
  BY <1>2 DEF NotAsked
<1>12. ConsoleShape'
  BY <1>1, <1>2 DEF ConsoleShape, Reset, NoConsole
<1>13. PromptShape' /\ StartShape'
  BY <1>2, <1>5, <1>8, <1>9 DEF PromptShape, StartShape, Starting
<1>14. Failure'
  <2>1. SUFFICES ASSUME "finished" \in ToSet(posted)
                 PROVE  hungup' /\ ~con'.valid /\ con'.buf = <<>>
    BY <1>8, <1>9 DEF Failure
  <2>2. hungup /\ ~con.valid /\ con.buf = <<>>
    BY <1>1, <2>1 DEF Failure
  <2> QED BY <1>2, <2>2 DEF Reset, NoConsole
<1>15. EndsCounted'
  <2>1. Cardinality(AnswersTold) \in Nat /\ calls \in Nat
    BY <1>1, Counting DEF ConsoleTypes
  <2>2. Cardinality(AnswersTold) + 1 <= calls
    BY <1>1 DEF EndsCounted
  <2> QED BY <1>2, <1>5, <1>9, <2>1, <2>2 DEF EndsCounted
<1> QED BY <1>5, <1>10, <1>11, <1>12, <1>13, <1>14, <1>15 DEF ShapeInv

\* The input that a prompt has been closed for.
LEMMA ClosedShape ==
  ASSUME ShapeInv, calls # 0, ~prompt.done, Ends(con, "closed", <<>>, used),
         used' = used, UNCHANGED <<user, calls, bad>>,
         posted' \in Seq(ConsoleSignals), ToSet(posted') \subseteq ToSet(posted)
  PROVE  ShapeInv' /\ LastUpTo' = used'
<1>1. ConsoleTypes
  BY DEF ShapeInv
<1>2. <<>> \in Seq(Keys) /\ Len(<<>>) = 0
  BY Empties
<1>3. con \in Consoles /\ used \in used .. used + 1 /\ used + Len(con.buf) + Len(tty) <= Len(typed)
  BY <1>1 DEF ConsoleTypes
<1>4. Len(<<>>) <= IF prompt.charMode THEN 1 ELSE InputMax
  BY <1>2, ConsoleAssumption
<1> QED BY <1>2, <1>3, <1>4, EndsShape

\* The shape stays when a prompt is told that its input has ended.
LEMMA inputClosed_deliveredShape ==
  ASSUME ShapeInv, inputClosed_delivered
  PROVE  ShapeInv'
<1>1. ConsoleTypes /\ NotAsked /\ ConsoleShape /\ PromptShape /\ StartShape /\ Failure /\ EndsCounted
      /\ AnswersGrow
  BY DEF ShapeInv
<1>2. /\ pc = "loop" /\ posted # <<>> /\ posted' = Tail(posted)
      /\ UNCHANGED <<user, calls, used, bad>>
  BY DEF inputClosed_delivered, Turn
<1>3. posted' \in Seq(ConsoleSignals) /\ ToSet(posted') \subseteq ToSet(posted)
  BY <1>1, <1>2, PostedIs
<1>4. calls # 0
  BY <1>1, <1>2 DEF NotAsked
<1>5. CASE ~prompt.done
  <2>1. Ends(con, "closed", <<>>, used)
    BY <1>5 DEF inputClosed_delivered, con_inputClosed
  <2> QED BY <1>2, <1>3, <1>4, <1>5, <2>1, ClosedShape
<1>6. CASE prompt.done
  <2>1. UNCHANGED <<con, ref, prompt, answers>> /\ pc' = "loop"
    BY <1>6 DEF inputClosed_delivered, con_inputClosed
  <2>2. ConsoleTypes'
    BY <1>1, <1>2, <1>3, <2>1 DEF ConsoleTypes, user
  <2>3. NotAsked' /\ ConsoleShape' /\ PromptShape' /\ StartShape'
    BY <1>1, <1>2, <1>4, <2>1 DEF NotAsked, ConsoleShape, PromptShape, StartShape, LastUpTo,
       Starting, user
  <2>4. Failure'
    BY <1>1, <1>2, <1>3, <2>1 DEF Failure, user
  <2>5. EndsCounted' /\ AnswersGrow'
    BY <1>1, <1>2, <2>1 DEF EndsCounted, AnswersTold, AnswersGrow
  <2> QED BY <2>2, <2>3, <2>4, <2>5 DEF ShapeInv
<1> QED BY <1>5, <1>6

\* And when doLate() goes on, whichever it tells.
LEMMA doLate_goes_onShape ==
  ASSUME ShapeInv, doLate_goes_on
  PROVE  ShapeInv'
<1>1. ConsoleTypes /\ NotAsked /\ ConsoleShape /\ PromptShape /\ StartShape /\ Failure /\ EndsCounted
      /\ AnswersGrow
  BY DEF ShapeInv
<1>2. pc = "late_close" /\ posted' = posted /\ UNCHANGED <<user, calls, used, bad>>
  BY DEF doLate_goes_on
<1>3. posted' \in Seq(ConsoleSignals) /\ ToSet(posted') \subseteq ToSet(posted)
  BY <1>1, <1>2 DEF ConsoleTypes
<1>4. calls # 0
  BY <1>1, <1>2 DEF NotAsked
<1>5. CASE ref.late_close /\ ~prompt.done
  <2>1. Ends(con, "closed", <<>>, used)
    BY <1>5 DEF doLate_goes_on, con_inputClosed
  <2> QED BY <1>2, <1>3, <1>4, <1>5, <2>1, ClosedShape
<1>6. CASE ~(ref.late_close /\ ~prompt.done)
  <2>1. UNCHANGED <<con, ref, prompt, answers>> /\ pc' = "loop"
    BY <1>6 DEF doLate_goes_on, con_inputClosed
  <2>2. ConsoleTypes'
    BY <1>1, <1>2, <1>3, <2>1 DEF ConsoleTypes, user
  <2>3. NotAsked' /\ ConsoleShape' /\ PromptShape' /\ StartShape'
    BY <1>1, <1>2, <1>4, <2>1 DEF NotAsked, ConsoleShape, PromptShape, StartShape, LastUpTo,
       Starting, user
  <2>4. Failure'
    BY <1>1, <1>2, <1>3, <2>1 DEF Failure, user
  <2>5. EndsCounted' /\ AnswersGrow'
    BY <1>1, <1>2, <2>1 DEF EndsCounted, AnswersTold, AnswersGrow
  <2> QED BY <2>2, <2>3, <2>4, <2>5 DEF ShapeInv
<1> QED BY <1>5, <1>6

\* And when it is told that its start has failed: there is nothing it could
\* have read since.
LEMMA finished_deliveredShape ==
  ASSUME ShapeInv, finished_delivered
  PROVE  ShapeInv' /\ LastUpTo' = used'
<1>1. ConsoleTypes /\ NotAsked /\ ConsoleShape /\ PromptShape /\ StartShape /\ Failure /\ EndsCounted
      /\ AnswersGrow
  BY DEF ShapeInv
<1>2. /\ pc = "loop" /\ posted # <<>> /\ bad = "no" /\ posted' = Tail(posted)
      /\ Head(posted) = "finished"
      /\ UNCHANGED <<user, con, ref, calls, used, bad>> /\ pc' = "slot"
      /\ prompt' = [prompt EXCEPT !.asked = FALSE]
      /\ answers' = Append(answers, [how |-> "failed", charMode |-> prompt.charMode,
                                     result |-> prompt.result, upTo |-> used])
  BY DEF finished_delivered, Turn, PromptTold
<1>3. /\ posted' \in Seq(ConsoleSignals) /\ ToSet(posted') \subseteq ToSet(posted)
      /\ "finished" \in ToSet(posted)
  BY <1>1, <1>2, PostedIs
<1>4. calls # 0
  BY <1>1, <1>2 DEF NotAsked
<1>5. ~ref.console /\ ~prompt.waiting
  BY <1>1, <1>2, <1>3 DEF Failure
<1>6. /\ prompt' \in Prompts /\ prompt'.result = prompt.result /\ prompt'.done = prompt.done
      /\ ~prompt'.waiting /\ prompt'.charMode = prompt.charMode
  BY <1>1, <1>2, <1>5 DEF ConsoleTypes, Prompts
<1>7. PICK a : a = [how |-> "failed", charMode |-> prompt.charMode, result |-> prompt.result,
                    upTo |-> used]
  OBVIOUS
<1>8. a \in Answers /\ a.upTo = used /\ a.how = "failed" /\ answers' = Append(answers, a)
  <2>1. prompt.charMode \in BOOLEAN /\ prompt.result \in Seq(Keys) /\ used \in Nat
    BY <1>1 DEF ConsoleTypes, Prompts
  <2> QED BY <1>2, <1>7, <2>1 DEF Answers, Hows
<1>9. /\ answers' \in Seq(Answers) /\ LastUpTo' = used' /\ AnswersGrow'
      /\ Cardinality(AnswersTold') = Cardinality(AnswersTold)
  <2>1. used' = a.upTo /\ a.upTo \in used .. used + 1
    BY <1>1, <1>2, <1>8 DEF ConsoleTypes
  <2>2. Cardinality(AnswersTold) \in Nat
    BY <1>1, Counting
  <2> QED BY <1>1, <1>8, <2>1, <2>2, OneAnswerMore
<1>10. ConsoleTypes'
  BY <1>1, <1>2, <1>3, <1>6, <1>9 DEF ConsoleTypes, user
<1>11. NotAsked' /\ ConsoleShape'
  BY <1>1, <1>2, <1>4 DEF NotAsked, ConsoleShape, user
<1>12. PromptShape' /\ StartShape'
  BY <1>1, <1>2, <1>5, <1>6, <1>9 DEF PromptShape, StartShape, Starting
<1>13. Failure'
  BY <1>1, <1>2, <1>3, <1>5, <1>6 DEF Failure, user
<1>14. EndsCounted'
  BY <1>1, <1>2, <1>6, <1>9 DEF EndsCounted
<1> QED BY <1>9, <1>10, <1>11, <1>12, <1>13, <1>14 DEF ShapeInv

\* And when a prompt reads a key, the last one or not.
LEMMA con_readyReadShape ==
  ASSUME ShapeInv, con_readyRead
  PROVE  ShapeInv' /\ (EndsAt(Head(con.buf)) => LastUpTo' = used')
<1>1. ConsoleTypes /\ NotAsked /\ ConsoleShape /\ PromptShape /\ StartShape /\ Failure /\ EndsCounted
      /\ AnswersGrow
  BY DEF ShapeInv
<1> DEFINE key == Head(con.buf)
           c == [con EXCEPT !.buf = Tail(@)]
<1>2. /\ pc = "reading" /\ con.buf # <<>> /\ used' = used + 1
      /\ UNCHANGED <<user, posted, calls, bad>>
  BY DEF con_readyRead
<1>3. posted' \in Seq(ConsoleSignals) /\ ToSet(posted') \subseteq ToSet(posted)
  BY <1>1, <1>2 DEF ConsoleTypes
<1>4. calls # 0 /\ ref.console /\ ~prompt.done /\ con.there /\ ~con.released /\ prompt.asked
  BY <1>1, <1>2 DEF NotAsked, PromptShape
<1>5. key \in Keys /\ Tail(con.buf) \in Seq(Keys) /\ Len(con.buf) = Len(Tail(con.buf)) + 1
  BY <1>1, <1>2, BufferIs
<1>6. /\ processChar(key) \in Seq(Keys)
      /\ Len(processChar(key)) <= IF prompt.charMode THEN 1 ELSE InputMax
  BY <1>1, <1>5, ProcessedIs
<1>7. /\ c \in Consoles /\ c.there = con.there /\ c.own_con = con.own_con
      /\ c.released = con.released /\ c.valid = con.valid /\ c.buf = Tail(con.buf)
  BY <1>1, <1>5 DEF ConsoleTypes, Consoles
<1>8. /\ used' \in used .. used + 1
      /\ used' + Len(c.buf) + Len(tty) <= Len(typed)
  <2>1. /\ used \in Nat /\ Len(tty) \in Nat /\ Len(typed) \in Nat /\ Len(Tail(con.buf)) \in Nat
        /\ used + Len(con.buf) + Len(tty) <= Len(typed)
    BY <1>1, <1>5 DEF ConsoleTypes
  <2> QED BY <1>2, <1>5, <1>7, <2>1
<1>9. CASE EndsAt(key)
  <2>1. Ends(c, "typed", processChar(key), used')
    BY <1>9 DEF con_readyRead
  <2> HIDE DEF c, key
  <2> QED BY <1>2, <1>3, <1>4, <1>6, <1>7, <1>8, <2>1, EndsShape
<1>10. CASE ~EndsAt(key)
  <2>1. /\ con' = c /\ prompt' = [prompt EXCEPT !.result = processChar(key)]
        /\ UNCHANGED <<ref, pc, answers>>
    BY <1>10 DEF con_readyRead
  <2> HIDE DEF c, key
  <2>2. /\ prompt' \in Prompts /\ prompt'.result = processChar(key) /\ ~prompt'.done
        /\ prompt'.asked /\ prompt'.charMode = prompt.charMode /\ prompt'.waiting = prompt.waiting
    BY <1>1, <1>4, <1>6, <2>1 DEF ConsoleTypes, Prompts
  <2>3. ConsoleTypes'
    <3>1. used' \in Nat
      BY <1>1, <1>2 DEF ConsoleTypes
    <3>2. Len(prompt'.result) <= IF prompt'.charMode THEN 1 ELSE InputMax
      BY <1>6, <2>2
    <3> QED BY <1>1, <1>2, <1>3, <1>7, <1>8, <2>1, <2>2, <3>1, <3>2 DEF ConsoleTypes, user
  <2>4. NotAsked' /\ ConsoleShape'
    BY <1>1, <1>2, <1>4, <1>7, <2>1 DEF NotAsked, ConsoleShape, user
  <2>5. PromptShape' /\ StartShape'
    BY <1>1, <1>2, <1>4, <1>7, <2>1, <2>2 DEF PromptShape, StartShape, Starting
  <2>6. Failure'
    BY <1>1, <1>2, <1>4 DEF Failure
  <2>7. EndsCounted'
    BY <1>1, <1>2, <1>4, <2>1, <2>2 DEF EndsCounted, AnswersTold
  <2>8. AnswersGrow'
    <3>1. ASSUME NEW i \in 1 .. Len(answers) PROVE answers[i].upTo <= used + 1
      <4>1. answers[i] \in Answers /\ used \in Nat
        BY <1>1 DEF ConsoleTypes
      <4>2. answers[i].upTo \in Nat /\ answers[i].upTo <= used
        BY <1>1, <4>1 DEF Answers, AnswersGrow
      <4> QED BY <4>1, <4>2
    <3> QED BY <1>2, <2>1, <3>1 DEF AnswersGrow
  <2> QED BY <1>10, <2>3, <2>4, <2>5, <2>6, <2>7, <2>8 DEF ShapeInv, key
<1> QED BY <1>9, <1>10

----------------------------------------------------------------------------
(* Console: the keys and the lines they make.                                *)

\* Where the last answer ended is not beyond what has been read, nor that
\* beyond what has been typed.
LEMMA Bounds ==
  ASSUME ShapeInv
  PROVE  /\ LastUpTo \in Nat /\ used \in Nat /\ Len(typed) \in Nat
         /\ LastUpTo <= used /\ used <= Len(typed)
         /\ \A i \in 1 .. Len(answers) : /\ answers[i] \in Answers /\ answers[i].upTo \in Nat
                                         /\ answers[i].upTo <= used
                                         /\ LineFrom(i) \in Nat /\ LineFrom(i) >= 1
<1>1. ConsoleTypes /\ AnswersGrow
  BY DEF ShapeInv
<1>2. /\ answers \in Seq(Answers) /\ used \in Nat /\ Len(typed) \in Nat
      /\ Len(con.buf) \in Nat /\ Len(tty) \in Nat /\ used + Len(con.buf) + Len(tty) <= Len(typed)
  BY <1>1 DEF ConsoleTypes, Consoles
<1>3. \A i \in 1 .. Len(answers) : answers[i] \in Answers /\ answers[i].upTo \in Nat
                                   /\ answers[i].upTo <= used
  <2>1. \A i \in 1 .. Len(answers) : answers[i] \in Answers
    BY <1>2
  <2>2. \A a \in Answers : a.upTo \in Nat
    BY DEF Answers
  <2> QED BY <1>1, <2>1, <2>2 DEF AnswersGrow
<1>4. LastUpTo \in Nat /\ LastUpTo <= used
  <2>1. CASE answers = <<>>
    BY <1>2, <2>1 DEF LastUpTo
  <2>2. CASE answers # <<>>
    <3>1. Len(answers) \in 1 .. Len(answers)
      BY <1>2, <2>2
    <3> QED BY <1>3, <2>2, <3>1 DEF LastUpTo
  <2> QED BY <2>1, <2>2
<1>5. ASSUME NEW i \in 1 .. Len(answers) PROVE LineFrom(i) \in Nat /\ LineFrom(i) >= 1
  <2>1. CASE i = 1
    BY <2>1 DEF LineFrom
  <2>2. CASE i # 1
    <3>1. i - 1 \in 1 .. Len(answers)
      BY <1>2, <2>2
    <3>2. answers[i - 1].upTo \in Nat
      BY <1>3, <3>1
    <3> QED BY <2>2, <3>2 DEF LineFrom
  <2> QED BY <2>1, <2>2
<1> QED BY <1>2, <1>3, <1>4, <1>5

\* What is true of the keys stays so while nothing is typed, read or answered
\* and the keys that wait stay in their order, wherever they wait.
LEMMA KeysStay ==
  ASSUME KeysInv, typed' = typed, answers' = answers, used' = used,
         Programs' => Programs,
         Programs' /\ ~con'.released => ~con.released /\ con'.buf \o tty' = con.buf \o tty,
         ref'.console => /\ ref.console
                         /\ prompt'.charMode = prompt.charMode /\ prompt'.result = prompt.result
  PROVE  KeysInv'
<1>1. LastUpTo' = LastUpTo /\ SoFar' = SoFar
  BY DEF LastUpTo, SoFar
<1>2. InProgress'
  BY <1>1 DEF KeysInv, InProgress
<1>3. AnswersRight'
  BY DEF KeysInv, AnswersRight, LineOf, LineFrom, AnswerIs
<1>4. KeysKept'
  BY DEF KeysInv, KeysKept, Programs
<1> QED BY <1>2, <1>3, <1>4 DEF KeysInv

\* An answer that is right for its line leaves all answers right.
LEMMA AnswerAdded ==
  ASSUME ShapeInv, AnswersRight, NEW a \in Answers, a.upTo \in used .. used + 1,
         answers' = Append(answers, a), typed' = typed, Programs' => Programs,
         Programs => AnswerIs(a, SubSeq(typed, LastUpTo + 1, a.upTo))
  PROVE  AnswersRight'
<1>1. answers \in Seq(Answers) /\ Len(answers) \in Nat
  BY DEF ShapeInv, ConsoleTypes
<1>2. /\ Len(answers') = Len(answers) + 1 /\ answers'[Len(answers) + 1] = a
      /\ \A i \in 1 .. Len(answers) : answers'[i] = answers[i]
  BY <1>1, AppendProperties
<1>3. SUFFICES ASSUME Programs', NEW i \in 1 .. Len(answers')
               PROVE  AnswerIs(answers'[i], LineOf(i)')
  <2>1. (\A i \in 1 .. Len(answers') : AnswerIs(answers'[i], LineOf(i)')) => AnswersRight'
    BY DEF AnswersRight, AnswerIs
  <2> QED BY <2>1 DEF AnswersRight
<1>4. LineFrom(i)' = IF i = 1 THEN 1 ELSE answers'[i - 1].upTo + 1
  BY DEF LineFrom
<1>5. LineOf(i)' = SubSeq(typed, LineFrom(i)', answers'[i].upTo)
  BY DEF LineOf
<1>6. CASE i \in 1 .. Len(answers)
  <2>1. i # 1 => i - 1 \in 1 .. Len(answers)
    BY <1>1, <1>6
  <2>2. LineFrom(i)' = LineFrom(i)
    BY <1>2, <1>4, <2>1 DEF LineFrom
  <2>3. LineOf(i)' = LineOf(i) /\ answers'[i] = answers[i]
    BY <1>2, <1>5, <1>6, <2>2 DEF LineOf
  <2>4. AnswerIs(answers[i], LineOf(i))
    BY <1>3, <1>6 DEF AnswersRight
  <2> QED BY <2>3, <2>4
<1>7. CASE i = Len(answers) + 1
  <2>1. LineFrom(i)' = LastUpTo + 1
    <3>1. CASE answers = <<>>
      <4>1. i = 1 /\ LastUpTo = 0
        BY <1>7, <3>1 DEF LastUpTo
      <4> QED BY <1>4, <4>1
    <3>2. CASE answers # <<>>
      <4>1. i # 1 /\ i - 1 = Len(answers) /\ Len(answers) \in 1 .. Len(answers)
        BY <1>1, <1>7, <3>2
      <4>2. answers'[i - 1] = answers[Len(answers)]
        BY <1>2, <4>1
      <4> QED BY <1>4, <3>2, <4>1, <4>2 DEF LastUpTo
    <3> QED BY <3>1, <3>2
  <2>2. LineOf(i)' = SubSeq(typed, LastUpTo + 1, a.upTo) /\ answers'[i] = a
    BY <1>2, <1>5, <1>7, <2>1
  <2> QED BY <1>3, <2>2
<1> QED BY <1>1, <1>2, <1>6, <1>7

\* What the user types goes behind what waits.
LEMMA TypeKeys ==
  ASSUME ShapeInv, KeysInv, NEW key \in Keys, Type(key)
  PROVE  KeysInv'
<1>1. /\ typed' = Append(typed, key) /\ tty' = Append(tty, key)
      /\ con' = con /\ ref' = ref /\ prompt' = prompt /\ answers' = answers /\ used' = used
  BY DEF Type, program, consoleHistory
<1>2. typed \in Seq(Keys) /\ tty \in Seq(Keys) /\ con.buf \in Seq(Keys)
  BY DEF ShapeInv, ConsoleTypes, Consoles
<1>3. /\ LastUpTo \in Nat /\ used \in Nat /\ Len(typed) \in Nat /\ LastUpTo <= used /\ used <= Len(typed)
      /\ \A i \in 1 .. Len(answers) : /\ answers[i].upTo \in Nat /\ answers[i].upTo <= used
                                      /\ LineFrom(i) \in Nat /\ LineFrom(i) >= 1
  BY Bounds
<1>4. LastUpTo' = LastUpTo /\ (Programs' <=> Programs)
  BY <1>1 DEF LastUpTo, Programs
<1>5. SoFar' = SoFar
  <2>1. LastUpTo + 1 \in Nat /\ LastUpTo + 1 >= 1
    BY <1>3
  <2>2. SubSeq(Append(typed, key), LastUpTo + 1, used) = SubSeq(typed, LastUpTo + 1, used)
    BY <1>2, <1>3, <2>1, TypedStays
  <2> QED BY <1>1, <1>4, <2>2 DEF SoFar
<1>6. InProgress'
  BY <1>1, <1>4, <1>5 DEF KeysInv, InProgress
<1>7. AnswersRight'
  <2>1. \A i \in 1 .. Len(answers) : LineFrom(i)' = LineFrom(i)
    BY <1>1 DEF LineFrom
  <2>2. ASSUME NEW i \in 1 .. Len(answers) PROVE LineOf(i)' = LineOf(i)
    <3>1. SubSeq(Append(typed, key), LineFrom(i), answers[i].upTo)
            = SubSeq(typed, LineFrom(i), answers[i].upTo)
      <4>1. /\ LineFrom(i) \in Nat /\ LineFrom(i) >= 1 /\ answers[i].upTo \in Nat
            /\ answers[i].upTo <= Len(typed)
        BY <1>3
      <4> QED BY <1>2, <4>1, TypedStays
    <3> QED BY <1>1, <2>1, <3>1 DEF LineOf
  <2> QED BY <1>1, <1>4, <2>2 DEF KeysInv, AnswersRight, AnswerIs
<1>8. KeysKept'
  <2>1. SUFFICES ASSUME Programs, ~con.released
                 PROVE  SubSeq(typed', used + 1, Len(typed')) = con.buf \o tty'
    BY <1>1 DEF KeysKept, Programs
  <2>2. SubSeq(typed, used + 1, Len(typed)) = con.buf \o tty
    BY <2>1 DEF KeysInv, KeysKept, Programs
  <2>3. PICK s \in Seq(Keys) : s = Append(typed, key)
    BY <1>2, AppendProperties
  <2>4. Len(s) = Len(typed) + 1 /\ s[Len(typed) + 1] = key
    BY <1>2, <2>3, AppendProperties
  <2>5. used + 1 \in Nat /\ used + 1 >= 1 /\ used + 1 <= Len(typed) + 1
    BY <1>3
  <2>6. SubSeq(s, used + 1, Len(typed) + 1) = Append(SubSeq(s, used + 1, Len(typed)), s[Len(typed) + 1])
    <3>1. PICK f \in Nat, t \in Nat : f = used + 1 /\ t = Len(typed)
      BY <1>3, <2>5
    <3>2. f >= 1 /\ f <= t + 1 /\ t + 1 <= Len(s)
      BY <2>4, <2>5, <3>1
    <3>3. SubSeq(s, f, t + 1) = Append(SubSeq(s, f, t), s[t + 1])
      BY <3>2, LineGrows
    <3> QED BY <3>1, <3>3
  <2>7. SubSeq(s, used + 1, Len(typed)) = SubSeq(typed, used + 1, Len(typed))
    BY <1>2, <1>3, <2>3, <2>5, TypedStays
  <2>8. Append(con.buf \o tty, key) = con.buf \o Append(tty, key)
    BY <1>2, AppendedBehind
  <2> QED BY <1>1, <2>2, <2>3, <2>4, <2>6, <2>7, <2>8
<1> QED BY <1>6, <1>7, <1>8 DEF KeysInv

\* The console's thread moves keys from the terminal to its buffer.
LEMMA in_readyReadKeys ==
  ASSUME ShapeInv, KeysInv, in_readyRead
  PROVE  KeysInv'
<1>1. tty \in Seq(Keys) /\ con.buf \in Seq(Keys) /\ con \in Consoles
  BY DEF ShapeInv, ConsoleTypes, Consoles
<1>2. PICK n \in 1 .. Len(tty) : /\ con' = [con EXCEPT !.buf = @ \o SubSeq(tty, 1, n)]
                                 /\ tty' = SubSeq(tty, n + 1, Len(tty))
  BY DEF in_readyRead
<1>3. /\ con'.buf = con.buf \o SubSeq(tty, 1, n) /\ con'.there = con.there
      /\ con'.own_con = con.own_con /\ con'.released = con.released
  BY <1>1, <1>2 DEF Consoles
<1>4. (con.buf \o SubSeq(tty, 1, n)) \o SubSeq(tty, n + 1, Len(tty)) = con.buf \o tty
  BY <1>1, Rejoined
<1>5. typed' = typed /\ answers' = answers /\ used' = used /\ ref' = ref /\ prompt' = prompt
  BY DEF in_readyRead, Signals, program
<1> QED BY <1>2, <1>3, <1>4, <1>5, KeysStay DEF Programs

\* A console that the program makes has nothing read and all that was typed.
LEMMA CreateConsoleKeys ==
  ASSUME ShapeInv, KeysInv, CreateConsole
  PROVE  KeysInv'
<1>1. /\ con' = Opened(FALSE) /\ typed' = typed /\ tty' = tty /\ ref' = ref /\ answers' = answers
      /\ used' = used /\ calls = 0 /\ ~con.there
  BY DEF CreateConsole, user, consoleHistory
<1>2. ~ref.console /\ answers = <<>> /\ used = 0 /\ tty = typed
  BY <1>1 DEF ShapeInv, NotAsked
<1>3. typed \in Seq(Keys)
  BY DEF ShapeInv, ConsoleTypes
<1>4. InProgress' /\ AnswersRight'
  BY <1>1, <1>2 DEF InProgress, AnswersRight
<1>5. KeysKept'
  <2>1. con'.buf = <<>>
    BY <1>1 DEF Opened
  <2>2. SubSeq(typed, 0 + 1, Len(typed)) = typed /\ <<>> \o typed = typed
    BY <1>3
  <2> QED BY <1>1, <1>2, <2>1, <2>2 DEF KeysKept
<1> QED BY <1>4, <1>5 DEF KeysInv

\* A prompt that is asked for has read nothing yet.
LEMMA AskKeys ==
  ASSUME ShapeInv, KeysInv, NEW charMode \in BOOLEAN, Ask(charMode)
  PROVE  KeysInv'
<1>1. /\ con' = IF con.there THEN con ELSE Opened(TRUE)
      /\ typed' = typed /\ tty' = tty /\ answers' = answers /\ used' = used /\ ~prompt.asked
      /\ prompt'.result = <<>>
  BY DEF Ask, user
<1>2. (Programs' => Programs) /\ (Programs' => con' = con)
  BY <1>1 DEF Programs, Opened
<1>3. used = LastUpTo
  BY <1>1 DEF ShapeInv, PromptShape
<1>4. LastUpTo' = LastUpTo /\ used \in Nat
  BY <1>1, Bounds DEF LastUpTo
<1>5. SoFar' = <<>>
  <2>1. SubSeq(typed, used + 1, used) = <<>>
    BY <1>4, SubSeqEmpty
  <2> QED BY <1>1, <1>3, <1>4, <2>1 DEF SoFar
<1>6. InProgress'
  <2>1. ToSet(<<>>) = {}
    BY NonePosted
  <2> QED BY <1>1, <1>3, <1>4, <1>5, <2>1, NothingEdited DEF InProgress
<1>7. AnswersRight'
  BY <1>1, <1>2 DEF KeysInv, AnswersRight, LineOf, LineFrom, AnswerIs
<1>8. KeysKept'
  BY <1>1, <1>2 DEF KeysInv, KeysKept, Programs
<1> QED BY <1>6, <1>7, <1>8 DEF KeysInv

\* A prompt whose input has ended has no line, and the keys stay.
LEMMA ClosedKeys ==
  ASSUME ShapeInv, KeysInv, Ends(con, "closed", <<>>, used), used' = used, UNCHANGED user
  PROVE  KeysInv'
<1>1. con' = Reset(con) /\ typed' = typed /\ tty' = tty /\ con \in Consoles
  BY DEF Ends, user, ShapeInv, ConsoleTypes
<1>2. ~ref'.console
  <2>1. ref' = [ref EXCEPT !.console = FALSE, !.connected = FALSE, !.lateTrigger = FALSE]
    BY DEF Ends
  <2>2. ref \in Refs
    BY DEF ShapeInv, ConsoleTypes
  <2> QED BY <2>1, <2>2 DEF Refs
<1>3. Programs' => Programs /\ con' = con
  BY <1>1 DEF Programs, Reset, NoConsole
<1>4. PICK a : a = [how |-> "closed", charMode |-> prompt.charMode, result |-> <<>>, upTo |-> used]
  OBVIOUS
<1>5. /\ a \in Answers /\ a.upTo = used /\ a.how = "closed" /\ answers' = Append(answers, a)
      /\ used \in used .. used + 1
  <2>1. prompt.charMode \in BOOLEAN /\ used \in Nat /\ <<>> \in Seq(Keys)
    BY Empties DEF ShapeInv, ConsoleTypes, Prompts
  <2> QED BY <1>4, <2>1 DEF Answers, Hows, Ends, PromptTold
<1>6. InProgress'
  BY <1>2 DEF InProgress
<1>7. AnswersRight'
  <2>1. AnswerIs(a, SubSeq(typed, LastUpTo + 1, a.upTo))
    BY <1>5 DEF AnswerIs
  <2> QED BY <1>1, <1>3, <1>5, <2>1, AnswerAdded DEF KeysInv
<1>8. KeysKept'
  BY <1>1, <1>3 DEF KeysInv, KeysKept, Programs
<1> QED BY <1>6, <1>7, <1>8 DEF KeysInv

\* The slots that may end a prompt for its input.
LEMMA inputClosed_deliveredKeys ==
  ASSUME ShapeInv, KeysInv, inputClosed_delivered
  PROVE  KeysInv'
<1>1. UNCHANGED <<user, used>> /\ con_inputClosed
  BY DEF inputClosed_delivered
<1>2. CASE ~prompt.done
  BY <1>1, <1>2, ClosedKeys DEF con_inputClosed
<1>3. CASE prompt.done
  BY <1>1, <1>3, KeysStay DEF con_inputClosed, user, Programs
<1> QED BY <1>2, <1>3

\* As above.
LEMMA doLate_goes_onKeys ==
  ASSUME ShapeInv, KeysInv, doLate_goes_on
  PROVE  KeysInv'
<1>1. UNCHANGED <<user, used>>
  BY DEF doLate_goes_on
<1>2. CASE ref.late_close /\ ~prompt.done
  BY <1>1, <1>2, ClosedKeys DEF doLate_goes_on, con_inputClosed
<1>3. CASE ~(ref.late_close /\ ~prompt.done)
  BY <1>1, <1>3, KeysStay DEF doLate_goes_on, con_inputClosed, user, Programs
<1> QED BY <1>2, <1>3

\* A start that has failed was no prompt's end.
LEMMA finished_deliveredKeys ==
  ASSUME ShapeInv, KeysInv, finished_delivered
  PROVE  KeysInv'
<1>1. /\ pc = "loop" /\ posted # <<>> /\ Head(posted) = "finished" /\ con' = con /\ ref' = ref
      /\ typed' = typed /\ tty' = tty /\ used' = used
  BY DEF finished_delivered, Turn, user
<1>2. ~ref.console
  <2>1. "finished" \in ToSet(posted)
    BY <1>1, PostedIs DEF ShapeInv
  <2> QED BY <1>1, <2>1 DEF ShapeInv, Failure
<1>3. PICK a : a = [how |-> "failed", charMode |-> prompt.charMode, result |-> prompt.result,
                    upTo |-> used]
  OBVIOUS
<1>4. /\ a \in Answers /\ a.upTo = used /\ a.how = "failed" /\ answers' = Append(answers, a)
      /\ used \in used .. used + 1
  <2>1. prompt.charMode \in BOOLEAN /\ prompt.result \in Seq(Keys) /\ used \in Nat
    BY DEF ShapeInv, ConsoleTypes, Prompts
  <2> QED BY <1>3, <2>1 DEF Answers, Hows, finished_delivered, PromptTold
<1>5. InProgress'
  BY <1>1, <1>2 DEF InProgress
<1>6. AnswersRight'
  <2>1. AnswerIs(a, SubSeq(typed, LastUpTo + 1, a.upTo))
    BY <1>4 DEF AnswerIs
  <2> QED BY <1>1, <1>4, <2>1, AnswerAdded DEF KeysInv, Programs
<1>7. KeysKept'
  BY <1>1 DEF KeysInv, KeysKept
<1> QED BY <1>5, <1>6, <1>7 DEF KeysInv

\* The key that a prompt reads is the next of those that were typed: the line
\* gets longer by it.
LEMMA LineSoFar ==
  ASSUME ShapeInv, KeysInv, Programs, pc = "reading", con.buf # <<>>, NEW line, line = SoFar
  PROVE  /\ line \in Seq(Keys) /\ Head(con.buf) \in Keys
         /\ SubSeq(typed, LastUpTo + 1, used + 1) = Append(line, Head(con.buf))
         /\ ~con.released => SubSeq(typed, used + 1 + 1, Len(typed)) = Tail(con.buf) \o tty
<1>1. ConsoleTypes /\ ref.console /\ ~con.released
  BY DEF ShapeInv, PromptShape
<1>2. typed \in Seq(Keys) /\ tty \in Seq(Keys)
  BY <1>1 DEF ConsoleTypes
<1>3. PICK key \in Keys, rest \in Seq(Keys) : key = Head(con.buf) /\ rest = Tail(con.buf)
  BY <1>1, BufferIs
<1>4. con.buf = <<key>> \o rest /\ Len(con.buf) = Len(rest) + 1
  BY <1>1, <1>3, BufferIs
<1>5. /\ LastUpTo \in Nat /\ used \in Nat /\ Len(typed) \in Nat /\ LastUpTo <= used
      /\ used + 1 <= Len(typed)
  <2>1. /\ LastUpTo \in Nat /\ used \in Nat /\ Len(typed) \in Nat /\ LastUpTo <= used
    BY Bounds
  <2>2. used + Len(con.buf) + Len(tty) <= Len(typed) /\ Len(rest) \in Nat /\ Len(tty) \in Nat
    BY <1>1, <1>2, <1>4 DEF ConsoleTypes
  <2> QED BY <1>4, <2>1, <2>2
<1>6. SubSeq(typed, used + 1, Len(typed)) = <<key>> \o (rest \o tty)
  <2>1. SubSeq(typed, used + 1, Len(typed)) = con.buf \o tty
    BY <1>1 DEF KeysInv, KeysKept, Programs
  <2>2. <<key>> \in Seq(Keys)
    BY <1>4
  <2>3. (<<key>> \o rest) \o tty = <<key>> \o (rest \o tty)
    BY <1>2, <2>2, Reassociated, Zenon
  <2> QED BY <1>4, <2>1, <2>3
<1>7. typed[used + 1] = key /\ SubSeq(typed, used + 1 + 1, Len(typed)) = rest \o tty
  <2>1. PICK f \in Nat, t \in Nat : f = used + 1 /\ t = Len(typed)
    BY <1>5
  <2>2. f >= 1 /\ f <= t
    BY <1>5, <2>1
  <2>3. rest \o tty \in Seq(Keys)
    BY <1>2, <1>4, ConcatProperties
  <2>4. SubSeq(typed, f, t) = <<key>> \o (rest \o tty)
    BY <1>6, <2>1
  <2>5. PICK z \in Seq(Keys) : z = rest \o tty
    BY <2>3
  <2>6. PICK s \in Seq(Keys) : s = typed
    BY <1>2
  <2>7. SubSeq(s, f, t) = <<key>> \o z /\ t = Len(s)
    BY <2>1, <2>4, <2>5, <2>6, Zenon
  <2>8. s[f] = key /\ SubSeq(s, f + 1, t) = z
    <3>1. t <= Len(s)
      BY <2>7
    <3>2. s \in Seq(Keys) /\ f \in Nat /\ t \in Nat /\ key \in Keys /\ z \in Seq(Keys)
      BY <1>3, <2>1, <2>5, <2>6, Zenon
    <3>3. f >= 1 /\ f <= t
      BY <2>2
    <3>4. SubSeq(s, f, t) = <<key>> \o z
      BY <2>7
    <3> QED BY <3>1, <3>2, <3>3, <3>4, FirstOff, SMTT(30)
  <2> QED BY <2>1, <2>5, <2>6, <2>8
<1>8. SoFar \in Seq(Keys) /\ SubSeq(typed, LastUpTo + 1, used + 1) = Append(SoFar, typed[used + 1])
  <2>1. PICK f \in Nat : f = LastUpTo + 1
    BY <1>5
  <2>2. f >= 1 /\ f <= used + 1
    BY <1>5, <2>1
  <2> QED BY <1>2, <1>5, <2>1, <2>2, LineGrows DEF SoFar
<1> QED BY <1>3, <1>4, <1>7, <1>8

\* A key that does not end a line makes it longer, and one that does answers it.
LEMMA con_readyReadKeys ==
  ASSUME ShapeInv, KeysInv, con_readyRead
  PROVE  KeysInv'
<1>1. ConsoleTypes /\ PromptShape
  BY DEF ShapeInv
<1> DEFINE key == Head(con.buf)
           c == [con EXCEPT !.buf = Tail(@)]
<1>2. /\ pc = "reading" /\ con.buf # <<>> /\ used' = used + 1
      /\ typed' = typed /\ tty' = tty
  BY DEF con_readyRead, user
<1>3. ref.console /\ con.there /\ ~con.released
  BY <1>1, <1>2 DEF PromptShape
<1>4. key \in Keys /\ Tail(con.buf) \in Seq(Keys)
  BY <1>1, <1>2, BufferIs
<1>5. /\ c \in Consoles /\ c.there = con.there /\ c.own_con = con.own_con
      /\ c.released = con.released /\ c.buf = Tail(con.buf)
  BY <1>1, <1>4 DEF ConsoleTypes, Consoles
<1>6. /\ processChar(key) \in Seq(Keys)
      /\ prompt.charMode => processChar(key) = <<key>>
      /\ ~prompt.charMode => processChar(key) = Edit(prompt.result, key)
  BY <1>1, <1>4, ProcessedIs
<1>7. /\ LastUpTo \in Nat /\ used \in Nat /\ Len(typed) \in Nat
      /\ prompt \in Prompts /\ prompt.charMode \in BOOLEAN /\ ref \in Refs
  BY <1>1, Bounds DEF ConsoleTypes, Prompts
<1>8. PICK line : line = SoFar
  OBVIOUS
<1>9. ASSUME Programs
      PROVE  /\ line \in Seq(Keys)
             /\ SubSeq(typed, LastUpTo + 1, used + 1) = Append(line, key)
             /\ SubSeq(typed, used' + 1, Len(typed)) = Tail(con.buf) \o tty
  BY <1>2, <1>3, <1>8, <1>9, LineSoFar
<1>10. ASSUME Programs
       PROVE  /\ prompt.charMode => used = LastUpTo /\ prompt.result = <<>>
              /\ ~prompt.charMode => "newline" \notin ToSet(line) /\ prompt.result = Edited(line)
  BY <1>3, <1>8, <1>10 DEF KeysInv, InProgress
<1>11. CASE EndsAt(key)
  <2>1. Ends(c, "typed", processChar(key), used')
    BY <1>11 DEF con_readyRead
  <2> HIDE DEF c, key
  <2>2. con' = Reset(c) /\ ~ref'.console
    <3>1. ref' = [ref EXCEPT !.console = FALSE, !.connected = FALSE, !.lateTrigger = FALSE]
      BY <2>1 DEF Ends
    <3> QED BY <1>7, <2>1, <3>1 DEF Ends, Refs
  <2>3. Programs' => Programs /\ con' = c
    BY <1>5, <2>2 DEF Programs, Reset, NoConsole
  <2>4. PICK a : a = [how |-> "typed", charMode |-> prompt.charMode,
                      result |-> processChar(key), upTo |-> used']
    OBVIOUS
  <2>5. /\ a \in Answers /\ a.upTo = used + 1 /\ a.how = "typed" /\ a.charMode = prompt.charMode
        /\ a.result = processChar(key) /\ answers' = Append(answers, a)
        /\ a.upTo \in used .. used + 1
    <3>1. used' \in Nat /\ used' \in used .. used + 1
      BY <1>2, <1>7
    <3> QED BY <1>2, <1>6, <1>7, <2>1, <2>4, <3>1 DEF Answers, Hows, Ends, PromptTold
  <2>6. ASSUME Programs
        PROVE  AnswerIs(a, SubSeq(typed, LastUpTo + 1, a.upTo))
    <3>1. line \in Seq(Keys) /\ SubSeq(typed, LastUpTo + 1, a.upTo) = Append(line, key)
      BY <1>9, <2>5, <2>6
    <3>2. /\ Append(line, key) # <<>> /\ Last(Append(line, key)) = key
          /\ Front(Append(line, key)) = line
      BY <1>4, <3>1, LineEnds DEF key
    <3>3. ASSUME a.charMode PROVE Append(line, key) = a.result
      <4>1. line = <<>>
        <5>1. SubSeq(typed, used + 1, used) = <<>>
          BY <1>7, SubSeqEmpty
        <5> QED BY <1>8, <1>10, <2>5, <2>6, <3>3, <5>1 DEF SoFar
      <4>2. Append(<<>>, key) = <<key>>
        OBVIOUS
      <4> QED BY <1>6, <2>5, <3>3, <4>1, <4>2
    <3>4. ASSUME ~a.charMode
          PROVE  key = "newline" /\ "newline" \notin ToSet(line) /\ a.result = Edited(Append(line, key))
      <4>1. key = "newline"
        BY <1>11, <2>5, <3>4 DEF EndsAt
      <4>2. "newline" \notin ToSet(line) /\ prompt.result = Edited(line)
        BY <1>10, <2>5, <2>6, <3>4
      <4>3. Edited(Append(line, key)) = Edit(Edited(line), key)
        BY <1>4, <3>1, EditedGrows DEF key
      <4> QED BY <1>6, <2>5, <3>4, <4>1, <4>2, <4>3
    <3> QED BY <3>1, <3>2, <3>3, <3>4 DEF AnswerIs
  <2>7. AnswersRight'
    BY <1>2, <2>3, <2>5, <2>6, AnswerAdded DEF KeysInv
  <2>8. InProgress'
    BY <2>2 DEF InProgress
  <2>9. KeysKept'
    BY <1>2, <1>5, <1>9, <2>3 DEF KeysKept, Programs
  <2> QED BY <2>7, <2>8, <2>9 DEF KeysInv
<1>12. CASE ~EndsAt(key)
  <2>1. /\ con' = c /\ prompt' = [prompt EXCEPT !.result = processChar(key)]
        /\ ref' = ref /\ answers' = answers
    BY <1>12 DEF con_readyRead
  <2> HIDE DEF c, key
  <2>2. prompt'.result = processChar(key) /\ prompt'.charMode = prompt.charMode
    BY <1>7, <2>1 DEF Prompts
  <2>3. ~prompt.charMode /\ key # "newline"
    BY <1>12 DEF EndsAt
  <2>4. (Programs' <=> Programs) /\ LastUpTo' = LastUpTo
    BY <1>5, <2>1 DEF Programs, LastUpTo
  <2>5. InProgress'
    <3>1. SUFFICES ASSUME Programs
                   PROVE  "newline" \notin ToSet(SoFar') /\ prompt'.result = Edited(SoFar')
      BY <2>2, <2>3, <2>4 DEF InProgress
    <3>2. SoFar' = Append(line, key) /\ line \in Seq(Keys)
      BY <1>2, <1>9, <2>4, <3>1 DEF SoFar
    <3>3. "newline" \notin ToSet(line) /\ prompt.result = Edited(line)
      BY <1>10, <2>3, <3>1
    <3>4. /\ ToSet(Append(line, key)) = ToSet(line) \cup {key}
          /\ Edited(Append(line, key)) = Edit(Edited(line), key)
      BY <1>4, <3>2, LineEnds, EditedGrows DEF key
    <3> QED BY <1>6, <2>2, <2>3, <3>2, <3>3, <3>4
  <2>6. AnswersRight'
    BY <1>2, <2>1, <2>4 DEF KeysInv, AnswersRight, LineOf, LineFrom, AnswerIs
  <2>7. KeysKept'
    BY <1>2, <1>5, <1>9, <2>1 DEF KeysKept, Programs
  <2> QED BY <2>5, <2>6, <2>7 DEF KeysInv
<1> QED BY <1>11, <1>12

----------------------------------------------------------------------------
(* Console: the invariant and what it says.                                  *)

\* The actions that move no key and answer nobody.
LEMMA OthersKeys ==
  ASSUME ShapeInv, KeysInv,
         \/ HangUp \/ in_closed \/ release
         \/ isValid \/ start_fails \/ bytesAvailable \/ connect \/ waitForFinished
         \/ con_readyRead_returns \/ readyRead_delivered \/ doLate \/ slot_returns
  PROVE  KeysInv'
<1>1. con \in Consoles /\ ref \in Refs /\ prompt \in Prompts
  BY DEF ShapeInv, ConsoleTypes
<1>2. CASE HangUp
  BY <1>2, KeysStay DEF HangUp, program, consoleHistory, Programs
<1>3. CASE in_closed
  <2>1. con'.buf = con.buf /\ (Programs' <=> Programs) /\ con'.released = con.released
    BY <1>1, <1>3 DEF in_closed, Consoles, Programs
  <2> QED BY <1>3, <2>1, KeysStay DEF in_closed, Signals, user, program
<1>4. CASE release
  <2>1. (Programs' <=> Programs) /\ con'.released
    BY <1>1, <1>4 DEF release, Consoles, Programs
  <2> QED BY <1>4, <2>1, KeysStay DEF release, program, consoleHistory
<1>5. CASE isValid \/ bytesAvailable \/ connect \/ doLate
  <2>1. ref'.console = ref.console
    BY <1>1, <1>5 DEF isValid, bytesAvailable, connect, doLate, Refs
  <2>2. UNCHANGED <<user, con, prompt, consoleHistory>>
    BY <1>5 DEF isValid, bytesAvailable, connect, doLate
  <2> QED BY <2>1, <2>2, KeysStay DEF user, consoleHistory, Programs
<1>6. CASE start_fails
  <2>1. con' = Reset(con) /\ ~ref'.console /\ UNCHANGED <<user, consoleHistory>>
    BY <1>6 DEF start_fails, NoRef
  <2>2. Programs' => Programs /\ con' = con
    BY <2>1 DEF Programs, Reset, NoConsole
  <2> QED BY <2>1, <2>2, KeysStay DEF user, consoleHistory
<1>7. CASE waitForFinished
  <2>1. prompt'.charMode = prompt.charMode /\ prompt'.result = prompt.result
    BY <1>1, <1>7 DEF waitForFinished, Prompts
  <2> QED BY <1>7, <2>1, KeysStay DEF waitForFinished, user, Programs
<1>8. CASE con_readyRead_returns \/ readyRead_delivered \/ slot_returns
  <2>1. UNCHANGED <<user, con, ref, prompt, answers, used>>
    BY <1>8 DEF con_readyRead_returns, readyRead_delivered, slot_returns, consoleHistory
  <2> QED BY <2>1, KeysStay DEF user, Programs
<1> QED BY <1>2, <1>3, <1>4, <1>5, <1>6, <1>7, <1>8

\* The program starts with nothing.
LEMMA ConsoleStarts == ConsoleInit => ConsoleInv
<1> SUFFICES ASSUME ConsoleInit PROVE ConsoleInv
  OBVIOUS
<1>1. /\ typed = <<>> /\ tty = <<>> /\ ~hungup /\ hungup \in BOOLEAN /\ con = NoConsole /\ ref = NoRef
      /\ posted = <<>> /\ answers = <<>> /\ used = 0 /\ calls = 0 /\ pc = "loop"
      /\ prompt = [charMode |-> FALSE, result |-> <<>>, done |-> FALSE, waiting |-> FALSE,
                   asked |-> FALSE]
  BY DEF ConsoleInit
<1>2. /\ <<>> \in Seq(Keys) /\ <<>> \in Seq(ConsoleSignals) /\ <<>> \in Seq(Answers) /\ Len(<<>>) = 0
  BY Empties
<1>3. con \in Consoles /\ con.buf = <<>> /\ ~con.valid /\ ~con.there /\ ~con.own_con
  BY <1>1, <1>2 DEF NoConsole, Consoles
<1>4. ref \in Refs /\ ~ref.console /\ ~ref.connected /\ ~ref.lateTrigger
  BY <1>1 DEF NoRef, Refs
<1>5. prompt \in Prompts /\ prompt.result = <<>> /\ ~prompt.waiting /\ ~prompt.asked /\ ~prompt.done
  BY <1>1, <1>2 DEF Prompts
<1>6. ConsoleTypes
  <2>1. used + Len(con.buf) + Len(tty) <= Len(typed)
    BY <1>1, <1>2, <1>3
  <2>2. Len(prompt.result) <= IF prompt.charMode THEN 1 ELSE InputMax
    BY <1>2, <1>5, ConsoleAssumption
  <2>3. typed \in Seq(Keys) /\ tty \in Seq(Keys) /\ posted \in Seq(ConsoleSignals) /\ answers \in Seq(Answers)
    BY <1>1, <1>2, Zenon
  <2> QED BY <1>1, <1>3, <1>4, <1>5, <2>1, <2>2, <2>3 DEF ConsoleTypes
<1>7. NotAsked /\ ConsoleShape
  BY <1>1, <1>3, <1>4, <1>5 DEF NotAsked, ConsoleShape
<1>8. PromptShape /\ StartShape
  BY <1>1, <1>4, <1>5 DEF PromptShape, StartShape, Starting, LastUpTo
<1>9. Failure
  BY <1>1, NonePosted DEF Failure
<1>10. EndsCounted
  <2>1. AnswersTold = {}
    BY <1>1 DEF AnswersTold
  <2> QED BY <1>1, <2>1, FS_EmptySet DEF EndsCounted
<1>11. AnswersGrow
  BY <1>1, <1>2 DEF AnswersGrow
<1>12. KeysInv
  BY <1>3 DEF KeysInv, InProgress, AnswersRight, KeysKept, Programs
<1> QED BY <1>6, <1>7, <1>8, <1>9, <1>10, <1>11, <1>12 DEF ConsoleInv, ShapeInv

\* And every step, of the user, of the console's thread or of the program's,
\* keeps it.
LEMMA ConsoleSteps == ConsoleInv /\ [ConsoleNext]_consoleVars => ConsoleInv'
<1> SUFFICES ASSUME ShapeInv, KeysInv, [ConsoleNext]_consoleVars PROVE ShapeInv' /\ KeysInv'
  BY DEF ConsoleInv
<1>1. CASE \E key \in Keys : Type(key)
  BY <1>1, TypeShape, TypeKeys
<1>2. CASE HangUp
  BY <1>2, HangUpShape, OthersKeys
<1>3. CASE Thread
  BY <1>3, in_readyReadShape, in_readyReadKeys, in_closedShape, OthersKeys DEF Thread
<1>4. CASE CreateConsole
  BY <1>4, CreateConsoleShape, CreateConsoleKeys
<1>5. CASE release
  BY <1>5, releaseShape, OthersKeys
<1>6. CASE \E charMode \in BOOLEAN : Ask(charMode)
  BY <1>6, AskShape, AskKeys
<1>7. CASE waitForFinished
  BY <1>7, waitForFinishedShape, OthersKeys
<1>8. CASE Slots
  <2>1. CASE isValid \/ start_fails \/ bytesAvailable \/ connect
    BY <2>1, isValidShape, start_failsShape, bytesAvailableShape, connectShape, OthersKeys
  <2>2. CASE con_readyRead
    BY <2>2, con_readyReadShape, con_readyReadKeys
  <2>3. CASE con_readyRead_returns \/ readyRead_delivered \/ doLate \/ slot_returns
    BY <2>3, con_readyRead_returnsShape, readyRead_deliveredShape, doLateShape, slot_returnsShape,
       OthersKeys
  <2>4. CASE inputClosed_delivered
    BY <2>4, inputClosed_deliveredShape, inputClosed_deliveredKeys
  <2>5. CASE finished_delivered
    BY <2>5, finished_deliveredShape, finished_deliveredKeys
  <2>6. CASE doLate_goes_on
    BY <2>6, doLate_goes_onShape, doLate_goes_onKeys
  <2> QED BY <1>8, <2>1, <2>2, <2>3, <2>4, <2>5, <2>6 DEF Slots
<1>9. CASE UNCHANGED consoleVars
  <2>1. /\ UNCHANGED <<typed, tty, hungup, con, ref, posted, prompt, pc>>
        /\ UNCHANGED <<calls, answers, used, bad>>
    BY <1>9 DEF consoleVars
  <2>2. ConsoleTypes' /\ NotAsked' /\ ConsoleShape' /\ PromptShape' /\ StartShape' /\ Failure'
        /\ EndsCounted' /\ AnswersGrow'
    BY <2>1 DEF ShapeInv, ConsoleTypes, NotAsked, ConsoleShape, PromptShape, StartShape, LastUpTo,
       Failure, EndsCounted, AnswersTold, AnswersGrow
  <2>3. KeysInv'
    BY <2>1, KeysStay DEF Programs
  <2> QED BY <2>2, <2>3 DEF ShapeInv
<1> QED BY <1>1, <1>2, <1>3, <1>4, <1>5, <1>6, <1>7, <1>8, <1>9 DEF ConsoleNext

\* It says what the run checks.
LEMMA ConsoleInvSays == ConsoleInv => ConsoleConsistent
<1> SUFFICES ASSUME ConsoleInv PROVE ConsoleConsistent
  OBVIOUS
<1>1. ShapeInv /\ KeysInv /\ ConsoleTypes /\ PromptShape
  BY DEF ConsoleInv, ShapeInv
<1>2. ConsoleTypeOK
  <2>1. Len(tty) + used <= Len(typed)
    <3>1. Len(con.buf) \in Nat /\ Len(tty) \in Nat /\ used \in Nat /\ Len(typed) \in Nat
      BY <1>1 DEF ConsoleTypes, Consoles
    <3> QED BY <1>1, <3>1 DEF ConsoleTypes
  <2> QED BY <1>1, <2>1 DEF ConsoleTypeOK, ConsoleTypes, PromptShape, Starting
<1>3. OneEndEach
  <2>1. Cardinality(AnswersTold) \in Nat /\ calls \in Nat
    BY <1>1, Counting DEF ConsoleTypes
  <2>2. Cardinality(AnswersTold) <= calls
    BY <1>1, <2>1 DEF ShapeInv, EndsCounted
  <2> QED BY <2>2 DEF OneEndEach, AnswersTold
<1>4. LinesInOrder
  <2>1. DOMAIN answers = 1 .. Len(answers)
    BY <1>1 DEF ConsoleTypes
  <2>2. Programs => \A i \in 1 .. Len(answers) : AnswerIs(answers[i], LineOf(i))
    BY <1>1 DEF KeysInv, AnswersRight
  <2> QED BY <2>1, <2>2 DEF LinesInOrder, Programs, AnswerIs, LineOf, LineFrom
<1> QED BY <1>1, <1>2, <1>3, <1>4 DEF ConsoleConsistent, KeysInv

\* However the user's typing, the console's thread and the program's calls and
\* slots interleave, and however often prompts are asked for, started late,
\* fail or end: the console, its reference and the prompts agree, a prompt that
\* was started ends once (con_readyRead(), con_inputClosed() and reset() of
\* ConsolePrompt::Private), each is answered with its line of what was typed,
\* in order, and no key is lost while the program keeps its console.
THEOREM PromptsConsistent == ConsoleSpec => []ConsoleConsistent
<1>1. ConsoleInit => ConsoleInv
  BY ConsoleStarts
<1>2. ConsoleInv /\ [ConsoleNext]_consoleVars => ConsoleInv'
  BY ConsoleSteps
<1>3. ConsoleInv => ConsoleConsistent
  BY ConsoleInvSays
<1> QED BY <1>1, <1>2, <1>3, PTL DEF ConsoleSpec
=============================================================================
