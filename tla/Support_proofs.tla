--------------------------- MODULE Support_proofs ---------------------------
(***************************************************************************)
(* Proofs about the parts under src/support and what gpg's plugin builds   *)
(* on them, for every value of the constants.                              *)
(*   SyncThread    its types, that a caller gets its own result, that no   *)
(*                 wakeup can go to the wrong thread, and that each step   *)
(*                 is one that RemoteCall allows or none.                  *)
(*   QPipe         no byte is lost, doubled or out of its place, what is   *)
(*                 reported is true, and the two ends implement the stream *)
(*                 of bytes of ByteStream.                                 *)
(*   SecureMessage the other end of gpg's pipes: a message agrees with its *)
(*                 gpg.                                                    *)
(***************************************************************************)
EXTENDS SyncThread, QPipe, SecureMessage, SequenceTheorems, TLAPS

(***************************************************************************)
(* SyncThread                                                              *)
(***************************************************************************)

\* Nothing is queued, run or left over for a caller.
Quiet == events = <<>> /\ worker = "exec" /\ running = None /\ last_ret = None

\* Where the worker can be, given where the owner is.
OwnerAt ==
  \/ /\ owner = "down" /\ worker = "none" /\ m = "free"
     /\ ~tracker /\ ~loop /\ events = <<>> /\ call_mutex = None
     /\ running = None /\ last_ret = None
  \/ /\ owner = "start_wait" /\ worker = "born" /\ m = "free"
     /\ ~tracker /\ ~loop /\ events = <<>> /\ call_mutex = None
     /\ running = None /\ last_ret = None
  \/ /\ owner = "start_wait" /\ worker = "exec" /\ m = "worker"
     /\ ~tracker /\ loop /\ events = <<started>> /\ call_mutex = None
     /\ running = None /\ last_ret = None
  \/ /\ owner = "start_woken" /\ m = "free" /\ tracker /\ loop
     /\ call_mutex = None /\ Quiet
  \/ /\ owner = "up" /\ m = "free" /\ tracker /\ loop
  \/ /\ owner = "stop_wait" /\ worker = "exec" /\ m = "free"
     /\ tracker /\ loop /\ events = <<quit>> /\ call_mutex = None
     /\ running = None /\ last_ret = None
  \/ /\ owner = "stop_wait" /\ worker = "end" /\ m = "free"
     /\ tracker /\ loop /\ events = <<>> /\ call_mutex = None
     /\ running = None /\ last_ret = None
  \/ /\ owner = "stop_woken" /\ worker = "finished" /\ m = "free"
     /\ ~tracker /\ ~loop /\ events = <<>> /\ call_mutex = None
     /\ running = None /\ last_ret = None
  \/ /\ owner = "join" /\ worker = "finished" /\ m = "owner"
     /\ ~tracker /\ ~loop /\ events = <<>> /\ call_mutex = None
     /\ running = None /\ last_ret = None

\* Where the worker can be, given where the caller with call_mutex is.
CallerAt ==
  owner = "up" =>
    \/ call_mutex = None /\ Quiet
    \/ /\ call_mutex # None
       /\ \/ caller[call_mutex] = "locked" /\ Quiet
          \/ /\ caller[call_mutex] = "wait" /\ worker = "exec"
             /\ events = <<call_do(call_mutex)>> /\ running = None /\ last_ret = None
          \/ /\ caller[call_mutex] = "wait" /\ worker = "call"
             /\ events = <<>> /\ running = call_mutex /\ last_ret = None
          \/ /\ caller[call_mutex] = "woken" /\ worker = "exec"
             /\ events = <<>> /\ running = None /\ last_ret = call_mutex

\* The holder of call_mutex, alone, is inside call(); in any other phase of the
\* owner no caller is under way.
Serialised ==
  /\ \A k \in Callers : caller[k] \in {"locked", "wait", "woken"} <=> call_mutex = k
  /\ owner # "up" => \A k \in Callers : caller[k] = "idle"

IInv == TypeOK /\ OwnResult /\ OwnerAt /\ CallerAt /\ Serialised

\* The three kinds of posted event are different, and a queue of one event
\* delivers that event and is empty.
LEMMA CallEvents ==
  /\ started # quit
  /\ \A k : call_do(k) # started /\ call_do(k) # quit
  /\ \A k, d : call_do(k) = call_do(d) => k = d
  /\ \A e : Head(<<e>>) = e /\ Tail(<<e>>) = <<>> /\ <<e>> # <<>>
  /\ \A e : Append(<<>>, e) = <<e>>
<1>1. started.type = "started" /\ quit.type = "quit"
  BY DEF started, quit
<1>2. \A k : call_do(k).type = "call_do" /\ call_do(k).for = k
  BY DEF call_do
<1>3. \A k, d : call_do(k) = call_do(d) => k = d
  BY <1>2
<1>4. /\ started # quit
      /\ \A k : call_do(k) # started /\ call_do(k) # quit
  BY <1>1, <1>2
<1>5. /\ \A e : Head(<<e>>) = e /\ Tail(<<e>>) = <<>> /\ <<e>> # <<>>
      /\ \A e : Append(<<>>, e) = <<e>>
  OBVIOUS
<1>6. QED
  BY <1>3, <1>4, <1>5

\* The event queue is always one of these, so the type of the queue follows.
LEMMA EventTypes ==
  /\ <<>> \in Seq({started, quit} \cup {call_do(k) : k \in Callers})
  /\ <<started>> \in Seq({started, quit} \cup {call_do(k) : k \in Callers})
  /\ <<quit>> \in Seq({started, quit} \cup {call_do(k) : k \in Callers})
  /\ \A d \in Callers : <<call_do(d)>> \in Seq({started, quit} \cup {call_do(k) : k \in Callers})
<1> DEFINE E == {started, quit} \cup {call_do(k) : k \in Callers}
<1>1. started \in E /\ quit \in E /\ \A d \in Callers : call_do(d) \in E
  OBVIOUS
<1> HIDE DEF E
<1>2. <<>> \in Seq(E) /\ \A e \in E : <<e>> \in Seq(E)
  OBVIOUS
<1>3. QED
  BY <1>1, <1>2 DEF E

LEMMA InitIInv == Init => IInv
<1> SUFFICES ASSUME Init PROVE IInv
  OBVIOUS
<1>1. TypeOK
  BY EventTypes DEF Init, TypeOK
<1>2. OwnResult /\ OwnerAt
  BY DEF Init, OwnResult, OwnerAt
<1>3. CallerAt /\ Serialised
  BY NoneAssumption DEF Init, CallerAt, Serialised
<1>4. QED
  BY <1>1, <1>2, <1>3 DEF IInv

\* What IInv says of the queue and of m, for the steps below.
LEMMA QueueIs ==
  ASSUME IInv
  PROVE  /\ \/ events = <<>>
            \/ events = <<started>> /\ owner = "start_wait" /\ worker = "exec"
            \/ events = <<quit>> /\ owner = "stop_wait" /\ worker = "exec"
            \/ \E k \in Callers : /\ events = <<call_do(k)>> /\ owner = "up" /\ worker = "exec"
                                  /\ call_mutex = k /\ caller[k] = "wait"
  BY DEF IInv, TypeOK, OwnerAt, CallerAt, Quiet

\* In these lemmas the owner sleeps or is up, so wakeOne reaches the one thread
\* it is meant for.
LEMMA OwnerStep ==
  ASSUME IInv, Owner
  PROVE  IInv'
<1>1. CASE start
  <2>1. owner = "down" /\ owner' = "start_wait" /\ worker' = "born"
        /\ UNCHANGED <<m, call_mutex, caller, loop, tracker, events, running, last_ret, got>>
    BY <1>1 DEF start
  <2> QED
    BY <2>1 DEF IInv, TypeOK, OwnResult, OwnerAt, CallerAt, Serialised, Quiet
<1>2. CASE start_return
  <2>1. owner = "start_woken" /\ owner' = "up"
        /\ UNCHANGED <<m, call_mutex, caller, worker, loop, tracker, events, running, last_ret, got>>
    BY <1>2 DEF start_return
  <2> QED
    BY <2>1 DEF IInv, TypeOK, OwnResult, OwnerAt, CallerAt, Serialised, Quiet
<1>3. CASE stop
  <2>1. owner = "up" /\ owner' = "stop_wait" /\ (\A k \in Callers : caller[k] = "idle")
        /\ events' = Append(events, quit)
        /\ UNCHANGED <<m, call_mutex, caller, worker, loop, tracker, running, last_ret, got>>
    BY <1>3 DEF stop
  <2>2. call_mutex = None
    BY <2>1 DEF IInv, TypeOK, Serialised
  <2>3. Quiet
    BY <2>1, <2>2 DEF IInv, CallerAt
  <2>4. events' = <<quit>>
    BY <2>1, <2>3, CallEvents DEF Quiet
  <2> QED
    BY <2>1, <2>2, <2>3, <2>4, EventTypes
    DEF IInv, TypeOK, OwnResult, OwnerAt, CallerAt, Serialised, Quiet
<1>4. CASE stop_join
  <2>1. owner = "stop_woken" /\ owner' = "join" /\ m' = "owner"
        /\ UNCHANGED <<call_mutex, caller, worker, loop, tracker, events, running, last_ret, got>>
    BY <1>4 DEF stop_join
  <2> QED
    BY <2>1 DEF IInv, TypeOK, OwnResult, OwnerAt, CallerAt, Serialised, Quiet
<1>5. CASE stop_return
  <2>1. owner = "join" /\ owner' = "down" /\ m' = "free" /\ worker' = "none"
        /\ UNCHANGED <<call_mutex, caller, loop, tracker, events, running, last_ret, got>>
    BY <1>5 DEF stop_return
  <2> QED
    BY <2>1 DEF IInv, TypeOK, OwnResult, OwnerAt, CallerAt, Serialised, Quiet
<1>6. QED
  BY <1>1, <1>2, <1>3, <1>4, <1>5 DEF Owner

LEMMA CallerStep ==
  ASSUME IInv, NEW k \in Callers, Caller(k)
  PROVE  IInv'
<1>1. CASE trackercall(k)
  <2>1. owner = "up" /\ caller[k] = "idle" /\ caller' = [caller EXCEPT ![k] = "blocked"]
        /\ UNCHANGED <<m, call_mutex, owner, worker, loop, tracker, events, running, last_ret, got>>
    BY <1>1 DEF trackercall
  <2>2. call_mutex # k
    BY <2>1 DEF IInv, Serialised
  <2> QED
    BY <2>1, <2>2 DEF IInv, TypeOK, OwnResult, OwnerAt, CallerAt, Serialised, Quiet
<1>2. CASE call_mutex_lock(k)
  <2>1. caller[k] = "blocked" /\ call_mutex = None /\ call_mutex' = k
        /\ caller' = [caller EXCEPT ![k] = "locked"]
        /\ UNCHANGED <<m, owner, worker, loop, tracker, events, running, last_ret, got>>
    BY <1>2 DEF call_mutex_lock
  <2>2. owner = "up" /\ Quiet /\ k # None
    BY <2>1, NoneAssumption DEF IInv, Serialised, CallerAt
  <2>3. TypeOK' /\ OwnResult'
    BY <2>1 DEF IInv, TypeOK, OwnResult
  <2>4. OwnerAt' /\ CallerAt'
    BY <2>1, <2>2 DEF IInv, TypeOK, OwnerAt, CallerAt, Quiet
  <2>5. ASSUME NEW d \in Callers
        PROVE  caller'[d] \in {"locked", "wait", "woken"} <=> call_mutex' = d
    <3>1. CASE d = k
      BY <2>1, <3>1 DEF IInv, TypeOK
    <3>2. CASE d # k
      <4>1. caller'[d] = caller[d]
        BY <2>1, <3>2 DEF IInv, TypeOK
      <4>2. d # None
        BY NoneAssumption
      <4>3. caller[d] \notin {"locked", "wait", "woken"}
        BY <2>1, <4>2 DEF IInv, Serialised
      <4>4. call_mutex' # d
        BY <2>1, <3>2
      <4> QED
        BY <4>1, <4>3, <4>4
    <3> QED
      BY <3>1, <3>2
  <2>6. owner' = "up"
    BY <2>1, <2>2
  <2>7. Serialised'
    BY <2>5, <2>6 DEF Serialised
  <2> QED
    BY <2>3, <2>4, <2>7 DEF IInv
<1>3. CASE call(k)
  <2>1. caller[k] = "locked" /\ events' = Append(events, call_do(k))
        /\ caller' = [caller EXCEPT ![k] = "wait"]
        /\ UNCHANGED <<m, call_mutex, owner, worker, loop, tracker, running, last_ret, got>>
    BY <1>3 DEF call
  <2>2. owner = "up" /\ call_mutex = k /\ Quiet /\ k # None
    BY <2>1, NoneAssumption DEF IInv, Serialised, CallerAt
  <2>3. events' = <<call_do(k)>>
    BY <2>1, <2>2, CallEvents DEF Quiet
  <2> QED
    BY <2>1, <2>2, <2>3, EventTypes
    DEF IInv, TypeOK, OwnResult, OwnerAt, CallerAt, Serialised, Quiet
<1>4. CASE call_return(k)
  <2>1. caller[k] = "woken" /\ got' = [got EXCEPT ![k] = last_ret] /\ last_ret' = None
        /\ caller' = [caller EXCEPT ![k] = "idle"] /\ call_mutex' = None
        /\ UNCHANGED <<m, owner, worker, loop, tracker, events, running>>
    BY <1>4 DEF call_return
  <2>2. /\ owner = "up" /\ call_mutex = k /\ k # None
        /\ worker = "exec" /\ events = <<>> /\ running = None /\ last_ret = k
    BY <2>1, NoneAssumption DEF IInv, Serialised, CallerAt, Quiet
  <2>3. TypeOK'
    BY <2>1, <2>2 DEF IInv, TypeOK
  <2>4. OwnResult'
    BY <2>1, <2>2 DEF IInv, TypeOK, OwnResult
  <2>5. OwnerAt' /\ CallerAt'
    BY <2>1, <2>2 DEF IInv, OwnerAt, CallerAt, Quiet
  <2>6. Serialised'
    BY <2>1, <2>2, NoneAssumption DEF IInv, TypeOK, Serialised
  <2> QED
    BY <2>3, <2>4, <2>5, <2>6 DEF IInv
<1>5. QED
  BY <1>1, <1>2, <1>3, <1>4 DEF Caller

LEMMA WorkerStep ==
  ASSUME IInv, Worker
  PROVE  IInv'
<1>1. CASE run
  <2>1. worker = "born" /\ m' = "worker" /\ loop' = TRUE /\ events' = <<started>>
        /\ worker' = "exec"
        /\ UNCHANGED <<call_mutex, owner, caller, tracker, running, last_ret, got>>
    BY <1>1 DEF run
  <2>2. owner = "start_wait"
    BY <2>1 DEF IInv, OwnerAt, CallerAt, Quiet
  <2> QED
    BY <2>1, <2>2, EventTypes
    DEF IInv, TypeOK, OwnResult, OwnerAt, CallerAt, Serialised, Quiet
<1>2. CASE agent_started
  <2>1. worker = "exec" /\ events # <<>> /\ Head(events) = started /\ events' = Tail(events)
        /\ tracker' = TRUE /\ m' = "free" /\ wakeOne
        /\ UNCHANGED <<call_mutex, worker, loop, running, last_ret, got>>
    BY <1>2 DEF agent_started, Received
  <2>2. events = <<started>> /\ owner = "start_wait"
    BY <2>1, QueueIs, CallEvents
  <2>3. owner' = "start_woken" /\ UNCHANGED caller /\ events' = <<>>
    BY <2>1, <2>2, CallEvents DEF wakeOne, WakeOwner, WakeCaller, IInv, Serialised
  <2> QED
    BY <2>1, <2>2, <2>3, EventTypes
    DEF IInv, TypeOK, OwnResult, OwnerAt, CallerAt, Serialised, Quiet
<1>3. ASSUME NEW k \in Callers, agent_call_do(k)
      PROVE  IInv'
  <2>1. worker = "exec" /\ events # <<>> /\ Head(events) = call_do(k) /\ events' = Tail(events)
        /\ running' = k /\ worker' = "call"
        /\ UNCHANGED <<m, call_mutex, owner, caller, loop, tracker, last_ret, got>>
    BY <1>3 DEF agent_call_do, Received
  <2>2. /\ events = <<call_do(k)>> /\ owner = "up" /\ call_mutex = k /\ caller[k] = "wait"
    BY <2>1, QueueIs, CallEvents
  <2>3. events' = <<>> /\ k # None
    BY <2>1, <2>2, CallEvents, NoneAssumption
  <2> QED
    BY <2>1, <2>2, <2>3, EventTypes
    DEF IInv, TypeOK, OwnResult, OwnerAt, CallerAt, Serialised, Quiet
<1>4. CASE agent_call_ret
  <2>1. worker = "call" /\ last_ret' = running /\ running' = None /\ worker' = "exec" /\ wakeOne
        /\ UNCHANGED <<m, call_mutex, loop, tracker, events, got>>
    BY <1>4 DEF agent_call_ret
  <2>2. PICK k \in Callers : /\ owner = "up" /\ call_mutex = k /\ caller[k] = "wait"
                            /\ running = k /\ events = <<>> /\ k # None
    BY <2>1, NoneAssumption DEF IInv, TypeOK, OwnerAt, CallerAt, Quiet
  <2>3. UNCHANGED owner /\ caller' = [caller EXCEPT ![k] = "woken"]
    BY <2>1, <2>2 DEF wakeOne, WakeOwner, WakeCaller, IInv, Serialised
  <2> QED
    BY <2>1, <2>2, <2>3
    DEF IInv, TypeOK, OwnResult, OwnerAt, CallerAt, Serialised, Quiet
<1>5. CASE exec_quit
  <2>1. worker = "exec" /\ events # <<>> /\ Head(events) = quit /\ events' = Tail(events)
        /\ worker' = "end"
        /\ UNCHANGED <<m, call_mutex, owner, caller, loop, tracker, running, last_ret, got>>
    BY <1>5 DEF exec_quit, Received
  <2>2. events = <<quit>> /\ owner = "stop_wait"
    BY <2>1, QueueIs, CallEvents
  <2>3. events' = <<>>
    BY <2>1, <2>2, CallEvents
  <2> QED
    BY <2>1, <2>2, <2>3, EventTypes
    DEF IInv, TypeOK, OwnResult, OwnerAt, CallerAt, Serialised, Quiet
<1>6. CASE run_end
  <2>1. worker = "end" /\ ~tracker' /\ ~loop' /\ events' = <<>> /\ worker' = "finished" /\ wakeOne
        /\ tracker' \in BOOLEAN /\ loop' \in BOOLEAN
        /\ UNCHANGED <<m, call_mutex, running, last_ret, got>>
    BY <1>6 DEF run_end
  <2>2. owner = "stop_wait"
    BY <2>1 DEF IInv, OwnerAt, CallerAt, Quiet
  <2>3. owner' = "stop_woken" /\ UNCHANGED caller
    BY <2>1, <2>2 DEF wakeOne, WakeOwner, WakeCaller, IInv, Serialised
  <2> QED
    BY <2>1, <2>2, <2>3, EventTypes
    DEF IInv, TypeOK, OwnResult, OwnerAt, CallerAt, Serialised, Quiet
<1>7. QED
  BY <1>1, <1>2, <1>3, <1>4, <1>5, <1>6 DEF Worker

LEMMA StepIInv == IInv /\ [Next]_vars => IInv'
<1> SUFFICES ASSUME IInv, [Next]_vars PROVE IInv'
  OBVIOUS
<1>1. CASE UNCHANGED vars
  BY <1>1 DEF vars, IInv, TypeOK, OwnResult, OwnerAt, CallerAt, Serialised, Quiet
<1>2. CASE Next
  BY <1>2, OwnerStep, CallerStep, WorkerStep DEF Next
<1>3. QED
  BY <1>1, <1>2

\* Who holds which mutex, and who sleeps, follows from where the threads are, in
\* every reachable state.
THEOREM Invariance == Spec => []IInv
  BY InitIInv, StepIInv, PTL DEF Spec

\* The types of the shared state, for any number of calling threads.
THEOREM TypeCorrect == Spec => []TypeOK
<1>1. IInv => TypeOK
  BY DEF IInv
<1>2. QED
  BY <1>1, Invariance, PTL

\* Each caller returns with the result of its own method.
THEOREM ResultsCorrect == Spec => []OwnResult
<1>1. IInv => OwnResult
  BY DEF IInv
<1>2. QED
  BY <1>1, Invariance, PTL

\* wakeOne() always finds the one thread it is meant for, and the worker never
\* needs m while the owner holds it to wait for the worker.
THEOREM WakeupsCorrect == Spec => [](OneSleeper /\ NoJoinDeadlock)
<1>1. IInv => OneSleeper
  BY DEF IInv, Serialised, OneSleeper
<1>2. IInv => NoJoinDeadlock
  BY DEF IInv, OwnerAt, NoJoinDeadlock
<1>3. QED
  BY <1>1, <1>2, Invariance, PTL

----------------------------------------------------------------------------
(* Each step is a step of RemoteCall, or leaves its variables alone.        *)

LEMMA InitRefines == Init => Promise!Init
  BY NoneAssumption DEF Init, Promise!Init, ownerPhase, requestPhase

\* The request of every caller but k stays as it is.
LEMMA OthersKeep ==
  ASSUME NEW k \in Callers, NEW phase,
         requestPhase'[k] = phase,
         \A d \in Callers \ {k} : requestPhase'[d] = requestPhase[d]
  PROVE  requestPhase' = [requestPhase EXCEPT ![k] = phase]
  BY DEF requestPhase

LEMMA OwnerRefines ==
  ASSUME IInv, Owner
  PROVE  [Promise!Next]_(Promise!vars)
<1>1. UNCHANGED requestPhase
  BY DEF Owner, start, start_return, stop, stop_join, stop_return, requestPhase
<1>2. CASE start
  <2>1. Promise!Start
    BY <1>1, <1>2 DEF start, Promise!Start, ownerPhase
  <2> QED
    BY <2>1 DEF Promise!Next
<1>3. CASE start_return
  <2>1. tracker
    BY <1>3 DEF start_return, IInv, OwnerAt
  <2>2. Promise!Started
    BY <1>1, <1>3, <2>1 DEF start_return, Promise!Started, ownerPhase
  <2> QED
    BY <2>2 DEF Promise!Next
<1>4. CASE stop
  <2>1. \A k \in Callers : requestPhase[k] = "idle"
    BY <1>4 DEF stop, requestPhase
  <2>2. Promise!Stop
    BY <1>1, <1>4, <2>1 DEF stop, Promise!Stop, ownerPhase
  <2> QED
    BY <2>2 DEF Promise!Next
<1>5. CASE stop_join
  BY <1>1, <1>5 DEF stop_join, ownerPhase, Promise!vars
<1>6. CASE stop_return
  <2>1. ~tracker
    BY <1>6 DEF stop_return, IInv, OwnerAt
  <2>2. Promise!Stopped
    BY <1>1, <1>6, <2>1 DEF stop_return, Promise!Stopped, ownerPhase
  <2> QED
    BY <2>2 DEF Promise!Next
<1>7. QED
  BY <1>2, <1>3, <1>4, <1>5, <1>6 DEF Owner

LEMMA CallerRefines ==
  ASSUME IInv, NEW k \in Callers, Caller(k)
  PROVE  [Promise!Next]_(Promise!vars)
<1>1. UNCHANGED <<ownerPhase, tracker>>
  BY DEF Caller, trackercall, call_mutex_lock, call, call_return, ownerPhase
<1>2. CASE trackercall(k)
  <2>1. UNCHANGED requestPhase
    BY <1>2 DEF trackercall, requestPhase, IInv, TypeOK
  <2> QED
    BY <1>1, <2>1 DEF Promise!vars
<1>3. CASE call_mutex_lock(k)
  <2>1. owner = "up" /\ Quiet /\ caller[k] = "blocked" /\ k # None
    BY <1>3, NoneAssumption DEF call_mutex_lock, IInv, Serialised, CallerAt
  <2>2. requestPhase' = [requestPhase EXCEPT ![k] = "asked"]
    BY <1>3, <2>1, OthersKeep DEF call_mutex_lock, requestPhase, Quiet, IInv, TypeOK
  <2>3. Promise!Ask(k)
    BY <1>1, <2>1, <2>2 DEF Promise!Ask, ownerPhase, requestPhase
  <2> QED
    BY <2>3 DEF Promise!Next
<1>4. CASE call(k)
  <2>1. UNCHANGED requestPhase
    BY <1>4 DEF call, requestPhase, IInv, TypeOK
  <2> QED
    BY <1>1, <2>1 DEF Promise!vars
<1>5. CASE call_return(k)
  <2>1. /\ owner = "up" /\ call_mutex = k /\ caller[k] = "woken"
        /\ running = None /\ last_ret = k /\ k # None
    BY <1>5, NoneAssumption DEF call_return, IInv, Serialised, CallerAt, Quiet
  <2>2. requestPhase' = [requestPhase EXCEPT ![k] = "idle"]
    BY <1>5, <2>1, OthersKeep, NoneAssumption DEF call_return, requestPhase, IInv, TypeOK
  <2>3. Promise!Return(k)
    BY <1>1, <2>1, <2>2 DEF Promise!Return, requestPhase
  <2> QED
    BY <2>3 DEF Promise!Next
<1>6. QED
  BY <1>2, <1>3, <1>4, <1>5 DEF Caller

LEMMA WorkerRefines ==
  ASSUME IInv, Worker
  PROVE  [Promise!Next]_(Promise!vars)
<1>1. CASE run \/ exec_quit
  BY <1>1 DEF run, exec_quit, Promise!vars, ownerPhase, requestPhase
<1>2. CASE agent_started
  <2>1. owner = "start_wait" /\ ~tracker /\ tracker' = TRUE
    BY <1>2, QueueIs, CallEvents DEF agent_started, Received, IInv, OwnerAt, Quiet
  <2>2. owner' = "start_woken" /\ UNCHANGED caller
    BY <1>2, <2>1 DEF agent_started, wakeOne, WakeOwner, WakeCaller, IInv, Serialised
  <2>3. Promise!AtStart
    BY <1>2, <2>1, <2>2 DEF agent_started, Promise!AtStart, ownerPhase, requestPhase, IInv, TypeOK
  <2> QED
    BY <2>3 DEF Promise!Next
<1>3. ASSUME NEW k \in Callers, agent_call_do(k)
      PROVE  [Promise!Next]_(Promise!vars)
  <2>1. events = <<call_do(k)>> /\ owner = "up" /\ call_mutex = k /\ caller[k] = "wait"
    BY <1>3, QueueIs, CallEvents DEF agent_call_do, Received
  <2>2. running = None /\ last_ret = None /\ tracker /\ k # None
    BY <1>3, <2>1, NoneAssumption DEF agent_call_do, Received, IInv, OwnerAt, CallerAt, Quiet
  <2>3. requestPhase' = [requestPhase EXCEPT ![k] = "run"]
    BY <1>3, <2>1, <2>2, OthersKeep, NoneAssumption DEF agent_call_do, requestPhase
  <2>4. \A d \in Callers : requestPhase[d] # "run"
    BY <2>2, NoneAssumption DEF requestPhase
  <2>5. requestPhase[k] = "asked"
    BY <2>1, <2>2 DEF requestPhase
  <2>6. Promise!Run(k)
    BY <1>3, <2>2, <2>3, <2>4, <2>5 DEF agent_call_do, Promise!Run, ownerPhase
  <2> QED
    BY <2>6 DEF Promise!Next
<1>4. CASE agent_call_ret
  <2>1. PICK k \in Callers : /\ owner = "up" /\ call_mutex = k /\ caller[k] = "wait"
                            /\ running = k /\ last_ret = None /\ k # None
    BY <1>4, NoneAssumption DEF agent_call_ret, IInv, TypeOK, OwnerAt, CallerAt, Quiet
  <2>2. UNCHANGED owner /\ caller' = [caller EXCEPT ![k] = "woken"]
    BY <1>4, <2>1 DEF agent_call_ret, wakeOne, WakeOwner, WakeCaller, IInv, Serialised
  <2>3. UNCHANGED requestPhase
    BY <1>4, <2>1, <2>2, NoneAssumption DEF agent_call_ret, requestPhase, IInv, TypeOK
  <2> QED
    BY <1>4, <2>2, <2>3 DEF agent_call_ret, Promise!vars, ownerPhase
<1>5. CASE run_end
  <2>1. owner = "stop_wait" /\ tracker /\ tracker' = FALSE
    BY <1>5 DEF run_end, IInv, OwnerAt, CallerAt, Quiet
  <2>2. owner' = "stop_woken" /\ UNCHANGED caller
    BY <1>5, <2>1 DEF run_end, wakeOne, WakeOwner, WakeCaller, IInv, Serialised
  <2>3. Promise!AtEnd
    BY <1>5, <2>1, <2>2 DEF run_end, Promise!AtEnd, ownerPhase, requestPhase
  <2> QED
    BY <2>3 DEF Promise!Next
<1>6. QED
  BY <1>1, <1>2, <1>3, <1>4, <1>5 DEF Worker

\* SyncThread implements RemoteCall: start, stop and call do what the class
\* documentation says, in every interleaving.
THEOREM Refinement == Spec => ImplementsRemoteCall
<1>1. IInv /\ [Next]_vars => [Promise!Next]_(Promise!vars)
  <2> SUFFICES ASSUME IInv, [Next]_vars PROVE [Promise!Next]_(Promise!vars)
    OBVIOUS
  <2>1. CASE UNCHANGED vars
    BY <2>1 DEF vars, Promise!vars, ownerPhase, requestPhase
  <2>2. CASE Next
    BY <2>2, OwnerRefines, CallerRefines, WorkerRefines DEF Next
  <2> QED
    BY <2>1, <2>2
<1>2. QED
  BY <1>1, InitRefines, Invariance, PTL DEF Spec, ImplementsRemoteCall, Promise!Spec

(***************************************************************************)
(* QPipe                                                                   *)
(***************************************************************************)

WriteEndType ==
  [valid : BOOLEAN, buf : Seq(Nat), secure : BOOLEAN, lastWrite : Nat,
   activeWrite : BOOLEAN, closing : BOOLEAN, closeLater : BOOLEAN,
   canWrite : BOOLEAN, sn_write : BOOLEAN, timers : SUBSET {"write", "close"}]

ReadEndType ==
  [valid : BOOLEAN, buf : Seq(Nat), secure : BOOLEAN, canRead : BOOLEAN,
   closing : BOOLEAN, blockReadNotify : BOOLEAN, timers : SUBSET {"read", "close"}]

PipeType == [bytes : Seq(Nat), wOpen : BOOLEAN, rOpen : BOOLEAN]

WriteEndings == {"none", "closed", "broken", "released", "reset"}
ReadEndings == {"none", "closed", "broken", "released", "reset", "finalized"}

PipeTypes ==
  /\ w \in WriteEndType /\ r \in ReadEndType /\ pipe \in PipeType
  /\ written \in 0 .. MaxBytes /\ reported \in 0 .. written
  /\ leftover \in Seq(Nat) /\ received \in Seq(Nat)
  /\ told \in BOOLEAN
  /\ wEnd \in WriteEndings /\ rEnd \in ReadEndings

\* The write end: a block is sent or its notification awaited exactly while there
\* is something to write, and the timer that closes runs when there is nothing.
WriterShape ==
  /\ w.valid <=> wEnd = "none"
  /\ pipe.wOpen <=> wEnd \in {"none", "released"}
  /\ ~w.valid => w.timers = {} /\ ~w.activeWrite /\ ~w.closeLater
  /\ w.activeWrite <=> "write" \in w.timers \/ w.sn_write
  /\ ~("write" \in w.timers /\ w.sn_write)
  /\ w.sn_write <=> ~w.canWrite
  /\ ~w.sn_write => w.lastWrite = 0
  /\ w.lastWrite <= Len(w.buf) /\ w.lastWrite <= Block
  /\ w.valid /\ w.buf # <<>> => w.activeWrite
  /\ "close" \in w.timers => w.closing /\ ~w.activeWrite
  /\ w.closeLater => w.closing

\* The read end: a read that is due, or put off for want of room, has something to
\* find in the pipe.
ReaderShape ==
  /\ r.valid <=> rEnd = "none"
  /\ pipe.rOpen <=> rEnd \in {"none", "released"}
  /\ ~r.valid => r.timers = {}
  /\ r.valid /\ (r.canRead \/ "read" \in r.timers) =>
       r.blockReadNotify /\ (pipe.bytes # <<>> \/ ~pipe.wOpen)
  /\ ~(r.canRead /\ "read" \in r.timers)
  /\ Len(r.buf) <= ReadBuf /\ Len(pipe.bytes) <= Capacity

\* Where the bytes are: in a row, from what has been read to what is in the pipe,
ReadInOrder ==
  /\ received = Positions(0, Len(received))
  /\ r.buf = Positions(Len(received), Len(r.buf))
  /\ Len(received) + Len(r.buf) <= written
  /\ rEnd # "reset" =>
       /\ pipe.bytes = Positions(Len(received) + Len(r.buf), Len(pipe.bytes))
       /\ Accepted <= written

\* and from what was reported to what was written.
WrittenInOrder ==
  wEnd \notin {"released", "reset"} =>
    /\ reported + Len(w.buf) + Len(leftover) = written
    /\ w.buf = Positions(reported, Len(w.buf))
    /\ leftover = Positions(reported, Len(leftover))
    /\ w.buf = <<>> \/ leftover = <<>>
    /\ w.valid => leftover = <<>>
    /\ wEnd = "closed" => w.buf = <<>> /\ leftover = <<>>
    /\ rEnd # "reset" => Accepted = reported + w.lastWrite

PipeIInv ==
  /\ PipeTypes /\ WriterShape /\ ReaderShape /\ ReadInOrder /\ WrittenInOrder
  /\ ErrorsAreReal

----------------------------------------------------------------------------
(* Bytes in a row.                                                          *)

LEMMA PositionsType ==
  ASSUME NEW from \in Nat, NEW n \in Nat
  PROVE  /\ Positions(from, n) \in Seq(Nat)
         /\ Len(Positions(from, n)) = n
         /\ DOMAIN Positions(from, n) = 1 .. n
         /\ \A i \in 1 .. n : Positions(from, n)[i] = from + i
BY DEF Positions

LEMMA PositionsJoin ==
  ASSUME NEW from \in Nat, NEW n \in Nat, NEW more \in Nat
  PROVE  Positions(from, n) \o Positions(from + n, more) = Positions(from, n + more)
<1> DEFINE s == Positions(from, n)
           t == Positions(from + n, more)
           u == Positions(from, n + more)
<1>1. /\ s \in Seq(Nat) /\ t \in Seq(Nat) /\ u \in Seq(Nat)
      /\ Len(s) = n /\ Len(t) = more /\ Len(u) = n + more
      /\ \A i \in 1 .. n : s[i] = from + i
      /\ \A i \in 1 .. more : t[i] = from + n + i
      /\ \A i \in 1 .. n + more : u[i] = from + i
  <2>1. from + n \in Nat /\ n + more \in Nat
    OBVIOUS
  <2>2. /\ t \in Seq(Nat) /\ Len(t) = more
        /\ \A i \in 1 .. more : t[i] = (from + n) + i
    BY <2>1, PositionsType
  <2>3. /\ u \in Seq(Nat) /\ Len(u) = n + more
        /\ \A i \in 1 .. n + more : u[i] = from + i
    BY <2>1, PositionsType
  <2>4. s \in Seq(Nat) /\ Len(s) = n /\ \A i \in 1 .. n : s[i] = from + i
    BY PositionsType
  <2> HIDE DEF s, t, u
  <2>5. QED
    BY <2>2, <2>3, <2>4
<1> HIDE DEF s, t, u
<1>2. /\ s \o t \in Seq(Nat) /\ Len(s \o t) = n + more
      /\ \A i \in 1 .. n + more : (s \o t)[i] = IF i <= n THEN s[i] ELSE t[i - n]
  BY <1>1, ConcatProperties, ZenonT(40)
<1>3. ASSUME NEW i \in 1 .. n + more
      PROVE  (s \o t)[i] = u[i]
  <2>1. CASE i <= n
    BY <1>1, <1>2, <2>1
  <2>2. CASE ~(i <= n)
    <3>1. i - n \in 1 .. more
      BY <2>2
    <3>2. (s \o t)[i] = t[i - n]
      BY <1>2, <2>2
    <3>3. t[i - n] = from + n + (i - n)
      BY <1>1, <3>1
    <3>4. u[i] = from + i
      BY <1>1
    <3>5. QED
      BY <3>2, <3>3, <3>4
  <2>3. QED
    BY <2>1, <2>2
<1>4. s \o t = u
  BY <1>1, <1>2, <1>3, SeqEqual
<1>5. QED
  BY <1>4 DEF s, t, u

LEMMA PositionsSplit ==
  ASSUME NEW from \in Nat, NEW n \in Nat, NEW k \in 0 .. n
  PROVE  /\ SubSeq(Positions(from, n), 1, k) = Positions(from, k)
         /\ SubSeq(Positions(from, n), k + 1, n) = Positions(from + k, n - k)
<1> DEFINE s == Positions(from, n)
           t == SubSeq(s, 1, k)
           u == SubSeq(s, k + 1, n)
           head == Positions(from, k)
           tail == Positions(from + k, n - k)
<1>1. /\ s \in Seq(Nat) /\ head \in Seq(Nat) /\ tail \in Seq(Nat)
      /\ Len(s) = n /\ Len(head) = k /\ Len(tail) = n - k
      /\ \A i \in 1 .. n : s[i] = from + i
      /\ \A i \in 1 .. k : head[i] = from + i
      /\ \A i \in 1 .. n - k : tail[i] = from + k + i
  <2>1. from + k \in Nat /\ n - k \in Nat /\ k \in Nat
    OBVIOUS
  <2>2. /\ tail \in Seq(Nat) /\ Len(tail) = n - k
        /\ \A i \in 1 .. n - k : tail[i] = (from + k) + i
    BY <2>1, PositionsType
  <2>3. head \in Seq(Nat) /\ Len(head) = k /\ \A i \in 1 .. k : head[i] = from + i
    BY <2>1, PositionsType
  <2>4. s \in Seq(Nat) /\ Len(s) = n /\ \A i \in 1 .. n : s[i] = from + i
    BY PositionsType
  <2> HIDE DEF s, head, tail
  <2>5. QED
    BY <2>2, <2>3, <2>4
<1> HIDE DEF s, head, tail
<1>2. /\ t \in Seq(Nat) /\ Len(t) = k
      /\ \A i \in 1 .. k : t[i] = s[i]
  BY <1>1
<1>3. /\ u \in Seq(Nat) /\ Len(u) = n - k
      /\ \A i \in 1 .. n - k : u[i] = s[k + i]
  BY <1>1, SMTT(30)
<1> HIDE DEF t, u
<1>4. t = head
  <2>1. \A i \in 1 .. k : t[i] = head[i]
    BY <1>1, <1>2
  <2>2. QED
    BY <1>1, <1>2, <2>1, SeqEqual
<1>5. u = tail
  <2>1. \A i \in 1 .. n - k : u[i] = tail[i]
    BY <1>1, <1>3
  <2>2. QED
    BY <1>1, <1>3, <2>1, SeqEqual
<1>6. QED
  BY <1>4, <1>5 DEF s, t, u, head, tail
\* A row of bytes that is cut, and joined.
LEMMA RowCut ==
  ASSUME NEW from \in Nat, NEW s \in Seq(Nat), s = Positions(from, Len(s)), NEW k \in 0 .. Len(s)
  PROVE  /\ SubSeq(s, 1, k) = Positions(from, k)
         /\ SubSeq(s, k + 1, Len(s)) = Positions(from + k, Len(s) - k)
         /\ SubSeq(s, 1, k) \in Seq(Nat) /\ Len(SubSeq(s, 1, k)) = k
         /\ SubSeq(s, k + 1, Len(s)) \in Seq(Nat) /\ Len(SubSeq(s, k + 1, Len(s))) = Len(s) - k
<1>1. Len(s) \in Nat
  OBVIOUS
<1>2. /\ SubSeq(s, 1, k) = Positions(from, k)
      /\ SubSeq(s, k + 1, Len(s)) = Positions(from + k, Len(s) - k)
  BY <1>1, PositionsSplit, ZenonT(40)
<1>3. from + k \in Nat /\ Len(s) - k \in Nat /\ k \in Nat
  BY <1>1
<1>4. Positions(from, k) \in Seq(Nat) /\ Len(Positions(from, k)) = k
  BY <1>3, PositionsType
<1>5. /\ Positions(from + k, Len(s) - k) \in Seq(Nat)
      /\ Len(Positions(from + k, Len(s) - k)) = Len(s) - k
  BY <1>3, PositionsType
<1>6. QED
  BY <1>2, <1>4, <1>5

LEMMA RowJoin ==
  ASSUME NEW from \in Nat, NEW s \in Seq(Nat), s = Positions(from, Len(s)),
         NEW t \in Seq(Nat), t = Positions(from + Len(s), Len(t))
  PROVE  s \o t \in Seq(Nat) /\ Len(s \o t) = Len(s) + Len(t)
         /\ s \o t = Positions(from, Len(s \o t))
<1>1. Len(s) \in Nat /\ Len(t) \in Nat
  OBVIOUS
<1>2. s \o t \in Seq(Nat) /\ Len(s \o t) = Len(s) + Len(t)
  BY ConcatProperties
<1>3. s \o t = Positions(from, Len(s) + Len(t))
  BY <1>1, PositionsJoin, ZenonT(40)
<1>4. QED
  BY <1>2, <1>3

LEMMA NoBytes ==
  ASSUME NEW from \in Nat
  PROVE  /\ <<>> \in Seq(Nat) /\ Len(<<>>) = 0 /\ <<>> = Positions(from, 0)
         /\ \A s \in Seq(Nat) : Len(s) = 0 <=> s = <<>>
<1>1. Positions(from, 0) \in Seq(Nat) /\ Len(Positions(from, 0)) = 0
  BY PositionsType
<1>2. \A s \in Seq(Nat) : Len(s) = 0 <=> s = <<>>
  BY EmptySeq
<1>3. QED
  BY <1>1, <1>2

----------------------------------------------------------------------------
(* The write end.                                                           *)

LEMMA InitPipe == PipeInit => PipeIInv
<1> SUFFICES ASSUME PipeInit PROVE PipeIInv
  OBVIOUS
<1> USE SizeAssumption DEF PipeInit
<1>1. <<>> = Positions(0, 0) /\ <<>> \in Seq(Nat) /\ Len(<<>>) = 0
  BY NoBytes
<1>2. PipeTypes
  <2>1. w \in WriteEndType
    BY <1>1 DEF WriteEnd, WriteEndType
  <2>2. r \in ReadEndType
    BY <1>1 DEF ReadEnd, ReadEndType
  <2>3. pipe \in PipeType
    BY <1>1 DEF PipeType
  <2>4. written \in 0 .. MaxBytes /\ reported \in 0 .. written
    OBVIOUS
  <2>5. QED
    BY <1>1, <2>1, <2>2, <2>3, <2>4 DEF PipeTypes, WriteEndings, ReadEndings
<1>3. WriterShape /\ ReaderShape /\ ErrorsAreReal
  BY <1>1 DEF WriterShape, ReaderShape, ErrorsAreReal, WriteEnd, ReadEnd
<1>4. ReadInOrder /\ WrittenInOrder
  BY <1>1 DEF ReadInOrder, WrittenInOrder, Accepted, WriteEnd, ReadEnd
<1>5. QED
  BY <1>2, <1>3, <1>4 DEF PipeIInv

\* A step of the write end that leaves the pipe alone leaves the reader alone.
LEMMA WriterOnly ==
  ASSUME PipeIInv, UNCHANGED <<r, received, told, rEnd, pipe>>, written' >= written,
         PipeTypes', WriterShape', WrittenInOrder', wEnd' = wEnd
  PROVE  PipeIInv'
<1>1. ReaderShape' /\ ErrorsAreReal'
  BY DEF PipeIInv, ReaderShape, ErrorsAreReal
<1>2. ReadInOrder'
  BY DEF PipeIInv, PipeTypes, ReadInOrder, Accepted, ReadEndType, PipeType
<1>3. QED
  BY <1>1, <1>2 DEF PipeIInv

LEMMA writeStep == PipeIInv /\ write => PipeIInv'
<1> SUFFICES ASSUME PipeIInv, write PROVE PipeIInv'
  OBVIOUS
<1>1. PICK n \in 1 .. (MaxBytes - written) :
        /\ w' = setupNextWrite([w EXCEPT !.buf = @ \o Positions(written, n)])
        /\ written' = written + n
  BY DEF write
<1>2. /\ UNCHANGED <<r, received, told, rEnd, pipe, reported, leftover, wEnd>>
      /\ w.valid /\ ~w.closing /\ wEnd = "none" /\ leftover = <<>>
  BY DEF write, readSide, PipeIInv, WriterShape, WrittenInOrder
<1>3. /\ n \in Nat /\ n > 0 /\ written \in Nat /\ reported \in Nat /\ w.buf \in Seq(Nat)
      /\ written + n \in 0 .. MaxBytes
      /\ w \in WriteEndType
  BY SizeAssumption DEF PipeIInv, PipeTypes, WriteEndType
<1>4. /\ w.buf \o Positions(written, n) \in Seq(Nat)
      /\ Len(w.buf \o Positions(written, n)) = Len(w.buf) + n
      /\ w.buf \o Positions(written, n) = Positions(reported, Len(w.buf) + n)
  <2>1. w.buf = Positions(reported, Len(w.buf)) /\ reported + Len(w.buf) = written
    BY <1>2, <1>3, EmptySeq DEF PipeIInv, WrittenInOrder
  <2> DEFINE more == Positions(written, n)
  <2>2. more \in Seq(Nat) /\ Len(more) = n
    BY <1>3, PositionsType
  <2>3. more = Positions(reported + Len(w.buf), Len(more))
    BY <2>1, <2>2
  <2> HIDE DEF more
  <2>4. w.buf \o more = Positions(reported, Len(w.buf \o more))
        /\ w.buf \o more \in Seq(Nat) /\ Len(w.buf \o more) = Len(w.buf) + Len(more)
    BY <1>3, <2>1, <2>2, <2>3, RowJoin
  <2>5. QED
    BY <2>2, <2>4 DEF more
<1> DEFINE buf == w.buf \o Positions(written, n)
<1>5. w' = setupNextWrite([w EXCEPT !.buf = buf]) /\ buf \in Seq(Nat)
  BY <1>1, <1>4
<1>6. Len(buf) = Len(w.buf) + n /\ buf = Positions(reported, Len(buf))
  BY <1>4
<1> HIDE DEF buf
<1>7. /\ w' \in WriteEndType
      /\ w'.buf = buf
      /\ w'.activeWrite /\ w'.timers = IF w.activeWrite THEN w.timers ELSE w.timers \cup {"write"}
      /\ w'.valid /\ ~w'.closing /\ w'.closeLater = w.closeLater
      /\ w'.canWrite = w.canWrite /\ w'.sn_write = w.sn_write /\ w'.lastWrite = w.lastWrite
  BY <1>2, <1>3, <1>5 DEF setupNextWrite, WriteEndType
<1>8. PipeTypes'
  BY <1>1, <1>2, <1>3, <1>7 DEF PipeIInv, PipeTypes
<1>9. WriterShape'
  <2>1. w'.lastWrite <= Len(w'.buf) /\ w'.lastWrite <= Block
    BY <1>3, <1>6, <1>7 DEF PipeIInv, WriterShape, WriteEndType
  <2>2. "close" \notin w'.timers
    BY <1>2, <1>7 DEF PipeIInv, WriterShape
  <2>3. "write" \in w'.timers \/ w'.sn_write
    BY <1>7 DEF PipeIInv, WriterShape
  <2>4. ~("write" \in w'.timers /\ w'.sn_write)
    BY <1>7 DEF PipeIInv, WriterShape
  <2>5. QED
    BY <1>2, <1>7, <2>1, <2>2, <2>3, <2>4 DEF PipeIInv, WriterShape
<1>10. WrittenInOrder'
  <2>1. Accepted' = Accepted
    BY <1>2 DEF Accepted
  <2>2. /\ reported + Len(w.buf) + Len(leftover) = written /\ Len(w.buf) \in Nat
        /\ Len(leftover) = 0
        /\ rEnd # "reset" => Accepted = reported + w.lastWrite
    BY <1>2, <1>3 DEF PipeIInv, WrittenInOrder
  <2>3. Len(w'.buf) = Len(w.buf) + n /\ w'.buf = Positions(reported, Len(w'.buf))
    BY <1>6, <1>7
  <2>4. reported' + Len(w'.buf) + Len(leftover') = written'
    <3> DEFINE had == Len(w.buf)
    <3>1. /\ had \in Nat /\ n \in Nat /\ reported \in Nat /\ reported + had + 0 = written
          /\ Len(w'.buf) = had + n /\ reported' = reported /\ Len(leftover') = 0
          /\ written' = written + n
      BY <1>1, <1>2, <1>3, <2>2, <2>3
    <3> HIDE DEF had
    <3>2. QED
      BY ONLY <3>1
  <2>5. leftover' = Positions(reported', Len(leftover'))
    BY <1>2, <1>3, NoBytes
  <2>6. QED
    BY <1>2, <1>7, <2>1, <2>2, <2>3, <2>4, <2>5 DEF WrittenInOrder
<1>11. QED
  BY <1>1, <1>2, <1>3, <1>8, <1>9, <1>10, WriterOnly

LEMMA closeWriteStep == PipeIInv /\ closeWrite => PipeIInv'
<1> SUFFICES ASSUME PipeIInv, closeWrite PROVE PipeIInv'
  OBVIOUS
<1>1. /\ UNCHANGED <<r, received, told, rEnd, pipe, written, reported, leftover, wEnd>>
      /\ w.valid /\ ~w.closing /\ w \in WriteEndType
      /\ written \in Nat
  BY SizeAssumption DEF closeWrite, readSide, PipeIInv, PipeTypes
<1>2. /\ w' \in WriteEndType
      /\ w'.valid /\ w'.closing
      /\ w'.buf = w.buf /\ w'.lastWrite = w.lastWrite
      /\ w'.activeWrite = w.activeWrite /\ w'.canWrite = w.canWrite /\ w'.sn_write = w.sn_write
      /\ "write" \in w'.timers <=> "write" \in w.timers
      /\ "close" \in w'.timers => "close" \in w.timers \/ ~w.activeWrite
  BY <1>1 DEF closeWrite, WriteEndType
<1>3. PipeTypes'
  BY <1>1, <1>2 DEF PipeIInv, PipeTypes
<1>4. WriterShape'
  BY <1>1, <1>2 DEF PipeIInv, WriterShape
<1>5. WrittenInOrder'
  BY <1>1, <1>2 DEF PipeIInv, WrittenInOrder, Accepted
<1>6. QED
  BY <1>1, <1>3, <1>4, <1>5, WriterOnly

\* The end of the write end's session.
LEMMA EndWriteSessionStep ==
  ASSUME PipeIInv, NEW how \in WriteEndings \ {"none"}, EndWriteSession(how), w.valid,
         UNCHANGED <<written, reported, leftover, readSide>>,
         how = "closed" => w.buf = <<>>,
         how \in {"closed", "broken"} => w.lastWrite = 0,
         how = "broken" => ~pipe.rOpen
  PROVE  PipeIInv'
<1>1. /\ UNCHANGED <<r, received, told, rEnd, written, reported, leftover>>
      /\ wEnd = "none" /\ wEnd' = how
      /\ w \in WriteEndType /\ pipe \in PipeType /\ pipe.wOpen
  BY DEF EndWriteSession, readSide, PipeIInv, PipeTypes, WriterShape
<1>2. /\ pipe' \in PipeType
      /\ pipe'.bytes = pipe.bytes /\ pipe'.rOpen = pipe.rOpen /\ (pipe'.wOpen <=> how = "released")
  BY <1>1 DEF EndWriteSession, PipeType
<1>3. /\ w' \in WriteEndType
      /\ w'.buf = IF how = "reset" THEN <<>> ELSE w.buf
      /\ ~w'.valid /\ ~w'.activeWrite /\ ~w'.closing /\ ~w'.closeLater
      /\ w'.canWrite /\ ~w'.sn_write /\ w'.lastWrite = 0 /\ w'.timers = {}
  <2>1. w.buf \in Seq(Nat) /\ <<>> \in Seq(Nat)
    BY <1>1, EmptySeq DEF WriteEndType
  <2>2. QED
    BY <2>1 DEF EndWriteSession, WriteEnd, WriteEndType
<1>4. PipeTypes'
  BY <1>1, <1>2, <1>3 DEF PipeIInv, PipeTypes
<1>5. WriterShape'
  <2>1. w'.lastWrite <= Len(w'.buf) /\ w'.lastWrite <= Block
    BY <1>3, SizeAssumption DEF WriteEndType
  <2>2. QED
    BY <1>1, <1>2, <1>3, <2>1 DEF WriterShape, WriteEndings
<1>6. ReaderShape' /\ ErrorsAreReal'
  BY <1>1, <1>2 DEF PipeIInv, ReaderShape, ErrorsAreReal
<1>7. Accepted' = Accepted
  BY <1>1, <1>2 DEF Accepted
<1>8. ReadInOrder'
  BY <1>1, <1>2, <1>7 DEF PipeIInv, ReadInOrder
<1>9. WrittenInOrder'
  <2>1. CASE how \in {"released", "reset"}
    BY <1>1, <2>1 DEF WrittenInOrder
  <2>2. CASE how \in {"closed", "broken"}
    <3>1. w'.buf = w.buf /\ w'.lastWrite = w.lastWrite /\ leftover = <<>>
      BY <1>1, <1>3, <2>2 DEF PipeIInv, WrittenInOrder
    <3>2. QED
      BY <1>1, <1>3, <1>7, <2>2, <3>1 DEF PipeIInv, WrittenInOrder
  <2>3. QED
    BY <2>1, <2>2 DEF WriteEndings
<1>10. QED
  BY <1>4, <1>5, <1>6, <1>8, <1>9 DEF PipeIInv

LEMMA LeaveWriteStep ==
  PipeIInv /\ (doCloseWrite \/ releaseWrite \/ resetWrite) => PipeIInv'
<1> SUFFICES ASSUME PipeIInv, doCloseWrite \/ releaseWrite \/ resetWrite PROVE PipeIInv'
  OBVIOUS
<1>1. CASE doCloseWrite
  <2>1. "close" \in w.timers /\ EndWriteSession("closed")
    BY <1>1 DEF doCloseWrite
  <2>2. w.valid /\ w.buf = <<>> /\ w.lastWrite = 0
    BY <2>1 DEF PipeIInv, WriterShape
  <2>3. QED
    BY <1>1, <2>1, <2>2, EndWriteSessionStep DEF doCloseWrite, WriteEndings
<1>2. CASE releaseWrite
  BY <1>2, EndWriteSessionStep DEF releaseWrite, WriteEndings
<1>3. CASE resetWrite
  BY <1>3, EndWriteSessionStep DEF resetWrite, WriteEndings
<1>4. QED
  BY <1>1, <1>2, <1>3

\* doWrite: the bytes that the pipe takes are the next ones.
LEMMA doWriteStep == PipeIInv /\ doWrite => PipeIInv'
<1> SUFFICES ASSUME PipeIInv, doWrite PROVE PipeIInv'
  OBVIOUS
<1> DEFINE size == IF Block < Len(w.buf) THEN Block ELSE Len(w.buf)
<1>1. /\ "write" \in w.timers /\ w.valid /\ wEnd = "none" /\ leftover = <<>>
      /\ w.activeWrite /\ ~w.sn_write /\ w.canWrite /\ w.lastWrite = 0
      /\ UNCHANGED <<r, received, told, rEnd, written, reported, leftover>>
  BY DEF doWrite, readSide, PipeIInv, WriterShape, WrittenInOrder
<1>2. CASE ~(w.canWrite /\ pipe.rOpen) /\ EndWriteSession("broken")
  BY <1>1, <1>2, EndWriteSessionStep DEF WriteEndings, readSide
<1>3. ASSUME w.canWrite, pipe.rOpen, NEW n \in Accepts(size),
             pipe' = [pipe EXCEPT !.bytes = @ \o SubSeq(w.buf, 1, n)],
             w' = [w EXCEPT !.timers = @ \ {"write"}, !.lastWrite = n,
                            !.canWrite = FALSE, !.sn_write = TRUE],
             wEnd' = wEnd
      PROVE  PipeIInv'
  <2>1. /\ w \in WriteEndType /\ w.buf \in Seq(Nat) /\ pipe \in PipeType /\ pipe.bytes \in Seq(Nat)
        /\ reported \in Nat /\ received \in Seq(Nat) /\ r.buf \in Seq(Nat)
        /\ rEnd \in {"none", "released"} /\ written \in Nat
    BY <1>3, SizeAssumption
       DEF PipeIInv, PipeTypes, WriteEndType, ReadEndType, PipeType, ReaderShape
  <2>1a. Len(received) \in Nat /\ Len(r.buf) \in Nat /\ Len(pipe.bytes) \in Nat
    BY <2>1
  <2>2. n \in Nat /\ n <= size /\ n <= Capacity - Len(pipe.bytes)
    <3>1. Len(pipe.bytes) \in Nat /\ Len(pipe.bytes) <= Capacity /\ size \in Nat
      BY <2>1, SizeAssumption DEF PipeIInv, ReaderShape
    <3>2. QED
      BY <1>3, <3>1, SizeAssumption DEF Accepts
  <2>3. n \in 0 .. Len(w.buf) /\ n <= Block
    BY <2>1, <2>2, SizeAssumption
  <2> DEFINE block == SubSeq(w.buf, 1, n)
  <2>4. block \in Seq(Nat) /\ Len(block) = n /\ block = Positions(reported, n)
    <3>1. w.buf = Positions(reported, Len(w.buf))
      BY <1>1 DEF PipeIInv, WrittenInOrder
    <3>2. QED
      BY <2>1, <2>3, <3>1, RowCut, SMTT(30)
  <2>5. pipe' = [pipe EXCEPT !.bytes = @ \o block]
    BY <1>3
  <2> HIDE DEF block, size
  <2>6. /\ pipe.bytes \o block \in Seq(Nat)
        /\ Len(pipe.bytes \o block) = Len(pipe.bytes) + n
        /\ pipe.bytes \o block =
             Positions(Len(received) + Len(r.buf), Len(pipe.bytes \o block))
    <3> DEFINE from == Len(received) + Len(r.buf)
    <3>1. from \in Nat /\ pipe.bytes = Positions(from, Len(pipe.bytes))
      BY <2>1 DEF PipeIInv, ReadInOrder
    <3>2. reported = from + Len(pipe.bytes)
      <4>1. Accepted = reported + w.lastWrite
        BY <1>1, <2>1 DEF PipeIInv, WrittenInOrder
      <4>2. Accepted = from + Len(pipe.bytes) /\ w.lastWrite = 0
        BY <1>1 DEF Accepted
      <4>3. QED
        BY <2>1, <4>1, <4>2
    <3>3. block = Positions(from + Len(pipe.bytes), Len(block))
      BY <2>4, <3>2
    <3> HIDE DEF from
    <3>4. QED
      BY <2>1, <2>4, <3>1, <3>3, RowJoin DEF from
  <2>7. /\ pipe' \in PipeType /\ pipe'.bytes = pipe.bytes \o block
        /\ pipe'.wOpen = pipe.wOpen /\ pipe'.rOpen = pipe.rOpen
    BY <2>1, <2>5, <2>6 DEF PipeType
  <2>8. /\ w' \in WriteEndType
        /\ w'.valid = w.valid /\ w'.buf = w.buf /\ w'.lastWrite = n
        /\ w'.activeWrite = w.activeWrite /\ w'.closing = w.closing
        /\ w'.closeLater = w.closeLater
        /\ ~w'.canWrite /\ w'.sn_write /\ w'.timers = w.timers \ {"write"}
    BY <1>3, <2>1, <2>2 DEF WriteEndType
  <2>9. Len(pipe'.bytes) = Len(pipe.bytes) + n /\ (pipe.bytes # <<>> => pipe'.bytes # <<>>)
    BY <2>1, <2>2, <2>6, <2>7, EmptySeq
  <2>10. Accepted' = Accepted + n
    <3>1. Accepted' = Len(received) + Len(r.buf) + (Len(pipe.bytes) + n)
      BY <1>1, <2>9 DEF Accepted
    <3>2. Accepted = Len(received) + Len(r.buf) + Len(pipe.bytes)
      BY DEF Accepted
    <3>3. n \in Nat
      BY <2>2
    <3> DEFINE before == Len(received) + Len(r.buf)
               inPipe == Len(pipe.bytes)
    <3>4. before \in Nat /\ inPipe \in Nat
      BY <2>1a
    <3>5. Accepted' = before + (inPipe + n) /\ Accepted = before + inPipe
      BY <3>1, <3>2
    <3> HIDE DEF before, inPipe
    <3>6. QED
      BY <3>3, <3>4, <3>5
  <2>11. PipeTypes'
    BY <1>1, <1>3, <2>7, <2>8 DEF PipeIInv, PipeTypes
  <2>12. WriterShape'
    BY <1>1, <1>3, <2>3, <2>7, <2>8 DEF PipeIInv, WriterShape
  <2>13. ReaderShape'
    <3>1. Len(pipe'.bytes) <= Capacity
      BY <2>1, <2>2, <2>9, SizeAssumption
    <3>2. QED
      BY <1>1, <2>7, <2>9, <3>1 DEF PipeIInv, ReaderShape
  <2>14. /\ reported + Len(w.buf) = written
         /\ Accepted = reported
    BY <1>1, <2>1, EmptySeq DEF PipeIInv, WrittenInOrder
  <2>15. ReadInOrder'
    <3>1. Accepted' <= written
      BY <2>1, <2>2, <2>3, <2>10, <2>14
    <3>2. QED
      BY <1>1, <2>1, <2>6, <2>7, <3>1 DEF PipeIInv, ReadInOrder
  <2>16. WrittenInOrder'
    BY <1>1, <1>3, <2>8, <2>10, <2>14 DEF PipeIInv, WrittenInOrder
  <2>17. ErrorsAreReal'
    BY <1>1, <1>3, <2>1 DEF ErrorsAreReal
  <2>18. QED
    BY <2>11, <2>12, <2>13, <2>15, <2>16, <2>17 DEF PipeIInv
<1>4. QED
  BY <1>2, <1>3 DEF doWrite

\* writeNotify: what was sent is reported, and the rest is in place.
LEMMA writeNotifyStep == PipeIInv /\ writeNotify => PipeIInv'
<1> SUFFICES ASSUME PipeIInv, writeNotify PROVE PipeIInv'
  OBVIOUS
<1> DEFINE rest == SubSeq(w.buf, w.lastWrite + 1, Len(w.buf))
           sent == [w EXCEPT !.buf = rest, !.lastWrite = 0,
                             !.canWrite = TRUE, !.sn_write = FALSE]
<1>1. /\ w.sn_write /\ w.valid /\ wEnd = "none" /\ leftover = <<>>
      /\ w.activeWrite /\ "write" \notin w.timers /\ "close" \notin w.timers
      /\ UNCHANGED <<r, received, told, rEnd, pipe, written, leftover, wEnd>>
      /\ reported' = reported + w.lastWrite
  BY DEF writeNotify, readSide, PipeIInv, WriterShape, WrittenInOrder
<1>2. /\ w \in WriteEndType /\ w.buf \in Seq(Nat) /\ w.lastWrite \in 0 .. Len(w.buf)
      /\ reported \in Nat /\ written \in Nat
  BY SizeAssumption DEF PipeIInv, PipeTypes, WriteEndType, WriterShape
<1>3. /\ w.buf = Positions(reported, Len(w.buf)) /\ reported + Len(w.buf) = written
  BY <1>1, <1>2, EmptySeq DEF PipeIInv, WrittenInOrder
<1>4. /\ rest \in Seq(Nat) /\ Len(rest) = Len(w.buf) - w.lastWrite
      /\ rest = Positions(reported + w.lastWrite, Len(rest))
  <2>1. /\ rest \in Seq(Nat) /\ Len(rest) = Len(w.buf) - w.lastWrite
        /\ rest = Positions(reported + w.lastWrite, Len(w.buf) - w.lastWrite)
    BY <1>2, <1>3, RowCut
  <2> HIDE DEF rest
  <2>2. QED
    BY <2>1
<1>5. /\ rest # <<>> => w' = [sent EXCEPT !.timers = @ \union {"write"}]
      /\ rest = <<>> => w' = [sent EXCEPT !.activeWrite = FALSE, !.closeLater = FALSE,
                               !.timers = IF w.closeLater THEN @ \union {"close"} ELSE @]
  BY DEF writeNotify
<1> HIDE DEF rest
<1>6. /\ w' \in WriteEndType
      /\ w'.valid = w.valid /\ w'.buf = rest /\ w'.lastWrite = 0 /\ w'.closing = w.closing
      /\ w'.canWrite /\ ~w'.sn_write
  <2>1. /\ sent \in WriteEndType
        /\ sent.valid = w.valid /\ sent.buf = rest /\ sent.lastWrite = 0
        /\ sent.closing = w.closing /\ sent.canWrite /\ ~sent.sn_write
    BY <1>2, <1>4 DEF WriteEndType
  <2> HIDE DEF sent
  <2>2. CASE rest # <<>>
    BY <1>5, <2>1, <2>2 DEF WriteEndType
  <2>3. CASE rest = <<>>
    BY <1>5, <2>1, <2>3 DEF WriteEndType
  <2>4. QED
    BY <2>2, <2>3
<1>7. /\ rest # <<>> => /\ w'.activeWrite = w.activeWrite /\ w'.closeLater = w.closeLater
                        /\ w'.timers = w.timers \cup {"write"}
      /\ rest = <<>> => /\ ~w'.activeWrite /\ ~w'.closeLater
                        /\ w'.timers \subseteq w.timers \cup {"close"}
                        /\ "close" \in w'.timers => "close" \in w.timers \/ w.closeLater
  BY <1>2, <1>4, <1>5 DEF WriteEndType
<1>8. PipeTypes'
  <2>1. reported' \in 0 .. written'
    BY <1>1, <1>2, <1>3
  <2>2. QED
    BY <1>1, <1>6, <2>1 DEF PipeIInv, PipeTypes
<1>9. WriterShape'
  <2>1. w'.lastWrite <= Len(w'.buf) /\ w'.lastWrite <= Block
    BY <1>4, <1>6, SizeAssumption
  <2>2. CASE rest # <<>>
    BY <1>1, <1>6, <1>7, <2>1, <2>2 DEF PipeIInv, WriterShape
  <2>3. CASE rest = <<>>
    BY <1>1, <1>6, <1>7, <2>1, <2>3 DEF PipeIInv, WriterShape
  <2>4. QED
    BY <2>2, <2>3
<1>10. WrittenInOrder'
  <2>1. Accepted' = Accepted /\ (rEnd # "reset" => Accepted = reported + w.lastWrite)
    BY <1>1 DEF Accepted, PipeIInv, WrittenInOrder
  <2>2. reported' + Len(rest) + Len(leftover) = written
    BY <1>1, <1>2, <1>3, <1>4, EmptySeq
  <2>3. leftover = Positions(reported', Len(leftover))
    BY <1>1, <1>2, NoBytes
  <2>4. QED
    BY <1>1, <1>2, <1>4, <1>6, <2>1, <2>2, <2>3 DEF WrittenInOrder
<1>11. QED
  BY <1>1, <1>2, <1>8, <1>9, <1>10, WriterOnly

LEMMA takeStep == PipeIInv /\ takeBytesToWrite => PipeIInv'
<1> SUFFICES ASSUME PipeIInv, takeBytesToWrite PROVE PipeIInv'
  OBVIOUS
<1>1. /\ ~w.valid /\ w.buf # <<>>
      /\ leftover' = leftover \o w.buf /\ w' = [w EXCEPT !.buf = <<>>]
      /\ UNCHANGED <<r, received, told, rEnd, pipe, written, reported, wEnd>>
  BY DEF takeBytesToWrite, readSide
<1>2. /\ w \in WriteEndType /\ w.buf \in Seq(Nat) /\ leftover \in Seq(Nat)
      /\ reported \in Nat /\ written \in Nat /\ <<>> \in Seq(Nat) /\ Len(<<>>) = 0
      /\ w.timers = {} /\ ~w.sn_write /\ w.lastWrite = 0
  BY <1>1, SizeAssumption, EmptySeq DEF PipeIInv, PipeTypes, WriteEndType, WriterShape
<1>3. /\ w' \in WriteEndType /\ w'.buf = <<>>
      /\ w'.valid = w.valid /\ w'.lastWrite = w.lastWrite /\ w'.closing = w.closing
      /\ w'.activeWrite = w.activeWrite /\ w'.closeLater = w.closeLater
      /\ w'.canWrite = w.canWrite /\ w'.sn_write = w.sn_write /\ w'.timers = w.timers
  BY <1>1, <1>2 DEF WriteEndType
<1>4. leftover' \in Seq(Nat)
  BY <1>1, <1>2
<1>5. PipeTypes'
  BY <1>1, <1>3, <1>4 DEF PipeIInv, PipeTypes
<1>6. WriterShape'
  <2>1. w'.lastWrite <= Len(w'.buf) /\ w'.lastWrite <= Block
    BY <1>2, <1>3, SizeAssumption
  <2>2. QED
    BY <1>1, <1>2, <1>3, <2>1 DEF PipeIInv, WriterShape
<1>7. WrittenInOrder'
  <2>1. Accepted' = Accepted
    BY <1>1 DEF Accepted
  <2>2. CASE wEnd \in {"released", "reset"}
    BY <1>1, <2>2 DEF WrittenInOrder
  <2>3. CASE wEnd \notin {"released", "reset"}
    <3>1. leftover = <<>> /\ w.buf = Positions(reported, Len(w.buf))
          /\ reported + Len(w.buf) = written
      BY <1>1, <1>2, <2>3 DEF PipeIInv, WrittenInOrder
    <3>2. leftover' = w.buf
      BY <1>1, <1>2, <3>1, ConcatEmptySeq
    <3>3. <<>> = Positions(reported, 0)
      BY <1>2, NoBytes
    <3>4. QED
      BY <1>1, <1>2, <1>3, <2>1, <2>3, <3>1, <3>2, <3>3 DEF PipeIInv, WrittenInOrder
  <2>4. QED
    BY <2>2, <2>3
<1>8. QED
  BY <1>1, <1>2, <1>5, <1>6, <1>7, WriterOnly

----------------------------------------------------------------------------
(* The read end.                                                            *)

\* A step of the read end that takes nothing from the pipe and gives nothing to the
\* program, other than by forgetting what waits for it.
LEMMA ReaderOnly ==
  ASSUME PipeIInv, UNCHANGED <<w, written, reported, leftover, wEnd, received>>,
         PipeTypes', ReaderShape', ErrorsAreReal',
         pipe'.bytes = pipe.bytes, pipe'.wOpen = pipe.wOpen,
         rEnd' # "reset" => rEnd # "reset" /\ r'.buf = r.buf,
         r'.buf \in {r.buf, <<>>}
  PROVE  PipeIInv'
<1>1. WriterShape'
  BY DEF PipeIInv, WriterShape
<1>2. /\ rEnd' # "reset" => Accepted' = Accepted
      /\ Len(received) \in Nat /\ Len(r.buf) \in Nat /\ written \in Nat
  <2>1. rEnd' # "reset" => Accepted' = Accepted
    BY DEF Accepted
  <2>2. received \in Seq(Nat) /\ r.buf \in Seq(Nat) /\ written \in Nat
    BY SizeAssumption DEF PipeIInv, PipeTypes, ReadEndType
  <2>3. QED
    BY <2>1, <2>2
<1>3. ReadInOrder'
  <2>1. CASE r'.buf = r.buf
    BY <1>2, <2>1 DEF PipeIInv, ReadInOrder
  <2>2. CASE r'.buf = <<>> /\ rEnd' = "reset"
    <3>1. <<>> = Positions(Len(received), 0) /\ Len(<<>>) = 0
      BY <1>2, NoBytes
    <3>2. QED
      BY <1>2, <2>2, <3>1 DEF PipeIInv, ReadInOrder
  <2>3. QED
    BY <2>1, <2>2
<1>4. WrittenInOrder'
  BY <1>2 DEF PipeIInv, WrittenInOrder
<1>5. QED
  BY <1>1, <1>3, <1>4 DEF PipeIInv

LEMMA EndReadSessionStep ==
  ASSUME PipeIInv, NEW how \in ReadEndings \ {"none", "finalized"}, EndReadSession(how), r.valid,
         UNCHANGED <<writeSide, received, told>>,
         how = "broken" => ~pipe.wOpen /\ pipe.bytes = <<>>
  PROVE  PipeIInv'
<1>1. /\ UNCHANGED <<w, written, reported, leftover, wEnd, received, told>>
      /\ rEnd = "none" /\ rEnd' = how
      /\ r \in ReadEndType /\ pipe \in PipeType /\ pipe.rOpen
  BY DEF EndReadSession, writeSide, PipeIInv, PipeTypes, ReaderShape
<1>2. /\ pipe' \in PipeType
      /\ pipe'.bytes = pipe.bytes /\ pipe'.wOpen = pipe.wOpen /\ (pipe'.rOpen <=> how = "released")
  BY <1>1 DEF EndReadSession, PipeType
<1>3. /\ r' \in ReadEndType /\ ~r'.valid /\ r'.timers = {} /\ ~r'.canRead
      /\ r'.buf = IF how = "reset" THEN <<>> ELSE r.buf
  <2>1. r.buf \in Seq(Nat) /\ <<>> \in Seq(Nat)
    BY <1>1, EmptySeq DEF ReadEndType
  <2>2. QED
    BY <2>1 DEF EndReadSession, ReadSessionEnded, ReadEnd, ReadEndType
<1>4. PipeTypes'
  BY <1>1, <1>2, <1>3 DEF PipeIInv, PipeTypes
<1>5. ReaderShape'
  <2>1. Len(r'.buf) <= ReadBuf
    BY <1>3, SizeAssumption, EmptySeq DEF PipeIInv, ReaderShape
  <2>2. QED
    BY <1>1, <1>2, <1>3, <2>1 DEF PipeIInv, ReaderShape, ReadEndings
<1>6. ErrorsAreReal'
  <2>1. wEnd = "broken" => ~pipe.rOpen
    BY DEF PipeIInv, ErrorsAreReal
  <2>2. QED
    BY <1>1, <1>2, <2>1 DEF ErrorsAreReal
<1>7. QED
  BY <1>1, <1>2, <1>3, <1>4, <1>5, <1>6, ReaderOnly

LEMMA LeaveReadStep ==
  PipeIInv /\ (doCloseRead \/ releaseRead \/ resetRead) => PipeIInv'
<1> SUFFICES ASSUME PipeIInv, doCloseRead \/ releaseRead \/ resetRead PROVE PipeIInv'
  OBVIOUS
<1>1. PICK how \in {"closed", "released", "reset"} :
        EndReadSession(how) /\ UNCHANGED <<writeSide, received, told>>
  BY DEF doCloseRead, releaseRead, resetRead, writeSide
<1>2. r.valid
  BY DEF doCloseRead, releaseRead, resetRead, PipeIInv, ReaderShape
<1>3. how \in ReadEndings \ {"none", "finalized"} /\ how # "broken"
  BY DEF ReadEndings
<1>4. QED
  BY <1>1, <1>2, <1>3, EndReadSessionStep

LEMMA closeReadStep == PipeIInv /\ closeRead => PipeIInv'
<1> SUFFICES ASSUME PipeIInv, closeRead PROVE PipeIInv'
  OBVIOUS
<1>1. /\ UNCHANGED <<w, written, reported, leftover, wEnd, received, told, pipe, rEnd>>
      /\ r.valid /\ r \in ReadEndType
      /\ r' = [r EXCEPT !.closing = TRUE, !.timers = @ \union {"close"}]
  BY DEF closeRead, writeSide, PipeIInv, PipeTypes
<1>2. /\ r' \in ReadEndType /\ r'.valid = r.valid /\ r'.buf = r.buf /\ r'.canRead = r.canRead
      /\ r'.blockReadNotify = r.blockReadNotify
      /\ "read" \in r'.timers <=> "read" \in r.timers
  BY <1>1 DEF ReadEndType
<1>3. PipeTypes' /\ ErrorsAreReal'
  BY <1>1, <1>2 DEF PipeIInv, PipeTypes, ErrorsAreReal
<1>4. ReaderShape'
  BY <1>1, <1>2 DEF PipeIInv, ReaderShape
<1>5. QED
  BY <1>1, <1>2, <1>3, <1>4, ReaderOnly

\* Taking n bytes from the pipe leaves buf with the reader and rest in the pipe.
Taking(n, buf, rest) ==
  /\ buf = r.buf \o SubSeq(pipe.bytes, 1, n)
  /\ rest = SubSeq(pipe.bytes, n + 1, Len(pipe.bytes))

\* What is taken from the pipe is the next part, and goes behind what waits.
LEMMA TakesNext ==
  ASSUME PipeIInv, rEnd # "reset", NEW n \in 0 .. Len(pipe.bytes),
         NEW buf, NEW rest, Taking(n, buf, rest)
  PROVE  /\ buf \in Seq(Nat) /\ Len(buf) = Len(r.buf) + n
         /\ buf = Positions(Len(received), Len(buf))
         /\ rest \in Seq(Nat) /\ Len(rest) = Len(pipe.bytes) - n
         /\ rest = Positions(Len(received) + Len(buf), Len(rest))
         /\ Len(received) + Len(buf) <= written
         /\ Len(received) + Len(buf) + Len(rest) = Accepted
<1> DEFINE sofar == Len(received)
           from == sofar + Len(r.buf)
           part == SubSeq(pipe.bytes, 1, n)
<1>1. /\ r.buf \in Seq(Nat) /\ pipe.bytes \in Seq(Nat) /\ received \in Seq(Nat)
      /\ sofar \in Nat /\ Len(r.buf) \in Nat /\ Len(pipe.bytes) \in Nat /\ from \in Nat
      /\ written \in Nat
  BY SizeAssumption DEF PipeIInv, PipeTypes, ReadEndType, PipeType
<1>2. /\ r.buf = Positions(sofar, Len(r.buf)) /\ pipe.bytes = Positions(from, Len(pipe.bytes))
      /\ from + Len(pipe.bytes) <= written
  BY DEF PipeIInv, ReadInOrder, Accepted
<1>3. Accepted = from + Len(pipe.bytes)
  BY DEF Accepted
<1> HIDE DEF from, sofar
<1>4. /\ part \in Seq(Nat) /\ Len(part) = n /\ part = Positions(from, n)
      /\ rest \in Seq(Nat) /\ Len(rest) = Len(pipe.bytes) - n
      /\ rest = Positions(from + n, Len(pipe.bytes) - n)
  BY <1>1, <1>2, RowCut, ZenonT(40) DEF Taking
<1>5. buf = r.buf \o part /\ from = sofar + Len(r.buf)
  BY DEF from, Taking
<1> HIDE DEF part
<1>6. part = Positions(sofar + Len(r.buf), Len(part))
  BY <1>4, <1>5
<1>7. /\ buf \in Seq(Nat) /\ Len(buf) = Len(r.buf) + Len(part)
      /\ buf = Positions(sofar, Len(buf))
  <2> DEFINE had == r.buf
  <2>1. had \in Seq(Nat) /\ sofar \in Nat /\ had = Positions(sofar, Len(had))
    BY <1>1, <1>2
  <2>2. part \in Seq(Nat) /\ part = Positions(sofar + Len(had), Len(part))
    BY <1>4, <1>6
  <2>3. buf = had \o part
    BY <1>5
  <2> HIDE DEF had
  <2>4. had \o part = Positions(sofar, Len(had \o part))
        /\ had \o part \in Seq(Nat) /\ Len(had \o part) = Len(had) + Len(part)
    BY <2>1, <2>2, RowJoin
  <2>5. QED
    BY <2>3, <2>4 DEF had
<1>8. /\ Len(buf) = Len(r.buf) + n /\ Len(rest) = Len(pipe.bytes) - n
      /\ Len(r.buf) \in Nat /\ Len(pipe.bytes) \in Nat /\ n \in Nat /\ n <= Len(pipe.bytes)
  <2>1. Len(buf) = Len(r.buf) + n /\ Len(rest) = Len(pipe.bytes) - n
    BY <1>4, <1>7
  <2>2. Len(pipe.bytes) \in Nat /\ Len(r.buf) \in Nat
    BY <1>1
  <2>3. n \in Nat /\ n <= Len(pipe.bytes)
    BY <2>2
  <2>4. QED
    BY <2>1, <2>2, <2>3
<1>9. sofar + Len(buf) = from + n
  BY <1>1, <1>5, <1>8
<1>10. sofar + Len(buf) <= written
  BY <1>1, <1>2, <1>8, <1>9
<1>11. sofar + Len(buf) + Len(rest) = Accepted
  <2> DEFINE all == Len(pipe.bytes)
  <2>1. from \in Nat /\ n \in Nat /\ all \in Nat
    BY <1>1, <1>8
  <2>2. sofar + Len(buf) = from + n /\ Len(rest) = all - n /\ Accepted = from + all
    BY <1>3, <1>8, <1>9
  <2> HIDE DEF all
  <2>3. QED
    BY <2>1, <2>2
<1>12. rest = Positions(sofar + Len(buf), Len(rest))
  BY <1>4, <1>9
<1>13. QED
  BY <1>4, <1>7, <1>8, <1>10, <1>11, <1>12 DEF sofar

\* doReadActual: the read end called reader has its timer or its notifier served.
ServedReader(reader) ==
  /\ r.valid
  /\ pipe.bytes # <<>> \/ ~pipe.wOpen
  /\ reader \in ReadEndType
  /\ reader.valid /\ reader.buf = r.buf /\ reader.closing = r.closing
  /\ reader.blockReadNotify /\ "read" \notin reader.timers /\ ~reader.canRead

LEMMA doReadActualStep ==
  ASSUME PipeIInv, NEW reader, ServedReader(reader), doReadActual(reader),
         UNCHANGED <<received, writeSide>>
  PROVE  PipeIInv'
<1>1. /\ UNCHANGED <<w, written, reported, leftover, wEnd, received>>
      /\ rEnd = "none" /\ pipe.rOpen /\ r.valid
      /\ r \in ReadEndType /\ r.buf \in Seq(Nat) /\ pipe \in PipeType /\ pipe.bytes \in Seq(Nat)
      /\ received \in Seq(Nat) /\ written \in Nat
  BY SizeAssumption DEF ServedReader, writeSide, PipeIInv, PipeTypes, ReaderShape, ReadEndType, PipeType
<1>2. /\ Len(r.buf) \in Nat /\ Len(pipe.bytes) \in Nat /\ Len(received) \in Nat
      /\ pendingFreeSize \in Nat /\ Len(r.buf) + pendingFreeSize = ReadBuf
  BY <1>1, SizeAssumption DEF pendingFreeSize, PipeIInv, ReaderShape
<1>3. /\ ReadSize \in 0 .. Len(pipe.bytes) /\ ReadSize <= pendingFreeSize
      /\ pendingFreeSize > 0 /\ ReadSize = 0 => pipe.bytes = <<>>
  BY <1>1, <1>2, EmptySeq DEF ReadSize
<1>4. CASE /\ pendingFreeSize = 0
           /\ r' = [reader EXCEPT !.canRead = TRUE]
           /\ UNCHANGED <<pipe, told, rEnd>>
  <2>1. /\ r' \in ReadEndType /\ r'.valid /\ r'.buf = r.buf /\ r'.canRead
        /\ r'.blockReadNotify /\ "read" \notin r'.timers
    BY <1>4 DEF ServedReader, ReadEndType
  <2>2. PipeTypes' /\ ErrorsAreReal'
    BY <1>1, <1>4, <2>1 DEF PipeIInv, PipeTypes, ErrorsAreReal
  <2>3. ReaderShape'
    BY <1>1, <1>4, <2>1 DEF PipeIInv, ReaderShape, ServedReader
  <2>4. QED
    BY <1>1, <1>4, <2>1, <2>2, <2>3, ReaderOnly
<1>5. CASE /\ ReadSize > 0
           /\ r' = [reader EXCEPT !.buf = @ \o SubSeq(pipe.bytes, 1, ReadSize),
                               !.blockReadNotify = FALSE]
           /\ pipe' = [pipe EXCEPT !.bytes = SubSeq(@, ReadSize + 1, Len(@))]
           /\ told' = TRUE
           /\ UNCHANGED rEnd
  <2> DEFINE buf == r.buf \o SubSeq(pipe.bytes, 1, ReadSize)
             rest == SubSeq(pipe.bytes, ReadSize + 1, Len(pipe.bytes))
  <2>1. /\ buf \in Seq(Nat) /\ Len(buf) = Len(r.buf) + ReadSize
        /\ buf = Positions(Len(received), Len(buf))
        /\ rest \in Seq(Nat) /\ Len(rest) = Len(pipe.bytes) - ReadSize
        /\ rest = Positions(Len(received) + Len(buf), Len(rest))
        /\ Len(received) + Len(buf) <= written
        /\ Len(received) + Len(buf) + Len(rest) = Accepted
    <3>1. Taking(ReadSize, buf, rest) /\ rEnd # "reset" /\ ReadSize \in 0 .. Len(pipe.bytes)
      BY <1>1, <1>3 DEF Taking
    <3> HIDE DEF buf, rest
    <3>2. QED
      BY <3>1, TakesNext
  <2>2. r' = [reader EXCEPT !.buf = buf, !.blockReadNotify = FALSE]
        /\ pipe' = [pipe EXCEPT !.bytes = rest]
    BY <1>5 DEF ServedReader, ReadEndType
  <2> HIDE DEF buf, rest
  <2>3. /\ r' \in ReadEndType /\ r'.valid /\ r'.buf = buf /\ ~r'.canRead
        /\ "read" \notin r'.timers
    BY <2>1, <2>2 DEF ServedReader, ReadEndType
  <2>4. /\ pipe' \in PipeType /\ pipe'.bytes = rest
        /\ pipe'.wOpen = pipe.wOpen /\ pipe'.rOpen = pipe.rOpen
    BY <1>1, <2>1, <2>2 DEF PipeType
  <2>5. Accepted' = Accepted
    BY <1>1, <2>1, <2>3, <2>4 DEF Accepted
  <2>6. PipeTypes' /\ WriterShape'
    BY <1>1, <1>5, <2>3, <2>4 DEF PipeIInv, PipeTypes, WriterShape
  <2>7. ReaderShape'
    <3>1. Len(buf) <= ReadBuf
      BY <1>2, <1>3, <2>1
    <3>2. Len(rest) <= Capacity
      BY <1>2, <1>3, <2>1, SizeAssumption DEF PipeIInv, ReaderShape
    <3>3. QED
      BY <1>1, <1>5, <2>3, <2>4, <3>1, <3>2 DEF PipeIInv, ReaderShape
  <2>8. ReadInOrder'
    <3>1. Accepted <= written
      BY <1>1 DEF PipeIInv, ReadInOrder
    <3>2. QED
      BY <1>1, <2>1, <2>3, <2>4, <2>5, <3>1 DEF PipeIInv, ReadInOrder
  <2>9. WrittenInOrder'
    BY <1>1, <1>5, <2>5 DEF PipeIInv, WrittenInOrder
  <2>10. ErrorsAreReal'
    BY <1>1, <1>5, <2>4 DEF PipeIInv, ErrorsAreReal
  <2>11. QED
    BY <2>6, <2>7, <2>8, <2>9, <2>10 DEF PipeIInv
<1>6. CASE /\ pendingFreeSize > 0
           /\ ReadSize = 0
           /\ EndReadSession("broken")
           /\ UNCHANGED told
  <2>1. pipe.bytes = <<>> /\ ~pipe.wOpen
    BY <1>3, <1>6 DEF ServedReader
  <2>2. QED
    BY <1>1, <1>6, <2>1, EndReadSessionStep DEF ReadEndings
<1>7. QED
  BY <1>4, <1>5, <1>6 DEF doReadActual

LEMMA ServedReadStep == PipeIInv /\ (readNotify \/ doRead) => PipeIInv'
<1> SUFFICES ASSUME PipeIInv, readNotify \/ doRead PROVE PipeIInv'
  OBVIOUS
<1>1. r \in ReadEndType
  BY DEF PipeIInv, PipeTypes
<1>2. CASE readNotify
  <2> DEFINE reader == [r EXCEPT !.blockReadNotify = TRUE]
  <2>1. /\ r.valid /\ (pipe.bytes # <<>> \/ ~pipe.wOpen) /\ ~r.blockReadNotify
        /\ doReadActual(reader) /\ UNCHANGED <<received, writeSide>>
    BY <1>2 DEF readNotify
  <2>2. ~r.canRead /\ "read" \notin r.timers
    BY <2>1 DEF PipeIInv, ReaderShape
  <2>3. ServedReader(reader)
    BY <1>1, <2>1, <2>2 DEF ServedReader, ReadEndType
  <2> HIDE DEF reader
  <2>4. QED
    BY <2>1, <2>3, doReadActualStep
<1>3. CASE doRead
  <2> DEFINE reader == [r EXCEPT !.timers = @ \ {"read"}]
  <2>1. /\ "read" \in r.timers
        /\ doReadActual(reader) /\ UNCHANGED <<received, writeSide>>
    BY <1>3 DEF doRead
  <2>2. /\ r.valid /\ ~r.canRead /\ r.blockReadNotify
        /\ pipe.bytes # <<>> \/ ~pipe.wOpen
    BY <2>1 DEF PipeIInv, ReaderShape
  <2>3. ServedReader(reader)
    BY <1>1, <2>1, <2>2 DEF ServedReader, ReadEndType
  <2> HIDE DEF reader
  <2>4. QED
    BY <2>1, <2>3, doReadActualStep
<1>4. QED
  BY <1>2, <1>3

\* read(n): the program gets the next bytes.
LEMMA readStep ==
  ASSUME PipeIInv, NEW n \in 0 .. Len(r.buf), read(n)
  PROVE  PipeIInv'
<1> DEFINE part == SubSeq(r.buf, 1, n)
           rest == SubSeq(r.buf, n + 1, Len(r.buf))
<1>1. /\ UNCHANGED <<w, written, reported, leftover, wEnd, pipe, rEnd>>
      /\ received' = received \o part /\ r' = setupNextRead([r EXCEPT !.buf = rest])
      /\ told' \in BOOLEAN
  BY DEF read, writeSide, PipeIInv, PipeTypes
<1>2. /\ r \in ReadEndType /\ r.buf \in Seq(Nat) /\ pipe.bytes \in Seq(Nat)
      /\ received \in Seq(Nat) /\ written \in Nat
  BY SizeAssumption DEF PipeIInv, PipeTypes, ReadEndType, PipeType
<1>3. Len(r.buf) \in Nat /\ Len(received) \in Nat /\ Len(pipe.bytes) \in Nat /\ n \in Nat /\ n <= Len(r.buf)
  <2>1. Len(r.buf) \in Nat /\ Len(received) \in Nat /\ Len(pipe.bytes) \in Nat
    BY <1>2
  <2>2. QED
    BY <2>1
<1>4. r.buf = Positions(Len(received), Len(r.buf)) /\ received = Positions(0, Len(received))
  BY DEF PipeIInv, ReadInOrder
<1>5. /\ part \in Seq(Nat) /\ Len(part) = n /\ part = Positions(Len(received), n)
      /\ rest \in Seq(Nat) /\ Len(rest) = Len(r.buf) - n
      /\ rest = Positions(Len(received) + n, Len(r.buf) - n)
  <2> DEFINE all == r.buf
             from == Len(received)
  <2>1. /\ all \in Seq(Nat) /\ all = Positions(from, Len(all)) /\ from \in Nat
        /\ n \in 0 .. Len(all)
    BY <1>2, <1>3, <1>4
  <2> HIDE DEF all, from
  <2>2. /\ SubSeq(all, 1, n) \in Seq(Nat) /\ Len(SubSeq(all, 1, n)) = n
        /\ SubSeq(all, 1, n) = Positions(from, n)
        /\ SubSeq(all, n + 1, Len(all)) \in Seq(Nat)
        /\ Len(SubSeq(all, n + 1, Len(all))) = Len(all) - n
        /\ SubSeq(all, n + 1, Len(all)) = Positions(from + n, Len(all) - n)
    BY <2>1, RowCut
  <2>3. QED
    BY <2>2 DEF all, from
<1> HIDE DEF part, rest
<1>6. received' \in Seq(Nat) /\ Len(received') = Len(received) + n
      /\ received' = Positions(0, Len(received'))
  <2> DEFINE had == received
  <2>1. had \in Seq(Nat) /\ had = Positions(0, Len(had)) /\ received' = had \o part
    BY <1>1, <1>2, <1>4
  <2>2. part \in Seq(Nat) /\ part = Positions(0 + Len(had), Len(part)) /\ Len(part) = n
    BY <1>3, <1>5
  <2> HIDE DEF had
  <2> DEFINE zero == 0
  <2>3. zero \in Nat /\ had = Positions(zero, Len(had))
        /\ part = Positions(zero + Len(had), Len(part))
    BY <2>1, <2>2
  <2> HIDE DEF zero
  <2>4. had \o part \in Seq(Nat) /\ Len(had \o part) = Len(had) + Len(part)
        /\ had \o part = Positions(zero, Len(had \o part))
    BY <2>1, <2>2, <2>3, RowJoin
  <2>5. QED
    BY <2>1, <2>2, <2>4 DEF had, zero
<1>7. /\ r' \in ReadEndType /\ r'.buf = rest /\ r'.valid = r.valid
      /\ r'.blockReadNotify = r.blockReadNotify
      /\ r'.canRead \/ "read" \in r'.timers => r.canRead \/ "read" \in r.timers
      /\ ~(r'.canRead /\ "read" \in r'.timers)
      /\ ~r.valid => r'.timers = r.timers
  <2> DEFINE reader == [r EXCEPT !.buf = rest]
  <2>1. /\ reader \in ReadEndType /\ reader.buf = rest /\ reader.valid = r.valid
        /\ reader.blockReadNotify = r.blockReadNotify /\ reader.canRead = r.canRead
        /\ reader.timers = r.timers
    BY <1>2, <1>5 DEF ReadEndType
  <2>2. r' = setupNextRead(reader)
    BY <1>1
  <2>3. ~(r.canRead /\ "read" \in r.timers)
    BY DEF PipeIInv, ReaderShape
  <2> HIDE DEF reader
  <2>4. CASE reader.valid /\ reader.canRead
    <3>1. r' = [reader EXCEPT !.canRead = FALSE, !.timers = @ \union {"read"}]
      BY <2>2, <2>4 DEF setupNextRead
    <3>2. QED
      BY <2>1, <2>4, <3>1 DEF ReadEndType
  <2>5. CASE ~(reader.valid /\ reader.canRead)
    <3>1. r' = reader
      BY <2>2, <2>5 DEF setupNextRead
    <3>2. QED
      BY <2>1, <2>3, <3>1
  <2>6. QED
    BY <2>4, <2>5
<1>8. Len(received') + Len(r'.buf) = Len(received) + Len(r.buf)
  <2>1. Len(received') = Len(received) + n /\ Len(r'.buf) = Len(r.buf) - n
    BY <1>5, <1>6, <1>7
  <2> DEFINE had == Len(received)
             waiting == Len(r.buf)
  <2>2. had \in Nat /\ waiting \in Nat /\ n \in Nat
    BY <1>3
  <2>3. Len(received') = had + n /\ Len(r'.buf) = waiting - n
    BY <2>1
  <2> HIDE DEF had, waiting
  <2>4. (had + n) + (waiting - n) = had + waiting
    BY <2>2
  <2>5. QED
    BY <2>3, <2>4 DEF had, waiting
<1>9. Accepted' = Accepted
  BY <1>1, <1>8 DEF Accepted
<1>10. PipeTypes' /\ WriterShape' /\ ErrorsAreReal'
  BY <1>1, <1>6, <1>7 DEF PipeIInv, PipeTypes, WriterShape, ErrorsAreReal
<1>11. ReaderShape'
  <2>1. Len(r'.buf) <= ReadBuf
    BY <1>3, <1>5, <1>7, SizeAssumption DEF PipeIInv, ReaderShape
  <2>2. QED
    BY <1>1, <1>7, <2>1 DEF PipeIInv, ReaderShape
<1>12. ReadInOrder'
  <2>1. r'.buf = Positions(Len(received'), Len(r'.buf))
    BY <1>5, <1>6, <1>7
  <2>2. QED
    BY <1>1, <1>6, <1>8, <1>9, <2>1 DEF PipeIInv, ReadInOrder
<1>13. WrittenInOrder'
  BY <1>1, <1>9 DEF PipeIInv, WrittenInOrder
<1>14. QED
  BY <1>10, <1>11, <1>12, <1>13 DEF PipeIInv

LEMMA readerReadsStep == PipeIInv /\ (readSome \/ readAll) => PipeIInv'
<1> SUFFICES ASSUME PipeIInv, readSome \/ readAll PROVE PipeIInv'
  OBVIOUS
<1>1. Len(r.buf) \in Nat
  BY DEF PipeIInv, PipeTypes, ReadEndType
<1>2. PICK n \in 0 .. Len(r.buf) : read(n)
  BY <1>1 DEF readSome, readAll
<1>3. QED
  BY <1>2, readStep

\* finalize: what there is room for is taken, and the session ends.
LEMMA finalizeStep == PipeIInv /\ finalize => PipeIInv'
<1> SUFFICES ASSUME PipeIInv, finalize PROVE PipeIInv'
  OBVIOUS
<1> DEFINE buf == r.buf \o SubSeq(pipe.bytes, 1, ReadSize)
           rest == SubSeq(pipe.bytes, ReadSize + 1, Len(pipe.bytes))
<1>1. /\ UNCHANGED <<w, written, reported, leftover, wEnd, received, told>>
      /\ rEnd = "none" /\ rEnd' = "finalized" /\ pipe.rOpen
      /\ r.buf \in Seq(Nat) /\ pipe \in PipeType /\ pipe.bytes \in Seq(Nat)
      /\ written \in Nat
  BY SizeAssumption
     DEF finalize, writeSide, PipeIInv, PipeTypes, ReaderShape, ReadEndType, PipeType
<1>2. /\ Len(r.buf) \in Nat /\ Len(pipe.bytes) \in Nat
      /\ pendingFreeSize \in Nat /\ Len(r.buf) + pendingFreeSize = ReadBuf
  BY <1>1, SizeAssumption DEF pendingFreeSize, PipeIInv, ReaderShape
<1>3. ReadSize \in 0 .. Len(pipe.bytes) /\ ReadSize <= pendingFreeSize
  BY <1>1, <1>2 DEF ReadSize
<1>4. /\ buf \in Seq(Nat) /\ Len(buf) = Len(r.buf) + ReadSize
      /\ buf = Positions(Len(received), Len(buf))
      /\ rest \in Seq(Nat) /\ Len(rest) = Len(pipe.bytes) - ReadSize
      /\ rest = Positions(Len(received) + Len(buf), Len(rest))
      /\ Len(received) + Len(buf) <= written
      /\ Len(received) + Len(buf) + Len(rest) = Accepted
  BY <1>1, <1>3, TakesNext, ZenonT(40) DEF Taking
<1>5. r' = ReadSessionEnded(buf) /\ pipe' = [pipe EXCEPT !.bytes = rest, !.rOpen = FALSE]
  BY DEF finalize
<1> HIDE DEF buf, rest
<1>6. /\ r' \in ReadEndType /\ ~r'.valid /\ r'.buf = buf /\ r'.timers = {}
      /\ ~r'.canRead
  BY <1>4, <1>5 DEF ReadSessionEnded, ReadEnd, ReadEndType
<1>7. pipe' \in PipeType /\ pipe'.bytes = rest /\ pipe'.wOpen = pipe.wOpen /\ ~pipe'.rOpen
  BY <1>1, <1>4, <1>5 DEF PipeType
<1>8. Accepted' = Accepted
  BY <1>1, <1>4, <1>6, <1>7 DEF Accepted
<1>9. PipeTypes' /\ WriterShape'
  BY <1>1, <1>6, <1>7 DEF PipeIInv, PipeTypes, WriterShape, ReadEndings
<1>10. ReaderShape'
  <2>1. Len(buf) <= ReadBuf
    BY <1>2, <1>3, <1>4
  <2>2. Len(rest) <= Capacity
    BY <1>2, <1>3, <1>4, SizeAssumption DEF PipeIInv, ReaderShape
  <2>3. QED
    BY <1>1, <1>6, <1>7, <2>1, <2>2 DEF ReaderShape
<1>11. ReadInOrder'
  <2>1. Accepted <= written
    BY <1>1 DEF PipeIInv, ReadInOrder
  <2>2. QED
    BY <1>1, <1>4, <1>6, <1>7, <1>8, <2>1 DEF PipeIInv, ReadInOrder
<1>12. WrittenInOrder'
  BY <1>1, <1>8 DEF PipeIInv, WrittenInOrder
<1>13. ErrorsAreReal'
  BY <1>1, <1>7 DEF PipeIInv, ErrorsAreReal
<1>14. QED
  BY <1>9, <1>10, <1>11, <1>12, <1>13 DEF PipeIInv

----------------------------------------------------------------------------
(* Every state.                                                             *)

LEMMA StepPipe == PipeIInv /\ [PipeNext]_pipeVars => PipeIInv'
<1> SUFFICES ASSUME PipeIInv, [PipeNext]_pipeVars PROVE PipeIInv'
  OBVIOUS
<1>1. CASE UNCHANGED pipeVars
  <2>1. UNCHANGED <<w, r, pipe, written, reported, leftover, received, told, wEnd, rEnd>>
    BY <1>1 DEF pipeVars
  <2>2. PipeTypes' /\ WriterShape' /\ ReaderShape' /\ ErrorsAreReal'
    BY <2>1 DEF PipeIInv, PipeTypes, WriterShape, ReaderShape, ErrorsAreReal
  <2>3. ReadInOrder' /\ WrittenInOrder'
    BY <2>1 DEF PipeIInv, ReadInOrder, WrittenInOrder, Accepted
  <2>4. QED
    BY <2>2, <2>3 DEF PipeIInv
<1>2. CASE NextWriteEnd
  BY <1>2, writeStep, closeWriteStep, doWriteStep, writeNotifyStep, LeaveWriteStep
     DEF NextWriteEnd
<1>3. CASE NextReadEnd
  BY <1>3, ServedReadStep, readerReadsStep DEF NextReadEnd
<1>4. CASE Leaving
  BY <1>4, LeaveWriteStep, takeStep, closeReadStep, LeaveReadStep, finalizeStep DEF Leaving
<1>5. QED
  BY <1>1, <1>2, <1>3, <1>4 DEF PipeNext

LEMMA PipeInvariant == PipeSpec => []PipeIInv
<1>1. PipeInit => PipeIInv
  BY InitPipe
<1>2. PipeIInv /\ [PipeNext]_pipeVars => PipeIInv'
  BY StepPipe
<1>3. QED
  BY <1>1, <1>2, PTL DEF PipeSpec

----------------------------------------------------------------------------
(* What the invariant says of the properties.                               *)

\* What the reader has had and what waits for it are the first bytes, in a row.
LEMMA ArrivedRow ==
  ASSUME PipeIInv
  PROVE  /\ received \o r.buf \in Seq(Nat)
         /\ Len(received \o r.buf) = Len(received) + Len(r.buf)
         /\ received \o r.buf = Positions(0, Len(received \o r.buf))
         /\ Len(received) \in Nat /\ Len(r.buf) \in Nat
<1> DEFINE had == received
           waiting == r.buf
           zero == 0
<1>1. /\ had \in Seq(Nat) /\ waiting \in Seq(Nat) /\ Len(had) \in Nat /\ Len(waiting) \in Nat
  BY DEF PipeIInv, PipeTypes, ReadEndType
<1>2. /\ zero \in Nat /\ had = Positions(zero, Len(had))
      /\ waiting = Positions(zero + Len(had), Len(waiting))
  <2>1. received = Positions(0, Len(received)) /\ r.buf = Positions(Len(received), Len(r.buf))
    BY DEF PipeIInv, ReadInOrder
  <2>2. 0 + Len(received) = Len(received)
    BY <1>1
  <2>3. QED
    BY <2>1, <2>2
<1> HIDE DEF had, waiting, zero
<1>3. /\ had \o waiting \in Seq(Nat) /\ Len(had \o waiting) = Len(had) + Len(waiting)
      /\ had \o waiting = Positions(zero, Len(had \o waiting))
  BY <1>1, <1>2, RowJoin
<1>4. QED
  BY <1>1, <1>3 DEF had, waiting, zero

\* Sequences of bytes that are joined, and cut in two.
LEMMA JoinedTwice ==
  ASSUME NEW s \in Seq(Nat), NEW t \in Seq(Nat), NEW u \in Seq(Nat)
  PROVE  (s \o t) \o u = s \o (t \o u)
BY SMTT(30)

LEMMA CutInTwo ==
  ASSUME NEW s \in Seq(Nat), NEW n \in 0 .. Len(s)
  PROVE  SubSeq(s, 1, n) \o SubSeq(s, n + 1, Len(s)) = s
<1>1. Len(s) \in Nat /\ 1 \in 1 .. Len(s) + 1 /\ n \in 1 - 1 .. Len(s) /\ Len(s) \in n .. Len(s)
  OBVIOUS
<1>2. SubSeq(s, 1, n) \o SubSeq(s, n + 1, Len(s)) = SubSeq(s, 1, Len(s))
  BY <1>1, ConcatAdjacentSubSeq
<1>3. QED
  BY <1>2, SubSeqFull

\* A row is lengthened by the next part.
LEMMA RowOn ==
  ASSUME NEW s \in Seq(Nat), s = Positions(0, Len(s)),
         NEW t \in Seq(Nat), t = Positions(Len(s), Len(t))
  PROVE  s \o t \in Seq(Nat) /\ Len(s \o t) = Len(s) + Len(t)
         /\ s \o t = Positions(0, Len(s \o t))
<1> DEFINE zero == 0
<1>1. zero \in Nat /\ s = Positions(zero, Len(s)) /\ t = Positions(zero + Len(s), Len(t))
  <2>1. Len(s) \in Nat
    OBVIOUS
  <2>2. 0 + Len(s) = Len(s)
    BY <2>1
  <2>3. QED
    BY <2>2
<1> HIDE DEF zero
<1>2. s \o t \in Seq(Nat) /\ Len(s \o t) = Len(s) + Len(t)
      /\ s \o t = Positions(zero, Len(s \o t))
  BY <1>1, RowJoin
<1>3. QED
  BY <1>2 DEF zero

LEMMA BytesInOrder == PipeIInv => InOrder
<1> SUFFICES ASSUME PipeIInv, wEnd \notin {"released", "reset"}, rEnd # "reset"
             PROVE  received \o r.buf \o pipe.bytes \o leftover \o Unsent = Positions(0, written)
  BY DEF InOrder
<1> DEFINE arrived == received \o r.buf
           sent == arrived \o pipe.bytes
           back == sent \o leftover
<1>1. /\ w.buf \in Seq(Nat) /\ leftover \in Seq(Nat) /\ pipe.bytes \in Seq(Nat)
      /\ reported \in Nat /\ written \in Nat /\ w.lastWrite \in 0 .. Len(w.buf)
      /\ Len(w.buf) \in Nat /\ Len(leftover) \in Nat /\ Len(pipe.bytes) \in Nat
  BY SizeAssumption DEF PipeIInv, PipeTypes, WriteEndType, PipeType, WriterShape
<1>2. /\ arrived \in Seq(Nat) /\ arrived = Positions(0, Len(arrived))
      /\ Len(arrived) = Len(received) + Len(r.buf)
  BY ArrivedRow
<1>3. /\ pipe.bytes = Positions(Len(received) + Len(r.buf), Len(pipe.bytes))
      /\ Accepted = reported + w.lastWrite
      /\ reported + Len(w.buf) + Len(leftover) = written
      /\ w.buf = Positions(reported, Len(w.buf))
      /\ leftover = Positions(reported, Len(leftover))
      /\ w.buf = <<>> \/ leftover = <<>>
  BY DEF PipeIInv, ReadInOrder, WrittenInOrder
<1>4. Accepted = Len(arrived) + Len(pipe.bytes)
  BY <1>2 DEF Accepted
<1>5. pipe.bytes = Positions(Len(arrived), Len(pipe.bytes))
  BY <1>2, <1>3
<1>6. /\ Unsent \in Seq(Nat) /\ Len(Unsent) = Len(w.buf) - w.lastWrite
      /\ Unsent = Positions(reported + w.lastWrite, Len(Unsent))
  <2> DEFINE all == w.buf
             k == w.lastWrite
             rest == SubSeq(all, k + 1, Len(all))
  <2>1. /\ all \in Seq(Nat) /\ k \in 0 .. Len(all) /\ all = Positions(reported, Len(all))
        /\ reported \in Nat
    BY <1>1, <1>3
  <2>2. rest = Unsent
    BY DEF Unsent
  <2> HIDE DEF all, k
  <2>3. /\ rest \in Seq(Nat) /\ Len(rest) = Len(all) - k
        /\ rest = Positions(reported + k, Len(all) - k)
    BY <2>1, RowCut
  <2> HIDE DEF rest
  <2>4. QED
    BY <2>2, <2>3 DEF all, k
<1> HIDE DEF arrived
<1>7. /\ sent \in Seq(Nat) /\ Len(sent) = Accepted /\ sent = Positions(0, Len(sent))
  BY <1>1, <1>2, <1>4, <1>5, RowOn
<1>8. Len(sent) = reported + w.lastWrite
  BY <1>3, <1>7
<1> HIDE DEF sent
<1>9. CASE leftover = <<>>
  <2>1. back = sent
    BY <1>7, <1>9, ConcatEmptySeq
  <2>2. Unsent = Positions(Len(back), Len(Unsent)) /\ back \in Seq(Nat)
        /\ back = Positions(0, Len(back))
    BY <1>6, <1>7, <1>8, <2>1
  <2>3. Len(back) + Len(Unsent) = written
    <3>1. Len(leftover) = 0
      BY <1>9
    <3>2. Len(back) = reported + w.lastWrite
      BY <1>8, <2>1
    <3> DEFINE all == Len(w.buf)
               k == w.lastWrite
               more == Len(Unsent)
    <3>3. all \in Nat /\ k \in Nat /\ reported + all + 0 = written /\ more = all - k
      BY <1>1, <1>3, <1>6, <3>1
    <3>4. Len(back) = reported + k
      BY <3>2
    <3> HIDE DEF all, k, more, back
    <3>5. Len(back) + more = written
      BY <1>1, <3>3, <3>4
    <3>6. QED
      BY <3>5 DEF more
  <2> HIDE DEF back
  <2>4. back \o Unsent = Positions(0, written)
    BY <1>6, <2>2, <2>3, RowOn
  <2>5. QED
    BY <2>4 DEF back, sent, arrived
<1>10. CASE w.buf = <<>>
  <2>1. w.lastWrite = 0 /\ Len(w.buf) = 0 /\ Len(Unsent) = 0
    BY <1>1, <1>6, <1>10
  <2>2. Unsent = <<>>
    BY <1>6, <2>1, EmptySeq
  <2>3. leftover = Positions(Len(sent), Len(leftover)) /\ Len(sent) + Len(leftover) = written
    BY <1>1, <1>3, <1>8, <2>1
  <2>4. back \in Seq(Nat) /\ back = Positions(0, written)
    BY <1>1, <1>7, <2>3, RowOn
  <2>5. back \o Unsent = back
    BY <2>2, <2>4, ConcatEmptySeq
  <2>6. QED
    BY <2>4, <2>5 DEF back, sent, arrived
<1>11. QED
  BY <1>3, <1>9, <1>10

LEMMA PipesOK == PipeIInv => PipeConsistent
<1> SUFFICES ASSUME PipeIInv PROVE PipeConsistent
  OBVIOUS
<1>1. /\ w \in WriteEndType /\ r \in ReadEndType /\ pipe \in PipeType
      /\ written \in 0 .. MaxBytes /\ reported \in 0 .. written
      /\ Len(w.buf) \in Nat
  BY DEF PipeIInv, PipeTypes, WriteEndType
<1>2. PipeTypeOK
  <2>1. written \in 0 .. MaxBytes /\ reported \in 0 .. MaxBytes
    BY <1>1, SizeAssumption
  <2>2. w.timers \subseteq {"write", "close"} /\ r.timers \subseteq {"read", "close"}
    BY <1>1 DEF WriteEndType, ReadEndType
  <2>3. w.lastWrite \in 0 .. Len(w.buf) /\ w.lastWrite <= Block
    BY <1>1 DEF PipeIInv, WriterShape, WriteEndType
  <2>4. (w.activeWrite <=> ("write" \in w.timers \/ w.sn_write)) /\ (w.sn_write <=> ~w.canWrite)
    BY DEF PipeIInv, WriterShape
  <2>5. Len(r.buf) <= ReadBuf /\ Len(pipe.bytes) <= Capacity
    BY DEF PipeIInv, ReaderShape
  <2>6. told \in BOOLEAN /\ wEnd \in WriteEndings /\ rEnd \in ReadEndings
    BY DEF PipeIInv, PipeTypes
  <2>7. QED
    BY <2>1, <2>2, <2>3, <2>4, <2>5, <2>6 DEF PipeTypeOK, WriteEndings, ReadEndings
<1>3. InOrder
  BY BytesInOrder
<1>4. ReportsAreTrue
  BY DEF PipeIInv, WrittenInOrder, ReportsAreTrue
<1>5. ClosedWhenSent
  <2> SUFFICES ASSUME wEnd = "closed" PROVE w.buf = <<>> /\ reported = written
    BY DEF ClosedWhenSent
  <2>1. w.buf = <<>> /\ leftover = <<>> /\ reported + Len(w.buf) + Len(leftover) = written
    BY DEF PipeIInv, WrittenInOrder
  <2>2. reported \in Nat /\ Len(<<>>) = 0
    BY <1>1
  <2>3. QED
    BY <2>1, <2>2
<1>6. ErrorsAreReal
  BY DEF PipeIInv
<1>7. QED
  BY <1>2, <1>3, <1>4, <1>5, <1>6 DEF PipeConsistent

\* For every size of block, buffer and pipe, no byte is lost, doubled or out of its
\* place, bytesWritten() and closed() say what is true, and error() is never made up
\* (QPipeEnd over QPipeDevice).
THEOREM PipesConsistent == PipeSpec => []PipeConsistent
<1>1. PipeIInv => PipeConsistent
  BY PipesOK
<1>2. QED
  BY <1>1, PipeInvariant, PTL

----------------------------------------------------------------------------
(* The two ends implement the stream of bytes: what the calls and signals   *)
(* tell the programs is what a stream would tell them.                      *)

Arrived == received \o r.buf
Source == IF wEnd = "none" THEN "open" ELSE IF wEnd = "closed" THEN "closed" ELSE "gone"
Sink == IF rEnd = "none" THEN "open" ELSE IF rEnd = "broken" THEN "ended" ELSE "gone"

LEMMA PipeInitRefines == PipeInit => Stream!StreamInit
<1> SUFFICES ASSUME PipeInit PROVE Stream!StreamInit
  OBVIOUS
<1>1. <<>> \o <<>> = <<>>
  BY ConcatEmptySeq, EmptySeq
<1>2. QED
  BY <1>1 DEF PipeInit, ReadEnd, Stream!StreamInit

\* A step of the write end gives bytes, ends the source, or changes nothing that a
\* program of the stream can see.
LEMMA WriterRefines ==
  ASSUME PipeIInv, UNCHANGED readSide,
         \/ /\ wEnd = "none" /\ wEnd' = wEnd
            /\ written' \in Nat /\ written' > written
         \/ wEnd = "none" /\ wEnd' # "none" /\ written' = written
         \/ wEnd' = wEnd /\ written' = written
  PROVE  [Stream!StreamNext]_(Stream!streamVars)
<1>1. UNCHANGED <<received, rEnd>> /\ r'.buf = r.buf
  BY DEF readSide
<1>2. (received \o r.buf)' = received \o r.buf
  BY <1>1
<1>3. CASE wEnd = "none" /\ wEnd' = wEnd /\ written' \in Nat /\ written' > written
  <2>1. Stream!Give
    BY <1>1, <1>2, <1>3 DEF Stream!Give
  <2>2. QED
    BY <2>1 DEF Stream!StreamNext
<1>4. CASE wEnd = "none" /\ wEnd' # "none" /\ written' = written
  <2>1. Stream!CloseSource
    BY <1>1, <1>2, <1>4 DEF Stream!CloseSource
  <2>2. QED
    BY <2>1 DEF Stream!StreamNext
<1>5. CASE wEnd' = wEnd /\ written' = written
  BY <1>1, <1>2, <1>5 DEF Stream!streamVars
<1>6. QED
  BY <1>3, <1>4, <1>5

LEMMA WriteEndRefines ==
  ASSUME PipeIInv,
         NextWriteEnd \/ releaseWrite \/ resetWrite \/ takeBytesToWrite
  PROVE  [Stream!StreamNext]_(Stream!streamVars)
<1>1. written \in Nat /\ (w.valid <=> wEnd = "none") /\ (~w.valid => w.timers = {})
  BY SizeAssumption DEF PipeIInv, PipeTypes, WriterShape
<1>2. CASE write
  <2>1. PICK n \in 1 .. (MaxBytes - written) : written' = written + n
    BY <1>2 DEF write
  <2>2. written' \in Nat /\ written' > written
    BY <1>1, <2>1, SizeAssumption
  <2>3. wEnd = "none" /\ wEnd' = wEnd /\ UNCHANGED readSide
    BY <1>1, <1>2 DEF write
  <2>4. QED
    BY <2>2, <2>3, WriterRefines
<1>3. CASE closeWrite \/ writeNotify \/ takeBytesToWrite
  <2>1. wEnd' = wEnd /\ written' = written /\ UNCHANGED readSide
    BY <1>3 DEF closeWrite, writeNotify, takeBytesToWrite
  <2>2. QED
    BY <2>1, WriterRefines
<1>4. CASE doWrite
  <2>1. wEnd = "none" /\ written' = written /\ UNCHANGED readSide
    BY <1>1, <1>4 DEF doWrite
  <2>2. wEnd' = wEnd \/ wEnd' # "none"
    BY <2>1
  <2>3. QED
    BY <2>1, <2>2, WriterRefines
<1>5. CASE doCloseWrite \/ releaseWrite \/ resetWrite
  <2>1. wEnd = "none" /\ wEnd' # "none" /\ written' = written /\ UNCHANGED readSide
    BY <1>1, <1>5 DEF doCloseWrite, releaseWrite, resetWrite, EndWriteSession
  <2>2. QED
    BY <2>1, WriterRefines
<1>6. QED
  BY <1>2, <1>3, <1>4, <1>5 DEF NextWriteEnd

ArrivedInRow ==
  /\ Len(received \o r.buf) = Len(received) + Len(r.buf)
  /\ received \o r.buf = Positions(0, Len(received \o r.buf))
  /\ Len(received) \in Nat /\ Len(r.buf) \in Nat

LEMMA ArrivedRowThen == PipeIInv' => ArrivedInRow'
<1>1. PipeIInv => ArrivedInRow
  BY ArrivedRow DEF ArrivedInRow
<1>2. QED
  BY <1>1, PTL

\* The reader's session ends with what has been read, with or without what waits.
LEMMA LeaveRefines ==
  ASSUME PipeIInv, PipeIInv', UNCHANGED writeSide, rEnd = "none", rEnd' \notin {"none", "broken"}
  PROVE  [Stream!StreamNext]_(Stream!streamVars)
<1>1. UNCHANGED <<written, wEnd>> /\ written \in Nat
  BY SizeAssumption DEF writeSide, PipeIInv, PipeTypes
<1> DEFINE n == Len((received \o r.buf)')
<1>2. n \in 0 .. written /\ (received \o r.buf)' = Positions(0, n)
  <2>1. (received \o r.buf)' = Positions(0, n) /\ n = Len(received') + Len(r'.buf)
        /\ Len(received') \in Nat /\ Len(r'.buf) \in Nat
    <3>1. ArrivedInRow'
      BY ArrivedRowThen
    <3>2. QED
      BY <3>1 DEF ArrivedInRow
  <2>2. Len(received') + Len(r'.buf) <= written
    BY <1>1 DEF PipeIInv, ReadInOrder
  <2>3. QED
    BY <1>1, <2>1, <2>2
<1>3. (received \o r.buf)' = [i \in 1 .. n |-> i]
  <2> HIDE DEF n
  <2>1. Positions(0, n) = [i \in 1 .. n |-> i]
    BY <1>1, <1>2 DEF Positions
  <2>2. QED
    BY <1>2, <2>1
<1>4. Stream!LeaveSink
  BY <1>1, <1>2, <1>3 DEF Stream!LeaveSink
<1>5. QED
  BY <1>4 DEF Stream!StreamNext

\* A read arrives, ends the stream, or leaves what has arrived as it is.
LEMMA doReadActualRefines ==
  ASSUME PipeIInv, NEW reader, ServedReader(reader), doReadActual(reader),
         UNCHANGED <<received, writeSide>>
  PROVE  [Stream!StreamNext]_(Stream!streamVars)
<1>1. /\ UNCHANGED <<w, written, reported, leftover, wEnd, received>>
      /\ rEnd = "none" /\ r.valid /\ reader \in ReadEndType /\ reader.buf = r.buf
      /\ r.buf \in Seq(Nat) /\ pipe.bytes \in Seq(Nat) /\ received \in Seq(Nat)
      /\ written \in Nat
  BY SizeAssumption
     DEF ServedReader, writeSide, PipeIInv, PipeTypes, ReaderShape, ReadEndType, PipeType
<1>2. /\ Len(r.buf) \in Nat /\ Len(pipe.bytes) \in Nat /\ Len(received) \in Nat
      /\ pendingFreeSize \in Nat
  BY <1>1, SizeAssumption DEF pendingFreeSize, PipeIInv, ReaderShape
<1>3. /\ ReadSize \in 0 .. Len(pipe.bytes)
      /\ pendingFreeSize > 0 /\ ReadSize = 0 => pipe.bytes = <<>>
  BY <1>1, <1>2, EmptySeq DEF ReadSize
<1>4. CASE r' = [reader EXCEPT !.canRead = TRUE] /\ UNCHANGED <<pipe, told, rEnd>>
  <2>1. r'.buf = r.buf
    BY <1>1, <1>4 DEF ReadEndType
  <2>2. QED
    BY <1>1, <1>4, <2>1 DEF Stream!streamVars
<1>5. CASE /\ ReadSize > 0
           /\ r' = [reader EXCEPT !.buf = @ \o SubSeq(pipe.bytes, 1, ReadSize),
                               !.blockReadNotify = FALSE]
           /\ UNCHANGED rEnd
  <2> DEFINE part == SubSeq(pipe.bytes, 1, ReadSize)
             arrived == received \o r.buf
             n == ReadSize
  <2>1. r'.buf = r.buf \o part
    BY <1>1, <1>5 DEF ReadEndType
  <2>2. /\ arrived \in Seq(Nat) /\ Len(arrived) = Len(received) + Len(r.buf) /\ Len(arrived) \in Nat
    BY <1>2, ArrivedRow
  <2>3. part \in Seq(Nat) /\ part = Positions(Len(arrived), n)
    <3>1. pipe.bytes = Positions(Len(received) + Len(r.buf), Len(pipe.bytes))
      BY <1>1 DEF PipeIInv, ReadInOrder
    <3> DEFINE from == Len(received) + Len(r.buf)
               bytes == pipe.bytes
               k == ReadSize
    <3>2. /\ from \in Nat /\ bytes \in Seq(Nat) /\ bytes = Positions(from, Len(bytes))
          /\ k \in 0 .. Len(bytes)
      BY <1>1, <1>2, <1>3, <3>1
    <3> HIDE DEF from, bytes, k
    <3>3. SubSeq(bytes, 1, k) \in Seq(Nat) /\ SubSeq(bytes, 1, k) = Positions(from, k)
      BY <3>2, RowCut
    <3>4. QED
      BY <2>2, <3>3 DEF from, bytes, k
  <2>4. (received \o r.buf)' = arrived \o part
    <3> HIDE DEF part
    <3>1. received \o (r.buf \o part) = (received \o r.buf) \o part
      BY <1>1, <2>3, JoinedTwice, ZenonT(40)
    <3>2. (received \o r.buf)' = received \o (r.buf \o part)
      BY <1>1, <2>1
    <3>3. QED
      BY <3>1, <3>2
  <2>5. n \in 1 .. (written - Len(arrived))
    <3>1. Len(received) + Len(r.buf) + Len(pipe.bytes) <= written
      BY <1>1 DEF PipeIInv, ReadInOrder, Accepted
    <3>2. n \in Nat /\ n >= 1 /\ n <= Len(pipe.bytes)
      BY <1>2, <1>3, <1>5
    <3> DEFINE here == Len(arrived)
               inPipe == Len(pipe.bytes)
    <3>3. here \in Nat /\ inPipe \in Nat /\ written \in Nat /\ here + inPipe <= written
      BY <1>1, <1>2, <2>2, <3>1
    <3>4. n <= inPipe
      BY <3>2
    <3> HIDE DEF n, here, inPipe
    <3>5. n \in 1 .. (written - here)
      BY <3>2, <3>3, <3>4
    <3>6. QED
      BY <3>5 DEF here
  <2> HIDE DEF part, n, arrived
  <2>6. part = [i \in 1 .. n |-> Len(arrived) + i]
    BY <2>3 DEF Positions
  <2>7. Stream!Arrive
    BY <1>1, <1>5, <2>4, <2>5, <2>6 DEF Stream!Arrive, arrived
  <2>8. QED
    BY <2>7 DEF Stream!StreamNext
<1>6. CASE pendingFreeSize > 0 /\ ReadSize = 0 /\ EndReadSession("broken")
  <2>1. pipe.bytes = <<>> /\ ~pipe.wOpen
    BY <1>3, <1>6 DEF ServedReader
  <2>2. rEnd' = "broken" /\ r'.buf = r.buf
    BY <1>6 DEF EndReadSession, ReadSessionEnded, ReadEnd
  <2>3. wEnd # "none"
    BY <2>1 DEF PipeIInv, WriterShape
  <2>4. wEnd = "closed" => Len(received \o r.buf) = written
    <3> SUFFICES ASSUME wEnd = "closed" PROVE Len(received \o r.buf) = written
      OBVIOUS
    <3>1. /\ reported + Len(w.buf) + Len(leftover) = written /\ w.buf = <<>> /\ leftover = <<>>
          /\ Accepted = reported + w.lastWrite /\ w.lastWrite <= Len(w.buf)
          /\ w.lastWrite \in Nat /\ reported \in Nat
      BY <1>1 DEF PipeIInv, WrittenInOrder, WriterShape, PipeTypes, WriteEndType
    <3>2. Len(<<>>) = 0
      OBVIOUS
    <3>3. w.lastWrite = 0 /\ reported = written /\ Accepted = written
      BY <3>1, <3>2
    <3>4. Accepted = Len(received) + Len(r.buf) + 0
      BY <2>1, <3>2 DEF Accepted
    <3>5. QED
      BY <1>2, <3>3, <3>4, ArrivedRow
  <2>5. Stream!EndSink
    BY <1>1, <2>2, <2>3, <2>4 DEF Stream!EndSink
  <2>6. QED
    BY <2>5 DEF Stream!StreamNext
<1>7. QED
  BY <1>4, <1>5, <1>6 DEF doReadActual

LEMMA ServedReadRefines ==
  ASSUME PipeIInv, readNotify \/ doRead
  PROVE  [Stream!StreamNext]_(Stream!streamVars)
<1>1. r \in ReadEndType
  BY DEF PipeIInv, PipeTypes
<1>2. CASE readNotify
  <2> DEFINE reader == [r EXCEPT !.blockReadNotify = TRUE]
  <2>1. /\ r.valid /\ (pipe.bytes # <<>> \/ ~pipe.wOpen) /\ ~r.blockReadNotify
        /\ doReadActual(reader) /\ UNCHANGED <<received, writeSide>>
    BY <1>2 DEF readNotify
  <2>2. ~r.canRead /\ "read" \notin r.timers
    BY <2>1 DEF PipeIInv, ReaderShape
  <2>3. ServedReader(reader)
    BY <1>1, <2>1, <2>2 DEF ServedReader, ReadEndType
  <2> HIDE DEF reader
  <2>4. QED
    BY <2>1, <2>3, doReadActualRefines
<1>3. CASE doRead
  <2> DEFINE reader == [r EXCEPT !.timers = @ \ {"read"}]
  <2>1. /\ "read" \in r.timers
        /\ doReadActual(reader) /\ UNCHANGED <<received, writeSide>>
    BY <1>3 DEF doRead
  <2>2. /\ r.valid /\ ~r.canRead /\ r.blockReadNotify
        /\ pipe.bytes # <<>> \/ ~pipe.wOpen
    BY <2>1 DEF PipeIInv, ReaderShape
  <2>3. ServedReader(reader)
    BY <1>1, <2>1, <2>2 DEF ServedReader, ReadEndType
  <2> HIDE DEF reader
  <2>4. QED
    BY <2>1, <2>3, doReadActualRefines
<1>4. QED
  BY <1>2, <1>3

\* Handing bytes to the program moves nothing that has arrived.
LEMMA readRefines ==
  ASSUME PipeIInv, NEW n \in 0 .. Len(r.buf), read(n)
  PROVE  [Stream!StreamNext]_(Stream!streamVars)
<1> DEFINE part == SubSeq(r.buf, 1, n)
           rest == SubSeq(r.buf, n + 1, Len(r.buf))
<1>1. /\ UNCHANGED <<written, wEnd, rEnd>>
      /\ received' = received \o part /\ r' = setupNextRead([r EXCEPT !.buf = rest])
  BY DEF read, writeSide
<1>2. /\ r \in ReadEndType /\ r.buf \in Seq(Nat) /\ received \in Seq(Nat)
  BY DEF PipeIInv, PipeTypes, ReadEndType
<1>3. /\ part \in Seq(Nat) /\ rest \in Seq(Nat) /\ r.buf = part \o rest
  <2> DEFINE all == r.buf
  <2>1. all \in Seq(Nat) /\ Len(all) \in Nat /\ n \in 0 .. Len(all)
    BY <1>2
  <2> HIDE DEF all
  <2>2. n \in Nat /\ n <= Len(all)
    BY <2>1
  <2>3. /\ SubSeq(all, 1, n) \in Seq(Nat) /\ Len(SubSeq(all, 1, n)) = n
        /\ SubSeq(all, n + 1, Len(all)) \in Seq(Nat)
        /\ Len(SubSeq(all, n + 1, Len(all))) = Len(all) - n
    BY <2>1, <2>2
  <2>4. SubSeq(all, 1, n) \o SubSeq(all, n + 1, Len(all)) = all
    BY <2>1, CutInTwo
  <2>5. QED
    BY <2>3, <2>4 DEF all
<1> HIDE DEF part, rest
<1>4. r'.buf = rest
  BY <1>1, <1>2 DEF setupNextRead, ReadEndType
<1>5. (received \o part) \o rest = received \o (part \o rest)
  BY <1>2, <1>3, JoinedTwice
<1>6. (received \o r.buf)' = received \o r.buf
  BY <1>1, <1>3, <1>4, <1>5
<1>7. QED
  BY <1>1, <1>6 DEF Stream!streamVars

LEMMA ReadEndRefines ==
  ASSUME PipeIInv, PipeIInv',
         NextReadEnd \/ closeRead \/ doCloseRead \/ releaseRead \/ resetRead \/ finalize
  PROVE  [Stream!StreamNext]_(Stream!streamVars)
<1>1. CASE readNotify \/ doRead
  BY <1>1, ServedReadRefines
<1>2. CASE readSome \/ readAll
  <2>1. Len(r.buf) \in Nat
    BY DEF PipeIInv, PipeTypes, ReadEndType
  <2>2. PICK n \in 0 .. Len(r.buf) : read(n)
    BY <1>2, <2>1 DEF readSome, readAll
  <2>3. QED
    BY <2>2, readRefines
<1>3. CASE closeRead
  <2>1. UNCHANGED <<written, wEnd, rEnd, received>> /\ r'.buf = r.buf
    BY <1>3 DEF closeRead, writeSide, PipeIInv, PipeTypes, ReadEndType
  <2>2. QED
    BY <2>1 DEF Stream!streamVars
<1>4. CASE doCloseRead \/ releaseRead \/ resetRead \/ finalize
  <2>1. UNCHANGED writeSide /\ rEnd' \in {"closed", "released", "reset", "finalized"}
    BY <1>4 DEF doCloseRead, releaseRead, resetRead, finalize, EndReadSession
  <2>2. r.valid
    BY <1>4 DEF doCloseRead, releaseRead, resetRead, finalize, PipeIInv, ReaderShape
  <2>3. rEnd = "none"
    BY <2>2 DEF PipeIInv, ReaderShape
  <2>4. QED
    BY <2>1, <2>3, LeaveRefines
<1>5. QED
  BY <1>1, <1>2, <1>3, <1>4 DEF NextReadEnd

\* Whatever the sizes of blocks, buffers and pipe, and however timers, notifiers and
\* calls fall, the two ends behave as one stream of bytes: what arrives was written and
\* comes in order, and the end is told after the last byte of a writer that closed.
THEOREM PipeIsStream == PipeSpec => ImplementsStream
<1>1. PipeIInv /\ PipeIInv' /\ [PipeNext]_pipeVars => [Stream!StreamNext]_(Stream!streamVars)
  <2> SUFFICES ASSUME PipeIInv, PipeIInv', [PipeNext]_pipeVars
               PROVE  [Stream!StreamNext]_(Stream!streamVars)
    OBVIOUS
  <2>1. CASE UNCHANGED pipeVars
    BY <2>1 DEF pipeVars, Stream!streamVars
  <2>2. CASE PipeNext
    BY <2>2, WriteEndRefines, ReadEndRefines
       DEF PipeNext, NextWriteEnd, Leaving
  <2>3. QED
    BY <2>1, <2>2
<1>2. QED
  BY <1>1, PipeInitRefines, PipeInvariant, PTL DEF PipeSpec, ImplementsStream, Stream!StreamSpec

-----------------------------------------------------------------------------
(***************************************************************************)
(* SecureMessage: the message, its context, gpg and the prompt agree, for  *)
(* any number of operations, updates and prompts.                          *)
(***************************************************************************)
Events == {"bytesWritten", "readyRead", "needPassphrase", "finished"}
Signals == {"readyRead", "bytesWritten", "finished"}

\* The fields of the records, and the types of those that are counted or listed.
Message(msg) ==
  /\ msg = [in |-> msg.in, success |-> msg.success, sig |-> msg.sig, args |-> msg.args,
             timers |-> msg.timers]
  /\ msg.args \in Seq(Nat) /\ msg.timers \subseteq Signals

Context(ctx) ==
  /\ ctx = [op |-> ctx.op, sig |-> ctx.sig, finished |-> ctx.finished, ok |-> ctx.ok,
            out |-> ctx.out, wrote |-> ctx.wrote]
  /\ ctx.wrote \in Nat

MessageShape ==
  /\ Message(sm) /\ Context(c)
  /\ op = [act |-> op.act, result |-> op.result, success |-> op.success,
           waiting |-> op.waiting, events |-> op.events]
  /\ op.events \in Seq(Events)
  /\ act = [need_submitPassphrase |-> act.need_submitPassphrase, posted |-> act.posted]
  /\ act.posted \in Nat
  /\ gpg = [state |-> gpg.state, pending |-> gpg.pending, output |-> gpg.output,
            prompts |-> gpg.prompts]
  /\ gpg.pending \in Nat /\ gpg.state \in {"off", "runs", "asks"}
  /\ app = [phase |-> app.phase, ops |-> app.ops, updates |-> app.updates, sig |-> app.sig,
            detached |-> app.detached, told |-> app.told, accepted |-> app.accepted,
            reported |-> app.reported, read |-> app.read, late |-> app.late]
  /\ app.phase \in {"idle", "input", "ended"} /\ app.told \in Nat

\* An event is in the list of GpgOp.
InList(e) == \E i \in DOMAIN op.events : op.events[i] = e

\* GpgOp, its action and its gpg are there together; one that has gone leaves nothing.
ActOfGpg ==
  /\ op.act <=> gpg.state # "off"
  /\ act.need_submitPassphrase <=> gpg.state = "asks"
  /\ gpg.state = "off" => gpg.pending = 0
  /\ op.success => ~op.act
  /\ pc = "wait" <=> op.waiting

\* A prompt of gpg is in one place: posted, in the list, or with the user.
OnePrompt ==
  /\ act.posted <= 1
  /\ act.posted > 0 => gpg.state = "asks" /\ asker = "idle" /\ ~InList("needPassphrase")
  /\ InList("needPassphrase") => gpg.state = "asks" /\ asker = "idle"
  /\ asker # "idle" => gpg.state = "asks"
  /\ \A i, j \in DOMAIN op.events :
       op.events[i] = "needPassphrase" /\ op.events[j] = "needPassphrase" => i = j

\* The end of gpg is the last event, and comes once.
FinishedIsLast ==
  InList("finished") =>
    /\ ~op.act
    /\ \A i \in DOMAIN op.events : op.events[i] = "finished" <=> i = Len(op.events)

\* An operation that gpg works on, or whose end the program has still to look at.
Open == op.act \/ InList("finished")

OpenIsUntold ==
  /\ Open => app.told = 0 /\ "finished" \notin sm.timers /\ app.phase # "idle"
  /\ op.act => ~c.finished
  /\ "finished" \in sm.timers => app.told = 0
  /\ app.told <= 1

\* What finished() will say, or has said, has its output.
OutputFollows ==
  /\ "bytesWritten" \in sm.timers => sm.args # <<>>
  /\ ("finished" \in sm.timers \/ app.told > 0) /\ sm.success /\ c.op # "sign" =>
       app.read \/ (sm.in /\ "readyRead" \in sm.timers)

Places == pc \in {"loop", "code", "step", "wait", "ask"}

MessageInv ==
  /\ MessageShape /\ Places /\ ActOfGpg /\ OnePrompt
  /\ FinishedIsLast /\ OpenIsUntold /\ OutputFollows

-----------------------------------------------------------------------------
\* What updated() does to the message and its context.
LEMMA UpdatedDoes ==
  ASSUME MessageShape, NEW ctx, Context(ctx), updated(ctx)
  PROVE  /\ Message(sm') /\ Context(c')
         /\ c'.op = ctx.op /\ c'.finished = ctx.finished
         /\ "finished" \in sm'.timers <=> ctx.finished \/ "finished" \in sm.timers
         /\ ctx.finished => sm'.success = ctx.ok
         /\ ctx.out => sm'.in /\ "readyRead" \in sm'.timers
         /\ ~ctx.finished => /\ sm'.success = sm.success /\ (sm.in => sm'.in)
                            /\ sm.timers \subseteq sm'.timers
         /\ ("bytesWritten" \in sm.timers => sm.args # <<>>)
              => ("bytesWritten" \in sm'.timers => sm'.args # <<>>)
<1> DEFINE kept == IF ctx.finished
                   THEN [sm EXCEPT !.args = <<>>, !.timers = {}, !.success = ctx.ok,
                                   !.sig = IF ctx.ok THEN ctx.sig ELSE @]
                   ELSE sm
           signals == (IF ctx.out THEN {"readyRead"} ELSE {})
                        \union (IF ctx.wrote > 0 THEN {"bytesWritten"} ELSE {})
                        \union (IF ctx.finished THEN {"finished"} ELSE {})
           new == IF ctx.wrote > 0 THEN <<ctx.wrote>> ELSE <<>>
           taken == [ctx EXCEPT !.out = FALSE, !.wrote = 0]
<1>1. /\ sm' = [kept EXCEPT !.in = @ \/ ctx.out, !.args = @ \o new, !.timers = @ \union signals]
      /\ c' = IF ctx.finished THEN ContextReset(taken) ELSE taken
  BY DEF updated
<1>2. Message(kept) /\ signals \subseteq Signals /\ new \in Seq(Nat)
  <2>1. ASSUME ctx.finished PROVE Message(kept)
    <3>1. <<>> \in Seq(Nat) /\ {} \subseteq Signals
      OBVIOUS
    <3>2. QED
      BY <2>1, <3>1 DEF MessageShape, Message
  <2>2. ASSUME ~ctx.finished PROVE Message(kept)
    BY <2>2 DEF MessageShape
  <2>3. signals \subseteq Signals
    BY DEF Signals
  <2>4. new \in Seq(Nat)
    BY DEF Context
  <2>5. QED
    BY <2>1, <2>2, <2>3, <2>4
<1>3. Context(c') /\ c'.op = ctx.op /\ c'.finished = ctx.finished
  BY <1>1 DEF Context, ContextReset
<1> HIDE DEF kept, signals, new
<1>4. /\ Message(sm') /\ sm'.in = (kept.in \/ ctx.out) /\ sm'.success = kept.success
      /\ sm'.args = kept.args \o new /\ sm'.timers = kept.timers \union signals
  <2>1. kept.args \o new \in Seq(Nat) /\ kept.timers \union signals \subseteq Signals
    BY <1>2 DEF Message
  <2>2. QED
    BY <1>1, <1>2, <2>1 DEF Message
<1>5. /\ kept.success = (IF ctx.finished THEN ctx.ok ELSE sm.success) /\ kept.in = sm.in
      /\ kept.timers = (IF ctx.finished THEN {} ELSE sm.timers)
      /\ kept.args = (IF ctx.finished THEN <<>> ELSE sm.args)
  BY DEF kept, MessageShape, Message
<1>6. /\ "finished" \in signals <=> ctx.finished
      /\ ctx.out => "readyRead" \in signals
      /\ "bytesWritten" \in signals => new # <<>>
  BY DEF signals, new
<1>7. new # <<>> => sm'.args # <<>>
  BY <1>2, <1>4 DEF Message
<1>8. ("bytesWritten" \in sm.timers => sm.args # <<>>)
        => ("bytesWritten" \in sm'.timers => sm'.args # <<>>)
  <2>1. ~ctx.finished /\ sm.args # <<>> => sm'.args # <<>>
    BY <1>2, <1>4, <1>5 DEF Message
  <2>2. QED
    BY <1>4, <1>5, <1>6, <1>7, <2>1
<1>9. QED
  BY <1>3, <1>4, <1>5, <1>6, <1>8

\* What an event that is appended to the list changes.
LEMMA EventAppended ==
  ASSUME MessageShape, NEW e \in Events, op'.events = Append(op.events, e)
  PROVE  /\ op'.events \in Seq(Events)
         /\ Len(op'.events) = Len(op.events) + 1
         /\ \A i \in DOMAIN op'.events :
              op'.events[i] = IF i = Len(op.events) + 1 THEN e ELSE op.events[i]
         /\ DOMAIN op'.events = 1 .. Len(op.events) + 1 /\ DOMAIN op.events = 1 .. Len(op.events)
         /\ \A x : InList(x)' <=> InList(x) \/ x = e
<1>1. op.events \in Seq(Events)
  BY DEF MessageShape
<1>2. QED
  BY <1>1 DEF InList

\* What taking the first event changes.
LEMMA EventTaken ==
  ASSUME MessageShape, op.events # <<>>, op'.events = Tail(op.events)
  PROVE  /\ op'.events \in Seq(Events) /\ Head(op.events) \in Events
         /\ InList(Head(op.events))
         /\ Len(op'.events) = Len(op.events) - 1
         /\ DOMAIN op'.events = 1 .. Len(op.events) - 1 /\ DOMAIN op.events = 1 .. Len(op.events)
         /\ \A i \in DOMAIN op'.events : op'.events[i] = op.events[i + 1]
         /\ \A x : InList(x)' => InList(x)
<1>1. op.events \in Seq(Events) /\ Len(op.events) \in Nat \ {0}
  BY DEF MessageShape
<1>2. QED
  BY <1>1 DEF InList

LEMMA T_bytesWrittenKeeps ==
  ASSUME Patient, MessageInv, t_bytesWritten
  PROVE  MessageInv'
<1> USE DEF MessageInv
<1>1. /\ sm' = [sm EXCEPT !.timers = @ \ {"bytesWritten"}, !.args = Tail(@)]
      /\ app' = [app EXCEPT !.reported = @ + Head(sm.args)]
      /\ UNCHANGED <<c, op, act, gpg, asker, pc>>
  BY DEF t_bytesWritten
<1>2. sm.args # <<>>
  BY DEF t_bytesWritten, OutputFollows
<1>3. Tail(sm.args) \in Seq(Nat)
  BY <1>2 DEF MessageShape, Message
<1>4. MessageShape' /\ sm'.timers = sm.timers \ {"bytesWritten"} /\ sm'.in = sm.in
        /\ sm'.success = sm.success /\ app'.told = app.told /\ app'.phase = app.phase
        /\ app'.read = app.read
  BY <1>1, <1>3 DEF MessageShape, Message, Context
<1>5. Places' /\ ActOfGpg' /\ OnePrompt' /\ FinishedIsLast'
  BY <1>1 DEF Places, ActOfGpg, OnePrompt, FinishedIsLast, InList
<1>6. OpenIsUntold' /\ OutputFollows'
  BY <1>1, <1>4 DEF OpenIsUntold, OutputFollows, Open, InList
<1>7. QED
  BY <1>4, <1>5, <1>6

LEMMA T_finishedKeeps ==
  ASSUME Patient, MessageInv, t_finished
  PROVE  MessageInv'
<1> USE DEF MessageInv
<1>1. /\ sm' = [sm EXCEPT !.timers = @ \ {"finished"}]
      /\ app' = [app EXCEPT !.told = @ + 1, !.phase = "idle"]
      /\ UNCHANGED <<c, op, act, gpg, asker, pc>>
  BY DEF t_finished
<1>2. app.told = 0 /\ ~Open
  BY DEF t_finished, OpenIsUntold
<1>3. MessageShape' /\ sm'.timers = sm.timers \ {"finished"} /\ sm'.in = sm.in
        /\ sm'.success = sm.success /\ app'.told = app.told + 1 /\ app'.phase = "idle"
        /\ app'.read = app.read /\ sm'.args = sm.args
  <2>1. Message(sm') /\ sm'.timers = sm.timers \ {"finished"} /\ sm'.in = sm.in
        /\ sm'.success = sm.success /\ sm'.args = sm.args
    BY <1>1 DEF MessageShape, Message
  <2>2. /\ app' = [phase |-> "idle", ops |-> app.ops, updates |-> app.updates, sig |-> app.sig,
            detached |-> app.detached, told |-> app.told + 1, accepted |-> app.accepted,
            reported |-> app.reported, read |-> app.read, late |-> app.late]
    BY <1>1 DEF MessageShape
  <2>3. app.told + 1 \in Nat
    BY DEF MessageShape
  <2>4. QED
    BY <1>1, <2>1, <2>2, <2>3 DEF MessageShape
<1>4. Places' /\ ActOfGpg' /\ OnePrompt' /\ FinishedIsLast'
  BY <1>1 DEF Places, ActOfGpg, OnePrompt, FinishedIsLast, InList
<1>5. OpenIsUntold' /\ OutputFollows'
  BY <1>1, <1>2, <1>3 DEF OpenIsUntold, OutputFollows, Open, InList, t_finished
<1>6. QED
  BY <1>3, <1>4, <1>5

LEMMA StartSomeKeeps ==
  ASSUME Patient, MessageInv, startSome
  PROVE  MessageInv'
<1> USE DEF MessageInv
<1>1. PICK what \in {"encrypt", "sign", "verify"}, withSig \in BOOLEAN,
           then \in {"loop", "code"} : startOp(what, withSig, then)
  BY DEF startSome
<1>2. /\ app.phase = "idle" /\ pc' \in {"loop", "code"} /\ pc = "loop" /\ asker' = asker
      /\ sm' = [sm EXCEPT !.in = FALSE, !.success = FALSE, !.sig = "none", !.args = <<>>,
                          !.timers = {}]
      /\ c' = Started(what, withSig)
      /\ op' = [op EXCEPT !.act = TRUE, !.result = FALSE, !.success = FALSE, !.events = <<>>]
      /\ act' = NoAct /\ gpg' = [NoGpg EXCEPT !.state = "runs"]
  BY <1>1 DEF startOp
<1>3. ~Open /\ asker = "idle"
  BY <1>2 DEF OpenIsUntold, Open, ActOfGpg, OnePrompt
<1>4. /\ Message(sm') /\ sm'.timers = {} /\ sm'.success = FALSE
      /\ Context(c') /\ c'.finished = FALSE
  <2>1. sm' = [in |-> FALSE, success |-> FALSE, sig |-> "none", args |-> <<>>, timers |-> {}]
    BY <1>2 DEF MessageShape, Message
  <2>2. Context(c') /\ c'.finished = FALSE
    BY <1>2 DEF MessageShape, Context, Started, ContextReset
  <2>3. Message(sm')
    BY <2>1 DEF Message
  <2>4. QED
    BY <2>1, <2>2, <2>3
<1>5. /\ op' = [act |-> TRUE, result |-> FALSE, success |-> FALSE, waiting |-> op.waiting,
                events |-> <<>>]
      /\ act' = [need_submitPassphrase |-> FALSE, posted |-> 0]
      /\ gpg' = [state |-> "runs", pending |-> 0, output |-> FALSE, prompts |-> 0]
  BY <1>2 DEF MessageShape, NoAct, NoGpg
<1>6. app' = [app EXCEPT !.phase = "input", !.ops = @ + 1, !.updates = 0,
               !.sig = withSig, !.detached = (what = "verify" /\ c'.sig # "none"),
               !.told = 0, !.accepted = 0, !.reported = 0, !.read = FALSE, !.late = FALSE]
  BY <1>1 DEF startOp
<1>7. /\ app'.phase = "input" /\ app'.told = 0
      /\ app' = [phase |-> app'.phase, ops |-> app'.ops, updates |-> app'.updates, sig |-> app'.sig,
            detached |-> app'.detached, told |-> app'.told, accepted |-> app'.accepted,
            reported |-> app'.reported, read |-> app'.read, late |-> app'.late]
  BY <1>6 DEF MessageShape
<1>8. MessageShape'
  BY <1>4, <1>5, <1>7 DEF MessageShape
<1>9. Places' /\ ActOfGpg' /\ OnePrompt' /\ FinishedIsLast'
  BY <1>2, <1>3, <1>5 DEF Places, ActOfGpg, OnePrompt, FinishedIsLast, InList
<1>10. OpenIsUntold' /\ OutputFollows'
  BY <1>2, <1>4, <1>5, <1>7 DEF OpenIsUntold, OutputFollows, Open, InList
<1>11. QED
  BY <1>8, <1>9, <1>10

LEMMA UpdateKeeps ==
  ASSUME Patient, MessageInv, update
  PROVE  MessageInv'
<1> USE DEF MessageInv
<1>1. /\ app' = [app EXCEPT !.updates = @ + 1]
      /\ gpg' = IF op.act THEN [gpg EXCEPT !.pending = @ + 1] ELSE gpg
      /\ UNCHANGED <<sm, c, op, act, asker, pc>>
  BY DEF update
<1>2. MessageShape' /\ gpg'.state = gpg.state /\ (~op.act => gpg'.pending = gpg.pending)
        /\ app'.told = app.told /\ app'.phase = app.phase /\ app'.read = app.read
  <2>1. /\ gpg' = [state |-> gpg.state, pending |-> gpg'.pending, output |-> gpg.output,
                    prompts |-> gpg.prompts]
        /\ gpg'.pending \in Nat /\ (~op.act => gpg'.pending = gpg.pending)
    BY <1>1 DEF MessageShape
  <2>2. app' = [phase |-> app.phase, ops |-> app.ops, updates |-> app'.updates, sig |-> app.sig,
            detached |-> app.detached, told |-> app.told, accepted |-> app.accepted,
            reported |-> app.reported, read |-> app.read, late |-> app.late]
    BY <1>1 DEF MessageShape
  <2>3. QED
    BY <1>1, <2>1, <2>2 DEF MessageShape
<1>3. Places' /\ ActOfGpg' /\ OnePrompt' /\ FinishedIsLast'
  BY <1>1, <1>2 DEF Places, ActOfGpg, OnePrompt, FinishedIsLast, InList
<1>4. OpenIsUntold' /\ OutputFollows'
  BY <1>1, <1>2 DEF OpenIsUntold, OutputFollows, Open, InList
<1>5. QED
  BY <1>2, <1>3, <1>4

\* gpg does something that is either put into the list, when the program waits, or
\* handled at once.
LEMMA EventQueuedKeeps ==
  ASSUME MessageInv, NEW e \in {"bytesWritten", "readyRead"}, eventReady(e), op.act,
         gpg'.state = gpg.state, gpg'.pending \in Nat,
         gpg' = [state |-> gpg'.state, pending |-> gpg'.pending, output |-> gpg'.output,
                 prompts |-> gpg'.prompts],
         app' = [phase |-> app.phase, ops |-> app.ops, updates |-> app.updates, sig |-> app.sig,
            detached |-> app.detached, told |-> app.told, accepted |-> app'.accepted,
            reported |-> app.reported, read |-> app.read, late |-> app.late],
         UNCHANGED <<act, asker, pc>>
  PROVE  MessageInv'
<1> USE DEF MessageInv
<1>1. op' = [op EXCEPT !.events = Append(@, e)] /\ UNCHANGED <<sm, c>>
  BY DEF eventReady
<1>2. /\ op' = [act |-> op.act, result |-> op.result, success |-> op.success,
                waiting |-> op.waiting, events |-> Append(op.events, e)]
      /\ op'.events = Append(op.events, e)
  BY <1>1 DEF MessageShape
<1>3. e \in Events /\ e # "finished" /\ e # "needPassphrase"
  BY DEF Events
<1>4. /\ op'.events \in Seq(Events)
      /\ \A x : InList(x)' <=> InList(x) \/ x = e
      /\ DOMAIN op'.events = 1 .. Len(op.events) + 1 /\ DOMAIN op.events = 1 .. Len(op.events)
      /\ Len(op.events) \in Nat
      /\ \A i \in DOMAIN op'.events :
              op'.events[i] = IF i = Len(op.events) + 1 THEN e ELSE op.events[i]
  <2>1. Len(op.events) \in Nat
    BY DEF MessageShape
  <2>2. QED
    BY <1>2, <1>3, <2>1, EventAppended, Zenon
<1>5. MessageShape'
  <2>1. /\ app' = [phase |-> app'.phase, ops |-> app'.ops, updates |-> app'.updates,
                   sig |-> app'.sig, detached |-> app'.detached, told |-> app'.told,
                   accepted |-> app'.accepted, reported |-> app'.reported, read |-> app'.read,
                   late |-> app'.late]
        /\ app'.phase = app.phase /\ app'.told = app.told
    OBVIOUS
  <2>2. QED
    BY <1>1, <1>2, <1>4, <2>1 DEF MessageShape
<1>6. Places' /\ ActOfGpg'
  BY <1>2 DEF Places, ActOfGpg
<1>7. ~InList("finished")
  BY DEF FinishedIsLast
<1>8. FinishedIsLast'
  BY <1>3, <1>4, <1>7 DEF FinishedIsLast
<1>9. OnePrompt'
  <2>1. \A i \in DOMAIN op'.events : op'.events[i] = "needPassphrase" =>
           i \in DOMAIN op.events /\ op.events[i] = "needPassphrase"
    BY <1>3, <1>4
  <2>2. \A i, j \in DOMAIN op'.events :
           op'.events[i] = "needPassphrase" /\ op'.events[j] = "needPassphrase" => i = j
    BY <2>1 DEF OnePrompt
  <2>3. InList("needPassphrase")' <=> InList("needPassphrase")
    BY <1>3, <1>4
  <2>4. QED
    BY <2>2, <2>3 DEF OnePrompt
<1>10. OpenIsUntold' /\ OutputFollows'
  <2>1. Open' <=> Open
    BY <1>2, <1>3, <1>4 DEF Open
  <2>2. app'.told = app.told /\ app'.phase = app.phase /\ app'.read = app.read /\ op'.act = op.act
    BY <1>2
  <2>3. QED
    BY <1>1, <2>1, <2>2 DEF OpenIsUntold, OutputFollows
<1>11. QED
  BY <1>5, <1>6, <1>8, <1>9, <1>10

LEMMA BytesWrittenKeeps ==
  ASSUME Patient, MessageInv, bytesWritten
  PROVE  MessageInv'
<1> USE DEF MessageInv
<1>1. /\ gpg.pending > 0 /\ gpg' = [gpg EXCEPT !.pending = @ - 1]
      /\ app' = [app EXCEPT !.accepted = @ + 1]
      /\ UNCHANGED <<act, asker, pc>>
  BY DEF bytesWritten
<1>2. /\ gpg'.state = gpg.state /\ gpg'.pending \in Nat
      /\ gpg' = [state |-> gpg'.state, pending |-> gpg'.pending, output |-> gpg'.output,
                 prompts |-> gpg'.prompts]
      /\ app' = [phase |-> app.phase, ops |-> app.ops, updates |-> app.updates, sig |-> app.sig,
            detached |-> app.detached, told |-> app.told, accepted |-> app'.accepted,
            reported |-> app.reported, read |-> app.read, late |-> app.late]
  BY <1>1 DEF MessageShape
<1>3. op.act
  BY <1>1 DEF ActOfGpg, MessageShape
<1>4. CASE op.waiting /\ eventReady("bytesWritten")
  BY <1>1, <1>2, <1>3, <1>4, EventQueuedKeeps
<1>5. CASE c' = [c EXCEPT !.wrote = @ + 1] /\ UNCHANGED <<sm, op>>
  <2>1. Context(c') /\ c'.finished = c.finished /\ c'.op = c.op
    BY <1>5 DEF MessageShape, Context
  <2>2. MessageShape' /\ app'.told = app.told /\ app'.phase = app.phase /\ app'.read = app.read
    BY <1>1, <1>2, <1>5, <2>1 DEF MessageShape
  <2>3. Places' /\ ActOfGpg' /\ OnePrompt' /\ FinishedIsLast'
    BY <1>1, <1>2, <1>3, <1>5 DEF Places, ActOfGpg, OnePrompt, FinishedIsLast, InList
  <2>4. OpenIsUntold' /\ OutputFollows'
    BY <1>5, <2>1, <2>2 DEF OpenIsUntold, OutputFollows, Open, InList
  <2>5. QED
    BY <2>2, <2>3, <2>4
<1>6. QED
  BY <1>4, <1>5 DEF bytesWritten

LEMMA ReadyReadKeeps ==
  ASSUME Patient, MessageInv, readyRead
  PROVE  MessageInv'
<1> USE DEF MessageInv
<1>1. /\ gpg.state = "runs" /\ gpg' = [gpg EXCEPT !.output = TRUE]
      /\ UNCHANGED <<act, asker, pc, app>>
  BY DEF readyRead
<1>2. /\ gpg'.state = gpg.state /\ gpg'.pending = gpg.pending
      /\ gpg' = [state |-> gpg'.state, pending |-> gpg'.pending, output |-> gpg'.output,
                 prompts |-> gpg'.prompts]
  BY <1>1 DEF MessageShape
<1>3. op.act
  BY <1>1 DEF ActOfGpg
<1>4. CASE op.waiting /\ eventReady("readyRead")
  <2>1. gpg'.pending \in Nat
    BY <1>2 DEF MessageShape
  <2>2. app' = [phase |-> app.phase, ops |-> app.ops, updates |-> app.updates, sig |-> app.sig,
            detached |-> app.detached, told |-> app.told, accepted |-> app'.accepted,
            reported |-> app.reported, read |-> app.read, late |-> app.late]
    BY <1>1 DEF MessageShape
  <2>3. QED
    BY <1>1, <1>2, <1>3, <1>4, <2>1, <2>2, EventQueuedKeeps
<1>5. CASE updated(c) /\ UNCHANGED op
  <2>1. /\ Message(sm') /\ Context(c') /\ c'.op = c.op /\ c'.finished = c.finished
        /\ ~c.finished
        /\ "finished" \in sm'.timers <=> "finished" \in sm.timers
        /\ sm'.success = sm.success /\ (sm.in => sm'.in) /\ sm.timers \subseteq sm'.timers
        /\ "bytesWritten" \in sm'.timers => sm'.args # <<>>
    <3>1. ~c.finished /\ ("bytesWritten" \in sm.timers => sm.args # <<>>)
      BY <1>3 DEF OpenIsUntold, OutputFollows
    <3>2. Context(c)
      BY DEF MessageShape
    <3>3. QED
      BY <1>5, <3>1, <3>2, UpdatedDoes
  <2>2. MessageShape'
    BY <1>1, <1>2, <1>5, <2>1 DEF MessageShape
  <2>3. Places' /\ ActOfGpg' /\ OnePrompt' /\ FinishedIsLast'
    BY <1>1, <1>2, <1>3, <1>5 DEF Places, ActOfGpg, OnePrompt, FinishedIsLast, InList
  <2>4. OpenIsUntold' /\ OutputFollows'
    BY <1>1, <1>5, <2>1 DEF OpenIsUntold, OutputFollows, Open, InList
  <2>5. QED
    BY <2>2, <2>3, <2>4
<1>6. QED
  BY <1>4, <1>5 DEF readyRead

LEMMA NeedPassphraseKeeps ==
  ASSUME Patient, MessageInv, needPassphrase
  PROVE  MessageInv'
<1> USE DEF MessageInv
<1>1. /\ act.posted > 0 /\ act' = [act EXCEPT !.posted = @ - 1]
      /\ UNCHANGED <<gpg, pc, app>>
  BY DEF needPassphrase
<1>2. /\ gpg.state = "asks" /\ asker = "idle" /\ ~InList("needPassphrase") /\ act.posted = 1
      /\ op.act /\ ~InList("finished")
  BY <1>1 DEF OnePrompt, ActOfGpg, MessageShape, FinishedIsLast
<1>3. act' = [need_submitPassphrase |-> act.need_submitPassphrase, posted |-> 0]
  BY <1>1, <1>2 DEF MessageShape
<1>4. CASE op.waiting /\ eventReady("needPassphrase") /\ UNCHANGED asker
  <2>1. op' = [op EXCEPT !.events = Append(@, "needPassphrase")] /\ UNCHANGED <<sm, c>>
    BY <1>4 DEF eventReady
  <2>2. /\ op' = [act |-> op.act, result |-> op.result, success |-> op.success,
                  waiting |-> op.waiting, events |-> Append(op.events, "needPassphrase")]
        /\ op'.events = Append(op.events, "needPassphrase")
    BY <2>1 DEF MessageShape
  <2>3. "needPassphrase" \in Events
    BY DEF Events
  <2>4. /\ op'.events \in Seq(Events)
        /\ \A x : InList(x)' <=> InList(x) \/ x = "needPassphrase"
        /\ DOMAIN op'.events = 1 .. Len(op.events) + 1 /\ DOMAIN op.events = 1 .. Len(op.events)
        /\ \A i \in DOMAIN op'.events :
             op'.events[i] = IF i = Len(op.events) + 1 THEN "needPassphrase" ELSE op.events[i]
    BY <2>2, <2>3, EventAppended, Zenon
  <2>5. Len(op.events) \in Nat
    BY DEF MessageShape
  <2>6. MessageShape'
    <3>1. act' = [need_submitPassphrase |-> act'.need_submitPassphrase, posted |-> act'.posted]
          /\ act'.posted \in Nat
      BY <1>3
    <3>2. op' = [act |-> op'.act, result |-> op'.result, success |-> op'.success,
                 waiting |-> op'.waiting, events |-> op'.events]
      BY <2>2
    <3>3. QED
      BY <1>1, <2>1, <2>4, <3>1, <3>2 DEF MessageShape
  <2>7. Places' /\ ActOfGpg' /\ FinishedIsLast'
    BY <1>1, <1>2, <1>3, <2>2, <2>4 DEF Places, ActOfGpg, FinishedIsLast
  <2>8. OnePrompt'
    <3>1. \A i \in DOMAIN op'.events : op'.events[i] = "needPassphrase" => i = Len(op.events) + 1
      BY <1>2, <2>4, <2>5 DEF InList
    <3>2. QED
      BY <1>1, <1>2, <1>3, <1>4, <3>1 DEF OnePrompt
  <2>9. OpenIsUntold' /\ OutputFollows'
    BY <1>1, <2>1, <2>2, <2>4 DEF OpenIsUntold, OutputFollows, Open
  <2>10. QED
    BY <2>6, <2>7, <2>8, <2>9
<1>5. CASE asker' = "asked" /\ UNCHANGED <<sm, c, op>>
  <2>1. MessageShape'
    BY <1>1, <1>3, <1>5 DEF MessageShape
  <2>2. Places' /\ ActOfGpg' /\ OnePrompt' /\ FinishedIsLast'
    BY <1>1, <1>2, <1>3, <1>5 DEF Places, ActOfGpg, OnePrompt, FinishedIsLast, InList
  <2>3. OpenIsUntold' /\ OutputFollows'
    BY <1>1, <1>5 DEF OpenIsUntold, OutputFollows, Open, InList
  <2>4. QED
    BY <2>1, <2>2, <2>3
<1>6. QED
  BY <1>4, <1>5 DEF needPassphrase

LEMMA GetHiddenKeeps ==
  ASSUME Patient, MessageInv, getHidden
  PROVE  MessageInv'
<1> USE DEF MessageInv
<1>1. /\ gpg.state = "runs" /\ gpg' = [gpg EXCEPT !.state = "asks", !.prompts = @ + 1]
      /\ act' = [need_submitPassphrase |-> TRUE, posted |-> act.posted + 1]
      /\ UNCHANGED <<sm, c, op, asker, pc, app>>
  BY DEF getHidden
<1>2. act.posted = 0 /\ asker = "idle" /\ ~InList("needPassphrase") /\ op.act
  BY <1>1 DEF OnePrompt, ActOfGpg, MessageShape
<1>3. /\ act' = [need_submitPassphrase |-> TRUE, posted |-> 1]
      /\ gpg' = [state |-> "asks", pending |-> gpg.pending, output |-> gpg.output,
                 prompts |-> gpg.prompts + 1]
  <2>1. act.posted + 1 = 1
    BY <1>2
  <2>2. QED
    BY <1>1, <2>1 DEF MessageShape
<1>4. MessageShape'
  <2>1. /\ act' = [need_submitPassphrase |-> act'.need_submitPassphrase, posted |-> act'.posted]
        /\ act'.posted \in Nat
    BY <1>3
  <2>2. /\ gpg' = [state |-> gpg'.state, pending |-> gpg'.pending, output |-> gpg'.output,
                   prompts |-> gpg'.prompts]
        /\ gpg'.pending = gpg.pending /\ gpg'.state = "asks"
    BY <1>3
  <2>3. QED
    BY <1>1, <2>1, <2>2 DEF MessageShape
<1>5. Places' /\ ActOfGpg' /\ OnePrompt' /\ FinishedIsLast'
  BY <1>1, <1>2, <1>3 DEF Places, ActOfGpg, OnePrompt, FinishedIsLast, InList
<1>6. OpenIsUntold' /\ OutputFollows'
  BY <1>1 DEF OpenIsUntold, OutputFollows, Open, InList
<1>7. QED
  BY <1>4, <1>5, <1>6

\* What complete() and seterror() make of the context.
LEMMA CompleteDoes ==
  ASSUME NEW x, Context(x), NEW ok
  PROVE  LET done == complete(x, ok)
         IN /\ Context(done) /\ done.op = x.op /\ done.finished
            /\ done.ok /\ done.op # "sign" => done.out
<1> DEFINE done == complete(x, ok)
<1>1. done = [op |-> x.op, sig |-> done.sig, finished |-> TRUE, ok |-> ok,
              out |-> IF ok /\ x.op # "sign" THEN TRUE ELSE x.out, wrote |-> x.wrote]
  <2> DEFINE sig == IF ok /\ x.op = "sign" THEN "made" ELSE x.sig
             out == IF ok /\ x.op # "sign" THEN TRUE ELSE x.out
  <2>1. done = [x EXCEPT !.finished = TRUE, !.ok = ok, !.sig = sig, !.out = out]
    BY DEF complete
  <2>2. ASSUME NEW s, NEW o, NEW y,
               y = [x EXCEPT !.finished = TRUE, !.ok = ok, !.sig = s, !.out = o]
        PROVE  y = [op |-> x.op, sig |-> s, finished |-> TRUE, ok |-> ok, out |-> o,
                    wrote |-> x.wrote]
    BY <2>2 DEF Context
  <2> HIDE DEF sig, done
  <2>3. done = [op |-> x.op, sig |-> sig, finished |-> TRUE, ok |-> ok, out |-> out,
                wrote |-> x.wrote]
    <3> HIDE DEF out
    <3>1. QED
      BY <2>1, <2>2
  <2>4. done.sig = sig
    BY <2>3
  <2>5. QED
    BY <2>3, <2>4
<1> HIDE DEF done
<1>2. Context(done) /\ done.op = x.op /\ done.finished /\ done.ok = ok
  BY <1>1 DEF Context
<1>3. done.ok /\ done.op # "sign" => done.out
  BY <1>1, <1>2
<1>4. QED
  BY <1>2, <1>3 DEF done

LEMMA SetErrorDoes ==
  ASSUME Context(c)
  PROVE  Context(SetError) /\ SetError.op = c.op /\ SetError.finished /\ ~SetError.ok
<1>1. SetError = [op |-> c.op, sig |-> c.sig, finished |-> TRUE, ok |-> FALSE, out |-> c.out,
                  wrote |-> c.wrote]
  <2>1. SUFFICES ASSUME NEW y, y = [c EXCEPT !.finished = TRUE, !.ok = FALSE]
                 PROVE  y = [op |-> c.op, sig |-> c.sig, finished |-> TRUE, ok |-> FALSE,
                             out |-> c.out, wrote |-> c.wrote]
    BY DEF SetError
  <2>2. QED
    BY <2>1 DEF Context
<1>2. QED
  BY <1>1 DEF Context

\* The context is told of the end of its operation: all the ways to get there.
LEMMA EndKeeps ==
  ASSUME MessageInv, NEW ctx, Context(ctx), ctx.op = c.op, ctx.finished,
         ctx.ok /\ ctx.op # "sign" => ctx.out,
         updated(ctx), Open, app' = app, MessageShape', Places', ActOfGpg', OnePrompt',
         ~op'.act, ~InList("finished")'
  PROVE  MessageInv'
<1> USE DEF MessageInv
<1>1. /\ c'.op = c.op /\ c'.finished /\ "finished" \in sm'.timers
      /\ sm'.success = ctx.ok
      /\ ctx.out => sm'.in /\ "readyRead" \in sm'.timers
      /\ "bytesWritten" \in sm'.timers => sm'.args # <<>>
  BY UpdatedDoes DEF OutputFollows
<1>2. ~Open' /\ FinishedIsLast'
  BY DEF Open, FinishedIsLast
<1>3. OpenIsUntold' /\ OutputFollows'
  BY <1>1, <1>2 DEF OpenIsUntold, OutputFollows
<1>4. QED
  BY <1>2, <1>3

LEMMA GpgFinishedKeeps ==
  ASSUME Patient, MessageInv, NEW ok \in BOOLEAN, gpgFinished(ok)
  PROVE  MessageInv'
<1> USE DEF MessageInv
<1>1. /\ gpg.state = "runs" /\ gpg' = NoGpg /\ act' = NoAct
      /\ UNCHANGED <<asker, pc, app>>
  BY DEF gpgFinished
<1>2. /\ op.act /\ ~InList("finished") /\ act.posted = 0 /\ asker = "idle"
      /\ ~InList("needPassphrase")
  BY <1>1 DEF ActOfGpg, FinishedIsLast, OnePrompt, MessageShape
<1>3. /\ act' = [need_submitPassphrase |-> FALSE, posted |-> 0]
      /\ gpg' = [state |-> "off", pending |-> 0, output |-> FALSE, prompts |-> 0]
  BY <1>1 DEF NoAct, NoGpg
<1>4. EndedOp(ok) = [act |-> FALSE, result |-> ok, success |-> ok, waiting |-> op.waiting,
                     events |-> op.events]
  <2>1. SUFFICES ASSUME NEW y, y = [op EXCEPT !.act = FALSE, !.result = ok, !.success = ok]
                 PROVE  y = [act |-> FALSE, result |-> ok, success |-> ok,
                             waiting |-> op.waiting, events |-> op.events]
    BY DEF EndedOp
  <2>2. QED
    BY <2>1 DEF MessageShape
<1>5. CASE op.waiting /\ op' = [EndedOp(ok) EXCEPT !.events = Append(@, "finished")]
           /\ UNCHANGED <<sm, c>>
  <2>1. /\ op' = [act |-> FALSE, result |-> ok, success |-> ok, waiting |-> op.waiting,
                  events |-> Append(op.events, "finished")]
        /\ op'.events = Append(op.events, "finished")
    <3>1. ASSUME NEW o, o = EndedOp(ok), op' = [o EXCEPT !.events = Append(@, "finished")]
          PROVE  op' = [act |-> FALSE, result |-> ok, success |-> ok, waiting |-> op.waiting,
                        events |-> Append(op.events, "finished")]
      <4>1. o = [act |-> FALSE, result |-> ok, success |-> ok, waiting |-> op.waiting,
                 events |-> op.events]
        BY <1>4, <3>1
      <4>2. o = [act |-> o.act, result |-> o.result, success |-> o.success,
                 waiting |-> o.waiting, events |-> o.events]
        BY <4>1
      <4>3. op' = [act |-> o.act, result |-> o.result, success |-> o.success,
                   waiting |-> o.waiting, events |-> Append(o.events, "finished")]
        BY <3>1, <4>2
      <4>4. QED
        BY <4>1, <4>3
    <3>2. QED
      BY <1>5, <3>1
  <2>2. "finished" \in Events
    BY DEF Events
  <2>3. /\ op'.events \in Seq(Events)
        /\ \A x : InList(x)' <=> InList(x) \/ x = "finished"
        /\ Len(op'.events) = Len(op.events) + 1
        /\ DOMAIN op'.events = 1 .. Len(op.events) + 1 /\ DOMAIN op.events = 1 .. Len(op.events)
        /\ \A i \in DOMAIN op'.events :
             op'.events[i] = IF i = Len(op.events) + 1 THEN "finished" ELSE op.events[i]
    BY <2>1, <2>2, EventAppended, Zenon
  <2>4. Len(op.events) \in Nat
    BY DEF MessageShape
  <2>5. MessageShape'
    <3>1. op' = [act |-> op'.act, result |-> op'.result, success |-> op'.success,
                 waiting |-> op'.waiting, events |-> op'.events]
      BY <2>1
    <3>2. /\ act' = [need_submitPassphrase |-> act'.need_submitPassphrase, posted |-> act'.posted]
          /\ act'.posted \in Nat
      BY <1>3
    <3>3. /\ gpg' = [state |-> gpg'.state, pending |-> gpg'.pending, output |-> gpg'.output,
                     prompts |-> gpg'.prompts]
          /\ gpg'.pending \in Nat /\ gpg'.state = "off"
      BY <1>3
    <3>4. QED
      BY <1>1, <1>5, <2>3, <3>1, <3>2, <3>3 DEF MessageShape
  <2>6. Places' /\ ActOfGpg'
    BY <1>1, <1>3, <2>1 DEF Places, ActOfGpg
  <2>7. FinishedIsLast'
    BY <1>2, <2>1, <2>3, <2>4 DEF FinishedIsLast, InList
  <2>8. OnePrompt'
    <3>1. ~InList("needPassphrase")'
      BY <1>2, <2>3
    <3>2. QED
      BY <1>1, <1>2, <1>3, <3>1 DEF OnePrompt, InList
  <2>9. OpenIsUntold' /\ OutputFollows'
    BY <1>1, <1>2, <1>5, <2>1 DEF OpenIsUntold, OutputFollows, Open
  <2>10. QED
    BY <2>5, <2>6, <2>7, <2>8, <2>9
<1>6. CASE ~op.waiting /\ op' = EndedOp(ok) /\ updated(complete(c, ok))
  <2> DEFINE ctx == complete(c, ok)
  <2>1. /\ Context(ctx) /\ ctx.op = c.op /\ ctx.finished
        /\ ctx.ok /\ ctx.op # "sign" => ctx.out
    BY CompleteDoes DEF MessageShape
  <2> HIDE DEF ctx
  <2>2. updated(ctx)
    BY <1>6 DEF ctx
  <2>3. Message(sm') /\ Context(c')
    BY <2>1, <2>2, UpdatedDoes
  <2>4. MessageShape'
    BY <1>1, <1>3, <1>4, <1>6, <2>3 DEF MessageShape
  <2>5. Places' /\ ActOfGpg' /\ OnePrompt' /\ ~op'.act /\ ~InList("finished")'
    BY <1>1, <1>2, <1>3, <1>4, <1>6 DEF Places, ActOfGpg, OnePrompt, InList
  <2>6. Open /\ app' = app
    BY <1>1, <1>2 DEF Open
  <2>7. QED
    BY <2>1, <2>2, <2>4, <2>5, <2>6, EndKeeps
<1>7. QED
  BY <1>5, <1>6 DEF gpgFinished

LEMMA TakeEventKeeps ==
  ASSUME Patient, MessageInv, takeEvent
  PROVE  MessageInv'
<1> USE DEF MessageInv
<1> DEFINE e == Head(op.events)
           rest == [op EXCEPT !.events = Tail(@)]
<1>1. /\ pc = "step" /\ op.events # <<>> /\ op' = rest
      /\ UNCHANGED <<act, gpg, app>>
  BY DEF takeEvent, AfterTake
<1>2. /\ op' = [act |-> op.act, result |-> op.result, success |-> op.success,
                waiting |-> op.waiting, events |-> Tail(op.events)]
      /\ op'.events = Tail(op.events)
  BY <1>1 DEF MessageShape
<1> HIDE DEF rest
<1>3. /\ op'.events \in Seq(Events) /\ e \in Events /\ InList(e)
      /\ Len(op'.events) = Len(op.events) - 1
      /\ DOMAIN op'.events = 1 .. Len(op.events) - 1 /\ DOMAIN op.events = 1 .. Len(op.events)
      /\ \A i \in DOMAIN op'.events : op'.events[i] = op.events[i + 1]
      /\ \A x : InList(x)' => InList(x)
  BY <1>1, <1>2, EventTaken, Zenon
<1>4. Len(op.events) \in Nat \ {0} /\ e = op.events[1]
  BY <1>1 DEF MessageShape
<1> HIDE DEF e
<1>5. /\ \A i, j \in DOMAIN op'.events :
           op'.events[i] = "needPassphrase" /\ op'.events[j] = "needPassphrase" => i = j
      /\ e = "needPassphrase" => ~InList("needPassphrase")'
  <2>1. \A i \in DOMAIN op'.events : i + 1 \in DOMAIN op.events
    BY <1>3, <1>4
  <2>2. \A i, j \in DOMAIN op'.events :
           op'.events[i] = "needPassphrase" /\ op'.events[j] = "needPassphrase" => i = j
    <3>1. SUFFICES ASSUME NEW i \in DOMAIN op'.events, NEW j \in DOMAIN op'.events,
                          op'.events[i] = "needPassphrase", op'.events[j] = "needPassphrase"
                   PROVE  i = j
      OBVIOUS
    <3>2. i + 1 = j + 1
      BY <1>3, <2>1, <3>1 DEF OnePrompt
    <3>3. QED
      BY <1>3, <1>4, <3>2
  <2>3. ASSUME e = "needPassphrase", NEW i \in DOMAIN op'.events,
               op'.events[i] = "needPassphrase"
        PROVE  FALSE
    <3>1. 1 = i + 1
      <4>1. 1 \in DOMAIN op.events /\ op.events[1] = "needPassphrase"
        BY <1>3, <1>4, <2>3
      <4>2. i + 1 \in DOMAIN op.events /\ op.events[i + 1] = "needPassphrase"
        BY <1>3, <2>1, <2>3
      <4>3. QED
        BY <4>1, <4>2 DEF OnePrompt
    <3>2. QED
      BY <1>3, <1>4, <3>1
  <2>4. QED
    BY <2>2, <2>3 DEF InList
<1>6. FinishedIsLast' /\ (e = "finished" => ~op.act /\ ~InList("finished")')
  <2>1. e = "finished" => Len(op.events) = 1
    <3>1. 1 \in DOMAIN op.events
      BY <1>3, <1>4
    <3>2. e = "finished" => 1 = Len(op.events)
      BY <1>3, <1>4, <3>1 DEF FinishedIsLast
    <3>3. QED
      BY <3>2
  <2>2. e = "finished" => ~op.act /\ ~InList("finished")'
    BY <1>3, <1>4, <2>1 DEF FinishedIsLast, InList
  <2>3. FinishedIsLast'
    <3>1. SUFFICES ASSUME InList("finished")'
                   PROVE  ~op'.act /\ \A i \in DOMAIN op'.events :
                            op'.events[i] = "finished" <=> i = Len(op'.events)
      BY DEF FinishedIsLast
    <3>2. InList("finished")
      BY <1>3, <3>1
    <3>3. ~op'.act
      BY <1>2, <3>2 DEF FinishedIsLast
    <3>4. ASSUME NEW i \in DOMAIN op'.events
          PROVE  op'.events[i] = "finished" <=> i = Len(op'.events)
      <4>1. i + 1 \in DOMAIN op.events /\ op'.events[i] = op.events[i + 1]
        BY <1>3, <1>4
      <4>2. op.events[i + 1] = "finished" <=> i + 1 = Len(op.events)
        BY <3>2, <4>1 DEF FinishedIsLast
      <4>3. QED
        BY <1>3, <1>4, <4>1, <4>2
    <3>5. QED
      BY <3>3, <3>4
  <2>4. QED
    BY <2>2, <2>3
<1>7. ~op.waiting
  BY <1>1 DEF ActOfGpg
<1>8. CASE e = "needPassphrase" /\ asker' = "asked" /\ pc' = "ask" /\ UNCHANGED <<sm, c>>
  <2>1. MessageShape'
    BY <1>1, <1>2, <1>3, <1>8 DEF MessageShape
  <2>2. Places' /\ ActOfGpg' /\ OnePrompt'
    BY <1>1, <1>2, <1>3, <1>5, <1>7, <1>8 DEF Places, ActOfGpg, OnePrompt
  <2>3. OpenIsUntold' /\ OutputFollows'
    BY <1>1, <1>2, <1>3, <1>8 DEF OpenIsUntold, OutputFollows, Open
  <2>4. QED
    BY <1>6, <2>1, <2>2, <2>3
<1>9. CASE e = "finished" /\ pc' = "loop" /\ updated(complete(c, op.success)) /\ UNCHANGED asker
  <2> DEFINE ctx == complete(c, op.success)
  <2>1. /\ Context(ctx) /\ ctx.op = c.op /\ ctx.finished
        /\ ctx.ok /\ ctx.op # "sign" => ctx.out
    BY CompleteDoes DEF MessageShape
  <2> HIDE DEF ctx
  <2>2. updated(ctx)
    BY <1>9 DEF ctx
  <2>3. Message(sm') /\ Context(c')
    BY <2>1, <2>2, UpdatedDoes
  <2>4. MessageShape'
    BY <1>1, <1>2, <1>3, <1>9, <2>3 DEF MessageShape
  <2>5. Places' /\ ActOfGpg' /\ OnePrompt' /\ ~op'.act /\ ~InList("finished")'
    BY <1>1, <1>2, <1>3, <1>5, <1>6, <1>7, <1>9 DEF Places, ActOfGpg, OnePrompt
  <2>6. Open /\ app' = app
    BY <1>1, <1>3, <1>9 DEF Open
  <2>7. QED
    BY <2>1, <2>2, <2>4, <2>5, <2>6, EndKeeps
<1>10. CASE e \notin {"needPassphrase", "finished"} /\ UNCHANGED <<sm, c, asker, pc>>
  <2>1. MessageShape'
    BY <1>1, <1>2, <1>3, <1>10 DEF MessageShape
  <2>2. Places' /\ ActOfGpg' /\ OnePrompt'
    BY <1>1, <1>2, <1>3, <1>5, <1>10 DEF Places, ActOfGpg, OnePrompt
  <2>3. OpenIsUntold' /\ OutputFollows'
    BY <1>1, <1>2, <1>3, <1>10 DEF OpenIsUntold, OutputFollows, Open
  <2>4. QED
    BY <1>6, <2>1, <2>2, <2>3
<1>11. QED
  BY <1>8, <1>9, <1>10 DEF takeEvent, e

\* The user's answer reaches gpg, or ends it.
LEMMA ResponseKeeps ==
  ASSUME Patient, MessageInv, asker \in {"accepted", "rejected"}, asker' = "idle", app' = app,
         pc \in {"loop", "ask"}, pc' \in {"loop", "step"},
         asker = "accepted" => submitPassphrase, asker = "rejected" => seterror
  PROVE  MessageInv'
<1> USE DEF MessageInv
<1>1. /\ gpg.state = "asks" /\ op.act /\ act.need_submitPassphrase /\ act.posted = 0
      /\ ~InList("needPassphrase") /\ ~InList("finished") /\ ~op.waiting
  BY DEF ActOfGpg, OnePrompt, FinishedIsLast, MessageShape
<1>2. CASE asker = "accepted"
  <2>1. /\ act' = [act EXCEPT !.need_submitPassphrase = FALSE]
        /\ gpg' = [gpg EXCEPT !.state = "runs"] /\ UNCHANGED <<sm, c, op>>
    BY <1>1, <1>2 DEF submitPassphrase
  <2>2. /\ act' = [need_submitPassphrase |-> FALSE, posted |-> 0]
        /\ gpg' = [state |-> "runs", pending |-> gpg.pending, output |-> gpg.output,
                   prompts |-> gpg.prompts]
    BY <1>1, <2>1 DEF MessageShape
  <2>3. MessageShape'
    BY <2>1, <2>2 DEF MessageShape
  <2>4. Places' /\ ActOfGpg' /\ OnePrompt' /\ FinishedIsLast'
    BY <1>1, <2>1, <2>2 DEF Places, ActOfGpg, OnePrompt, FinishedIsLast, InList
  <2>5. OpenIsUntold' /\ OutputFollows'
    BY <2>1 DEF OpenIsUntold, OutputFollows, Open, InList
  <2>6. QED
    BY <2>3, <2>4, <2>5
<1>3. CASE asker = "rejected"
  <2>1. /\ op' = [op EXCEPT !.act = FALSE, !.result = FALSE, !.success = FALSE, !.events = <<>>]
        /\ act' = NoAct /\ gpg' = NoGpg /\ updated(SetError)
    BY <1>3 DEF seterror
  <2>2. /\ op' = [act |-> FALSE, result |-> FALSE, success |-> FALSE, waiting |-> op.waiting,
                  events |-> <<>>]
        /\ act' = [need_submitPassphrase |-> FALSE, posted |-> 0]
        /\ gpg' = [state |-> "off", pending |-> 0, output |-> FALSE, prompts |-> 0]
    BY <2>1 DEF MessageShape, NoAct, NoGpg
  <2>3. Context(SetError) /\ SetError.op = c.op /\ SetError.finished /\ ~SetError.ok
    BY SetErrorDoes DEF MessageShape
  <2>4. Message(sm') /\ Context(c')
    BY <2>1, <2>3, UpdatedDoes
  <2>5. MessageShape'
    BY <2>2, <2>4 DEF MessageShape
  <2>6. Places' /\ ActOfGpg' /\ OnePrompt' /\ ~op'.act /\ ~InList("finished")' /\ Open
    BY <1>1, <2>2 DEF Places, ActOfGpg, OnePrompt, InList, Open
  <2>7. QED
    BY <2>1, <2>3, <2>5, <2>6, EndKeeps
<1>4. QED
  BY <1>2, <1>3

LEMMA MessageStep ==
  ASSUME Patient, MessageInv, [MessageNext]_messageVars
  PROVE  MessageInv'
<1>1. CASE UNCHANGED messageVars
  BY <1>1 DEF messageVars, MessageInv, MessageShape, Message, Context, Places, ActOfGpg, OnePrompt,
              FinishedIsLast, OpenIsUntold, OutputFollows, Open, InList
<1>2. CASE startSome \/ update
  BY <1>2, StartSomeKeeps, UpdateKeeps
<1>3. CASE t_readyRead \/ end \/ goToLoop \/ waitForFinished \/ waitForEvent \/ conditionMet
           \/ answer
  <2> USE DEF MessageInv
  <2>1. MessageShape'
    BY <1>3 DEF t_readyRead, end, goToLoop, waitForFinished, waitForEvent, conditionMet, answer,
                MessageShape, Message, Context
  <2>2. Places' /\ ActOfGpg'
    BY <1>3 DEF t_readyRead, end, goToLoop, waitForFinished, waitForEvent, conditionMet, answer,
                Places, ActOfGpg, MessageShape
  <2>3. OnePrompt' /\ FinishedIsLast'
    BY <1>3 DEF t_readyRead, end, goToLoop, waitForFinished, waitForEvent, conditionMet, answer,
                OnePrompt, FinishedIsLast, InList, MessageShape
  <2>4. ASSUME t_readyRead
        PROVE  OpenIsUntold' /\ OutputFollows'
    <3>1. /\ "readyRead" \in sm.timers /\ sm'.success = sm.success /\ sm'.args = sm.args
          /\ sm'.timers = sm.timers \ {"readyRead"}
          /\ app'.read = (app.read \/ sm.in) /\ app'.told = app.told
          /\ app'.phase = app.phase /\ UNCHANGED <<c, op>>
      BY <2>4 DEF t_readyRead, MessageShape, Message
    <3>2. QED
      BY <3>1 DEF OpenIsUntold, OutputFollows, Open, InList
  <2>5. ASSUME end \/ goToLoop \/ waitForFinished \/ waitForEvent \/ conditionMet \/ answer
        PROVE  OpenIsUntold' /\ OutputFollows'
    <3>1. /\ UNCHANGED <<sm, c>> /\ op'.act = op.act /\ op'.events = op.events
          /\ app'.read = app.read /\ app'.told = app.told
          /\ app'.phase # "idle" <=> app.phase # "idle"
      BY <2>5 DEF end, goToLoop, waitForFinished, waitForEvent, conditionMet, answer, MessageShape
    <3>2. QED
      BY <3>1 DEF OpenIsUntold, OutputFollows, Open, InList
  <2>6. QED
    BY <1>3, <2>1, <2>2, <2>3, <2>4, <2>5
<1>4. CASE t_bytesWritten \/ t_finished \/ takeEvent \/ getHidden
  BY <1>4, T_bytesWrittenKeeps, T_finishedKeeps, TakeEventKeeps, GetHiddenKeeps
<1>5. CASE bytesWritten \/ readyRead \/ needPassphrase \/ \E ok \in BOOLEAN : gpgFinished(ok)
  BY <1>5, BytesWrittenKeeps, ReadyReadKeeps, NeedPassphraseKeeps, GpgFinishedKeeps
<1>6. CASE asker_responseReady \/ waitForResponse
  BY <1>6, ResponseKeeps DEF asker_responseReady, waitForResponse
<1>7. QED
  BY <1>1, <1>2, <1>3, <1>4, <1>5, <1>6 DEF MessageNext, Program, Triggers, FromGpg, Waiting, Answering

LEMMA MessageInitially ==
  MessageInit => MessageInv
<1> SUFFICES ASSUME MessageInit PROVE MessageInv
  OBVIOUS
<1>1. MessageShape
  BY DEF MessageInit, MessageShape, Message, Context, NoAct, NoGpg
<1>2. Places /\ ActOfGpg /\ OnePrompt /\ FinishedIsLast /\ OpenIsUntold /\ OutputFollows
  BY DEF MessageInit, NoAct, NoGpg, Places, ActOfGpg, OnePrompt, FinishedIsLast, OpenIsUntold,
         OutputFollows, Open, InList
<1>3. QED
  BY <1>1, <1>2 DEF MessageInv

\* As long as gpg takes its input and waits for the answers it asked for: an operation
\* is finished once, however it ends; a prompt is shown only while gpg waits for it; and a
\* success has its output, whether the program waits or lets signals come.
THEOREM MessagesConsistent ==
  ASSUME Patient
  PROVE  MessageSpec => []MessageConsistent
<1>1. MessageInv => MessageConsistent
  BY DEF MessageInv, MessageConsistent, MessageShape, Message, Places, ActOfGpg, OnePrompt,
         OpenIsUntold, OutputFollows, MessageTypeOK, FinishedOnce, PromptIsCurrent, OutputIsThere, Signals
<1>2. QED
  BY MessageInitially, MessageStep, <1>1, PTL DEF MessageSpec
=============================================================================
