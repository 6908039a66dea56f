-------------------------------- MODULE SASL --------------------------------
(***************************************************************************)
(* class SASL of qca_securelayer.cpp over SASLContext, between an          *)
(* application, the Cyrus library and a peer.                              *)
(*                                                                         *)
(* SASL::Private asks its context for one operation at a time (op), turns  *)
(* each result into a signal or into a queue of actions that are emitted   *)
(* one per turn of the event loop (timer), and keeps what is written until *)
(* the user is authenticated.  As in TLS, a call or event is one action,   *)
(* the functions it goes through are functions on the record d, and a      *)
(* signal is the last thing a handler does.                                *)
(***************************************************************************)
EXTENDS SASLContext, LayerTracker

CONSTANTS
  AppCalls,    \* calls the application need not make: "early" (writeIncoming()
               \* before it has been told of the authentication), "restart" (a new
               \* session, or reset(), with an operation under way)
  Interactive, \* the fields that the library may ask for
  ServerStarts, \* how the start of a server may go: "ok", "error", "mute"
  MaxSessions, MaxSteps, MaxWrite, MaxPeer, MaxFailures,  \* bounds
  MinEncoded   \* the bound below which to_net_encoded does not fall

ASSUME SaslAssumption == /\ AppCalls \subseteq {"early", "restart"}
                         /\ Interactive \subseteq Fields
                         /\ ServerStarts \subseteq {"ok", "error", "mute"}
                         /\ {MaxSessions, MaxSteps, MaxWrite, MaxPeer, MaxFailures} \subseteq Nat
                         /\ MinEncoded \in Int

VARIABLES
  d,      \* SASL::Private, with its context d.c
  app,    \* what the application has done and seen
  peer    \* the peer: what it has encoded in this session, and the units on their way

saslVars == <<d, app, peer>>

NewApp == [sessions |-> 0, failures |-> 0, phase |-> "idle", approved |-> FALSE, steps |-> 0,
           written |-> 0, read |-> 0, toRead |-> FALSE, toReadOutgoing |-> FALSE, unsent |-> 0]
NewPeer == [encoded |-> 0, units |-> 0]

SaslInit ==
  /\ d = [server |-> FALSE, sendLast |-> FALSE, op |-> "none", queue |-> <<>>, timer |-> FALSE,
          need_update |-> FALSE, first |-> FALSE, authed |-> FALSE, set |-> {},
          out |-> 0, out_pending |-> 0, in |-> 0, to_net |-> 0, from_net |-> 0,
          to_net_encoded |-> 0, layer |-> NoLayer, c |-> NewSaslContext, signal |-> "none"]
  /\ app = NewApp
  /\ peer = NewPeer

----------------------------------------------------------------------------
(* reset(ResetSessionAndData): the settings stay (d.set, the fields that the *)
(* application has set), and so does a result that is on its way.            *)
ResetSessionAndData(p) ==
  [p EXCEPT !.c = SaslReset(@), !.server = FALSE, !.sendLast = FALSE, !.op = "none",
            !.queue = <<>>, !.timer = FALSE, !.need_update = FALSE, !.first = FALSE,
            !.authed = FALSE, !.out = 0, !.out_pending = 0, !.in = 0, !.to_net = 0,
            !.from_net = 0, !.to_net_encoded = 0, !.layer = NoLayer]

ResetAll(p) == [ResetSessionAndData(p) EXCEPT !.set = {}]

\* Mutant: what the application writes is not kept back.
UpdateAnytime(p, ok) ==
  IF p.queue # <<>> \/ p.op # "none" THEN [p EXCEPT !.need_update = TRUE]
  ELSE [p EXCEPT !.need_update = FALSE, !.op = "Update", !.out_pending = @ + p.out,
                 !.c = SaslUpdate(@, p.from_net, p.out, ok), !.from_net = 0, !.out = 0]

(* update() *)
Update(p, ok) ==
  IF ~p.authed THEN p
  ELSE IF p.queue # <<>> \/ p.op # "none" THEN [p EXCEPT !.need_update = TRUE]
  ELSE [p EXCEPT !.need_update = FALSE, !.op = "Update", !.out_pending = @ + p.out,
                 !.c = SaslUpdate(@, p.from_net, p.out, ok), !.from_net = 0, !.out = 0]

\* Mutant: what was written during the authentication waits for the next write.
ProcessNextActionStuck(p, ok) ==
  IF p.queue = <<>> THEN (IF p.need_update THEN Update(p, ok) ELSE p)
  ELSE LET a == Head(p.queue)
       IN  [p EXCEPT !.queue = Tail(@), !.signal = a, !.authed = @ \/ a = "authenticated",
                     !.timer = @ \/ Len(p.queue) > 1 \/ p.need_update]

(* processNextAction() *)
ProcessNextAction(p, ok) ==
  IF p.queue = <<>> THEN (IF p.need_update THEN Update(p, ok) ELSE p)
  ELSE LET a     == Head(p.queue)
           next  == [p EXCEPT !.queue = Tail(@), !.signal = a,
                              !.timer = @ \/ Len(p.queue) > 1 \/ p.need_update]
           waits == p.out > 0
       IN  IF a = "authenticated"
           THEN [next EXCEPT !.authed = TRUE, !.need_update = @ \/ waits, !.timer = @ \/ waits]
           ELSE next

----------------------------------------------------------------------------
(* sasl_resultsReady()                                                       *)

Emit(p, signal) == [p EXCEPT !.signal = signal]

Enqueue(p, actions) == [p EXCEPT !.queue = @ \o actions]

ServerResult(p, ok) ==
  CASE p.c.result = "Continue"  -> Emit(p, "nextStep")
    [] p.c.result = "AuthCheck" -> Emit(p, "authCheck")
    [] p.c.result = "Success"   ->
         ProcessNextAction(Enqueue(p, IF p.sendLast THEN <<"nextStep", "authenticated">>
                                      ELSE <<"authenticated">>), ok)
    [] OTHER                    -> Emit(p, "error")

ClientResult(p, ok) ==
  CASE p.c.result = "Params"   -> Emit(p, "needParams")
    [] p.c.result = "Error"    -> Emit(p, "error")
    [] p.c.result = "Continue" ->
         IF p.first THEN ProcessNextAction(Enqueue([p EXCEPT !.first = FALSE], <<"clientStarted">>), ok)
         ELSE Emit(p, "nextStep")
    [] p.c.result = "Success"  ->
         ProcessNextAction(Enqueue([p EXCEPT !.first = FALSE],
             IF p.first THEN <<"clientStarted", "authenticated">>
             ELSE <<"nextStep", "authenticated">>), ok)

(* The result of an update; encoded counts only with something for the net.  *)
UpdateResult(p, ok) ==
  LET c    == p.c
      sent == c.to_net > 0
      left == p.out_pending - (IF sent THEN c.encoded ELSE 0)
      kept == [p EXCEPT !.out_pending = left,
                        !.to_net = @ + c.to_net,
                        !.in = @ + c.plain,
                        !.to_net_encoded =
                           LET n == @ + (IF sent THEN c.encoded ELSE -1)
                           IN  IF n < MinEncoded THEN MinEncoded ELSE n,
                        !.queue = @ \o (IF sent THEN <<"readyReadOutgoing">> ELSE <<>>)
                                    \o (IF c.plain > 0 THEN <<"readyRead">> ELSE <<>>),
                        !.c = [@ EXCEPT !.to_net = 0, !.plain = 0, !.encoded = 0]]
  IN  IF c.result # "Success" THEN Emit(p, "error")
      ELSE ProcessNextAction(IF left > 0 \/ p.out > 0 THEN Update(kept, ok) ELSE kept, ok)

Handle(p, op, ok) ==
  CASE op = "none"   -> p
    [] op = "Update" -> UpdateResult(p, ok)
    [] op = "Start" /\ p.server ->
         Emit(p, IF p.c.result = "Success" THEN "serverStarted" ELSE "error")
    [] OTHER         -> IF p.server THEN ServerResult(p, ok) ELSE ClientResult(p, ok)

----------------------------------------------------------------------------
(* What the application learns from a signal: whose turn it is.              *)

PhaseOf(signal, phase) ==
  CASE signal = "serverStarted" -> "first"
    [] signal = "needParams"    -> "params"
    [] signal = "authCheck"     -> "check"
    [] signal \in {"clientStarted", "nextStep"} -> "peer"
    [] signal = "authenticated" -> "authenticated"
    [] signal = "error" -> (IF phase \in {"authenticated", "broken"} THEN "broken" ELSE "failed")
    [] OTHER                    -> phase

\* A handler ends with its signal: d.signal is only there within one.
Becomes(p, seen) ==
  /\ d' = [p EXCEPT !.signal = "none"]
  /\ app' = [seen EXCEPT !.phase = PhaseOf(p.signal, @),
                         !.toRead = @ \/ p.signal = "readyRead",
                         !.toReadOutgoing = @ \/ p.signal = "readyReadOutgoing"]

\* The library fails at most MaxFailures times.
May(ok) == ok \/ app.failures < MaxFailures
Counted(ok) == [app EXCEPT !.failures = IF ok THEN @ ELSE @ + 1]

\* A server's library has called scb_checkauth() by the time it says "ok".
LibrarySays ==
  {s \in [r : {"ok", "continue", "error"}, asked : SUBSET Interactive, checks : BOOLEAN, ssf : 0 .. 1] :
      /\ s.r = "continue" => app.steps < MaxSteps
      /\ s.r # "ok" => s.ssf = 0
      /\ s.r = "error" => ~s.checks
      /\ May(s.r # "error")}

ServerSays == {s \in LibrarySays : s.asked = {} /\ (s.r = "ok" => s.checks \/ d.c.ca_flag)}
ClientSays == {s \in LibrarySays : ~s.checks}

ResultsReady(ok) ==
  /\ d.c.posted > 0 /\ May(ok)
  /\ Becomes(Handle([d EXCEPT !.c.posted = @ - 1, !.op = "none"], d.op, ok), Counted(ok))
  /\ UNCHANGED peer

DoNextAction(ok) ==
  /\ d.timer /\ May(ok)
  /\ Becomes(ProcessNextAction([d EXCEPT !.timer = FALSE], ok), Counted(ok))
  /\ UNCHANGED peer

----------------------------------------------------------------------------
(* What the application calls.                                               *)

Settled == d.c.posted = 0 /\ ~d.timer
MayBegin == app.sessions < MaxSessions /\ (Settled \/ "restart" \in AppCalls)

Begins(p, ok) ==
  /\ MayBegin /\ May(ok)
  /\ d' = p
  /\ app' = [NewApp EXCEPT !.sessions = app.sessions + 1, !.phase = "working", !.steps = 1,
                           !.failures = Counted(ok).failures]
  /\ peer' = NewPeer

\* The fields that were set before are given to the new session.
StartClientSession(says) ==
  LET p == ResetSessionAndData(d)
  IN  Begins([p EXCEPT !.op = "Start", !.first = TRUE,
                       !.c = StartClient([@ EXCEPT !.have = p.set], says)],
             says.r # "error")

StartServerSession(sendLast, how) ==
  LET p == ResetSessionAndData(d)
  IN  Begins([p EXCEPT !.op = "Start", !.first = TRUE, !.server = TRUE, !.sendLast = sendLast,
                       !.c = StartServer([@ EXCEPT !.have = p.set], how)],
             how = "ok")

ResetByApp ==
  /\ app.phase # "idle" /\ (Settled \/ "restart" \in AppCalls)
  /\ d' = ResetAll(d)
  /\ app' = [NewApp EXCEPT !.sessions = app.sessions, !.failures = app.failures]
  /\ peer' = NewPeer

\* setUsername(), setAuthzid(), setPassword(), setRealm()
SetField(f) ==
  /\ app.phase \in {"idle", "params"}
  /\ f \notin d.set
  /\ d' = [d EXCEPT !.set = @ \cup {f}, !.c.have = @ \cup {f}]
  /\ UNCHANGED <<app, peer>>

\* An answer is dropped when an operation is active.
PutAnswer(phases, op, says) ==
  /\ app.phase \in phases
  /\ d' = IF d.op # "none" THEN d ELSE [d EXCEPT !.op = op, !.c = TryAgain(@, says)]
  /\ app' = [Counted(says.r # "error") EXCEPT !.phase = "working", !.steps = IF @ < MaxSteps THEN @ + 1 ELSE @,
                                              !.approved = @ \/ app.phase = "check"]
  /\ UNCHANGED peer

PutServerFirstStep(says) == PutAnswer({"first"}, "ServerFirstStep", says)
ContinueAfterParams(says) == PutAnswer({"params"}, "TryAgain", says)
ContinueAfterAuthCheck(says) == PutAnswer({"check"}, "TryAgain", says)

\* The peer has a step to put only when one is still to come.
PutStep(says) == d.c.result = "Continue" /\ PutAnswer({"peer"}, "NextStep", says)

Working == app.phase \notin {"idle", "failed", "broken"}

Write(ok) ==
  /\ Working /\ app.written < MaxWrite /\ May(ok)
  /\ Becomes(Update([d EXCEPT !.out = @ + 1, !.layer = AddPlain(@, 1)], ok),
             [Counted(ok) EXCEPT !.written = @ + 1])
  /\ UNCHANGED peer

WriteIncoming(n, ok) ==
  /\ app.phase = "authenticated" \/ (Working /\ "early" \in AppCalls)
  /\ n \in 1 .. peer.units /\ May(ok)
  /\ Becomes(Update([d EXCEPT !.from_net = @ + n], ok), Counted(ok))
  /\ peer' = [peer EXCEPT !.units = @ - n]

Read ==
  /\ app.toRead
  /\ d' = [d EXCEPT !.in = 0]
  /\ app' = [app EXCEPT !.toRead = FALSE, !.read = @ + d.in]
  /\ UNCHANGED peer

ReadOutgoing ==
  /\ app.toReadOutgoing
  /\ d' = [d EXCEPT !.to_net = 0, !.to_net_encoded = 0,
                        !.layer = SpecifyEncoded(@, d.to_net, d.to_net_encoded)]
  /\ app' = [app EXCEPT !.toReadOutgoing = FALSE, !.unsent = @ + d.to_net]
  /\ UNCHANGED peer

\* The socket has written what it had; convertBytesWritten() says what that was.
SocketWrote ==
  /\ app.unsent > 0
  /\ d' = [d EXCEPT !.layer = Finished(@, app.unsent).layer]
  /\ app' = [app EXCEPT !.unsent = 0]
  /\ UNCHANGED peer

\* The peer is done with the authentication when the library here is.
PeerEncodes ==
  /\ d.c.step = 1 /\ d.c.result = "Success" /\ peer.encoded < MaxPeer
  /\ peer' = [encoded |-> peer.encoded + 1,
              units |-> peer.units + IF d.c.ssf = 0 THEN 1 ELSE 2]
  /\ UNCHANGED <<d, app>>

Answers == \/ \E says \in ServerSays : PutServerFirstStep(says) \/ ContinueAfterAuthCheck(says)
           \/ \E says \in ClientSays : ContinueAfterParams(says)
           \/ \E says \in (IF d.server THEN ServerSays ELSE ClientSays) : PutStep(says)

SaslNext ==
  \/ \E ok \in BOOLEAN : ResultsReady(ok) \/ DoNextAction(ok) \/ Write(ok)
  \/ \E says \in ClientSays : StartClientSession(says)
  \/ \E sendLast \in BOOLEAN, how \in ServerStarts : StartServerSession(sendLast, how)
  \/ ResetByApp
  \/ \E f \in Interactive : SetField(f)
  \/ Answers
  \/ \E ok \in BOOLEAN, n \in 1 .. 2 : WriteIncoming(n, ok)
  \/ Read \/ ReadOutgoing \/ SocketWrote \/ PeerEncodes

\* The event loop runs.  Nobody has to answer, write, read or send.
SaslSpec == SaslInit /\ [][SaslNext]_saslVars
SaslFairness == /\ WF_saslVars(\E ok \in BOOLEAN : ResultsReady(ok))
            /\ WF_saslVars(\E ok \in BOOLEAN : DoNextAction(ok))
SaslLiveSpec == SaslSpec /\ SaslFairness

----------------------------------------------------------------------------
SaslTypeOK ==
  /\ {d.server, d.sendLast, d.timer, d.need_update, d.first, d.authed} \subseteq BOOLEAN
  /\ d.op \in {"none", "Start", "ServerFirstStep", "NextStep", "TryAgain", "Update"}
  /\ d.set \subseteq Fields /\ d.c.have \subseteq Fields
  /\ {d.out, d.in, d.to_net, d.from_net, d.c.posted, app.read, peer.units} \subseteq Nat
  /\ d.c.result \in {"Success", "Error", "Params", "AuthCheck", "Continue"}

(* Every session is told how its operation went, what waits to be encoded or *)
(* announced has an event that will do it, and when an answer is expected of *)
(* the application no operation is there to have the answer dropped.         *)
SaslConsistent ==
  /\ SaslTypeOK
  /\ d.op # "none" => d.c.posted > 0
  /\ app.phase \in {"first", "params", "check", "peer"} => d.op = "none"
  /\ d.queue # <<>> => d.timer /\ d.op = "none"
  /\ d.authed /\ d.out > 0 => d.need_update \/ app.phase = "broken"
  /\ d.need_update => d.timer \/ d.op = "Update" \/ app.phase = "broken"
  /\ d.in > 0 => app.toRead \/ "readyRead" \in ToSet(d.queue)
  /\ d.to_net > 0 => app.toReadOutgoing \/ "readyReadOutgoing" \in ToSet(d.queue)

(* The application sees an AuthSession: a server's user is approved of       *)
(* before authenticated(), and what read() gives out was put in by the peer  *)
(* of this session.                                                          *)
Promised == INSTANCE AuthSession WITH
  phase <- app.phase, asServer <- d.server, approved <- app.approved,
  encoded <- peer.encoded, out <- d.in + app.read
ImplementsAuth == Promised!SessionSpec

(* Every operation ends: with a signal, and once the session is              *)
(* authenticated, with all that was written in the hands of the library.     *)
OperationsEnd ==
  /\ []<>(app.phase # "working")
  /\ []<>(app.phase = "authenticated" => d.out = 0)

(* What goes out in a session was written in it; reset() leaves result_to_net *)
(* alone.                                                                    *)
OutputIsOfSession == app.written = 0 => d.to_net = 0
=============================================================================
