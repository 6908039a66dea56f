-------------------------------- MODULE TLS --------------------------------
(***************************************************************************)
(* class TLS of qca_securelayer.cpp in stream mode, between an application, *)
(* the provider's context (TLSContext) and the network.                     *)
(*                                                                         *)
(* TLS::Private drives the context one operation at a time (op), turns each *)
(* result into a queue of signals (queue) that it emits one per turn of the *)
(* event loop (timer), and stops feeding the context while the application  *)
(* has a step signal to answer (blocked).  A call or event is one action;   *)
(* the functions it goes through are functions on the record d, named after *)
(* the code's.  A signal is the last thing a handler does, so a slot that   *)
(* calls back is an action that follows at once.                            *)
(***************************************************************************)
EXTENDS TLSContext

CONSTANTS
    Listens,      \* the step signals the application is connected to
    AppCalls,     \* the calls it need not make: "convert" (convertBytesWritten),
                  \* "reset_in_flight", "after_end" (writeIncoming with no session)
    MaxSessions, MaxWrite, MaxApp, MaxChunk,  \* bounds
    MaxRare,      \* bound, over all sessions, on what is rare: bytes after the peer's
                  \* close_notify, and writes that the context holds back to read first
    MinEncoded    \* the bound below which to_net_encoded does not fall

TlsSteps == {"hostNameReceived", "certificateRequested", "peerCertificateAvailable", "handshaken"}

ASSUME TLSAssumption == /\ Listens \subseteq TlsSteps
                        /\ AppCalls \subseteq {"convert", "reset_in_flight", "after_end"}
                        /\ MinEncoded \in Int
                        /\ {MaxSessions, MaxWrite, MaxApp, MaxChunk, MaxRare} \subseteq Nat

VARIABLES
    d,      \* TLS::Private: its session, its buffers, and its context d.c
    app,    \* what the application has done and seen
    peer,   \* the peer: flights it got, records it sent, fin, raw
    wire    \* records on their way to us

tlsVars == << d, app, peer, wire >>

TlsInit ==
    /\ d = [state |-> "Inactive", blocked |-> FALSE, server |-> FALSE, op |-> "none",
            queue |-> <<>>, timer |-> FALSE, need_update |-> FALSE, maybe_input |-> FALSE,
            emitted |-> {}, out |-> 0, out_pending |-> 0, from_net |-> <<>>, in |-> 0,
            to_net |-> <<>>, to_net_encoded |-> 0, unprocessed |-> <<>>, layer |-> NoLayer,
            c |-> NewContext, signal |-> "none", asserted |-> FALSE]
    /\ app = [sessions |-> 0, written |-> 0, unanswered |-> {}, toRead |-> FALSE,
              toReadOutgoing |-> FALSE, chunks |-> <<>>, sent |-> 0, told |-> 0,
              plainBytes |-> 0, wants |-> 0, steps |-> {}]
    /\ peer = [got |-> 0, hs |-> 0, data |-> 0, fin |-> FALSE, gotFin |-> FALSE, raw |-> 0]
    /\ wire = <<>>

----------------------------------------------------------------------------
(* reset(ResetSession) and, on top of it, reset(ResetSessionAndData).        *)

ResetSession(p) ==
    [p EXCEPT !.state = "Inactive", !.blocked = FALSE, !.server = FALSE, !.op = "none",
              !.queue = <<>>, !.timer = FALSE, !.need_update = FALSE, !.maybe_input = FALSE,
              !.emitted = {}, !.out = 0, !.out_pending = 0, !.c = ContextReset(@)]

ResetSessionAndData(p) ==
    [ResetSession(p) EXCEPT !.in = 0, !.to_net = <<>>, !.from_net = <<>>, !.unprocessed = <<>>,
                            !.to_net_encoded = 0, !.layer = NoLayer]

\* Mutant: an update does not wait for the queued actions.
UpdateAmidActions(p, wants) ==
    LET plain == IF p.state = "Handshaking" THEN 0 ELSE p.out
    IN  IF p.blocked THEN p
        ELSE IF p.op # "none" THEN [p EXCEPT !.need_update = TRUE]
        ELSE IF p.from_net = <<>> /\ plain = 0 /\ ~p.maybe_input
        THEN [p EXCEPT !.need_update = FALSE]
        ELSE [p EXCEPT !.need_update = FALSE, !.maybe_input = FALSE, !.op = "Update",
                       !.from_net = <<>>, !.out = @ - plain, !.out_pending = @ + plain,
                       !.c = ContextUpdate(@, p.from_net, plain, wants)]

\* Mutant: an update does not wait for the application's answer.
UpdateWhileBlocked(p, wants) ==
    IF p.queue # <<>> THEN [p EXCEPT !.need_update = TRUE]
    ELSE [UpdateAmidActions([p EXCEPT !.blocked = FALSE], wants) EXCEPT !.blocked = p.blocked]

(* update(): hands the context what has come from the network and, outside   *)
(* the handshake, from the application, unless it has to wait for an answer, *)
(* for the queued actions or for the operation that is going on.             *)
TlsUpdate(p, wants) ==
    LET plain == IF p.state = "Handshaking" THEN 0 ELSE p.out
    IN  IF p.blocked THEN p
        ELSE IF p.queue # <<>> \/ p.op # "none" THEN [p EXCEPT !.need_update = TRUE]
        ELSE IF p.from_net = <<>> /\ plain = 0 /\ ~p.maybe_input
        THEN [p EXCEPT !.need_update = FALSE]
        ELSE [p EXCEPT !.need_update = FALSE, !.maybe_input = FALSE, !.op = "Update",
                       !.from_net = <<>>, !.out = @ - plain, !.out_pending = @ + plain,
                       !.c = ContextUpdate(@, p.from_net, plain, wants)]

(* The private close(): only the context's mode changes.                     *)
Close(p) ==
    IF p.state = "Connected" THEN [p EXCEPT !.state = "Closing", !.c = ContextShutdown(@)] ELSE p

(* A step signal blocks when somebody is connected to it.                    *)
EmitStep(p, step) ==
    IF step \in Listens
    THEN [p EXCEPT !.blocked = TRUE, !.signal = step,
                   !.emitted = IF step = "handshaken" THEN @ ELSE @ \cup {step}]
    ELSE p

(* The actions of processNextAction().                                       *)
DoAction(p, a) ==
    CASE a = "Handshaken" ->
            EmitStep([p EXCEPT !.state = "Connected", !.need_update = @ \/ p.out > 0,
                               !.timer = @ \/ p.out > 0], "handshaken")
      [] a = "Close" ->
            [ResetSession(p) EXCEPT !.unprocessed = p.c.rbio, !.signal = "closed"]
      [] a \in TlsSteps -> EmitStep(p, a)
      [] OTHER -> [p EXCEPT !.signal = a]

\* Mutant: a wanted update does not start the timer.
ProcessNextActionUntimed(p, wants) ==
    IF p.queue = <<>> THEN (IF p.need_update THEN TlsUpdate(p, wants) ELSE p)
    ELSE DoAction([p EXCEPT !.queue = Tail(@), !.timer = @ \/ Len(p.queue) > 1], Head(p.queue))

ProcessNextAction(p, wants) ==
    IF p.queue = <<>> THEN (IF p.need_update THEN TlsUpdate(p, wants) ELSE p)
    ELSE DoAction([p EXCEPT !.queue = Tail(@),
                            !.timer = @ \/ Len(p.queue) > 1 \/ p.need_update], Head(p.queue))

----------------------------------------------------------------------------
(* tls_resultsReady()                                                        *)

Fail(p) == [ResetSession(p) EXCEPT !.signal = "error"]

StartFinished(p, wants) ==
    IF p.c.result = "Success"
    THEN TlsUpdate([p EXCEPT !.state = "Handshaking", !.maybe_input = TRUE], wants)
    ELSE Fail(p)

(* The queue is filled with the actions whose condition holds, in order.     *)
Act(act, when) == IF when THEN << act >> ELSE <<>>

AtLeast(n, bound) == IF n < bound THEN bound ELSE n


HandshakeActions(p) ==
    LET c == p.c
        clientHello == p.server /\ HelloReceived(c)
        serverHello == ~p.server /\ HelloReceived(c)
        success == c.result = "Success"
    IN  Act("readyReadOutgoing", c.to_net # <<>>)
          \o Act("hostNameReceived", clientHello /\ "hostNameReceived" \notin p.emitted)
          \o Act("peerCertificateAvailable", (success \/ serverHello)
                    /\ "peerCertificateAvailable" \notin p.emitted)
          \o Act("certificateRequested", serverHello /\ "certificateRequested" \notin p.emitted)
          \o Act("Handshaken", success)

\* Mutant: the peer's close asks for no further update.
ConnectedFinishedNoInput(p, taken, wants) ==
    LET c    == p.c
        sends == c.to_net # <<>>
        kept == [taken EXCEPT !.in = @ + c.plain, !.c.plain = 0,
                              !.out_pending = @ - (IF sends THEN c.encoded ELSE 0),
                              !.queue = @ \o Act("readyReadOutgoing", sends)
                                          \o Act("readyRead", c.plain > 0)]
    IN  ProcessNextAction(IF c.eof THEN TlsUpdate(Close(kept), wants) ELSE kept, wants)

(* The result of an update once connected.  enc is -1 when nothing was       *)
(* encoded for the network, and is added to to_net_encoded all the same.     *)
ConnectedFinished(p, taken, wants) ==
    LET c    == p.c
        sends == c.to_net # <<>>
        enc  == IF sends THEN c.encoded ELSE -1
        left == p.out_pending - (IF sends THEN enc ELSE 0)
        more == c.eof \/ left > 0 \/ p.out > 0
        kept == [taken EXCEPT !.to_net_encoded = AtLeast(@ + enc, MinEncoded), !.in = @ + c.plain,
                              !.out_pending = left, !.maybe_input = @ \/ left > 0,
                              !.queue = @ \o Act("readyReadOutgoing", sends)
                                          \o Act("readyRead", c.plain > 0),
                              !.c.plain = 0]
        shut == IF c.eof THEN [Close(kept) EXCEPT !.maybe_input = TRUE] ELSE kept
    IN  ProcessNextAction(IF more THEN TlsUpdate(shut, wants) ELSE shut, wants)

UpdateFinished(p, wants) ==
    LET c     == p.c
        taken == [p EXCEPT !.to_net = @ \o c.to_net, !.c.to_net = <<>>]
    IN  IF c.result = "Error" THEN Fail(p)
        ELSE IF p.state = "Closing"
        THEN ProcessNextAction([taken EXCEPT !.queue =
                 @ \o Act("readyReadOutgoing", c.to_net # <<>>)
                   \o Act("Close", c.result = "Success")], wants)
        ELSE IF p.state = "Handshaking"
        THEN ProcessNextAction([taken EXCEPT !.queue = @ \o HandshakeActions(p)], wants)
        ELSE ConnectedFinished(p, taken, wants)

----------------------------------------------------------------------------
(* Every action leaves the signal it emitted in d.signal: Becomes records    *)
(* what the application learns from it.                                      *)
Becomes(p, seen) ==
    /\ d' = p
    /\ app' = [seen EXCEPT
          !.unanswered = IF p.signal \in {"closed", "error"} THEN {}
                         ELSE @ \cup ({p.signal} \cap TlsSteps),
          !.steps = @ \cup ({p.signal} \cap TlsSteps),
          !.toRead = @ \/ p.signal = "readyRead",
          !.toReadOutgoing = @ \/ p.signal = "readyReadOutgoing"]

Quiet == [d EXCEPT !.signal = "none"]
Running == ~d.asserted
InSession == d.state # "Inactive"
Rare == app.wants + peer.raw
\* Only an update that hands on what was written may meet a context that wants to
\* read first: n bytes wait to be handed on.
CanWant(wants, n) == wants => Rare < MaxRare /\ n > 0
Spend(seen, wants) == [seen EXCEPT !.wants = IF wants THEN @ + 1 ELSE @]

(* resultsReady(): the assertion on op ends a debug build.                   *)
ResultsReady(wants) ==
    /\ Running /\ d.c.posted > 0 /\ CanWant(wants, d.out)
    /\ LET p == [Quiet EXCEPT !.c.posted = @ - 1, !.op = "none"]
       IN  Becomes(CASE d.op = "none"  -> [Quiet EXCEPT !.c.posted = @ - 1, !.asserted = TRUE]
                     [] d.op = "Start" -> StartFinished(p, wants)
                     [] OTHER          -> UpdateFinished(p, wants), Spend(app, wants))
    /\ UNCHANGED << peer, wire >>

(* doNextAction(), the slot of actionTrigger.                                *)
DoNextAction(wants) ==
    /\ Running /\ d.timer /\ CanWant(wants, d.out)
    /\ Becomes(ProcessNextAction([Quiet EXCEPT !.timer = FALSE], wants), Spend(app, wants))
    /\ UNCHANGED << peer, wire >>

(* startClient() and startServer(): a new connection, and a new peer.        *)
Start(server, ok) ==
    /\ Running /\ app.sessions < MaxSessions
    /\ (~InSession \/ "reset_in_flight" \in AppCalls)
    /\ LET p == ResetSessionAndData(Quiet)
       IN  Becomes([p EXCEPT !.state = "Initializing", !.server = server, !.op = "Start",
                             !.c = ContextStart(@, server, ok)],
                   [app EXCEPT !.sessions = @ + 1, !.written = 0, !.unanswered = {},
                               !.toRead = FALSE, !.toReadOutgoing = FALSE, !.chunks = <<>>,
                               !.sent = 0, !.told = 0, !.plainBytes = 0, !.steps = {}])
    /\ peer' = [got |-> 0, hs |-> 0, data |-> 0, fin |-> FALSE, gotFin |-> FALSE, raw |-> peer.raw]
    /\ wire' = <<>>

(* reset() by the application, at a quiet moment unless AppCalls says so.    *)
ResetByApp ==
    /\ Running /\ InSession
    /\ (d.op = "none" \/ "reset_in_flight" \in AppCalls)
    /\ Becomes(ResetSessionAndData(Quiet), [app EXCEPT !.unanswered = {}, !.toRead = FALSE,
                                               !.toReadOutgoing = FALSE])
    /\ UNCHANGED << peer, wire >>

(* continueAfterStep(), called once for each step signal.                    *)
ContinueAfterStep(step, wants) ==
    /\ Running /\ step \in app.unanswered /\ CanWant(wants, d.out)
    /\ Becomes(IF d.blocked THEN TlsUpdate([Quiet EXCEPT !.blocked = FALSE], wants) ELSE Quiet,
               Spend([app EXCEPT !.unanswered = @ \ {step}], wants))
    /\ UNCHANGED << peer, wire >>

(* write(), one byte at a time.                                              *)
Write(wants) ==
    /\ Running /\ InSession /\ app.written < MaxWrite /\ CanWant(wants, d.out + 1)
    /\ Becomes(TlsUpdate([Quiet EXCEPT !.out = @ + 1, !.layer = AddPlain(@, 1)], wants),
               Spend([app EXCEPT !.written = @ + 1], wants))
    /\ UNCHANGED << peer, wire >>

(* The public close().                                                       *)
CloseByApp ==
    /\ Running /\ d.state = "Connected"
    /\ Becomes(TlsUpdate(Close(Quiet), FALSE), app)
    /\ UNCHANGED << peer, wire >>

(* read(), in the slot of readyRead() or later.                              *)
TlsRead ==
    /\ Running /\ app.toRead
    /\ Becomes([Quiet EXCEPT !.in = 0], [app EXCEPT !.toRead = FALSE])
    /\ UNCHANGED << peer, wire >>

(* readOutgoing(&plainBytes), after readyReadOutgoing(); the socket sends    *)
(* the chunk to the peer.                                                    *)
ReadOutgoing ==
    /\ Running /\ app.toReadOutgoing
    /\ Becomes([Quiet EXCEPT !.to_net = <<>>, !.to_net_encoded = 0,
                             !.layer = SpecifyEncoded(@, Size(d.to_net), d.to_net_encoded)],
               [app EXCEPT !.toReadOutgoing = FALSE, !.plainBytes = d.to_net_encoded,
                           !.chunks = Append(@, [size |-> Size(d.to_net), plain |-> Plain(d.to_net)])])
    /\ peer' = [peer EXCEPT !.got = @ + Len(SelectSeq(d.to_net, LAMBDA r : r.kind = "hs")),
                            !.gotFin = @ \/ \E i \in DOMAIN d.to_net : d.to_net[i].kind = "fin"]
    /\ UNCHANGED wire

BytesOf(chunks) == FoldLeft(LAMBDA n, r : n + r.size, 0, chunks)
Handed == BytesOf(app.chunks)

(* The socket reports n more bytes written: convertBytesWritten(n).          *)
SocketWrote(n) ==
    /\ Running /\ InSession /\ "convert" \in AppCalls /\ n <= Handed - app.sent
    /\ LET f == Finished(d.layer, n)
       IN  Becomes([Quiet EXCEPT !.layer = f.layer],
                   [app EXCEPT !.sent = @ + n, !.told = @ + f.plain])
    /\ UNCHANGED << peer, wire >>

(* writeIncoming() with the next n records the socket has read.              *)
WriteIncoming(n, wants) ==
    /\ Running /\ n <= Len(wire) /\ CanWant(wants, d.out)
    /\ (InSession \/ "after_end" \in AppCalls)
    /\ Becomes(TlsUpdate([Quiet EXCEPT !.from_net = @ \o SubSeq(wire, 1, n)], wants), Spend(app, wants))
    /\ wire' = SubSeq(wire, n + 1, Len(wire))
    /\ UNCHANGED peer

(* The peer (external).  Its flight answers ours when it is the server; when *)
(* it is the client it speaks first, and its data waits for our last flight. *)
PeerSends(kind) ==
    /\ Running /\ InSession
    /\ peer.fin <=> kind = "raw"
    /\ CASE kind = "hs"  -> peer.hs < HsFlights /\ peer.got >= peer.hs + (IF d.server THEN 0 ELSE 1)
         [] kind = "app" -> peer.hs = HsFlights /\ peer.data < MaxApp
                              /\ (d.server => peer.got >= HsFlights)
         [] kind = "fin" -> peer.hs = HsFlights
         [] kind = "bad" -> peer.data < MaxApp
         [] kind = "raw" -> Rare < MaxRare
    /\ wire' = Append(wire, kind)
    /\ peer' = CASE kind = "hs"  -> [peer EXCEPT !.hs = @ + 1]
                 [] kind = "app" -> [peer EXCEPT !.data = @ + 1]
                 [] kind = "fin" -> [peer EXCEPT !.fin = TRUE]
                 [] kind = "bad" -> [peer EXCEPT !.data = MaxApp]
                 [] OTHER        -> [peer EXCEPT !.raw = @ + 1]
    /\ UNCHANGED << d, app >>

TlsNext ==
    \/ \E wants \in BOOLEAN : \/ ResultsReady(wants)
                              \/ DoNextAction(wants)
                              \/ Write(wants)
                              \/ \E step \in TlsSteps : ContinueAfterStep(step, wants)
                              \/ \E n \in 1 .. MaxChunk : WriteIncoming(n, wants)
    \/ \E server, ok \in BOOLEAN : Start(server, ok)
    \/ ResetByApp
    \/ CloseByApp
    \/ TlsRead
    \/ ReadOutgoing
    \/ \E n \in 1 .. 2 * MaxWrite + 2 * HsFlights + 3 : SocketWrote(n)
    \/ \E kind \in {"hs", "app", "fin", "bad", "raw"} : PeerSends(kind)

TlsSpec == TlsInit /\ [][TlsNext]_tlsVars

----------------------------------------------------------------------------
(* The event loop delivers posted results and timeouts; the application      *)
(* answers its step signals and fetches what is ready for the network; the   *)
(* socket hands over what arrives.  Nobody has to write, close or send.      *)
TlsFairness ==
    /\ WF_tlsVars(\E wants \in BOOLEAN : ResultsReady(wants))
    /\ WF_tlsVars(\E wants \in BOOLEAN : DoNextAction(wants))
    /\ WF_tlsVars(\E wants \in BOOLEAN, step \in TlsSteps : ContinueAfterStep(step, wants))
    /\ WF_tlsVars(\E wants \in BOOLEAN, n \in 1 .. MaxChunk : WriteIncoming(n, wants))
    /\ WF_tlsVars(ReadOutgoing)

TlsLiveSpec == TlsSpec /\ TlsFairness

----------------------------------------------------------------------------
States == {"Inactive", "Initializing", "Handshaking", "Connected", "Closing"}
Kinds == {"hs", "app", "fin", "bad", "raw"}
Actions == TlsSteps \cup {"Handshaken", "Close", "readyRead", "readyReadOutgoing"}

(* Every field of the session, the context and the environment has its type. *)
TlsTypeOK ==
    /\ d.state \in States /\ d.op \in {"none", "Start", "Update"}
    /\ {d.blocked, d.server, d.timer, d.need_update, d.maybe_input, d.asserted} \subseteq BOOLEAN
    /\ d.queue \in Seq(Actions) /\ d.emitted \subseteq TlsSteps
    /\ {d.out, d.in, d.c.posted, d.c.sendQueue, d.layer.p} \subseteq Nat
    /\ {d.out_pending, d.to_net_encoded} \subseteq Int
    /\ {d.from_net, d.unprocessed, d.c.rbio, wire} \subseteq Seq(Kinds)
    /\ d.c.mode \in {"Idle", "Handshake", "Active", "Closing"}
    /\ app.unanswered \subseteq TlsSteps /\ app.sent \in Nat /\ app.told \in Int

(* Nothing waits for a wake-up that no one will give: queued actions have    *)
(* the timer running and no operation beside them, a wanted update has the   *)
(* timer, an operation or an answer to wait for, and bytes from the network  *)
(* or, once connected, from the application are wanted or blocked.           *)
NothingStranded ==
    /\ d.queue # <<>> => d.timer /\ d.op = "none"
    /\ d.need_update => d.timer \/ d.op # "none" \/ d.blocked
    /\ InSession /\ d.from_net # <<>> => d.need_update \/ d.blocked
    /\ d.state = "Connected" /\ d.out > 0 => d.need_update \/ d.blocked

(* Whatever lies in the buffers has been announced, or will be: readyRead()  *)
(* and readyReadOutgoing() survive resets, errors and a close in between.    *)
BuffersAnnounced ==
    /\ d.in > 0 => app.toRead \/ "readyRead" \in ToSet(d.queue)
    /\ d.to_net # <<>> => app.toReadOutgoing \/ "readyReadOutgoing" \in ToSet(d.queue)

(* The context owes exactly the result TLS is waiting for: one result for    *)
(* the operation of op, none without an operation.                           *)
OneResultPerOperation == d.c.posted = (IF d.op = "none" THEN 0 ELSE 1)

(* The session's fields, queue, buffers and context fit together after every *)
(* call.                                                                     *)
SessionConsistent == TlsTypeOK /\ NothingStranded /\ BuffersAnnounced /\ OneResultPerOperation

(* A step signal is emitted at most once in a session, though every result   *)
(* of the handshake reports the hello again.                                 *)
StepsOnce ==
    [][d' # d /\ d'.signal \in TlsSteps => d'.signal \notin app.steps]_tlsVars

(* No byte of the application reaches the context while a step signal is     *)
(* unanswered ("By requiring this function to be called in order to          *)
(* proceed", continueAfterStep()).                                           *)
DataWaitsForSteps ==
    [][d'.out_pending > d.out_pending => app'.unanswered = {}]_tlsVars

(* A step comes once, and nothing overtakes it.                              *)
StepsInOrder == StepsOnce /\ DataWaitsForSteps

(* The plain bytes reported by convertBytesWritten() have all been sent:     *)
(* they are never more than the chunks the socket has wholly written held.   *)
NeverOverReports ==
    \E k \in 0 .. Len(app.chunks) :
        LET first == SubSeq(app.chunks, 1, k)
        IN  BytesOf(first) <= app.sent /\ app.told <= Plain(first)

(* readOutgoing() says how many plain bytes the chunk it returns encodes.    *)
PlainBytesHonest ==
    app.chunks # <<>> /\ ~app.toReadOutgoing => app.plainBytes = Last(app.chunks).plain

(* tls_resultsReady() asserts that an operation is active.                   *)
ResultsMatchOp == ~d.asserted

(* update() of the context is for a session that began and has not ended.    *)
UpdateInSession == d.op = "Update" => d.state \in {"Handshaking", "Connected", "Closing"}

(* When closed() is emitted, readUnprocessed() has everything that arrived   *)
(* after the peer's close_notify.                                            *)
UnprocessedIsAll == d.signal = "closed" => d.from_net = <<>>

(* The peer's close ends the session once its close_notify has been read.    *)
PeerCloseEnds == d.c.eof ~> ~InSession

(* A close by the application tells the peer, with no help from the peer.    *)
CloseIsSent == d.state = "Closing" ~> (peer.gotFin \/ ~InSession)

(* Application data that has arrived is delivered while the session is not   *)
(* being closed.                                                             *)
Undelivered == "app" \in ToSet(wire \o d.from_net \o d.c.rbio)
DataDelivered ==
    (d.state \in {"Handshaking", "Connected"} /\ Undelivered)
        ~> (~Undelivered \/ d.state \notin {"Handshaking", "Connected"})

(* What write() was given is encoded once the session is connected.          *)
WrittenIsEncoded ==
    (d.state = "Connected" /\ d.out + d.c.sendQueue > 0)
        ~> (d.out + d.c.sendQueue = 0 \/ d.state # "Connected")

(* What arrives is delivered, what the application wrote goes out, and what  *)
(* the peer closed is closed.                                                *)
SessionMovesOn == DataDelivered /\ WrittenIsEncoded /\ PeerCloseEnds
=============================================================================
