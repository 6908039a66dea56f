---------------------------- MODULE SecureMessage ----------------------------
(***************************************************************************)
(* A SecureMessage (src/src/qca_securemessage.cpp) that is worked on by    *)
(* the gnupg plugin: its MessageContext (plugins/qca-gnupg/qca-gnupg.cpp), *)
(* the GpgOp it starts and the GpgAction that talks to gpg                 *)
(* (plugins/qca-gnupg/gpgop.cpp).  Of GPGProc it takes what the module     *)
(* GPGProc shows: a run ends once, after its last status line.             *)
(*                                                                         *)
(* A program either works with the signals, or calls waitForFinished(),    *)
(* which blocks its thread while GpgOp runs in another (Synchronizer).     *)
(***************************************************************************)
EXTENDS Naturals, Sequences

CONSTANTS
  MaxOps,        \* bound: operations started
  MaxUpdates,    \* bound: update() calls of an operation, one byte each
  MaxPrompts,    \* bound: passphrases gpg asks for in an operation
  Patient,       \* gpg takes all its input, and waits for the answers it asked for
  Mixed          \* waitForFinished() may be called after the event loop has run

VARIABLES
  sm,            \* SecureMessage::Private
  c,             \* MyMessageContext
  op,            \* GpgOp::Private
  act,           \* GpgAction
  gpg,           \* the process
  asker,         \* the PasswordAsker of the context
  pc,            \* where the program's thread is
  app,           \* what the program has done, and was told; late: it waits for an
                 \* operation whose end or prompt the event loop has seen
  crashed        \* a null act was used

messageVars == <<sm, c, op, act, gpg, asker, pc, app, crashed>>

NoAct == [need_submitPassphrase |-> FALSE, posted |-> 0]
NoGpg == [state |-> "off", pending |-> 0, output |-> FALSE, prompts |-> 0]

MessageInit ==
  /\ sm = [in |-> FALSE, success |-> FALSE, sig |-> "none", args |-> <<>>, timers |-> {}]
  /\ c = [op |-> "none", sig |-> "none", finished |-> FALSE, ok |-> FALSE,
          out |-> FALSE, wrote |-> 0]
  /\ op = [act |-> FALSE, result |-> FALSE, success |-> FALSE, waiting |-> FALSE,
           events |-> <<>>]
  /\ act = NoAct
  /\ gpg = NoGpg
  /\ asker = "idle"
  /\ pc = "loop"
  /\ app = [phase |-> "idle", ops |-> 0, updates |-> 0, sig |-> FALSE, detached |-> FALSE,
            told |-> 0, accepted |-> 0, reported |-> 0, read |-> FALSE, late |-> FALSE]
  /\ crashed = FALSE

(* The objects of gpg get their events from the program's event loop, or    *)
(* from the one that runs while the program waits.                          *)
LoopRuns == pc \in {"loop", "wait"} /\ ~crashed
ProgramRuns == pc \in {"loop", "code"} /\ ~crashed

----------------------------------------------------------------------------
(* SecureMessage::updated(), with the context as its caller has left it.    *)

ContextReset(ctx) == [ctx EXCEPT !.wrote = 0, !.ok = FALSE]

updated(ctx) ==
  LET kept == IF ctx.finished
              THEN [sm EXCEPT !.args = <<>>, !.timers = {}, !.success = ctx.ok,
                              !.sig = IF ctx.ok THEN ctx.sig ELSE @]
              ELSE sm
      signals == (IF ctx.out THEN {"readyRead"} ELSE {})
                   \union (IF ctx.wrote > 0 THEN {"bytesWritten"} ELSE {})
                   \union (IF ctx.finished THEN {"finished"} ELSE {})
      taken == [ctx EXCEPT !.out = FALSE, !.wrote = 0]
  IN /\ sm' = [kept EXCEPT !.in = @ \/ ctx.out,
                 !.args = @ \o (IF ctx.wrote > 0 THEN <<ctx.wrote>> ELSE <<>>),
                 !.timers = @ \union signals]
     /\ c' = IF ctx.finished THEN ContextReset(taken) ELSE taken

(* The triggers are single-shot timers of the program's thread.             *)
t_readyRead ==
  /\ pc = "loop" /\ ~crashed
  /\ "readyRead" \in sm.timers
  /\ sm' = [sm EXCEPT !.timers = @ \ {"readyRead"}, !.in = FALSE]
  /\ app' = [app EXCEPT !.read = @ \/ sm.in]
  /\ UNCHANGED <<c, op, act, gpg, asker, pc, crashed>>

t_bytesWritten ==
  /\ pc = "loop" /\ ~crashed
  /\ "bytesWritten" \in sm.timers
  /\ sm' = [sm EXCEPT !.timers = @ \ {"bytesWritten"}, !.args = Tail(@)]
  /\ app' = [app EXCEPT !.reported = @ + Head(sm.args)]
  /\ UNCHANGED <<c, op, act, gpg, asker, pc, crashed>>

t_finished ==
  /\ pc = "loop" /\ ~crashed
  /\ "finished" \in sm.timers
  /\ sm' = [sm EXCEPT !.timers = @ \ {"finished"}]
  /\ app' = [app EXCEPT !.told = @ + 1, !.phase = "idle"]
  /\ UNCHANGED <<c, op, act, gpg, asker, pc, crashed>>

----------------------------------------------------------------------------
(* The program's calls.                                                     *)

(* A bug: start() leaves _finished as the last operation set it.            *)
StartedFinished(what, withSig) ==
  [ContextReset(c) EXCEPT !.op = what, !.sig = IF withSig THEN "given" ELSE @]

(* start() of the context.                                                  *)
Started(what, withSig) ==
  [ContextReset(c) EXCEPT !.op = what, !.finished = FALSE,
                          !.sig = IF withSig THEN "given" ELSE @]

(* startEncrypt(), startSign(Detached), startVerify(sig): a new operation,  *)
(* a new GpgAction, a new gpg.  Then the program goes on with its own code, *)
(* or goes back to the event loop.                                          *)
startOp(what, withSig, then) ==
  /\ pc = "loop" /\ ~crashed
  /\ app.phase = "idle"
  /\ app.ops < MaxOps
  /\ sm' = [sm EXCEPT !.in = FALSE, !.success = FALSE, !.sig = "none",
                      !.args = <<>>, !.timers = {}]
  /\ c' = Started(what, withSig)
  /\ op' = [op EXCEPT !.act = TRUE, !.result = FALSE, !.success = FALSE, !.events = <<>>]
  /\ act' = NoAct
  /\ gpg' = [NoGpg EXCEPT !.state = "runs"]
  /\ pc' = then
  /\ app' = [app EXCEPT !.phase = "input", !.ops = @ + 1, !.updates = 0,
               !.sig = withSig, !.detached = (what = "verify" /\ c'.sig # "none"),
               !.told = 0, !.accepted = 0, !.reported = 0, !.read = FALSE, !.late = FALSE]
  /\ UNCHANGED <<asker, crashed>>

startSome ==
  \E then \in {"loop", "code"} :
    \/ \E what \in {"encrypt", "sign"} : startOp(what, FALSE, then)
    \/ \E withSig \in BOOLEAN : startOp("verify", withSig, then)

(* GpgOp::write() and endWrite() go to act, whether there is one or not.    *)
update ==
  /\ ProgramRuns
  /\ app.phase = "input"
  /\ app.updates < MaxUpdates
  /\ app' = [app EXCEPT !.updates = @ + 1]
  /\ gpg' = IF op.act THEN [gpg EXCEPT !.pending = @ + 1] ELSE gpg
  /\ crashed' = ~op.act
  /\ UNCHANGED <<sm, c, op, act, asker, pc>>

end ==
  /\ ProgramRuns
  /\ app.phase = "input"
  /\ app' = [app EXCEPT !.phase = "ended"]
  /\ crashed' = ~op.act
  /\ UNCHANGED <<sm, c, op, act, gpg, asker, pc>>

(* Back to the event loop, without waiting.                                 *)
goToLoop ==
  /\ pc = "code"
  /\ Mixed
  /\ pc' = "loop"
  /\ UNCHANGED <<sm, c, op, act, gpg, asker, app, crashed>>

waitForFinished ==
  /\ pc = "code" \/ (pc = "loop" /\ Mixed)
  /\ ~crashed
  /\ app.phase = "ended"
  /\ pc' = "step"
  /\ app' = [app EXCEPT !.late = ~op.act \/ asker # "idle"]
  /\ UNCHANGED <<sm, c, op, act, gpg, asker, crashed>>

----------------------------------------------------------------------------
(* GpgOp and the context.                                                   *)

eventReady(e) ==
  /\ op' = [op EXCEPT !.events = Append(@, e)]
  /\ UNCHANGED <<sm, c>>

(* act_bytesWritten() and gpg_bytesWritten(): the context counts, and does  *)
(* not tell.                                                                *)
bytesWritten ==
  /\ LoopRuns
  /\ gpg.pending > 0
  /\ gpg' = [gpg EXCEPT !.pending = @ - 1]
  /\ app' = [app EXCEPT !.accepted = @ + 1]
  /\ \/ op.waiting /\ eventReady("bytesWritten")
     \/ /\ ~op.waiting
        /\ c' = [c EXCEPT !.wrote = @ + 1]
        /\ UNCHANGED <<sm, op>>
  /\ UNCHANGED <<act, asker, pc, crashed>>

(* act_readyRead() and gpg_readyRead().                                     *)
readyRead ==
  /\ LoopRuns
  /\ gpg.state = "runs"
  /\ ~gpg.output
  /\ gpg' = [gpg EXCEPT !.output = TRUE]
  /\ \/ op.waiting /\ eventReady("readyRead")
     \/ ~op.waiting /\ updated(c) /\ UNCHANGED op
  /\ UNCHANGED <<act, asker, pc, app, crashed>>

(* The status line GET_HIDDEN; needPassphrase() is emitted later.           *)
getHidden ==
  /\ LoopRuns
  /\ gpg.state = "runs"
  /\ gpg.prompts < MaxPrompts
  /\ gpg' = [gpg EXCEPT !.state = "asks", !.prompts = @ + 1]
  /\ act' = [need_submitPassphrase |-> TRUE, posted |-> act.posted + 1]
  /\ UNCHANGED <<sm, c, op, asker, pc, app, crashed>>

needPassphrase ==
  /\ LoopRuns
  /\ act.posted > 0
  /\ act' = [act EXCEPT !.posted = @ - 1]
  /\ \/ op.waiting /\ eventReady("needPassphrase") /\ UNCHANGED asker
     \/ ~op.waiting /\ asker' = "asked" /\ UNCHANGED <<sm, c, op>>
  /\ UNCHANGED <<gpg, pc, app, crashed>>

(* complete(): the result becomes output or, for a detached signature, sig. *)
complete(ctx, ok) ==
  [ctx EXCEPT !.finished = TRUE, !.ok = ok,
     !.sig = IF ok /\ ctx.op = "sign" THEN "made" ELSE @,
     !.out = IF ok /\ ctx.op # "sign" THEN TRUE ELSE @]

(* act_finished() and gpg_finished().                                       *)
EndedOp(ok) == [op EXCEPT !.act = FALSE, !.result = ok, !.success = ok]

gpgFinished(ok) ==
  /\ LoopRuns
  /\ gpg.state = "runs" \/ (gpg.state = "asks" /\ ~Patient /\ ~ok)
  /\ (Patient \/ ok) => app.phase # "input" /\ gpg.pending = 0
  /\ gpg' = NoGpg
  /\ act' = NoAct
  /\ \/ /\ op.waiting
        /\ op' = [EndedOp(ok) EXCEPT !.events = Append(@, "finished")]
        /\ UNCHANGED <<sm, c>>
     \/ /\ ~op.waiting
        /\ op' = EndedOp(ok)
        /\ updated(complete(c, ok))
  /\ UNCHANGED <<asker, pc, app, crashed>>

(* The user answers, in an event handler of the program.                    *)
answer ==
  /\ asker = "asked"
  /\ asker' \in {"accepted", "rejected"}
  /\ UNCHANGED <<sm, c, op, act, gpg, pc, app, crashed>>

submitPassphrase ==
  /\ crashed' = ~op.act
  /\ IF op.act /\ act.need_submitPassphrase
     THEN /\ act' = [act EXCEPT !.need_submitPassphrase = FALSE]
          /\ gpg' = [gpg EXCEPT !.state = "runs"]
     ELSE UNCHANGED <<act, gpg>>
  /\ UNCHANGED <<sm, c, op>>

(* seterror(): GpgOp::reset() ends gpg, and the context has failed.         *)
SetError == [c EXCEPT !.finished = TRUE, !.ok = FALSE]
seterror ==
  /\ op' = [op EXCEPT !.act = FALSE, !.result = FALSE, !.success = FALSE, !.events = <<>>]
  /\ act' = NoAct
  /\ gpg' = NoGpg
  /\ updated(SetError)
  /\ UNCHANGED crashed

asker_responseReady ==
  /\ pc = "loop" /\ ~crashed
  /\ \/ asker = "accepted" /\ submitPassphrase
     \/ asker = "rejected" /\ seterror
  /\ asker' = "idle"
  /\ UNCHANGED <<pc, app>>

----------------------------------------------------------------------------
(* waitForFinished() of the context, and updated() after it.                *)

(* A bug: the first event is looked at and stays in the list.              *)
AfterPeek == op

AfterTake == [op EXCEPT !.events = Tail(@)]

takeEvent ==
  /\ pc = "step"
  /\ op.events # <<>>
  /\ LET e == Head(op.events)
         rest == AfterTake
     IN \/ /\ e = "needPassphrase"
           /\ asker' = "asked"
           /\ pc' = "ask"
           /\ op' = rest
           /\ UNCHANGED <<sm, c>>
        \/ /\ e = "finished"
           /\ pc' = "loop"
           /\ op' = rest
           /\ updated(complete(c, op.success))
           /\ UNCHANGED asker
        \/ /\ e \notin {"needPassphrase", "finished"}
           /\ op' = rest
           /\ UNCHANGED <<sm, c, asker, pc>>
  /\ UNCHANGED <<act, gpg, app, crashed>>

(* waitForEvent(): with no act it returns an event of no type at once, and  *)
(* the loop of waitForFinished() goes round for ever.                       *)
waitForEvent ==
  /\ pc = "step"
  /\ op.events = <<>>
  /\ op.act
  /\ op' = [op EXCEPT !.waiting = TRUE]
  /\ pc' = "wait"
  /\ UNCHANGED <<sm, c, act, gpg, asker, app, crashed>>

conditionMet ==
  /\ pc = "wait"
  /\ op.events # <<>>
  /\ op' = [op EXCEPT !.waiting = FALSE]
  /\ pc' = "step"
  /\ UNCHANGED <<sm, c, act, gpg, asker, app, crashed>>

(* A bug: waitForFinished() goes on after a rejected passphrase.            *)
waitForResponseGoesOn ==
  /\ pc = "ask"
  /\ \/ asker = "accepted" /\ submitPassphrase
     \/ asker = "rejected" /\ seterror
  /\ pc' = "step"
  /\ asker' = "idle"
  /\ UNCHANGED app

waitForResponse ==
  /\ pc = "ask"
  /\ \/ asker = "accepted" /\ submitPassphrase /\ pc' = "step"
     \/ asker = "rejected" /\ seterror /\ pc' = "loop"
  /\ asker' = "idle"
  /\ UNCHANGED app

----------------------------------------------------------------------------
Program == startSome \/ update \/ end \/ goToLoop \/ waitForFinished
Triggers == t_readyRead \/ t_bytesWritten \/ t_finished
FromGpg == bytesWritten \/ readyRead \/ getHidden \/ needPassphrase
             \/ \E ok \in BOOLEAN : gpgFinished(ok)
Waiting == takeEvent \/ waitForEvent \/ conditionMet \/ waitForResponse
Answering == answer \/ asker_responseReady

MessageNext == Program \/ Triggers \/ FromGpg \/ Waiting \/ Answering

MessageSpec == MessageInit /\ [][MessageNext]_messageVars

(* The event loops run, a program that has started ends its input, the user *)
(* answers, and gpg goes on and ends.                                       *)
MessageFairness ==
  /\ WF_messageVars(end) /\ WF_messageVars(pc = "code" /\ waitForFinished)
  /\ WF_messageVars(t_readyRead) /\ WF_messageVars(t_bytesWritten) /\ WF_messageVars(t_finished)
  /\ WF_messageVars(bytesWritten) /\ WF_messageVars(needPassphrase)
  /\ WF_messageVars(gpgFinished(TRUE) \/ gpgFinished(FALSE))
  /\ WF_messageVars(Waiting) /\ WF_messageVars(answer) /\ WF_messageVars(asker_responseReady)

MessageLiveSpec == MessageSpec /\ MessageFairness

----------------------------------------------------------------------------
(* Properties.                                                              *)

MessageTypeOK ==
  /\ sm.timers \subseteq {"readyRead", "bytesWritten", "finished"}
  /\ "bytesWritten" \in sm.timers => sm.args # <<>>
  /\ pc \in {"loop", "code", "step", "wait", "ask"}
  /\ pc = "wait" <=> op.waiting
  /\ op.act <=> gpg.state # "off"
  /\ act.need_submitPassphrase => gpg.state = "asks"
  /\ op.success => ~op.act
  /\ app.phase \in {"idle", "input", "ended"}

(* finished() is emitted once for an operation, whether it ends by gpg, by  *)
(* a rejected passphrase or in waitForFinished().                           *)
FinishedOnce == app.told <= 1

(* What success() and signature() say once finished() was emitted stays     *)
(* until the next operation is started.                                     *)
ResultStands ==
  [][app.told > 0 /\ app.ops' = app.ops =>
       sm'.success = sm.success /\ sm'.sig = sm.sig]_messageVars

(* A passphrase is asked for on behalf of the gpg that waits for it: no     *)
(* prompt is shown, and no answer is under way, after the operation it was  *)
(* for.                                                                     *)
PromptIsCurrent == asker # "idle" => gpg.state = "asks"

(* After a success the program has the output, or it waits to be read and   *)
(* readyRead() will tell.                                                   *)
OutputIsThere ==
  app.told > 0 /\ sm.success /\ c.op # "sign" =>
    app.read \/ (sm.in /\ "readyRead" \in sm.timers)

(* The message, its context, gpg and the prompt agree on the operation.     *)
MessageConsistent == MessageTypeOK /\ FinishedOnce /\ PromptIsCurrent /\ OutputIsThere

(* A started operation is finished, and told so, unless the program used    *)
(* the null act that NoNullAct is about, or waits too late.                 *)
OperationFinishes == (app.phase # "idle") ~> (app.told > 0 \/ crashed \/ app.late)

(* waitForFinished() returns when it is called while gpg works and no       *)
(* prompt is open: whatever comes then is queued, and looked at in turn.    *)
WaitReturns == (pc \in {"step", "wait", "ask"} /\ ~app.late) ~> (pc = "loop")

(* Every operation ends, by signals or in waitForFinished().                *)
CallsEnd == OperationFinishes /\ WaitReturns

(* qca_securemessage.h on waitForFinished(): it blocks until the operation  *)
(* completes.  When the event loop has seen the end of gpg before, or has   *)
(* a prompt open, it does not return (see the README).                      *)
WaitAlwaysReturns == (pc \in {"step", "wait", "ask"}) ~> (pc = "loop")

(* qca_securemessage.h on update(): it may be called once the operation was *)
(* set up; also an answer of the user may come at any time.                 *)
NoNullAct == ~crashed

(* qca_securemessage.h on bytesWritten(): data that was accepted is told.   *)
ReportsAddUp ==
  app.told > 0 /\ sm.timers = {} => app.reported = app.accepted

(* qcaprovider.h on MessageContext::reset(): the context is back in its     *)
(* initial state, so the signature of an earlier operation is not used.     *)
VerifiesAsAsked ==
  c.op = "verify" /\ app.phase # "idle" => app.detached = app.sig
=============================================================================
