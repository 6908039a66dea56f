------------------------------- MODULE GPGProc -------------------------------
(***************************************************************************)
(* GPGProc (plugins/qca-gnupg/gpgproc/gpgproc.cpp): one run of gpg, with   *)
(* its standard channels and, in extended mode, three pipes more.  The end *)
(* of a run is known from two sources that come in any order: QProcess,    *)
(* whose signals go through a queue (QProcessSignalRelay), and the end of  *)
(* the status pipe.                                                        *)
(*                                                                         *)
(* gpg and QProcess are modelled as far as GPGProc sees them.  A chunk of  *)
(* input or output is its number.  The status pipe carries units; a unit   *)
(* with an even number ends a line.                                        *)
(***************************************************************************)
EXTENDS Naturals, Sequences, SequencesExt

CONSTANTS
  Channels,      \* the channels that are written to
  Pipes,         \* those that are a QPipe: aux and command
  MaxStarts,     \* bound: calls of start()
  MaxChunks,     \* bound: chunks the program writes to a channel
  MaxOut,        \* bound: chunks gpg puts out
  MaxUnits,      \* bound: units gpg writes to the status pipe
  ReadBuf,       \* PIPEEND_READBUF, in units
  Eager          \* the program writes while started() is on its way

ASSUME BoundsAssumption ==
  /\ Pipes \subseteq Channels
  /\ {MaxStarts, MaxChunks, MaxOut, MaxUnits} \subseteq Nat
  /\ ReadBuf \in Nat \ {0}
  /\ Eager \in BOOLEAN

VARIABLES
  proc,          \* the QProcess, its relay and the two triggers
  gpg,           \* the process itself
  chan,          \* per channel: what is kept for later, and what was passed on
  status,        \* the status pipe and what was read from it
  fin,           \* what is known of the end of the run
  out,           \* standard output, in QProcess and left over
  errors,        \* the error() signals that wait in the event loop
  starts,        \* how often start() was called
  given,         \* what the program has written to each channel in this run
  produced,      \* what gpg has written in this run: [out, status]
  taken,         \* the output the program has read, and the status lines it has heard of
  ends           \* the end signals of this run

vars == <<proc, gpg, chan, status, fin, out, errors, starts, given,
          produced, taken, ends>>

NoProc == [state |-> "none", relay |-> <<>>, startTrigger |-> FALSE,
           doneTrigger |-> FALSE, started |-> FALSE, broken |-> FALSE]
NewChannel == [pre |-> <<>>, pre_close |-> FALSE, sent |-> <<>>, closed |-> FALSE]
NewChannels == [c \in Channels |-> NewChannel]
NoStatus == [pipe |-> <<>>, valid |-> FALSE, buf |-> <<>>]
NoEnd == [need_status |-> FALSE, fin_status |-> FALSE, fin_process |-> FALSE,
          success |-> FALSE, code |-> "none"]

Init ==
  /\ proc = NoProc
  /\ gpg = "off"
  /\ chan = NewChannels
  /\ status = NoStatus
  /\ fin = NoEnd
  /\ out = [qt |-> <<>>, leftover |-> <<>>]
  /\ errors = 0
  /\ starts = 0
  /\ given = [c \in Channels |-> 0]
  /\ produced = [out |-> 0, status |-> 0]
  /\ taken = [out |-> <<>>, status |-> <<>>]
  /\ ends = <<>>

history == <<starts, given, produced, taken>>

----------------------------------------------------------------------------
(* The end of a session.                                                    *)

(* reset(ResetSession): the pipes and the process are gone, what was read   *)
(* stays; fin_process_success, exitCode and error stay too.                 *)
ClosePipes(s) == [s EXCEPT !.pipe = <<>>, !.valid = FALSE]
ClearFin(f) ==
  [f EXCEPT !.need_status = FALSE, !.fin_status = FALSE, !.fin_process = FALSE]

EndSession(s, f, leftover) ==
  /\ proc' = NoProc
  /\ gpg' = "off"
  /\ chan' = NewChannels
  /\ status' = ClosePipes(s)
  /\ fin' = ClearFin(f)
  /\ out' = [qt |-> <<>>, leftover |-> leftover]

(* A signal that tells of the end, with what had really become of gpg.      *)
Told(how, code) ==
  ends' = Append(ends, [how |-> how, code |-> code, gpg |-> gpg,
                        broken |-> proc.broken])

doTryDone(q, s, f) ==
  \/ /\ f.fin_process
     /\ f.need_status => f.fin_status
     /\ EndSession(s, f, out.qt)
     /\ Told(IF f.success THEN "finished" ELSE "error", f.code)
  \/ /\ ~(f.fin_process /\ (f.need_status => f.fin_status))
     /\ proc' = q
     /\ status' = s
     /\ fin' = f
     /\ UNCHANGED <<gpg, chan, out, ends>>

----------------------------------------------------------------------------
(* Reading status lines.                                                    *)

EndsLine(unit) == unit % 2 = 0

(* What one read takes from the pipe, with what was kept of the one before. *)
ReadSize == IF Len(status.pipe) < ReadBuf THEN Len(status.pipe) ELSE ReadBuf
ReadUnits == status.buf \o SubSeq(status.pipe, 1, ReadSize)

(* processStatusData(): whole lines are taken off, the rest is kept.        *)
WholeLines(units, n) ==
  /\ n > 0 => EndsLine(units[n])
  /\ \A m \in n + 1 .. Len(units) : ~EndsLine(units[m])
LastEnd(units) == CHOOSE n \in 0 .. Len(units) : WholeLines(units, n)

ReadLines == SubSeq(ReadUnits, 1, LastEnd(ReadUnits))
StatusRead ==
  [status EXCEPT
    !.pipe = SubSeq(@, ReadSize + 1, Len(@)),
    !.buf = SubSeq(ReadUnits, LastEnd(ReadUnits) + 1, Len(ReadUnits))]

(* readyReadStatusLines() is connected to a slot that takes the lines, and  *)
(* heeds them while the process is active.                                  *)
Hear(lines) == taken' = [taken EXCEPT !.status = @ \o lines]

(* status_read(), from the notifier of the pipe.                            *)
status_read ==
  /\ status.valid
  /\ status.pipe # <<>>
  /\ status' = StatusRead
  /\ Hear(ReadLines)
  /\ UNCHANGED <<proc, gpg, chan, fin, out, errors, starts, given, produced, ends>>

(* status_error(): gpg's end of the pipe is closed and everything was read. *)
status_error ==
  /\ status.valid
  /\ status.pipe = <<>>
  /\ gpg \notin {"off", "alive"}
  /\ doTryDone(proc, [status EXCEPT !.valid = FALSE],
               [fin EXCEPT !.fin_status = TRUE])
  /\ UNCHANGED <<errors, history>>

----------------------------------------------------------------------------
(* Calls of the program.                                                    *)

(* GPGProc::reset(), which clears what was kept of the run as well.         *)
WasReset == ends # <<>> /\ Last(ends).how = "reset"

reset ==
  /\ ~WasReset
  /\ EndSession(NoStatus, NoEnd, <<>>)
  /\ Told("reset", "none")
  /\ UNCHANGED <<errors, history>>

(* start() of an active GPGProc resets it, of an inactive one keeps what    *)
(* there is: its one user, GpgAction::start(), calls reset() first.         *)
NewRun ==
  /\ proc.state # "none" \/ starts = 0 \/ WasReset
  /\ starts < MaxStarts
  /\ starts' = starts + 1
  /\ given' = [c \in Channels |-> 0]
  /\ produced' = [out |-> 0, status |-> 0]
  /\ taken' = [out |-> <<>>, status |-> <<>>]
  /\ ends' = <<>>
  /\ gpg' = "off"
  /\ chan' = NewChannels
  /\ out' = [qt |-> <<>>, leftover |-> <<>>]

(* Mutant: an active GPGProc is started anew without its reset.             *)
startKeepsRelay(mode) ==
  /\ NewRun
  /\ proc' = [NoProc EXCEPT !.state = "new", !.startTrigger = TRUE,
                            !.relay = proc.relay]
  /\ status' = [NoStatus EXCEPT !.valid = (mode = "extended")]
  /\ fin' = [NoEnd EXCEPT !.need_status = (mode = "extended")]
  /\ UNCHANGED errors

start(mode) ==
  /\ NewRun
  /\ proc' = [NoProc EXCEPT !.state = "new", !.startTrigger = TRUE]
  /\ status' = [NoStatus EXCEPT !.valid = (mode = "extended")]
  /\ fin' = [NoEnd EXCEPT !.need_status = (mode = "extended")]
  /\ UNCHANGED errors

(* setupPipes() fails: error() is emitted later, and nothing has started.   *)
startFails ==
  /\ NewRun
  /\ proc' = NoProc
  /\ status' = NoStatus
  /\ fin' = NoEnd
  /\ errors' = errors + 1

(* A channel of the process or a pipe: nothing is passed on after a close.  *)
PassOn(ch, data) == IF ch.closed THEN ch ELSE [ch EXCEPT !.sent = @ \o data]
CloseNow(ch) == [ch EXCEPT !.closed = TRUE]

(* Before the process runs, what is written is kept.                        *)
Written(ch, chunk) ==
  IF proc.state = "running" THEN PassOn(ch, <<chunk>>)
  ELSE [ch EXCEPT !.pre = Append(@, chunk)]

Calm == Eager \/ proc.started \/ proc.state # "running"

write(c) ==
  /\ proc.state # "none"
  /\ Calm
  /\ ~chan[c].pre_close /\ ~chan[c].closed
  /\ given[c] < MaxChunks
  /\ given' = [given EXCEPT ![c] = @ + 1]
  /\ chan' = [chan EXCEPT ![c] = Written(@, given[c] + 1)]
  /\ UNCHANGED <<proc, gpg, status, fin, out, errors, starts, produced, taken, ends>>

close(c) ==
  /\ proc.state # "none"
  /\ Calm
  /\ chan' = [chan EXCEPT ![c] =
       IF proc.state = "running" THEN CloseNow(@)
       ELSE [@ EXCEPT !.pre_close = TRUE]]
  /\ UNCHANGED <<proc, gpg, status, fin, out, errors, history, ends>>

readStdout ==
  /\ taken' = [taken EXCEPT !.out =
       @ \o (IF proc.state # "none" THEN out.qt ELSE out.leftover)]
  /\ out' = IF proc.state # "none" THEN [out EXCEPT !.qt = <<>>]
            ELSE [out EXCEPT !.leftover = <<>>]
  /\ UNCHANGED <<proc, gpg, chan, status, fin, errors, starts, given, produced, ends>>

----------------------------------------------------------------------------
(* The event loop of GPGProc.                                               *)

doStart ==
  /\ proc.startTrigger
  /\ proc' = [proc EXCEPT !.startTrigger = FALSE, !.state = "starting"]
  /\ gpg' \in {"alive", "failed"}
  /\ UNCHANGED <<chan, status, fin, out, errors, history, ends>>

Next1 == [proc EXCEPT !.relay = Tail(@)]
Signalled(s) == proc.relay # <<>> /\ Head(proc.relay) = s

(* Mutant: the channel is closed before what was kept is passed on.         *)
PassOnPreCloseFirst(ch) ==
  LET ended == IF ch.pre_close THEN CloseNow(ch) ELSE ch
  IN [PassOn(ended, ch.pre) EXCEPT !.pre = <<>>]

PassOnPre(ch) ==
  LET filled == [PassOn(ch, ch.pre) EXCEPT !.pre = <<>>]
  IN IF ch.pre_close THEN CloseNow(filled) ELSE filled

proc_started ==
  /\ Signalled("started")
  /\ proc' = [Next1 EXCEPT !.started = TRUE]
  /\ chan' = [c \in Channels |-> PassOnPre(chan[c])]
  /\ UNCHANGED <<gpg, status, fin, out, errors, history, ends>>

(* Mutants: the status pipe is not read once more; or it is, and the end is *)
(* not tried again afterwards.                                              *)
ProcessOverNoRead(f) ==
  /\ doTryDone(Next1, status, [f EXCEPT !.fin_status = TRUE])
  /\ UNCHANGED taken

ProcessOverNoTrigger(f) ==
  LET last == f.need_status /\ ~f.fin_status
      s == IF last THEN ClosePipes(StatusRead) ELSE status
      g == [f EXCEPT !.fin_status = @ \/ last]
  IN \/ /\ last
        /\ ReadLines # <<>>
        /\ proc' = Next1
        /\ status' = s
        /\ fin' = g
        /\ Hear(ReadLines)
        /\ UNCHANGED <<gpg, chan, out, ends>>
     \/ /\ ~(last /\ ReadLines # <<>>)
        /\ doTryDone(Next1, s, g)
        /\ UNCHANGED taken

(* The last read of the status pipe, when the process is known to be gone:  *)
(* if it brings lines, the end is put off to the next round of the loop.    *)
ProcessOver(f) ==
  LET last == f.need_status /\ ~f.fin_status
      s == IF last THEN ClosePipes(StatusRead) ELSE status
      g == [f EXCEPT !.fin_status = @ \/ last]
  IN \/ /\ last
        /\ ReadLines # <<>>
        /\ proc' = [Next1 EXCEPT !.doneTrigger = TRUE]
        /\ status' = s
        /\ fin' = g
        /\ Hear(ReadLines)
        /\ UNCHANGED <<gpg, chan, out, ends>>
     \/ /\ ~(last /\ ReadLines # <<>>)
        /\ doTryDone(Next1, s, g)
        /\ UNCHANGED taken

proc_finished ==
  /\ \E code \in {"0", "2", "crash"} :
       /\ Signalled(code)
       /\ ProcessOver([fin EXCEPT !.code = code, !.fin_process = TRUE,
                                  !.success = TRUE])
  /\ UNCHANGED <<errors, starts, given, produced>>

proc_error ==
  /\ Signalled("error")
  /\ ProcessOver([fin EXCEPT !.fin_process = TRUE, !.success = FALSE])
  /\ UNCHANGED <<errors, starts, given, produced>>

doneTriggered ==
  /\ proc.doneTrigger
  /\ doTryDone([proc EXCEPT !.doneTrigger = FALSE], status, fin)
  /\ UNCHANGED <<errors, history>>

(* aux_error() and command_error(): gpg is gone and has not read it all.    *)
pipe_error ==
  /\ proc.state # "none"
  /\ fin.need_status
  /\ gpg \notin {"off", "alive"}
  /\ \E c \in Pipes : chan[c].sent # <<>>
  /\ EndSession(status, fin, out.leftover)
  /\ Told("pipe error", "none")
  /\ UNCHANGED <<errors, history>>

(* The error() that start() has posted.                                     *)
postedError ==
  /\ errors > 0
  /\ errors' = errors - 1
  /\ UNCHANGED <<proc, gpg, chan, status, fin, out, history, ends>>

----------------------------------------------------------------------------
(* gpg and QProcess.                                                        *)

gpgWritesStatus ==
  /\ gpg = "alive"
  /\ fin.need_status
  /\ produced.status < MaxUnits
  /\ produced' = [produced EXCEPT !.status = @ + 1]
  /\ status' = IF status.valid
               THEN [status EXCEPT !.pipe = Append(@, produced.status + 1)]
               ELSE status
  /\ UNCHANGED <<proc, gpg, chan, fin, out, errors, starts, given, taken, ends>>

(* QProcess has it in its buffer, and tells so.                             *)
gpgPutsOut ==
  /\ gpg = "alive"
  /\ proc.state = "running"
  /\ produced.out < MaxOut
  /\ produced' = [produced EXCEPT !.out = @ + 1]
  /\ out' = [out EXCEPT !.qt = Append(@, produced.out + 1)]
  /\ UNCHANGED <<proc, gpg, chan, status, fin, errors, starts, given, taken, ends>>

gpgEnds ==
  /\ gpg = "alive"
  /\ gpg' \in {"0", "2", "crash"}
  /\ UNCHANGED <<proc, chan, status, fin, out, errors, history, ends>>

(* QProcess learns that gpg runs, that it could not be run, that it ended,  *)
(* or that it does not read its input.                                      *)
processStarted ==
  /\ proc.state = "starting"
  /\ gpg \notin {"off", "failed"}
  /\ proc' = [proc EXCEPT !.state = "running", !.relay = Append(@, "started")]
  /\ UNCHANGED <<gpg, chan, status, fin, out, errors, history, ends>>

processFailed ==
  /\ proc.state = "starting"
  /\ gpg = "failed"
  /\ proc' = [proc EXCEPT !.state = "over", !.relay = Append(@, "error")]
  /\ UNCHANGED <<gpg, chan, status, fin, out, errors, history, ends>>

processWriteError ==
  /\ proc.state = "running"
  /\ ~proc.broken
  /\ \E c \in Channels \ Pipes : chan[c].sent # <<>>
  /\ proc' = [proc EXCEPT !.broken = TRUE, !.relay = Append(@, "error")]
  /\ UNCHANGED <<gpg, chan, status, fin, out, errors, history, ends>>

processDied ==
  /\ proc.state = "running"
  /\ gpg \in {"0", "2", "crash"}
  /\ proc' = [proc EXCEPT !.state = "over",
       !.relay = @ \o (IF gpg = "crash" THEN <<"error", gpg>> ELSE <<gpg>>)]
  /\ UNCHANGED <<gpg, chan, status, fin, out, errors, history, ends>>

----------------------------------------------------------------------------
Calls ==
  \/ reset \/ startFails \/ readStdout
  \/ \E mode \in {"normal", "extended"} : start(mode)
  \/ \E c \in Channels : write(c) \/ close(c)

Loop ==
  \/ doStart \/ proc_started \/ proc_finished \/ proc_error \/ doneTriggered
  \/ status_read \/ status_error \/ pipe_error \/ postedError

Outside ==
  \/ gpgWritesStatus \/ gpgPutsOut \/ gpgEnds
  \/ processStarted \/ processFailed \/ processWriteError \/ processDied

Next == Calls \/ Loop \/ Outside

Spec == Init /\ [][Next]_vars

(* The event loop runs, and QProcess tells what has happened to gpg.  gpg   *)
(* itself may run for ever.                                                 *)
LoopFairness ==
  /\ WF_vars(doStart) /\ WF_vars(proc_started) /\ WF_vars(proc_finished)
  /\ WF_vars(proc_error) /\ WF_vars(doneTriggered) /\ WF_vars(status_read)
  /\ WF_vars(status_error) /\ WF_vars(postedError)
  /\ WF_vars(processStarted) /\ WF_vars(processFailed) /\ WF_vars(processDied)

LiveSpec == Spec /\ LoopFairness

----------------------------------------------------------------------------
(* Properties.                                                              *)

Ended(how) == \E i \in DOMAIN ends : ends[i].how = how
Numbers(n) == [i \in 1..n |-> i]

TypeOK ==
  /\ proc.state \in {"none", "new", "starting", "running", "over"}
  /\ proc.state = "new" <=> proc.startTrigger
  /\ ToSet(proc.relay) \subseteq {"started", "error", "0", "2", "crash"}
  /\ gpg \in {"off", "alive", "failed", "0", "2", "crash"}
  /\ proc.state \in {"none", "new"} <=> gpg = "off"
  /\ status.valid => proc.state # "none" /\ fin.need_status /\ ~fin.fin_status
  /\ fin.code \in {"none", "0", "2", "crash"}
  /\ \A c \in Channels : given[c] \in 0..MaxChunks
  /\ errors \in 0..MaxStarts

(* A run that was started ends once, with finished(), error() or by         *)
(* reset(); nothing is told after that.  The end of the status pipe, the    *)
(* signals of the process and the trigger may come in any order.            *)
OneEnd ==
  /\ \A i, j \in DOMAIN ends : ends[i].how # "reset" /\ ends[j].how # "reset" => i = j
  /\ ends # <<>> => proc.state = "none"
  /\ WasReset \/ ~Ended("reset")

(* finished() brings the code of this run, and error() comes only when gpg  *)
(* could not be run, has crashed or does not take its input.                *)
EndIsTrue ==
  \A i \in DOMAIN ends :
    /\ ends[i].how = "finished" => ends[i].code = ends[i].gpg
    /\ ends[i].how = "error" => ends[i].gpg \in {"failed", "crash"} \/ ends[i].broken

(* The program has heard every status line before it is told of the end,    *)
(* and while the process is active, also those that were still in the pipe  *)
(* when the process was found to be gone.                                   *)
StatusBeforeEnd ==
  (\E i \in DOMAIN ends : ends[i].how \in {"finished", "error"} /\ ~ends[i].broken) =>
    taken.status = SubSeq(Numbers(produced.status), 1, LastEnd(Numbers(produced.status)))

(* Nothing of the output is lost or doubled between QProcess and what is    *)
(* left over after the end.                                                 *)
OutputKept ==
  ~Ended("reset") /\ ~Ended("pipe error") =>
    taken.out \o out.qt \o out.leftover = Numbers(produced.out)

(* What the program wrote to a channel, before or after the process was     *)
(* running, goes to gpg in the order written, and all of it.                *)
InputInOrder ==
  proc.state # "none" =>
    \A c \in Channels : chan[c].sent \o chan[c].pre = Numbers(given[c])

(* Nothing is lost in either direction.                                     *)
NothingLost == OutputKept /\ InputInOrder

(* One end, a true one, nothing before it left untold, and nothing lost.    *)
RunIsTrue == TypeOK /\ OneEnd /\ EndIsTrue /\ StatusBeforeEnd /\ NothingLost

(* Once gpg is gone, or could not be run, the end is told, unless the       *)
(* program has by then ended the run itself or started another.             *)
EndIsTold == (gpg \notin {"off", "alive"}) ~> (proc.state \in {"none", "new"})

(* gpgop.h on ErrorProcess: a process error is an error.                    *)
CrashIsError ==
  \A i \in DOMAIN ends : ends[i].gpg = "crash" => ends[i].how # "finished"
=============================================================================
