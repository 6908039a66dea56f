------------------------------ MODULE Console ------------------------------
(***************************************************************************)
(* Console, ConsoleReference and ConsolePrompt of src/support/console.cpp.  *)
(* The console's thread reads the terminal (a QPipeEnd, here its buffer)    *)
(* and emits signals, which are queued for the reference in the program's   *)
(* thread; calls go the other way and are answered at once (SyncThread).    *)
(* A prompt takes the keys one by one until the line, or the character, is  *)
(* there.                                                                   *)
(*                                                                         *)
(* A program either has a console for good, or each prompt makes its own    *)
(* and destroys it, with what the user typed ahead.  Output and the modes   *)
(* of the terminal are left out.                                            *)
(***************************************************************************)
EXTENDS Naturals, Sequences, SequencesExt

CONSTANTS
  MaxTyped, MaxPrompts,  \* bounds
  InputMax               \* CONSOLEPROMPT_INPUT_MAX

ASSUME ConsoleAssumption == {MaxTyped, MaxPrompts, InputMax} \subseteq Nat

Keys == {"x", "backspace", "newline"}

VARIABLES
  typed, tty, hungup,  \* what the user has typed, what of it waits, and the end of input
  con,                 \* the Console: with its input's end: its buffer, and whether it is valid
  ref,                 \* the ConsoleReference: console, connected, lateTrigger, flags
  posted,              \* the signals queued for it
  prompt,              \* ConsolePrompt::Private; asked: a call waits for its end
  pc,                  \* where the program's thread is
  lateNext,            \* doLate() has still to look at late_close
  left,                \* in_left of the thread: what bytesLeftToRead() returns
  calls,               \* calls of getHidden() and getChar()
  answers,             \* history: how prompts have ended
  used,                \* history: the keys that prompts have read
  missed,              \* history: start() has missed a signal
  bad                  \* "null": a null pointer was used; "waits": for nothing; or "no"

consoleVars == <<typed, tty, hungup, con, ref, posted, prompt, pc, lateNext, left, calls,
                 answers, used, missed, bad>>

NoConsole == [there |-> FALSE, own_con |-> FALSE, released |-> FALSE, buf |-> <<>>, valid |-> FALSE]
NoRef == [console |-> FALSE, connected |-> FALSE, lateTrigger |-> FALSE,
          late_read |-> FALSE, late_close |-> FALSE]

ConsoleInit ==
  /\ typed = <<>> /\ tty = <<>> /\ hungup = FALSE
  /\ con = NoConsole
  /\ ref = NoRef
  /\ posted = <<>>
  /\ prompt = [charMode |-> FALSE, result |-> <<>>, done |-> FALSE, waiting |-> FALSE,
               asked |-> FALSE]
  /\ pc = "loop" /\ lateNext = FALSE
  /\ left = <<>>
  /\ calls = 0 /\ answers = <<>> /\ used = 0 /\ missed = FALSE /\ bad = "no"

user == <<typed, tty, hungup>>
consoleHistory == <<calls, answers, used, missed, bad>>
program == <<prompt, pc, lateNext, left>>

----------------------------------------------------------------------------
(* The user, and the console's thread.                                       *)

Type(key) ==
  /\ Len(typed) < MaxTyped /\ ~hungup
  /\ typed' = Append(typed, key)
  /\ tty' = Append(tty, key)
  /\ UNCHANGED <<hungup, con, ref, posted, program, consoleHistory>>

HangUp ==
  /\ ~hungup
  /\ hungup' = TRUE
  /\ UNCHANGED <<typed, tty, con, ref, posted, program, consoleHistory>>

\* A signal is queued for the reference that is connected; there is none while
\* start() is between its questions and connect().
Signals(signal, asked) ==
  /\ posted' = IF ref.connected THEN Append(posted, signal) ELSE posted
  /\ missed' = (missed \/ pc \in asked)
  /\ UNCHANGED <<ref, program, calls, answers, used, bad>>

in_readyRead ==
  /\ con.valid /\ tty # <<>>
  /\ \E n \in 1 .. Len(tty) :
       /\ con' = [con EXCEPT !.buf = @ \o SubSeq(tty, 1, n)]
       /\ tty' = SubSeq(tty, n + 1, Len(tty))
  /\ Signals("readyRead", {"connect"})
  /\ UNCHANGED <<typed, hungup>>

in_closed ==
  /\ con.valid /\ tty = <<>> /\ hungup
  /\ con' = [con EXCEPT !.valid = FALSE]
  /\ Signals("inputClosed", {"avail", "connect"})
  /\ UNCHANGED user

----------------------------------------------------------------------------
(* The program and its Console.                                              *)

Opened(own) ==
  [there |-> TRUE, own_con |-> own, released |-> FALSE, buf |-> <<>>, valid |-> ~hungup]

CreateConsole ==
  /\ pc = "loop" /\ calls = 0 /\ ~con.there
  /\ con' = Opened(FALSE)
  /\ UNCHANGED <<user, ref, posted, program, consoleHistory>>

\* ConsoleReference::stop(): the late trigger is stopped, and the signals that
\* are queued stay so.
Stopped == [ref EXCEPT !.console = FALSE, !.connected = FALSE, !.lateTrigger = FALSE]

\* release(): stop() and then atEnd(), which takes in_left from the worker before
\* the worker's destructor puts there what it has, so that left stays empty.
release ==
  /\ pc = "loop" /\ con.there /\ ~con.own_con /\ ~con.released /\ ~ref.console
  /\ con' = [con EXCEPT !.released = TRUE, !.valid = FALSE, !.buf = <<>>]
  /\ tty' = <<>>
  /\ UNCHANGED <<typed, hungup, ref, posted, program, consoleHistory>>

\* ConsolePrompt::Private::reset(), for its console.
Reset(c) == IF c.own_con THEN NoConsole ELSE c

----------------------------------------------------------------------------
(* getHidden() and getChar(): ConsoleReference::start() in its steps, as the  *)
(* console's thread goes on between them.  The program asks again when it     *)
(* was told of the end.                                                       *)

Ask(charMode) ==
  /\ pc \in {"loop", "slot"} /\ bad = "no"
  /\ ~prompt.asked /\ ~con.released
  /\ calls < MaxPrompts
  /\ calls' = calls + 1
  /\ con' = IF con.there THEN con ELSE Opened(TRUE)
  /\ ref' = [NoRef EXCEPT !.console = TRUE]
  /\ prompt' = [charMode |-> charMode, result |-> <<>>, done |-> FALSE, waiting |-> FALSE,
                asked |-> TRUE]
  /\ pc' = "valid"
  /\ UNCHANGED <<user, posted, lateNext, left, answers, used, missed, bad>>

isValid ==
  /\ pc = "valid"
  /\ ref' = [ref EXCEPT !.late_close = ~con.valid]
  /\ pc' = "avail"
  /\ UNCHANGED <<user, con, posted, prompt, lateNext, left, consoleHistory>>

\* To the event loop, or on in doLate().
Return == IF lateNext THEN "late_close" ELSE "loop"

start_fails ==
  /\ pc = "avail" /\ ref.late_close /\ con.buf = <<>>
  /\ ref' = NoRef
  /\ con' = Reset(con)
  /\ posted' = Append(posted, "finished")
  /\ pc' = Return
  /\ UNCHANGED <<user, prompt, lateNext, left, consoleHistory>>

bytesAvailable ==
  /\ pc = "avail" /\ ~(ref.late_close /\ con.buf = <<>>)
  /\ ref' = [ref EXCEPT !.late_read = con.buf # <<>>]
  /\ pc' = "connect"
  /\ UNCHANGED <<user, con, posted, prompt, lateNext, left, consoleHistory>>

connect ==
  /\ pc = "connect"
  /\ ref' = [ref EXCEPT !.connected = TRUE, !.lateTrigger = ref.late_read \/ ref.late_close]
  /\ pc' = Return
  /\ UNCHANGED <<user, con, posted, prompt, lateNext, left, consoleHistory>>

\* After a start that has failed, it uses the console that is no more, or waits
\* for what has happened.
waitForFinished ==
  /\ pc = "loop" /\ prompt.asked /\ ~prompt.waiting /\ bad = "no"
  /\ bad' = IF ref.console THEN "no" ELSE IF con.there THEN "waits" ELSE "null"
  /\ prompt' = [prompt EXCEPT !.waiting = TRUE]
  /\ UNCHANGED <<user, con, ref, posted, pc, lateNext, left, calls, answers, used, missed>>

----------------------------------------------------------------------------
(* The slots of the prompt.                                                   *)

PromptTold(how, result, upTo) ==
  answers' = Append(answers, [how |-> how, charMode |-> prompt.charMode, result |-> result,
                              upTo |-> upTo])

\* done: reset(), and then waitForFinished() returns, or finished() is emitted,
\* in whose slot the program may ask again.  reset() stops the late trigger, but
\* the signals that are queued stay so.
Ends(c, how, result, upTo) ==
  /\ con' = Reset(c)
  /\ ref' = [ref EXCEPT !.console = FALSE, !.connected = FALSE, !.lateTrigger = FALSE]
  /\ prompt' = [prompt EXCEPT !.result = result, !.done = TRUE, !.waiting = FALSE,
                              !.asked = FALSE]
  /\ PromptTold(how, result, upTo)
  /\ pc' = IF prompt.waiting THEN Return ELSE "slot"

processChar(key) ==
  CASE prompt.charMode -> <<key>>
    [] ~prompt.charMode /\ key = "backspace" /\ prompt.result # <<>> -> Front(prompt.result)
    [] ~prompt.charMode /\ key = "x" /\ Len(prompt.result) < InputMax -> Append(prompt.result, key)
    [] OTHER -> prompt.result

\* Mutant: what is there is read before it is looked at.
EndsAtAll(key) == (prompt.charMode \/ key = "newline") /\ Len(con.buf) = 1

EndsAt(key) == prompt.charMode \/ key = "newline"

\* One turn of the loop of con_readyRead().
con_readyRead ==
  /\ pc = "reading" /\ con.buf # <<>>
  /\ used' = used + 1
  /\ LET key == Head(con.buf)
         c == [con EXCEPT !.buf = Tail(@)]
     IN IF EndsAt(key) THEN Ends(c, "typed", processChar(key), used')
        ELSE /\ con' = c
             /\ prompt' = [prompt EXCEPT !.result = processChar(key)]
             /\ UNCHANGED <<ref, pc, answers>>
  /\ UNCHANGED <<user, posted, lateNext, left, calls, missed, bad>>

con_readyRead_returns ==
  /\ pc = "reading" /\ con.buf = <<>>
  /\ pc' = Return
  /\ UNCHANGED <<user, con, ref, posted, prompt, lateNext, left, consoleHistory>>

\* It is the last thing that its callers do.
con_inputClosed ==
  IF prompt.done THEN pc' = "loop" /\ UNCHANGED <<con, ref, prompt, answers>>
  ELSE Ends(con, "closed", <<>>, used)

----------------------------------------------------------------------------
(* The program's event loop, or that of waitForFinished().                    *)

Turn == pc = "loop" /\ posted # <<>> /\ bad = "no" /\ posted' = Tail(posted)

\* A prompt whose reference has been stopped asks a null thread for its bytes.
readyRead_delivered ==
  /\ Turn /\ Head(posted) = "readyRead"
  /\ bad' = IF ref.console THEN bad ELSE "null"
  /\ pc' = IF ref.console THEN "reading" ELSE pc
  /\ UNCHANGED <<user, con, ref, prompt, lateNext, left, calls, answers, used, missed>>

inputClosed_delivered ==
  /\ Turn /\ Head(posted) = "inputClosed"
  /\ con_inputClosed
  /\ UNCHANGED <<user, lateNext, left, calls, used, missed, bad>>

\* finished() of a start that has failed.
finished_delivered ==
  /\ Turn /\ Head(posted) = "finished"
  /\ PromptTold("failed", prompt.result, used)
  /\ prompt' = [prompt EXCEPT !.asked = FALSE]
  /\ pc' = "slot"
  /\ UNCHANGED <<user, con, ref, lateNext, left, calls, used, missed, bad>>

\* doLate(), up to its first emit and from there.
doLate ==
  /\ pc = "loop" /\ ref.lateTrigger /\ bad = "no"
  /\ ref' = [ref EXCEPT !.lateTrigger = FALSE]
  /\ lateNext' = TRUE
  /\ pc' = IF ref.late_read THEN "reading" ELSE "late_close"
  /\ UNCHANGED <<user, con, posted, prompt, left, consoleHistory>>

doLate_goes_on ==
  /\ pc = "late_close"
  /\ lateNext' = FALSE
  /\ IF ref.late_close THEN con_inputClosed ELSE pc' = "loop" /\ UNCHANGED <<con, ref, prompt, answers>>
  /\ UNCHANGED <<user, posted, left, calls, used, missed, bad>>

slot_returns ==
  /\ pc = "slot"
  /\ pc' = Return
  /\ UNCHANGED <<user, con, ref, posted, prompt, lateNext, left, consoleHistory>>

----------------------------------------------------------------------------
Thread == in_readyRead \/ in_closed

Slots ==
  \/ isValid \/ start_fails \/ bytesAvailable \/ connect
  \/ con_readyRead \/ con_readyRead_returns
  \/ readyRead_delivered \/ inputClosed_delivered \/ finished_delivered
  \/ doLate \/ doLate_goes_on \/ slot_returns

ConsoleNext ==
  \/ \E key \in Keys : Type(key)
  \/ HangUp
  \/ Thread
  \/ CreateConsole \/ release
  \/ \E charMode \in BOOLEAN : Ask(charMode)
  \/ waitForFinished
  \/ Slots

\* Both threads run.
ConsoleFairness == WF_consoleVars(Thread) /\ WF_consoleVars(Slots)

ConsoleSpec == ConsoleInit /\ [][ConsoleNext]_consoleVars

----------------------------------------------------------------------------
ConsoleTypeOK ==
  /\ typed \in Seq(Keys) /\ Len(tty) + used <= Len(typed)
  /\ ref.connected => ref.console
  /\ ref.console => con.there
  /\ ref.lateTrigger => ref.connected
  /\ prompt.waiting => prompt.asked
  /\ pc \in {"loop", "slot", "valid", "avail", "connect", "reading", "late_close"}
  /\ Len(prompt.result) <= IF prompt.charMode THEN 1 ELSE InputMax

\* What a line of keys means.
Edit(line, key) ==
  IF key = "backspace" THEN (IF line = <<>> THEN line ELSE Front(line))
  ELSE IF key = "x" /\ Len(line) < InputMax THEN Append(line, key) ELSE line
Edited(keys) == FoldLeft(Edit, <<>>, keys)

\* Prompts on the program's own console get what the user has typed, line by
\* line or key by key and in this order, whenever it was typed: before the
\* prompt was shown, while it was being started, or behind an earlier line.
LinesInOrder ==
  LET From(i) == IF i = 1 THEN 1 ELSE answers[i - 1].upTo + 1
      Line(i) == SubSeq(typed, From(i), answers[i].upTo)
  IN con.there /\ ~con.own_con =>
       \A i \in DOMAIN answers :
         answers[i].how = "typed" =>
           /\ Line(i) # <<>>
           /\ answers[i].charMode => Line(i) = answers[i].result
           /\ ~answers[i].charMode =>
                /\ Last(Line(i)) = "newline" /\ "newline" \notin ToSet(Front(Line(i)))
                /\ answers[i].result = Edited(Line(i))

\* No key is lost while the program's console lives.
KeysKept ==
  con.there /\ ~con.own_con /\ ~con.released =>
    SubSeq(typed, used + 1, Len(typed)) = con.buf \o tty

\* A prompt that was started ends once, though a close can be announced by the
\* late trigger and by a queued signal, and signals come after the end.
OneEndEach == Cardinality({i \in DOMAIN answers : answers[i].how # "failed"}) <= calls

\* The console, its reference and the prompts agree on what was typed.
ConsoleConsistent == ConsoleTypeOK /\ OneEndEach /\ LinesInOrder /\ KeysKept

\* A prompt ends when its input ends.
PromptEnds ==
  (prompt.asked /\ hungup) ~> (~prompt.asked \/ missed \/ bad # "no")

\* Said of the program and not so: what no prompt has read can be had with
\* bytesLeftToRead() after the release ("It is possible to capture unprocessed
\* I/O", qca_support.h).
LeftIsReturned == con.released => SubSeq(typed, used + 1, Len(typed)) = left

\* Not so either: queued signals and waitForFinished() use what is there.
NoNull == bad # "null"
=============================================================================
