-------------------------------- MODULE QPipe --------------------------------
(***************************************************************************)
(* The two ends of a QPipe (src/src/support/qpipe.cpp, the Unix build):    *)
(* QPipeEnd, which buffers and signals, over QPipeDevice, which guards one *)
(* file descriptor with a socket notifier.  Each end lives in an event     *)
(* loop of its own, so that its calls, timers and notifications come in    *)
(* any order.  Every handler emits its signal last, so a call made from    *)
(* the slot is a call that follows.                                        *)
(*                                                                         *)
(* A byte is its position in what the writer was given.                    *)
(***************************************************************************)
EXTENDS Naturals, Sequences, SequencesExt

CONSTANTS
  MaxBytes,      \* bound: bytes the writing program hands over; the sizes are not 0
  Block,         \* PIPEEND_BLOCK
  ReadBuf,       \* PIPEEND_READBUF, or PIPEEND_READBUF_SEC
  Capacity,      \* what the kernel's pipe holds
  Secure         \* setSecurityEnabled(), at both ends

ASSUME SizeAssumption ==
  /\ MaxBytes \in Nat
  /\ Block \in Nat \ {0} /\ ReadBuf \in Nat \ {0} /\ Capacity \in Nat \ {0}
  /\ Secure \in BOOLEAN

VARIABLES
  w,             \* the write end
  r,             \* the read end
  pipe,          \* the kernel's pipe: its bytes, and which ends are open
  written,       \* how many bytes write() has accepted
  reported,      \* the sum of the bytesWritten() signals
  leftover,      \* what takeBytesToWrite() has returned
  received,      \* what read() has returned
  told,          \* readyRead() was emitted, and the program has not emptied the buffer since
  wEnd, rEnd     \* how each end's session ended

pipeVars == <<w, r, pipe, written, reported, leftover, received, told, wEnd, rEnd>>

Positions(from, n) == [i \in 1..n |-> from + i]

----------------------------------------------------------------------------
(* Both ends have been created, secured and enabled.                        *)

WriteEnd(valid, buf, secure) ==
  [valid |-> valid, buf |-> buf, secure |-> secure, lastWrite |-> 0,
   activeWrite |-> FALSE, closing |-> FALSE, closeLater |-> FALSE,
   canWrite |-> TRUE, sn_write |-> FALSE, timers |-> {}]

ReadEnd(valid, buf, secure) ==
  [valid |-> valid, buf |-> buf, secure |-> secure, canRead |-> FALSE,
   closing |-> FALSE, blockReadNotify |-> FALSE, timers |-> {}]

PipeInit ==
  /\ w = WriteEnd(TRUE, <<>>, Secure)
  /\ r = ReadEnd(TRUE, <<>>, Secure)
  /\ pipe = [bytes |-> <<>>, wOpen |-> TRUE, rOpen |-> TRUE]
  /\ written = 0
  /\ reported = 0
  /\ leftover = <<>>
  /\ received = <<>>
  /\ told = FALSE
  /\ wEnd = "none"
  /\ rEnd = "none"

writeSide == <<w, written, reported, leftover, wEnd>>
readSide == <<r, received, told, rEnd>>

(* reset(ResetSession) closes the descriptor and keeps the buffer.          *)
EndWriteSession(how) ==
  /\ w' = WriteEnd(FALSE, IF how = "reset" THEN <<>> ELSE w.buf, FALSE)
  /\ pipe' = [pipe EXCEPT !.wOpen = (how = "released")]
  /\ wEnd' = how

----------------------------------------------------------------------------
(* The write end.                                                           *)

setupNextWrite(end) ==
  IF end.activeWrite THEN end
  ELSE [end EXCEPT !.activeWrite = TRUE, !.timers = @ \union {"write"}]

write ==
  /\ w.valid
  /\ ~w.closing
  /\ \E n \in 1..(MaxBytes - written) :
       /\ w' = setupNextWrite([w EXCEPT !.buf = @ \o Positions(written, n)])
       /\ written' = written + n
  /\ UNCHANGED <<pipe, reported, leftover, wEnd, readSide>>

(* Mutant: close() does not wait for the pending writes.                    *)
closeWriteNow ==
  /\ w.valid
  /\ ~w.closing
  /\ w' = [w EXCEPT !.closing = TRUE, !.timers = @ \union {"close"}]
  /\ UNCHANGED <<pipe, written, reported, leftover, wEnd, readSide>>

closeWrite ==
  /\ w.valid
  /\ ~w.closing
  /\ w' = IF w.activeWrite
          THEN [w EXCEPT !.closing = TRUE, !.closeLater = TRUE]
          ELSE [w EXCEPT !.closing = TRUE, !.timers = @ \union {"close"}]
  /\ UNCHANGED <<pipe, written, reported, leftover, wEnd, readSide>>

(* pipe_write(): a block that fits goes as a whole, one that does not may   *)
(* go in part or not at all (EAGAIN).                                       *)
Accepts(size) ==
  LET free == Capacity - Len(pipe.bytes)
  IN IF size <= free THEN {size} ELSE 0..free

doWrite ==
  /\ "write" \in w.timers
  /\ LET size == IF Block < Len(w.buf) THEN Block ELSE Len(w.buf)
     IN \/ /\ w.canWrite
           /\ pipe.rOpen
           /\ \E n \in Accepts(size) :
                /\ pipe' = [pipe EXCEPT !.bytes = @ \o SubSeq(w.buf, 1, n)]
                /\ w' = [w EXCEPT !.timers = @ \ {"write"}, !.lastWrite = n,
                                  !.canWrite = FALSE, !.sn_write = TRUE]
           /\ UNCHANGED wEnd
        \/ /\ ~(w.canWrite /\ pipe.rOpen)
           /\ EndWriteSession("broken")
  /\ UNCHANGED <<written, reported, leftover, readSide>>

(* Mutant: a partial write is taken for a whole block.                      *)
writeNotifyTakesBlock ==
  /\ w.sn_write
  /\ Len(pipe.bytes) < Capacity \/ ~pipe.rOpen
  /\ LET rest == SubSeq(w.buf, Block + 1, Len(w.buf))
         sent == [w EXCEPT !.buf = rest, !.lastWrite = 0,
                           !.canWrite = TRUE, !.sn_write = FALSE]
     IN w' = IF rest # <<>>
             THEN [sent EXCEPT !.timers = @ \union {"write"}]
             ELSE [sent EXCEPT !.activeWrite = FALSE, !.closeLater = FALSE,
                               !.timers = IF w.closeLater
                                          THEN @ \union {"close"} ELSE @]
  /\ reported' = reported + w.lastWrite
  /\ UNCHANGED <<pipe, written, leftover, wEnd, readSide>>

(* sn_write_activated() and pipe_notify(): the pipe takes bytes again, or   *)
(* its other end is gone.                                                   *)
writeNotify ==
  /\ w.sn_write
  /\ Len(pipe.bytes) < Capacity \/ ~pipe.rOpen
  /\ LET rest == SubSeq(w.buf, w.lastWrite + 1, Len(w.buf))
         sent == [w EXCEPT !.buf = rest, !.lastWrite = 0,
                           !.canWrite = TRUE, !.sn_write = FALSE]
     IN w' = IF rest # <<>>
             THEN [sent EXCEPT !.timers = @ \union {"write"}]
             ELSE [sent EXCEPT !.activeWrite = FALSE, !.closeLater = FALSE,
                               !.timers = IF w.closeLater
                                          THEN @ \union {"close"} ELSE @]
  /\ reported' = reported + w.lastWrite
  /\ UNCHANGED <<pipe, written, leftover, wEnd, readSide>>

doCloseWrite ==
  /\ "close" \in w.timers
  /\ EndWriteSession("closed")
  /\ UNCHANGED <<written, reported, leftover, readSide>>

releaseWrite ==
  /\ w.valid
  /\ EndWriteSession("released")
  /\ UNCHANGED <<written, reported, leftover, readSide>>

resetWrite ==
  /\ w.valid
  /\ EndWriteSession("reset")
  /\ UNCHANGED <<written, reported, leftover, readSide>>

takeBytesToWrite ==
  /\ ~w.valid
  /\ w.buf # <<>>
  /\ leftover' = leftover \o w.buf
  /\ w' = [w EXCEPT !.buf = <<>>]
  /\ UNCHANGED <<pipe, written, reported, wEnd, readSide>>

----------------------------------------------------------------------------
(* The read end.                                                            *)

ReadSessionEnded(buf) == ReadEnd(FALSE, buf, FALSE)

EndReadSession(how) ==
  /\ r' = ReadSessionEnded(IF how = "reset" THEN <<>> ELSE r.buf)
  /\ pipe' = [pipe EXCEPT !.rOpen = (how = "released")]
  /\ rEnd' = how

(* Mutant: reading from a full buffer does not look at the pipe again.      *)
setupNextReadNever(end) == end

setupNextRead(end) ==
  IF end.valid /\ end.canRead
  THEN [end EXCEPT !.canRead = FALSE, !.timers = @ \union {"read"}]
  ELSE end

pendingFreeSize == ReadBuf - Len(r.buf)

ReadSize ==
  IF Len(pipe.bytes) < pendingFreeSize THEN Len(pipe.bytes) ELSE pendingFreeSize

(* doReadActual(true).  The size read is no more than FIONREAD tells; when  *)
(* it tells 0, QPipeDevice::read() refuses to read and returns -1.          *)
doReadActual(end) ==
  \/ /\ pendingFreeSize = 0
     /\ r' = [end EXCEPT !.canRead = TRUE]
     /\ UNCHANGED <<pipe, told, rEnd>>
  \/ /\ ReadSize > 0
     /\ r' = [end EXCEPT !.buf = @ \o SubSeq(pipe.bytes, 1, ReadSize),
                         !.blockReadNotify = FALSE]
     /\ pipe' = [pipe EXCEPT !.bytes = SubSeq(@, ReadSize + 1, Len(@))]
     /\ told' = TRUE
     /\ UNCHANGED rEnd
  \/ /\ pendingFreeSize > 0
     /\ ReadSize = 0
     /\ EndReadSession("broken")
     /\ UNCHANGED told

(* sn_read_activated(): the pipe has bytes, or its other end is gone.       *)
readNotify ==
  /\ r.valid
  /\ ~r.blockReadNotify
  /\ pipe.bytes # <<>> \/ ~pipe.wOpen
  /\ doReadActual([r EXCEPT !.blockReadNotify = TRUE])
  /\ UNCHANGED <<received, writeSide>>

doRead ==
  /\ "read" \in r.timers
  /\ doReadActual([r EXCEPT !.timers = @ \ {"read"}])
  /\ UNCHANGED <<received, writeSide>>

read(n) ==
  /\ received' = received \o SubSeq(r.buf, 1, n)
  /\ r' = setupNextRead([r EXCEPT !.buf = SubSeq(@, n + 1, Len(@))])
  /\ told' = (told /\ n < Len(r.buf))
  /\ UNCHANGED <<pipe, rEnd, writeSide>>

(* A program that reads a part now and then, and one that reads all it is   *)
(* told of.                                                                 *)
readSome == \E n \in 1..Len(r.buf) : read(n)
readAll == told /\ read(Len(r.buf))

closeRead ==
  /\ r.valid
  /\ ~r.closing
  /\ r' = [r EXCEPT !.closing = TRUE, !.timers = @ \union {"close"}]
  /\ UNCHANGED <<pipe, received, told, rEnd, writeSide>>

doCloseRead ==
  /\ "close" \in r.timers
  /\ EndReadSession("closed")
  /\ UNCHANGED <<received, told, writeSide>>

releaseRead ==
  /\ r.valid
  /\ EndReadSession("released")
  /\ UNCHANGED <<received, told, writeSide>>

resetRead ==
  /\ r.valid
  /\ EndReadSession("reset")
  /\ UNCHANGED <<received, told, writeSide>>

(* finalize(): one last read, as far as the buffer has room.                *)
finalize ==
  /\ r.valid
  /\ r' = ReadSessionEnded(r.buf \o SubSeq(pipe.bytes, 1, ReadSize))
  /\ pipe' = [pipe EXCEPT !.bytes = SubSeq(@, ReadSize + 1, Len(@)),
                          !.rOpen = FALSE]
  /\ rEnd' = "finalized"
  /\ UNCHANGED <<received, told, writeSide>>

bytesAvailable == IF r.secure = Secure THEN Len(r.buf) ELSE 0

----------------------------------------------------------------------------
(* The write end and the read end of well-behaved programs, and what the    *)
(* programs may do besides.                                                 *)

NextWriteEnd == write \/ closeWrite \/ doWrite \/ writeNotify \/ doCloseWrite
NextReadEnd == readNotify \/ doRead \/ readSome \/ readAll
Leaving ==
  \/ releaseWrite \/ resetWrite \/ takeBytesToWrite
  \/ closeRead \/ doCloseRead \/ releaseRead \/ resetRead \/ finalize

PipeNext == NextWriteEnd \/ NextReadEnd \/ Leaving

PipeSpec == PipeInit /\ [][PipeNext]_pipeVars

(* The event loops run their timers and notifiers, and the reading program  *)
(* reads all that it is told of.                                            *)
LoopFairness ==
  /\ WF_pipeVars(doWrite) /\ WF_pipeVars(writeNotify) /\ WF_pipeVars(doCloseWrite)
  /\ WF_pipeVars(readNotify) /\ WF_pipeVars(doRead) /\ WF_pipeVars(doCloseRead)
  /\ WF_pipeVars(readAll)

PipeLiveSpec == PipeSpec /\ LoopFairness

----------------------------------------------------------------------------
(* Properties.                                                              *)

Unsent == SubSeq(w.buf, w.lastWrite + 1, Len(w.buf))
Accepted == Len(received) + Len(r.buf) + Len(pipe.bytes)

(* The shape of the two ends: a timer runs or a notifier is enabled exactly *)
(* while a write is under way, and the buffers stay within their bounds.    *)
PipeTypeOK ==
  /\ written \in 0..MaxBytes /\ reported \in 0..MaxBytes
  /\ w.timers \subseteq {"write", "close"} /\ r.timers \subseteq {"read", "close"}
  /\ w.lastWrite \in 0..Len(w.buf) /\ w.lastWrite <= Block
  /\ w.activeWrite <=> ("write" \in w.timers \/ w.sn_write)
  /\ w.sn_write <=> ~w.canWrite
  /\ Len(r.buf) <= ReadBuf /\ Len(pipe.bytes) <= Capacity
  /\ told \in BOOLEAN
  /\ wEnd \in {"none", "closed", "broken", "released", "reset"}
  /\ rEnd \in {"none", "closed", "broken", "released", "reset", "finalized"}

(* What has been read, waits to be read, is in the pipe, was taken back and *)
(* has not been sent is what was written: no byte is lost, doubled or out   *)
(* of its place, however blocks, partial writes and partial reads fall.     *)
InOrder ==
  (wEnd \notin {"released", "reset"} /\ rEnd # "reset") =>
    received \o r.buf \o pipe.bytes \o leftover \o Unsent = Positions(0, written)

(* bytesWritten() adds up to what the pipe has accepted, but for the block  *)
(* whose notification is still to come.                                     *)
ReportsAreTrue ==
  (wEnd \in {"none", "closed", "broken"} /\ rEnd # "reset") =>
    reported + w.lastWrite = Accepted

(* closed() of the write end comes after the last byte was sent and         *)
(* reported, also when close() was called with writes pending.              *)
ClosedWhenSent ==
  wEnd = "closed" => w.buf = <<>> /\ reported = written

(* error() means that the other end is gone, never that a timer or a        *)
(* notification came at a moment when there was nothing to do; and the      *)
(* reader hears of it after the last byte.                                  *)
ErrorsAreReal ==
  /\ wEnd = "broken" => ~pipe.rOpen
  /\ rEnd = "broken" => ~pipe.wOpen /\ pipe.bytes = <<>>

(* The two ends are as they should be after every call and notification.    *)
PipeConsistent == PipeTypeOK /\ InOrder /\ ReportsAreTrue /\ ClosedWhenSent /\ ErrorsAreReal

(* The two ends together are a stream of bytes.                             *)
Stream == INSTANCE ByteStream WITH
  arrived <- received \o r.buf,
  source <- IF wEnd = "none" THEN "open"
            ELSE IF wEnd = "closed" THEN "closed" ELSE "gone",
  sink <- IF rEnd = "none" THEN "open"
          ELSE IF rEnd = "broken" THEN "ended" ELSE "gone"

ImplementsStream == Stream!StreamSpec

(* An end was left before its stream was over.                              *)
Left ==
  \/ wEnd \in {"broken", "released", "reset"}
  \/ rEnd \in {"closed", "released", "reset", "finalized"}

(* Every byte accepted by write() reaches the reading program, when neither *)
(* end is left: no notification is lost when the buffer is full, or when    *)
(* bytes come in between a notification and its read.                       *)
EverythingArrives ==
  \A i \in 1..MaxBytes : (i <= written) ~> (Len(received) >= i \/ Left)

(* ... and a close() of the write end is told to both programs.             *)
CloseArrives == w.closing ~> ((wEnd = "closed" /\ rEnd = "broken") \/ Left)

AllArrives == EverythingArrives /\ CloseArrives

(* qpipe.h on ErrorEOF and ErrorBroken: a writer that has closed its end is *)
(* the end of the file, not a broken pipe.                                  *)
EndOfFileIsTold == wEnd = "closed" => rEnd # "broken"

(* qpipe.h on takeBytesToWrite(): what it returns has not been sent.        *)
LeftoverIsUnsent ==
  \A i \in DOMAIN leftover :
    ~ \E j \in DOMAIN (received \o r.buf \o pipe.bytes) :
        (received \o r.buf \o pipe.bytes)[j] = leftover[i]

(* qpipe.h on bytesAvailable(): how many bytes are available to be read.    *)
AvailableIsCounted == bytesAvailable = Len(r.buf)
=============================================================================
