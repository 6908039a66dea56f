----------------------------- MODULE ByteStream -----------------------------
(***************************************************************************)
(* What a pipe promises to the two programs at its ends                    *)
(* (include/QtCrypto/qpipe.h): the bytes written arrive once each and in   *)
(* order, and when the writer was told that its end is closed, the reader  *)
(* is not told of the end before it has everything.                        *)
(*                                                                         *)
(* A byte is its position in the stream.                                   *)
(***************************************************************************)
EXTENDS Naturals, Sequences

VARIABLES
  written,   \* how many bytes the writing program has handed over
  arrived,   \* the bytes that are with the reading program, or wait for it
  source,    \* the writer's end: "open", "closed" or "gone"
  sink       \* the reader's end: "open", "ended" or "gone"

streamVars == <<written, arrived, source, sink>>

StreamInit ==
  /\ written = 0
  /\ arrived = <<>>
  /\ source = "open"
  /\ sink = "open"

Give ==
  /\ source = "open"
  /\ written' \in Nat /\ written' > written
  /\ UNCHANGED <<arrived, source, sink>>

Arrive ==
  /\ sink = "open"
  /\ \E n \in 1..(written - Len(arrived)) :
       arrived' = arrived \o [i \in 1..n |-> Len(arrived) + i]
  /\ UNCHANGED <<written, source, sink>>

CloseSource ==
  /\ source = "open"
  /\ source' \in {"closed", "gone"}
  /\ UNCHANGED <<written, arrived, sink>>

(* The reader is told of the end only when the writer has ended, and after  *)
(* all the bytes of a writer that closed in the regular way.                *)
EndSink ==
  /\ sink = "open"
  /\ source # "open"
  /\ source = "closed" => Len(arrived) = written
  /\ sink' = "ended"
  /\ UNCHANGED <<written, arrived, source>>

(* The reading program leaves: it may throw away what waits for it, or take *)
(* some more out on that occasion.                                          *)
LeaveSink ==
  /\ sink = "open"
  /\ \E n \in 0..written : arrived' = [i \in 1..n |-> i]
  /\ sink' = "gone"
  /\ UNCHANGED <<written, source>>

StreamNext == Give \/ Arrive \/ CloseSource \/ EndSink \/ LeaveSink

StreamSpec == StreamInit /\ [][StreamNext]_streamVars
=============================================================================
