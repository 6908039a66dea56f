---------------------------- MODULE LayerTracker ----------------------------
(***************************************************************************)
(* class LayerTracker of qca_securelayer.cpp: how TLS and SASL translate a  *)
(* number of bytes the socket has written into the number of application   *)
(* bytes those carried.  The application's plain bytes are counted in p     *)
(* until an outgoing chunk claims them; a chunk is an Item [plain, encoded] *)
(* and is finished when the socket has written all of it.                   *)
(*                                                                         *)
(* The tracker is a record [p, list]; int is taken as Int (the counts are   *)
(* buffer sizes) and list is the QList of Items, oldest first.              *)
(***************************************************************************)
EXTENDS Integers, Sequences, SequencesExt

NoLayer == [p |-> 0, list |-> <<>>]

AddPlain(l, plain) == [l EXCEPT !.p = @ + plain]

(* A chunk cannot claim more bytes than the application has written.        *)
SpecifyEncoded(l, encoded, plain) ==
    LET claimed == IF plain > l.p THEN l.p ELSE plain
    IN  [p |-> l.p - claimed,
         list |-> Append(l.list, [plain |-> claimed, encoded |-> encoded])]

\* Mutant: a chunk counts as soon as its first byte is written.
FinishItemEarly(acc, i) ==
    IF acc.ended \/ acc.left = 0 THEN [acc EXCEPT !.ended = TRUE, !.list = Append(@, i)]
    ELSE [acc EXCEPT !.left = IF @ > i.encoded THEN @ - i.encoded ELSE 0, !.plain = @ + i.plain]

(* One turn of the loop of finished(): the Item at the head is erased when   *)
(* the bytes reach its end, and is shortened by them, ending the loop, when  *)
(* they do not.                                                             *)
FinishItem(acc, i) ==
    IF acc.ended THEN [acc EXCEPT !.list = Append(@, i)]
    ELSE IF acc.left < i.encoded
    THEN [acc EXCEPT !.ended = TRUE,
                     !.list = Append(@, [i EXCEPT !.encoded = @ - acc.left])]
    ELSE [acc EXCEPT !.left = @ - i.encoded, !.plain = @ + i.plain]

(* finished(encoded): the plain bytes to report, and the tracker afterwards. *)
Finished(l, encoded) ==
    LET end == FoldLeft(FinishItem,
                        [left |-> encoded, plain |-> 0, ended |-> FALSE, list |-> <<>>],
                        l.list)
    IN  [plain |-> end.plain, layer |-> [l EXCEPT !.list = end.list]]
=============================================================================
