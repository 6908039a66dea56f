----------------------------- MODULE TLSContext -----------------------------
(***************************************************************************)
(* The provider's half of a TLS session: MyTLSContext of the qca-ossl       *)
(* plugin, as a record and the functions that TLS::Private calls on it.     *)
(* start() and update() compute their result at once and post a queued      *)
(* resultsReady(), counted in posted; the getters read the result later.    *)
(*                                                                         *)
(* OpenSSL itself is external, and works here on whole records:             *)
(*   "hs"   a handshake flight       "app"  application data                *)
(*   "fin"  a close_notify alert     "bad"  a record that fails to verify   *)
(*   "raw"  what the peer sends in the clear after its close_notify         *)
(* A handshake takes HsFlights flights from the peer, each of which is      *)
(* answered with one; the client speaks first.  An outgoing record is       *)
(* [kind, plain], plain the bytes it encodes.                               *)
(***************************************************************************)
EXTENDS LayerTracker

CONSTANTS
    HsFlights,    \* flights of the peer that complete a handshake
    TellsHello    \* does the provider report hellos?  FALSE for qca-ossl,
                  \* TRUE for a provider that implements all of TLSContext

ASSUME ContextAssumption == HsFlights \in Nat \ {0} /\ TellsHello \in BOOLEAN

Record(kind, plain) == [kind |-> kind, plain |-> plain]
Flights(n) == [i \in 1 .. n |-> Record("hs", 0)]
(* The size of records: their plain bytes and one byte of overhead each.     *)
Size(recs) == FoldLeft(LAMBDA n, r : n + (r.plain + 1), 0, recs)
Plain(recs) == FoldLeft(LAMBDA n, r : n + r.plain, 0, recs)

NewContext == [mode |-> "Idle", server |-> FALSE, rbio |-> <<>>, hsLeft |-> 0,
               greeted |-> FALSE, sentFin |-> FALSE, eof |-> FALSE, sendQueue |-> 0,
               result |-> "Success", to_net |-> <<>>, encoded |-> 0, plain |-> 0,
               posted |-> 0]

(* reset(): the results and the posted calls stay.                           *)
ContextReset(c) ==
    [c EXCEPT !.mode = "Idle", !.rbio = <<>>, !.hsLeft = 0, !.greeted = FALSE,
              !.sentFin = FALSE, !.eof = FALSE, !.sendQueue = 0]

Post(c) == [c EXCEPT !.posted = @ + 1]

(* setup() and start(); ok says whether OpenSSL could be initialized.        *)
ContextStart(c, server, ok) ==
    IF ok THEN Post([c EXCEPT !.server = server, !.mode = "Handshake", !.result = "Success",
                              !.hsLeft = HsFlights])
    ELSE Post([c EXCEPT !.server = server, !.result = "Error"])

(* priv_handshake(): OpenSSL takes handshake records while it needs any; a   *)
(* record of another kind before that is fatal.                              *)
Handshake(c, from_net) ==
    LET all   == c.rbio \o from_net
        taken == CHOOSE n \in 0 .. Len(all) :
                     /\ n <= c.hsLeft /\ \A i \in 1 .. n : all[i] = "hs"
                     /\ n = c.hsLeft \/ n = Len(all) \/ all[n + 1] # "hs"
        done  == taken = c.hsLeft
        sends == taken + (IF c.server \/ c.greeted THEN 0 ELSE 1)
    IN  IF ~done /\ taken < Len(all) THEN [ContextReset(c) EXCEPT !.result = "Error"]
        ELSE [c EXCEPT !.rbio = SubSeq(all, taken + 1, Len(all)),
                       !.hsLeft = @ - taken, !.greeted = TRUE,
                       !.mode = IF done THEN "Active" ELSE @,
                       !.result = IF done THEN "Success" ELSE "Continue",
                       !.to_net = Flights(sends)]

(* priv_encode(): SSL_write takes all of sendQueue, or wants to read first.  *)
Encode(c, from_app, wants) ==
    LET n == c.sendQueue + from_app
    IN  IF wants THEN [c EXCEPT !.sendQueue = n, !.encoded = 0]
        ELSE [c EXCEPT !.sendQueue = 0, !.encoded = n, !.to_net = Append(@, Record("app", n))]

(* priv_decode(): reads records until the peer's close_notify or a bad one.  *)
Decode(c, from_net) ==
    LET all  == c.rbio \o from_net
        read == CHOOSE n \in 0 .. Len(all) :
                    /\ \A i \in 1 .. n : all[i] = "app"
                    /\ n = Len(all) \/ all[n + 1] # "app"
        stop == IF c.eof THEN 0 ELSE read
    IN  IF ~c.eof /\ read < Len(all) /\ all[read + 1] # "fin"
        THEN [c EXCEPT !.result = "Error"]
        ELSE LET fin == ~c.eof /\ read < Len(all)
             IN  [c EXCEPT !.result = "Success", !.plain = stop, !.eof = @ \/ fin,
                           !.rbio = SubSeq(all, stop + 1 + (IF fin THEN 1 ELSE 0), Len(all))]

(* priv_shutdown(): the first SSL_shutdown only sends our close_notify, a    *)
(* later one reads; either succeeds once the peer's close_notify was read.   *)
Shutdown(c, from_net) ==
    LET all   == c.rbio \o from_net
        reads == c.sentFin /\ ~c.eof /\ all # <<>>
        eof   == c.eof \/ (reads /\ Head(all) = "fin")
    IN  IF reads /\ ~eof THEN [ContextReset(c) EXCEPT !.result = "Error"]
        ELSE [c EXCEPT !.rbio = IF reads THEN Tail(all) ELSE all, !.eof = eof, !.sentFin = TRUE,
                       !.to_net = IF c.sentFin THEN <<>> ELSE << Record("fin", 0) >>,
                       !.mode = IF eof THEN "Idle" ELSE @,
                       !.result = IF eof THEN "Success" ELSE "Continue"]

(* update().  In Idle mode there is no session and nothing to do.            *)
ContextUpdate(c, from_net, from_app, wants) ==
    Post(CASE c.mode = "Active"    -> Decode(IF from_app > 0 THEN Encode(c, from_app, wants) ELSE c, from_net)
           [] c.mode = "Closing"   -> Shutdown(c, from_net)
           [] c.mode = "Handshake" -> Handshake(c, from_net)
           [] OTHER                -> [c EXCEPT !.result = "Continue", !.to_net = <<>>])

ContextShutdown(c) == [c EXCEPT !.mode = "Closing"]

(* clientHelloReceived() and serverHelloReceived(): has a flight been taken? *)
HelloReceived(c) == TellsHello /\ c.hsLeft < HsFlights
=============================================================================
