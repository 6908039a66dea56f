----------------------------- MODULE RemoteCall -----------------------------
(***************************************************************************)
(* What SyncThread promises (src/include/QtCrypto/qca_support.h): start()  *)
(* returns when the thread is ready, stop() when it is gone, and call()    *)
(* runs one method in the thread and returns that method's result.         *)
(***************************************************************************)
CONSTANT Callers

VARIABLES
  phase,   \* of the thread: "down", "starting", "up" or "stopping"
  ready,   \* atStart() has run and atEnd() has not
  request  \* of each caller: "idle", "asked", "run"

vars == <<phase, ready, request>>

Init ==
  /\ phase = "down"
  /\ ready = FALSE
  /\ request = [c \in Callers |-> "idle"]

Start == phase = "down" /\ phase' = "starting" /\ UNCHANGED <<ready, request>>

AtStart == phase = "starting" /\ ~ready /\ ready' = TRUE /\ UNCHANGED <<phase, request>>

Started == phase = "starting" /\ ready /\ phase' = "up" /\ UNCHANGED <<ready, request>>

Stop ==
  /\ phase = "up"
  /\ \A c \in Callers : request[c] = "idle"
  /\ phase' = "stopping"
  /\ UNCHANGED <<ready, request>>

AtEnd == phase = "stopping" /\ ready /\ ready' = FALSE /\ UNCHANGED <<phase, request>>

Stopped == phase = "stopping" /\ ~ready /\ phase' = "down" /\ UNCHANGED <<ready, request>>

Ask(c) ==
  /\ phase = "up"
  /\ request[c] = "idle"
  /\ request' = [request EXCEPT ![c] = "asked"]
  /\ UNCHANGED <<phase, ready>>

\* One method at a time runs in the thread; its caller alone gets the result.
Run(c) ==
  /\ ready
  /\ request[c] = "asked"
  /\ \A other \in Callers : request[other] # "run"
  /\ request' = [request EXCEPT ![c] = "run"]
  /\ UNCHANGED <<phase, ready>>

Return(c) ==
  /\ request[c] = "run"
  /\ request' = [request EXCEPT ![c] = "idle"]
  /\ UNCHANGED <<phase, ready>>

Next ==
  \/ Start \/ AtStart \/ Started \/ Stop \/ AtEnd \/ Stopped
  \/ \E c \in Callers : Ask(c) \/ Run(c) \/ Return(c)

Spec == Init /\ [][Next]_vars

----------------------------------------------------------------------------
\* start(), stop() and call() return.
Returns ==
  /\ phase = "starting" ~> phase = "up"
  /\ phase = "stopping" ~> phase = "down"
  /\ \A c \in Callers : request[c] = "asked" ~> request[c] = "idle"
=============================================================================
