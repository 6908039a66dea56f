------------------------------ MODULE MCWaits ------------------------------
(* Two parts of the library that must not stand still.                       *)
(*   TLS: a session that is not let down by the application moves on.        *)
(*   Synchronizer, with limits that run out at any moment or at a bad one.   *)
(* They have nothing to do with each other: one moves while the other is as  *)
(* it was created.                                                           *)
EXTENDS TLS, Synchronizer

WaitsInit == TlsInit /\ Init
WaitsNext ==
  \/ Init /\ TlsNext /\ UNCHANGED vars
  \/ TlsInit /\ Next /\ UNCHANGED tlsVars

WaitsSpec == WaitsInit /\ [][WaitsNext]_<<tlsVars, vars>> /\ TlsFairness /\ Fairness

\* A session moves on, and waits and calls of stop() return.
EverythingMovesOn == SessionMovesOn /\ CallsReturn

CertificateOnly == {"peerCertificateAvailable"}
Low == -3
=============================================================================
