--------------------------- MODULE MCSynchronizer ---------------------------
(* Synchronizer, with limits that run out at any moment or at a bad one.    *)
EXTENDS Synchronizer
=============================================================================
