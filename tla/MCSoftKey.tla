----------------------------- MODULE MCSoftKey -----------------------------
(* SoftKey by itself: two PrivateKeys that stand for one entry, whose        *)
(* passphrase is asked for once, or again after one unit of time.            *)
EXTENDS SoftKey

CONSTANTS h1, h2

TwoTimeouts == {Never, 1}
=============================================================================
