-------------------------- MODULE MCKeyStoreManager -------------------------
(* KeyStoreManager with two providers, one of which has a store that can    *)
(* come twice, and one KeyStore object, or the two of a watcher.            *)
EXTENDS EntryWatcher, TLC

CONSTANTS p1, p2, s1, k1, k2

MCOwner == s1 :> p1
=============================================================================
