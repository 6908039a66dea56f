---------------------------- MODULE AuthSession ----------------------------
(***************************************************************************)
(* What a SASL object promises its application                             *)
(* (include/QtCrypto/qca_securelayer.h): it works or waits for one answer  *)
(* at a time; an attempt at authentication ends once; a server's, only     *)
(* after the application has approved of the user; and what comes out of   *)
(* the security layer comes after that, and is what the peer has put in.   *)
(***************************************************************************)
EXTENDS Naturals

VARIABLES
  phase,    \* "idle"; "working"; the answer waited for: "first" (mechanism), "params",
            \* "check", "peer"; "authenticated", "broken" after that, or "failed"
  asServer,
  approved, \* the application has approved of the user
  encoded,  \* by the peer, how many bytes
  out       \* how many bytes have come out

sessionVars == <<phase, asServer, approved, encoded, out>>

Answers == {"first", "params", "check", "peer"}

SessionInit ==
  /\ phase = "idle"
  /\ asServer = FALSE
  /\ approved = FALSE
  /\ encoded = 0
  /\ out = 0

Begin ==
  /\ phase' = "working"
  /\ asServer' \in BOOLEAN
  /\ approved' = FALSE
  /\ encoded' = 0
  /\ out' = 0

Ask ==
  /\ phase = "working"
  /\ phase' \in Answers
  /\ UNCHANGED <<asServer, approved, encoded, out>>

Answer ==
  /\ phase \in Answers
  /\ phase' = "working"
  /\ approved' = (approved \/ phase = "check")
  /\ UNCHANGED <<asServer, encoded, out>>

\* The last step goes to the peer, and no answer to it is needed.
Authenticate ==
  /\ phase \in {"working", "peer"}
  /\ asServer => approved
  /\ phase' = "authenticated"
  /\ UNCHANGED <<asServer, approved, encoded, out>>

\* An attempt fails, or the security layer does.
FailSession ==
  /\ \/ phase = "working" /\ phase' = "failed"
     \/ phase = "authenticated" /\ phase' = "broken"
  /\ UNCHANGED <<asServer, approved, encoded, out>>

PeerEncodes ==
  /\ encoded' = encoded + 1
  /\ UNCHANGED <<phase, asServer, approved, out>>

\* A layer that has failed may still give out what had come.
Deliver ==
  /\ phase \in {"authenticated", "broken"}
  /\ out' \in out + 1 .. encoded
  /\ UNCHANGED <<phase, asServer, approved, encoded>>

\* Without a connection nothing is said.
Reset ==
  /\ phase' = "idle"
  /\ approved' = FALSE
  /\ encoded' = 0
  /\ out' = 0
  /\ asServer' \in BOOLEAN

SessionNext ==
  Begin \/ Ask \/ Answer \/ Authenticate \/ FailSession \/ PeerEncodes \/ Deliver \/ Reset

SessionSpec == SessionInit /\ [][SessionNext]_sessionVars
=============================================================================
