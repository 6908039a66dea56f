---------------------------- MODULE SASLContext ----------------------------
(***************************************************************************)
(* saslContext of plugins/qca-cyrus-sasl: the SASLContext of a session on  *)
(* top of the Cyrus library.  Every operation is finished when it returns; *)
(* its result stands in the context, and resultsReady() is posted.         *)
(*                                                                         *)
(* What the library says is a record: r, the return code ("ok",            *)
(* "continue" or "error"), asked, what it wants to interact for, checks,    *)
(* whether it has called scb_checkauth(), and ssf, whether a security       *)
(* layer is on once it has said "ok".                                      *)
(***************************************************************************)
EXTENDS Integers

Fields == {"user", "authzid", "pass", "realm"}

\* The fields that the library cannot go on without; for the others it has defaults.
Needed == {"user", "pass"}

NewSaslContext ==
  [server |-> FALSE, step |-> 0, need |-> {}, have |-> {},
   ca_flag |-> FALSE, ca_done |-> FALSE, ca_skip |-> FALSE, last_r |-> "none", result |-> "Success", ssf |-> 0,
   to_net |-> 0, plain |-> 0, encoded |-> 0, part |-> 0, posted |-> 0]

\* resultsReady() that is posted stays so.
SaslReset(c) == [NewSaslContext EXCEPT !.posted = c.posted, !.to_net = c.to_net,
                                       !.last_r = c.last_r, !.result = c.result]

DoResultsReady(c) == [c EXCEPT !.posted = @ + 1]

\* clientTryAgain(): one more call of the library, with the fields there are, for
\* as long as it wants some that are there.
ClientTryAgain(c, says) ==
  LET need == c.need \cup says.asked
      now  == [c EXCEPT !.need = need]
  IN  IF says.asked # {} /\ ~(need \cap Needed \subseteq c.have)
      THEN [now EXCEPT !.result = "Params"]
      ELSE IF says.r = "error" THEN [now EXCEPT !.result = "Error"]
      ELSE [now EXCEPT !.step = 1,
                       !.ssf = IF says.r = "ok" THEN says.ssf ELSE @,
                       !.result = IF says.r = "ok" THEN "Success" ELSE "Continue"]

\* last_r is not looked at again.
ServerGoesOn(c, says) ==
  [c EXCEPT !.ca_skip = FALSE,
            !.last_r = "none",
            !.step = 1,
            !.ssf = IF c.last_r = "ok" THEN says.ssf ELSE @,
            !.result = IF c.last_r = "ok" THEN "Success" ELSE "Continue"]

\* Mutant: the check of the user is not waited for.
ServerTryAgainUnchecked(c, says) ==
  IF says.r = "error" THEN [c EXCEPT !.result = "Error"]
  ELSE ServerGoesOn([c EXCEPT !.last_r = says.r], says)

\* serverTryAgain(): the library calls scb_checkauth() once it knows the user, in
\* any step; the application's answer to that is the next tryAgain().
ServerTryAgain(c, says) ==
  IF c.ca_skip THEN ServerGoesOn(c, says)
  ELSE IF says.r = "error" THEN [c EXCEPT !.result = "Error"]
  ELSE LET now == [c EXCEPT !.last_r = says.r, !.ca_flag = says.checks \/ (c.step > 0 /\ @)]
       IN  IF now.ca_flag /\ ~c.ca_done
           THEN [now EXCEPT !.ca_done = TRUE, !.ca_skip = TRUE, !.result = "AuthCheck"]
           ELSE ServerGoesOn(now, says)

TryAgain(c, says) ==
  DoResultsReady(IF c.server THEN ServerTryAgain(c, says) ELSE ClientTryAgain(c, says))

\* resetState() leaves the fields alone.  A library that cannot begin is an error.
StartClient(c, says) ==
  LET new == [SaslReset(c) EXCEPT !.have = c.have, !.need = c.need]
  IN  DoResultsReady(ClientTryAgain(new, says))

\* How it goes: "ok", "error", or, when there is no list of mechanisms, "mute".
StartServer(c, how) ==
  LET new == [SaslReset(c) EXCEPT !.have = c.have, !.need = c.need, !.server = TRUE,
                                  !.result = IF how = "ok" THEN "Success" ELSE "Error"]
  IN  IF how = "mute" THEN new ELSE DoResultsReady(new)

\* The library's packets: with a security layer they are one unit longer than
\* what they carry when they go out, and come in as two units for one.
PacketSize(ssf, plain) == IF ssf = 0 THEN plain ELSE plain + 1

\* update(): sasl_endecode() of what the application gives, then of the network's.
SaslUpdate(c, from_net, from_app, ok) ==
  LET units == c.part + from_net
      sent  == IF from_app > 0 THEN [c EXCEPT !.to_net = PacketSize(c.ssf, from_app)] ELSE c
      taken == IF from_net = 0 THEN sent
               ELSE IF c.ssf = 0 THEN [sent EXCEPT !.plain = from_net]
               ELSE [sent EXCEPT !.plain = units \div 2, !.part = units % 2]
  IN  DoResultsReady(IF ok THEN [taken EXCEPT !.result = "Success", !.encoded = from_app]
                     ELSE [sent EXCEPT !.result = "Error", !.encoded = from_app])
=============================================================================
