---------------------------- MODULE SASL_proofs ----------------------------
(***************************************************************************)
(* Proofs about SASL: what SaslConsistent says of the queue, the timer and *)
(* the posted results of qca_securelayer.cpp, and that a SASL object over  *)
(* the Cyrus context implements an AuthSession.                            *)
(*                                                                         *)
(* SaslConsistent and the refinement do not carry themselves from step to  *)
(* step: whether authenticated() follows the approval of the user depends  *)
(* on what the context remembers of scb_checkauth(), and whether read()    *)
(* gives out no more than the peer encoded, on all the places where a unit *)
(* can be between the two.  SaslIInv says so.                              *)
(***************************************************************************)
EXTENDS SASL, TLAPS

Reads == {"readyRead", "readyReadOutgoing"}
Actions == Reads \cup {"authenticated", "clientStarted", "nextStep"}
Signals == Actions \cup {"none", "serverStarted", "needParams", "authCheck", "error"}
Steps == {"ServerFirstStep", "NextStep", "TryAgain"}
Attempts == Steps \cup {"Start"}
Results == {"Success", "Error", "Params", "AuthCheck", "Continue"}
Phases == {"idle", "working", "first", "params", "check", "peer",
           "authenticated", "broken", "failed"}

Contexts ==
  [server : BOOLEAN, step : 0 .. 1, need : SUBSET Fields, have : SUBSET Fields,
   ca_flag : BOOLEAN, ca_done : BOOLEAN, ca_skip : BOOLEAN,
   last_r : {"none", "ok", "continue", "error"}, result : Results, ssf : 0 .. 1,
   to_net : Nat, plain : Nat, encoded : Nat, part : 0 .. 1, posted : Nat]

\* The layer is LayerTracker's, and nothing here depends on it.
SaslData(p) ==
  p \in [server : BOOLEAN, sendLast : BOOLEAN, op : Attempts \cup {"none", "Update"},
         queue : Seq(Actions), timer : BOOLEAN, need_update : BOOLEAN, first : BOOLEAN,
         authed : BOOLEAN, set : SUBSET Fields, out : Nat, out_pending : Int, in : Nat,
         to_net : Nat, from_net : Nat, to_net_encoded : Int, layer : {p.layer},
         c : Contexts, signal : Signals]

AppData(a) ==
  a \in [sessions : Nat, failures : Nat, phase : Phases, approved : BOOLEAN, steps : Nat,
         written : Nat, read : Nat, toRead : BOOLEAN, toReadOutgoing : BOOLEAN, unsent : Nat]

PeerData(q) == q \in [encoded : Nat, units : Nat]

----------------------------------------------------------------------------
(* The context of the Cyrus plugin.                                          *)

LEMMA Halves ==
  ASSUME NEW k \in Nat
  PROVE  k \div 2 \in Nat /\ k % 2 \in 0 .. 1 /\ k = 2 * (k \div 2) + (k % 2)
OBVIOUS

\* u is c after an update with n units of the network: what it knows of the
\* authentication is as before, and it has given out no more than came in.
Updated(c, n, u) ==
  /\ u \in Contexts
  /\ u.server = c.server /\ u.step = c.step /\ u.ssf = c.ssf
  /\ u.ca_flag = c.ca_flag /\ u.ca_done = c.ca_done /\ u.ca_skip = c.ca_skip
  /\ u.result \in {"Success", "Error"}
  /\ u.posted = c.posted + 1
  /\ u.have = c.have
  /\ c.ssf = 0 => u.plain <= c.plain + n /\ u.part = c.part
  /\ c.ssf = 1 => 2 * u.plain + u.part <= 2 * c.plain + c.part + n
  /\ n = 0 => u.part = c.part

\* saslContext::update(), whatever sasl_endecode() says.
LEMMA SaslUpdateDoes ==
  ASSUME NEW c \in Contexts, NEW n \in Nat, NEW m \in Nat, NEW ok \in BOOLEAN
  PROVE  Updated(c, n, SaslUpdate(c, n, m, ok))
<1> DEFINE u == SaslUpdate(c, n, m, ok)
<1> DEFINE units == c.part + n
           sent  == IF m > 0 THEN [c EXCEPT !.to_net = PacketSize(c.ssf, m)] ELSE c
           taken == IF n = 0 THEN sent
                    ELSE IF c.ssf = 0 THEN [sent EXCEPT !.plain = n]
                    ELSE [sent EXCEPT !.plain = units \div 2, !.part = units % 2]
           last  == IF ok THEN [taken EXCEPT !.result = "Success", !.encoded = m]
                    ELSE [sent EXCEPT !.result = "Error", !.encoded = m]
           Same(x) == /\ x \in Contexts
                      /\ x.server = c.server /\ x.step = c.step /\ x.ssf = c.ssf
                      /\ x.ca_flag = c.ca_flag /\ x.ca_done = c.ca_done /\ x.ca_skip = c.ca_skip
                      /\ x.posted = c.posted /\ x.have = c.have
<1>1. c.ssf \in 0 .. 1 /\ c.part \in 0 .. 1 /\ c.plain \in Nat /\ c.posted \in Nat
  BY DEF Contexts
<1>2. PacketSize(c.ssf, m) \in Nat
  BY DEF PacketSize
<1>3. Same(sent) /\ sent.plain = c.plain /\ sent.part = c.part
  BY <1>2 DEF Contexts
<1>4. units \div 2 \in Nat /\ units % 2 \in 0 .. 1 /\ units = 2 * (units \div 2) + (units % 2)
  BY <1>1, Halves
<1> HIDE DEF sent
<1>5. /\ Same(taken)
      /\ n = 0 => taken.plain = c.plain /\ taken.part = c.part
      /\ n # 0 /\ c.ssf = 0 => taken.plain = n /\ taken.part = c.part
      /\ n # 0 /\ c.ssf = 1 => taken.plain = units \div 2 /\ taken.part = units % 2
  <2>1. CASE n = 0
    BY <1>3, <2>1
  <2>2. CASE n # 0 /\ c.ssf = 0
    BY <1>1, <1>3, <2>2 DEF Contexts
  <2>3. CASE n # 0 /\ c.ssf = 1
    <3> DEFINE h == units \div 2
               r == units % 2
    <3>1. h \in Nat /\ r \in 0 .. 1
      BY <1>4
    <3>2. taken = [sent EXCEPT !.plain = h, !.part = r]
      BY <2>3
    <3> HIDE DEF h, r, taken
    <3>3. /\ Same(taken)
          /\ taken.plain = h /\ taken.part = r
      BY <1>3, <3>1, <3>2 DEF Contexts
    <3> QED BY <2>3, <3>3 DEF h, r
  <2> QED BY <1>1, <2>1, <2>2, <2>3
<1> HIDE DEF taken, units
<1>6. /\ Same(last) /\ last.result \in {"Success", "Error"}
      /\ ok => last.plain = taken.plain /\ last.part = taken.part
      /\ ~ok => last.plain = c.plain /\ last.part = c.part
  <2>1. CASE ok
    BY <1>5, <2>1 DEF Contexts, Results
  <2>2. CASE ~ok
    BY <1>3, <2>2 DEF Contexts, Results
  <2> QED BY <2>1, <2>2
<1>7. u = [last EXCEPT !.posted = @ + 1]
  BY DEF SaslUpdate, DoResultsReady, last, taken, sent, units
<1> HIDE DEF last, u
<1>8. /\ u \in Contexts
      /\ u.server = last.server /\ u.step = last.step /\ u.ssf = last.ssf
      /\ u.ca_flag = last.ca_flag /\ u.ca_done = last.ca_done /\ u.ca_skip = last.ca_skip
      /\ u.result = last.result /\ u.posted = last.posted + 1 /\ u.have = last.have
      /\ u.plain = last.plain /\ u.part = last.part
  BY <1>6, <1>7 DEF Contexts
<1>9. /\ c.ssf = 0 => last.plain <= c.plain + n /\ last.part = c.part
      /\ c.ssf = 1 => 2 * last.plain + last.part <= 2 * c.plain + c.part + n
      /\ n = 0 => last.part = c.part
  <2> DEFINE h == (c.part + n) \div 2
             r == (c.part + n) % 2
  <2>1. h \in Nat /\ r \in 0 .. 1 /\ c.part + n = 2 * h + r
    BY <1>4 DEF units
  <2>2. n # 0 /\ c.ssf = 1 => taken.plain = h /\ taken.part = r
    BY <1>5 DEF units
  <2> HIDE DEF h, r
  <2>3. CASE ok
    <3>1. CASE n = 0
      BY <1>1, <1>5, <1>6, <2>3, <3>1
    <3>2. CASE n # 0 /\ c.ssf = 0
      BY <1>1, <1>5, <1>6, <2>3, <3>2
    <3>3. CASE n # 0 /\ c.ssf = 1
      BY <1>1, <1>6, <2>1, <2>2, <2>3, <3>3
    <3> QED BY <1>1, <3>1, <3>2, <3>3
  <2>4. CASE ~ok
    BY <1>1, <1>6, <2>4
  <2> QED BY <2>3, <2>4
<1>10. Updated(c, n, u)
  BY <1>6, <1>8, <1>9 DEF Updated
<1> QED BY <1>10 DEF u

\* What the library may say.
Says == [r : {"ok", "continue", "error"}, asked : SUBSET Interactive, checks : BOOLEAN, ssf : 0 .. 1]

\* clientTryAgain() ends in one of four ways, and never waits for authCheck().
LEMMA ClientTryAgainDoes ==
  ASSUME NEW c \in Contexts, NEW says \in Says, NEW u, u = ClientTryAgain(c, says)
  PROVE  /\ u \in Contexts
         /\ u.server = c.server /\ u.plain = c.plain /\ u.part = c.part /\ u.posted = c.posted
         /\ u.result \in {"Params", "Error", "Success", "Continue"}
<1> DEFINE need == c.need \cup says.asked
           now  == [c EXCEPT !.need = need]
<1>1. need \in SUBSET Fields
  BY SaslAssumption DEF Contexts, Says
<1>2. now \in Contexts /\ now.server = c.server /\ now.plain = c.plain /\ now.part = c.part
      /\ now.posted = c.posted /\ now.ssf = c.ssf
  <2> HIDE DEF need
  <2> QED BY <1>1 DEF Contexts
<1>3. says.r \in {"ok", "continue", "error"} /\ says.ssf \in 0 .. 1 /\ c.ssf \in 0 .. 1
  BY DEF Says, Contexts
<1>4. \/ u = [now EXCEPT !.result = "Params"]
      \/ u = [now EXCEPT !.result = "Error"]
      \/ says.r = "ok" /\ u = [now EXCEPT !.step = 1, !.ssf = says.ssf, !.result = "Success"]
      \/ says.r # "ok" /\ u = [now EXCEPT !.step = 1, !.ssf = now.ssf, !.result = "Continue"]
  BY <1>3 DEF ClientTryAgain
<1> HIDE DEF now, need
<1>5. ASSUME NEW y \in 0 .. 1, NEW z \in Results,
             u = [now EXCEPT !.step = 1, !.ssf = y, !.result = z]
      PROVE  u \in Contexts /\ u.server = now.server /\ u.plain = now.plain /\ u.part = now.part
             /\ u.posted = now.posted /\ u.result = z
  <2>1. 1 \in 0 .. 1
    OBVIOUS
  <2>2. u \in Contexts
    BY <1>2, <1>5, <2>1, ZenonT(40) DEF Contexts
  <2> QED BY <1>2, <1>5, <2>2 DEF Contexts
<1>6. CASE u = [now EXCEPT !.result = "Params"]
  BY <1>2, <1>6 DEF Contexts, Results
<1>7. CASE u = [now EXCEPT !.result = "Error"]
  BY <1>2, <1>7 DEF Contexts, Results
<1>8. 1 \in 0 .. 1 /\ {"Success", "Continue"} \subseteq Results
  BY DEF Results
<1>9. now.ssf \in 0 .. 1
  BY <1>2, <1>3
<1>10. CASE u = [now EXCEPT !.step = 1, !.ssf = says.ssf, !.result = "Success"]
  <2>1. "Success" \in Results
    BY <1>8
  <2>2. /\ u \in Contexts /\ u.server = now.server /\ u.plain = now.plain /\ u.part = now.part
        /\ u.posted = now.posted /\ u.result = "Success"
    BY <1>3, <1>5, <1>10, <2>1
  <2> QED BY <1>2, <2>2
<1>11. CASE u = [now EXCEPT !.step = 1, !.ssf = now.ssf, !.result = "Continue"]
  <2>1. "Continue" \in Results
    BY <1>8
  <2>2. /\ u \in Contexts /\ u.server = now.server /\ u.plain = now.plain /\ u.part = now.part
        /\ u.posted = now.posted /\ u.result = "Continue"
    BY <1>5, <1>9, <1>11, <2>1
  <2> QED BY <1>2, <2>2
<1> QED BY <1>4, <1>6, <1>7, <1>10, <1>11

\* serverGoesOn() is done with the check.
LEMMA ServerGoesOnDoes ==
  ASSUME NEW c \in Contexts, NEW says \in Says, NEW u, u = ServerGoesOn(c, says)
  PROVE  /\ u \in Contexts
         /\ u.server = c.server /\ u.plain = c.plain /\ u.part = c.part /\ u.posted = c.posted
         /\ u.ca_flag = c.ca_flag /\ u.ca_done = c.ca_done /\ ~u.ca_skip /\ u.step = 1
         /\ u.result = IF c.last_r = "ok" THEN "Success" ELSE "Continue"
<1>1. says.ssf \in 0 .. 1 /\ c.ssf \in 0 .. 1
  BY DEF Says, Contexts
<1>2. ASSUME NEW y \in 0 .. 1, NEW z \in Results,
             u = [c EXCEPT !.ca_skip = FALSE, !.last_r = "none", !.step = 1, !.ssf = y, !.result = z]
      PROVE  /\ u \in Contexts
             /\ u.server = c.server /\ u.plain = c.plain /\ u.part = c.part /\ u.posted = c.posted
             /\ u.ca_flag = c.ca_flag /\ u.ca_done = c.ca_done /\ ~u.ca_skip /\ u.step = 1
             /\ u.result = z
  <2>1. 1 \in 0 .. 1
    OBVIOUS
  <2>2. u \in Contexts
    BY <1>2, <2>1, ZenonT(40) DEF Contexts
  <2> QED BY <1>2, <2>2 DEF Contexts
<1>3. {"Success", "Continue"} \subseteq Results
  BY DEF Results
<1>4. CASE c.last_r = "ok"
  <2>1. u = [c EXCEPT !.ca_skip = FALSE, !.last_r = "none", !.step = 1, !.ssf = says.ssf,
                      !.result = "Success"]
    BY <1>4 DEF ServerGoesOn
  <2> QED BY <1>1, <1>2, <1>3, <1>4, <2>1
<1>5. CASE c.last_r # "ok"
  <2>1. u = [c EXCEPT !.ca_skip = FALSE, !.last_r = "none", !.step = 1, !.ssf = c.ssf,
                      !.result = "Continue"]
    BY <1>5 DEF ServerGoesOn
  <2> QED BY <1>1, <1>2, <1>3, <1>5, <2>1
<1> QED BY <1>4, <1>5

\* serverTryAgain() comes to "Success" only past the check of the user, whenever
\* the library asks for it.
LEMMA ServerTryAgainDoes ==
  ASSUME NEW c \in Contexts, NEW says \in Says, NEW u, u = ServerTryAgain(c, says),
         says.r = "ok" => says.checks \/ c.ca_flag,
         c.step = 0 /\ c.ca_flag => c.ca_skip
  PROVE  /\ u \in Contexts
         /\ u.server = c.server /\ u.plain = c.plain /\ u.part = c.part /\ u.posted = c.posted
         /\ u.ca_skip => u.result = "AuthCheck"
         /\ u.step = 0 /\ u.ca_flag => u.ca_skip
         /\ u.result = "Success" => c.ca_skip \/ c.ca_done
         /\ u.ca_done /\ ~u.ca_skip => c.ca_done
<1>1. says.r \in {"ok", "continue", "error"} /\ says.checks \in BOOLEAN /\ c.step \in 0 .. 1
  BY DEF Says, Contexts
<1>2. CASE c.ca_skip
  <2>1. u = ServerGoesOn(c, says)
    BY <1>2 DEF ServerTryAgain
  <2> QED BY <1>2, <2>1, ServerGoesOnDoes
<1>3. CASE ~c.ca_skip /\ says.r = "error"
  <2>1. u = [c EXCEPT !.result = "Error"]
    BY <1>3 DEF ServerTryAgain
  <2> QED BY <1>3, <2>1 DEF Contexts, Results
<1>4. CASE ~c.ca_skip /\ says.r # "error"
  <2> DEFINE flag == says.checks \/ (c.step > 0 /\ c.ca_flag)
             now  == [c EXCEPT !.last_r = says.r, !.ca_flag = flag]
  <2>1. now \in Contexts /\ now.server = c.server /\ now.plain = c.plain /\ now.part = c.part
        /\ now.posted = c.posted /\ now.ca_flag = flag /\ now.ca_done = c.ca_done
        /\ ~now.ca_skip /\ now.last_r = says.r
    <3> flag \in BOOLEAN
      OBVIOUS
    <3> HIDE DEF flag
    <3> QED BY <1>1, <1>4 DEF Contexts
  <2>2. u = IF now.ca_flag /\ ~c.ca_done
            THEN [now EXCEPT !.ca_done = TRUE, !.ca_skip = TRUE, !.result = "AuthCheck"]
            ELSE ServerGoesOn(now, says)
    BY <1>4 DEF ServerTryAgain
  <2>3. says.r = "ok" => flag
    BY <1>1, <1>4
  <2> HIDE DEF now, flag
  <2>4. CASE now.ca_flag /\ ~c.ca_done
    <3>1. u = [now EXCEPT !.ca_done = TRUE, !.ca_skip = TRUE, !.result = "AuthCheck"]
      BY <2>2, <2>4
    <3>2. u \in Contexts
      BY <2>1, <3>1, ZenonT(40) DEF Contexts, Results
    <3> QED BY <2>1, <3>1, <3>2 DEF Contexts
  <2>5. CASE ~(now.ca_flag /\ ~c.ca_done)
    <3>1. u = ServerGoesOn(now, says)
      BY <2>2, <2>5
    <3> QED BY <2>1, <2>3, <2>5, <3>1, ServerGoesOnDoes
  <2> QED BY <2>4, <2>5
<1> QED BY <1>2, <1>3, <1>4

\* The context of a new session keeps the results that are posted.
ResetWith(c, f, g) == [SaslReset(c) EXCEPT !.have = f, !.need = g]

LEMMA SaslResetDoes ==
  ASSUME NEW c \in Contexts, NEW f \in SUBSET Fields, NEW g \in SUBSET Fields
  PROVE  LET u == ResetWith(c, f, g)
         IN  /\ u \in Contexts
             /\ ~u.server /\ u.step = 0 /\ ~u.ca_flag /\ ~u.ca_done /\ ~u.ca_skip
             /\ u.plain = 0 /\ u.part = 0 /\ u.ssf = 0 /\ u.posted = c.posted
<1> DEFINE u == ResetWith(c, f, g)
<1>1. 0 \in 0 .. 1 /\ 0 \in Nat
  OBVIOUS
<1>2. u \in Contexts
  BY <1>1, ZenonT(40) DEF Contexts, Results, SaslReset, NewSaslContext, ResetWith
<1> QED BY <1>2 DEF SaslReset, NewSaslContext, ResetWith

----------------------------------------------------------------------------
(* The functions on the record.                                              *)

\* What no part of update() touches.
Beside(p, u) ==
  /\ u.server = p.server /\ u.sendLast = p.sendLast /\ u.queue = p.queue /\ u.timer = p.timer
  /\ u.first = p.first /\ u.authed = p.authed /\ u.in = p.in /\ u.to_net = p.to_net
  /\ u.signal = p.signal

\* update() does nothing, remembers that it has to, or begins an operation.
LEMMA UpdateDoes ==
  ASSUME NEW p, SaslData(p), NEW ok \in BOOLEAN, NEW u, u = Update(p, ok)
  PROVE  /\ SaslData(u) /\ Beside(p, u)
         /\ ~p.authed => u = p
         /\ p.authed /\ (p.queue # <<>> \/ p.op # "none") =>
              /\ u.need_update /\ u.op = p.op /\ u.out = p.out /\ u.from_net = p.from_net /\ u.c = p.c
         /\ p.authed /\ p.queue = <<>> /\ p.op = "none" =>
              /\ ~u.need_update /\ u.op = "Update" /\ u.out = 0 /\ u.from_net = 0
              /\ u.c = SaslUpdate(p.c, p.from_net, p.out, ok)
<1>1. CASE ~p.authed
  BY <1>1 DEF Update, Beside
<1>2. CASE p.authed /\ (p.queue # <<>> \/ p.op # "none")
  <2>1. u = [p EXCEPT !.need_update = TRUE]
    BY <1>2 DEF Update
  <2>2. SaslData(u)
    BY <2>1, ZenonT(40) DEF SaslData
  <2> QED BY <1>2, <2>1, <2>2, ZenonT(60) DEF SaslData, Beside
<1>3. CASE p.authed /\ p.queue = <<>> /\ p.op = "none"
  <2> DEFINE c == SaslUpdate(p.c, p.from_net, p.out, ok)
             left == p.out_pending + p.out
  <2>1. u = [p EXCEPT !.need_update = FALSE, !.op = "Update", !.out_pending = left,
                      !.c = c, !.from_net = 0, !.out = 0]
    BY <1>3 DEF Update
  <2>2. p.c \in Contexts /\ p.from_net \in Nat /\ p.out \in Nat /\ p.out_pending \in Int
    BY DEF SaslData
  <2>3. c \in Contexts /\ left \in Int /\ 0 \in Nat
    BY <2>2, SaslUpdateDoes, SMTT(40) DEF Updated
  <2> HIDE DEF c, left
  <2>4. SaslData(u)
    BY <2>1, <2>3, ZenonT(40) DEF SaslData
  <2>5. Beside(p, u)
    BY <2>1 DEF SaslData, Beside
  <2>6. ~u.need_update /\ u.op = "Update" /\ u.out = 0 /\ u.from_net = 0 /\ u.c = c
    BY <2>1 DEF SaslData
  <2> QED BY <1>3, <2>4, <2>5, <2>6 DEF c
<1> QED BY <1>1, <1>2, <1>3 DEF SaslData

----------------------------------------------------------------------------
(* The invariant, part by part, of the record p, the application a and the   *)
(* peer q.                                                                   *)

\* Which operation, queue and update go with which phase.
PhaseAgrees(p, a) ==
  /\ p.signal = "none"
  /\ p.op \in Attempts => a.phase = "working"
  /\ p.op = "Update" \/ p.need_update => p.authed
  /\ p.authed <=> a.phase \in {"authenticated", "broken"}

\* What is in the queue: after the authentication, what there is to read; before,
\* nothing but the news of it, which waits for a turn of its own.
QueueShape(p, a) ==
  p.queue # <<>> =>
    /\ p.op = "none"
    /\ p.authed => \A i \in 1 .. Len(p.queue) : p.queue[i] \in Reads
    /\ ~p.authed => /\ Len(p.queue) = 1 /\ p.queue[1] = "authenticated"
                    /\ a.phase = "peer" /\ p.c.result = "Success" /\ (p.server => a.approved)

QueueTimed(p) == p.queue # <<>> => p.timer

Pending(p, a) ==
  /\ p.authed /\ p.out > 0 => p.need_update \/ a.phase = "broken"
  /\ p.need_update => p.timer \/ p.op = "Update" \/ a.phase = "broken"

Announced(p, a) ==
  /\ p.in > 0 => a.toRead \/ \E i \in 1 .. Len(p.queue) : p.queue[i] = "readyRead"
  /\ p.to_net > 0 => a.toReadOutgoing \/ \E i \in 1 .. Len(p.queue) : p.queue[i] = "readyReadOutgoing"

\* What the context of a server remembers of the check of the user.
UserChecked(p, a) ==
  /\ p.c.server = p.server
  /\ ~p.server /\ p.op \in Attempts => p.c.result # "AuthCheck"
  /\ p.server =>
       /\ a.phase # "params"
       /\ p.op = "Start" \/ a.phase = "first" => p.c.step = 0
       /\ p.op = "Start" => p.c.result \in {"Success", "Error"}
       /\ p.c.ca_skip => p.c.result = "AuthCheck" /\ (a.phase = "check" \/ p.op \in Steps)
       /\ p.c.ca_done /\ ~p.c.ca_skip => a.approved
       /\ p.c.step = 0 /\ p.c.ca_flag => p.c.ca_skip
       /\ p.op \in Steps /\ p.c.result = "Success" => a.approved

\* Where what the peer has encoded can be.
Flow(p, a, q) ==
  /\ p.c.ssf = 0 => p.in + a.read + p.c.plain + p.from_net + q.units <= q.encoded
  /\ p.c.ssf = 1 =>
       2 * (p.in + a.read + p.c.plain) + p.c.part + p.from_net + q.units <= 2 * q.encoded

\* The peer encodes once the library here has said "ok".
PeerDone(p, q) ==
  /\ p.c.step = 1 /\ p.c.result = "Success" /\ ~p.authed => p.op \in Attempts \/ p.queue # <<>>
  /\ q.encoded > 0 => p.c.step = 1 /\ (p.authed \/ p.c.result = "Success")
  /\ q.encoded = 0 => p.c.part = 0

\* A result is on its way for every operation; only "mute" leaves one without.
Answered(p) == "mute" \notin ServerStarts /\ p.op # "none" => p.c.posted > 0

SaslData3(p, a, q) == SaslData(p) /\ AppData(a) /\ PeerData(q)

\* What holds in the middle of a handler too.
Within(p, a, q) ==
  /\ SaslData3(p, a, q)
  /\ PhaseAgrees(p, a)
  /\ QueueShape(p, a)
  /\ Announced(p, a)
  /\ UserChecked(p, a)
  /\ Flow(p, a, q)
  /\ PeerDone(p, q)
  /\ Answered(p)

SaslIInv == Within(d, app, peer) /\ QueueTimed(d) /\ Pending(d, app)

\* update() leaves nothing that is written, or needs an update, without a sequel.
LEMMA UpdateKeeps ==
  ASSUME NEW p, NEW a, NEW q, Within(p, a, q), NEW ok \in BOOLEAN, NEW u, u = Update(p, ok)
  PROVE  /\ Within(u, a, q) /\ Beside(p, u)
         /\ u.authed /\ u.out > 0 => u.need_update
         /\ u.need_update => u.queue # <<>> \/ u.op = "Update"
<1>1. SaslData(p) /\ AppData(a) /\ PeerData(q)
  BY DEF Within, SaslData3
<1>2. SaslData(u) /\ Beside(p, u)
  BY <1>1, UpdateDoes
<1>3. CASE ~p.authed
  <2>1. u = p
    BY <1>1, <1>3, UpdateDoes
  <2> QED BY <1>2, <1>3, <2>1 DEF Within, PhaseAgrees
<1>4. CASE p.authed /\ (p.queue # <<>> \/ p.op # "none")
  <2>1. u.need_update /\ u.op = p.op /\ u.out = p.out /\ u.from_net = p.from_net /\ u.c = p.c
    BY <1>1, <1>4, UpdateDoes
  <2>2. p.op # "none" => p.op = "Update"
    BY <1>1, <1>4 DEF Within, PhaseAgrees, SaslData
  <2>3. PhaseAgrees(u, a) /\ QueueShape(u, a) /\ Announced(u, a)
    BY <1>2, <1>4, <2>1 DEF Within, PhaseAgrees, QueueShape, Announced, Beside
  <2>4. UserChecked(u, a) /\ Flow(u, a, q) /\ PeerDone(u, q) /\ Answered(u)
    BY <1>2, <1>4, <2>1 DEF Within, UserChecked, Flow, PeerDone, Answered, Beside
  <2> QED BY <1>1, <1>2, <1>4, <2>1, <2>2, <2>3, <2>4 DEF Within, SaslData3, Beside
<1>5. CASE p.authed /\ p.queue = <<>> /\ p.op = "none"
  <2> DEFINE c == SaslUpdate(p.c, p.from_net, p.out, ok)
  <2>1. ~u.need_update /\ u.op = "Update" /\ u.out = 0 /\ u.from_net = 0 /\ u.c = c
    BY <1>1, <1>5, UpdateDoes
  <2>2. p.c \in Contexts /\ p.from_net \in Nat /\ p.out \in Nat /\ p.in \in Nat
    BY <1>1 DEF SaslData
  <2>3. Updated(p.c, p.from_net, c)
    BY <2>2, SaslUpdateDoes
  <2> HIDE DEF c
  <2>4. a.phase \in {"authenticated", "broken"}
    BY <1>5 DEF Within, PhaseAgrees
  <2>5. PhaseAgrees(u, a) /\ QueueShape(u, a) /\ Announced(u, a)
    BY <1>2, <1>5, <2>1 DEF Within, PhaseAgrees, QueueShape, Announced, Beside, Attempts, Steps
  <2>6. UserChecked(u, a)
    BY <1>2, <1>5, <2>1, <2>3, <2>4 DEF Within, UserChecked, Beside, Attempts, Steps, Updated
  <2>7. p.c.ssf \in 0 .. 1 /\ p.c.part \in 0 .. 1 /\ c.part \in 0 .. 1 /\ p.c.plain \in Nat
        /\ c.plain \in Nat /\ p.c.posted \in Nat /\ a.read \in Nat
        /\ q.encoded \in Nat /\ q.units \in Nat
    BY <1>1, <2>2, <2>3 DEF Contexts, AppData, PeerData, Updated
  <2>8. Flow(u, a, q)
    <3>1. u.in = p.in
      BY <1>2 DEF Beside
    <3>2. CASE p.c.ssf = 0
      BY <2>1, <2>2, <2>3, <2>7, <3>1, <3>2 DEF Within, Flow, Updated
    <3>3. CASE p.c.ssf = 1
      BY <2>1, <2>2, <2>3, <2>7, <3>1, <3>3 DEF Within, Flow, Updated
    <3> QED BY <2>7, <3>2, <3>3
  <2>9. PeerDone(u, q)
    <3>1. q.encoded = 0 => p.from_net = 0
      <4>1. CASE p.c.ssf = 0
        BY <2>2, <2>7, <4>1, SMTT(40) DEF Within, Flow
      <4>2. CASE p.c.ssf = 1
        <5>1. 2 * (p.in + a.read + p.c.plain) + p.c.part + p.from_net + q.units <= 2 * q.encoded
          BY <4>2 DEF Within, Flow
        <5> QED BY <2>2, <2>7, <5>1
      <4> QED BY <2>7, <4>1, <4>2
    <3> QED BY <1>2, <1>5, <2>1, <2>3, <3>1 DEF Within, PeerDone, Beside, Updated
  <2>10. Answered(u)
    BY <2>1, <2>3, <2>7 DEF Answered, Updated
  <2> QED BY <1>1, <1>2, <2>1, <2>5, <2>6, <2>8, <2>9, <2>10 DEF Within, SaslData3
<1> QED BY <1>1, <1>3, <1>4, <1>5 DEF SaslData

----------------------------------------------------------------------------
(* The end of a handler: the signal is emitted, and the application told.    *)

Quiet(p) == [p EXCEPT !.signal = "none"]

Told(a, signal) ==
  [a EXCEPT !.phase = PhaseOf(signal, @),
            !.toRead = @ \/ signal = "readyRead",
            !.toReadOutgoing = @ \/ signal = "readyReadOutgoing"]

LEMMA BecomesIs ==
  ASSUME NEW p, NEW seen
  PROVE  Becomes(p, seen) <=> d' = Quiet(p) /\ app' = Told(seen, p.signal)
BY DEF Becomes, Quiet, Told

\* All of u but the signal is as in r.
Quieted(r, u) ==
  /\ u.server = r.server /\ u.sendLast = r.sendLast /\ u.op = r.op /\ u.queue = r.queue
  /\ u.timer = r.timer /\ u.need_update = r.need_update /\ u.authed = r.authed
  /\ u.out = r.out /\ u.in = r.in /\ u.to_net = r.to_net /\ u.from_net = r.from_net
  /\ u.c = r.c /\ u.signal = "none"

LEMMA QuietDoes ==
  ASSUME NEW r, SaslData(r)
  PROVE  SaslData(Quiet(r)) /\ Quieted(r, Quiet(r))
<1>1. SaslData(Quiet(r))
  BY ZenonT(40) DEF SaslData, Quiet, Signals
<1> QED BY <1>1 DEF SaslData, Quiet, Quieted

LEMMA QuietAlready ==
  ASSUME NEW r, SaslData(r), r.signal = "none"
  PROVE  Quiet(r) = r
BY DEF SaslData, Quiet

\* All that b knows more than a is what the signal tells.
ToldMore(a, signal, b) ==
  /\ AppData(b)
  /\ b.phase = PhaseOf(signal, a.phase)
  /\ b.toRead = (a.toRead \/ signal = "readyRead")
  /\ b.toReadOutgoing = (a.toReadOutgoing \/ signal = "readyReadOutgoing")
  /\ b.read = a.read /\ b.approved = a.approved

LEMMA PhaseOfDoes ==
  ASSUME NEW ph \in Phases, NEW s \in Signals
  PROVE  PhaseOf(s, ph) \in Phases
BY DEF PhaseOf, Phases, Signals, Actions, Reads

LEMMA ToldDoes ==
  ASSUME NEW a, AppData(a), NEW s \in Signals
  PROVE  ToldMore(a, s, Told(a, s))
<1> DEFINE ph == PhaseOf(s, a.phase)
           x  == a.toRead \/ s = "readyRead"
           y  == a.toReadOutgoing \/ s = "readyReadOutgoing"
<1>1. ph \in Phases /\ x \in BOOLEAN /\ y \in BOOLEAN
  BY PhaseOfDoes DEF AppData
<1>2. Told(a, s) = [a EXCEPT !.phase = ph, !.toRead = x, !.toReadOutgoing = y]
  BY DEF Told
<1> HIDE DEF ph, x, y
<1>3. AppData(Told(a, s))
  BY <1>1, <1>2, ZenonT(40) DEF AppData
<1>4. /\ Told(a, s).phase = ph /\ Told(a, s).toRead = x /\ Told(a, s).toReadOutgoing = y
      /\ Told(a, s).read = a.read /\ Told(a, s).approved = a.approved
  BY <1>2 DEF AppData
<1> QED BY <1>3, <1>4 DEF ToldMore, ph, x, y

LEMMA NothingTold ==
  ASSUME NEW a, AppData(a)
  PROVE  Told(a, "none") = a
<1>1. PhaseOf("none", a.phase) = a.phase
  BY DEF PhaseOf
<1>2. a.toRead \in BOOLEAN /\ a.toReadOutgoing \in BOOLEAN
  BY DEF AppData
<1>3. Told(a, "none") = [a EXCEPT !.phase = a.phase, !.toRead = a.toRead,
                                  !.toReadOutgoing = a.toReadOutgoing]
  BY <1>1, <1>2 DEF Told
<1> QED BY <1>3 DEF AppData

\* Where a handler ends: the part of the invariant that may be open within one.
Handled(p, a, q) == Within(p, a, q) /\ QueueTimed(p) /\ Pending(p, a)

LEMMA NotEmpty ==
  ASSUME NEW q, Len(q) = 1
  PROVE  q # <<>>
OBVIOUS

LEMMA TailIs ==
  ASSUME NEW q \in Seq(Actions), q # <<>>
  PROVE  /\ Len(q) > 0 /\ q[1] \in Actions /\ Head(q) = q[1]
         /\ Tail(q) \in Seq(Actions) /\ Len(Tail(q)) = Len(q) - 1
         /\ \A i \in 1 .. Len(Tail(q)) : Tail(q)[i] = q[i + 1]
         /\ Len(q) <= 1 => Tail(q) = <<>>
BY DEF Actions

\* processNextAction() once the session is authenticated: what there is to read is
\* announced, one at a time, or the update that was put off is begun.
LEMMA ProcessAuthed ==
  ASSUME NEW p, NEW a, NEW q, Within(p, a, q), p.authed,
         p.out > 0 => p.need_update \/ a.phase = "broken",
         NEW ok \in BOOLEAN, NEW r, r = ProcessNextAction(p, ok)
  PROVE  /\ Handled(Quiet(r), Told(a, r.signal), q)
         /\ r.in = p.in /\ r.server = p.server
         /\ Told(a, r.signal).phase = a.phase /\ Told(a, r.signal).approved = a.approved
         /\ Told(a, r.signal).read = a.read
<1>1. SaslData(p) /\ AppData(a) /\ PeerData(q) /\ p.signal = "none"
  BY DEF Within, SaslData3, PhaseAgrees
<1>2. a.phase \in {"authenticated", "broken"}
  BY DEF Within, PhaseAgrees
<1>3. CASE p.queue = <<>> /\ ~p.need_update
  <2>1. r = p
    BY <1>3 DEF ProcessNextAction
  <2>2. Quiet(r) = p /\ Told(a, r.signal) = a
    BY <1>1, <2>1, QuietAlready, NothingTold
  <2> QED BY <1>3, <2>1, <2>2 DEF Handled, QueueTimed, Pending
<1>4. CASE p.queue = <<>> /\ p.need_update
  <2>1. r = Update(p, ok)
    BY <1>4 DEF ProcessNextAction
  <2>2. /\ Within(r, a, q) /\ Beside(p, r)
        /\ r.authed /\ r.out > 0 => r.need_update
        /\ r.need_update => r.queue # <<>> \/ r.op = "Update"
    BY <2>1, UpdateKeeps
  <2>3. Quiet(r) = r /\ Told(a, r.signal) = a
    BY <1>1, <2>2, QuietAlready, NothingTold DEF Within, SaslData3, Beside
  <2>4. r.queue = <<>> /\ r.in = p.in /\ r.server = p.server
    BY <1>4, <2>2 DEF Beside
  <2> QED BY <2>2, <2>3, <2>4 DEF Handled, QueueTimed, Pending
<1>5. CASE p.queue # <<>>
  <2> DEFINE h == Head(p.queue)
             t == p.timer \/ Len(p.queue) > 1 \/ p.need_update
             u == Quiet(r)
             b == Told(a, h)
  <2>1. p.queue \in Seq(Actions) /\ p.timer \in BOOLEAN /\ p.need_update \in BOOLEAN
    BY <1>1 DEF SaslData
  <2>2. h \in Reads /\ p.op = "none"
    BY <1>5, <2>1, TailIs DEF Within, QueueShape
  <2>3. r = [p EXCEPT !.queue = Tail(p.queue), !.signal = h, !.timer = t]
    BY <1>5, <2>2 DEF ProcessNextAction, Reads
  <2>4. t \in BOOLEAN /\ h \in Signals /\ Tail(p.queue) \in Seq(Actions)
    BY <1>5, <2>1, <2>2, TailIs DEF Signals, Actions
  <2> HIDE DEF t, h
  <2>5. SaslData(r)
    BY <1>1, <2>3, <2>4, ZenonT(40) DEF SaslData
  <2>6. /\ r.server = p.server /\ r.sendLast = p.sendLast /\ r.op = p.op /\ r.queue = Tail(p.queue)
        /\ r.timer = t /\ r.need_update = p.need_update /\ r.authed = p.authed
        /\ r.out = p.out /\ r.in = p.in /\ r.to_net = p.to_net /\ r.from_net = p.from_net
        /\ r.c = p.c /\ r.signal = h
    BY <1>1, <2>3, ZenonT(60) DEF SaslData
  <2>7. SaslData(u) /\ Quieted(r, u)
    BY <2>5, QuietDoes
  <2>8. ToldMore(a, h, b)
    BY <1>1, <2>4, ToldDoes
  <2>9. b.phase = a.phase
    BY <2>2, <2>8 DEF ToldMore, PhaseOf, Reads
  <2>10. p.need_update \/ Len(p.queue) > 1 => t
    BY DEF t
  <2>11. h = p.queue[1]
    BY <1>5, <2>1, TailIs DEF h
  <2> HIDE DEF u, b
  <2>12. PhaseAgrees(u, b)
    BY <2>2, <2>6, <2>7, <2>9 DEF Within, PhaseAgrees, Quieted, Attempts, Steps
  <2>13. QueueShape(u, b) /\ QueueTimed(u)
    <3>1. \A i \in 1 .. Len(u.queue) : u.queue[i] = p.queue[i + 1] /\ i + 1 \in 1 .. Len(p.queue)
      BY <1>5, <2>1, <2>6, <2>7, TailIs DEF Quieted
    <3>2. u.queue # <<>> => Len(p.queue) > 1
      BY <1>5, <2>1, <2>6, <2>7, TailIs DEF Quieted
    <3> QED BY <1>5, <2>2, <2>6, <2>7, <2>10, <3>1, <3>2 DEF Within, QueueShape, QueueTimed, Quieted
  <2>14. Pending(u, b)
    BY <2>6, <2>7, <2>9, <2>10 DEF Pending, Quieted
  <2>15. Announced(u, b)
    <3>1. u.queue = Tail(p.queue) /\ u.in = p.in /\ u.to_net = p.to_net
      BY <2>6, <2>7 DEF Quieted
    <3>2. /\ b.toRead = (a.toRead \/ h = "readyRead")
          /\ b.toReadOutgoing = (a.toReadOutgoing \/ h = "readyReadOutgoing")
      BY <2>8 DEF ToldMore
    <3>3. ASSUME NEW x, NEW i \in 1 .. Len(p.queue), p.queue[i] = x
          PROVE  h = x \/ \E j \in 1 .. Len(u.queue) : u.queue[j] = x
      <4>1. CASE i = 1
        BY <2>11, <3>3, <4>1
      <4>2. CASE i # 1
        <5>1. i - 1 \in 1 .. Len(u.queue) /\ u.queue[i - 1] = p.queue[i]
          BY <1>5, <2>1, <3>1, <4>2, TailIs
        <5> QED BY <3>3, <5>1
      <4> QED BY <4>1, <4>2
    <3> QED BY <3>1, <3>2, <3>3 DEF Within, Announced
  <2>16. UserChecked(u, b)
    BY <2>6, <2>7, <2>8, <2>9 DEF Within, UserChecked, Quieted, ToldMore
  <2>17. Flow(u, b, q) /\ PeerDone(u, q) /\ Answered(u)
    BY <2>6, <2>7, <2>8 DEF Within, Flow, PeerDone, Answered, Quieted, ToldMore
  <2>18. SaslData3(u, b, q)
    BY <1>1, <2>7, <2>8 DEF SaslData3, ToldMore
  <2>19. Told(a, r.signal) = b
    BY <2>6 DEF b
  <2> QED BY <2>6, <2>8, <2>9, <2>12, <2>13, <2>14, <2>15, <2>16, <2>17, <2>18, <2>19
          DEF Handled, Within, ToldMore, u
<1> QED BY <1>3, <1>4, <1>5

----------------------------------------------------------------------------
(* The result of an attempt at authentication, before it becomes signals.    *)

AtResult(p, a, q) ==
  /\ SaslData3(p, a, q)
  /\ p.signal = "none" /\ p.op = "none" /\ ~p.need_update /\ ~p.authed
  /\ a.phase \in {"working", "peer"}
  /\ p.in > 0 => a.toRead
  /\ p.to_net > 0 => a.toReadOutgoing
  /\ p.c.server = p.server
  /\ p.server => /\ p.c.ca_skip => p.c.result = "AuthCheck"
                 /\ p.c.ca_done /\ ~p.c.ca_skip => a.approved
                 /\ p.c.step = 0 /\ p.c.ca_flag => p.c.ca_skip
  /\ Flow(p, a, q)
  /\ q.encoded > 0 => p.c.step = 1 /\ p.c.result = "Success"
  /\ q.encoded = 0 => p.c.part = 0

\* A result that is one signal.
LEMMA EmitHandled ==
  ASSUME NEW p, NEW a, NEW q, AtResult(p, a, q), p.queue = <<>>,
         NEW s \in {"serverStarted", "needParams", "authCheck", "nextStep", "error"},
         ~(p.c.step = 1 /\ p.c.result = "Success"),
         p.server => /\ s = "serverStarted" => p.c.step = 0
                     /\ s # "needParams"
                     /\ p.c.result = "AuthCheck" => s = "authCheck",
         NEW r, r = Emit(p, s)
  PROVE  /\ Handled(Quiet(r), Told(a, r.signal), q)
         /\ r.signal = s /\ r.in = p.in /\ r.server = p.server
<1> DEFINE u == Quiet(r)
           b == Told(a, s)
<1>1. SaslData(p) /\ AppData(a) /\ PeerData(q)
  BY DEF AtResult, SaslData3
<1>2. s \in Signals /\ r = [p EXCEPT !.signal = s]
  BY DEF Signals, Actions, Reads, Emit
<1>3. SaslData(r)
  BY <1>1, <1>2, ZenonT(40) DEF SaslData
<1>4. /\ r.server = p.server /\ r.sendLast = p.sendLast /\ r.op = p.op /\ r.queue = p.queue
      /\ r.timer = p.timer /\ r.need_update = p.need_update /\ r.authed = p.authed
      /\ r.out = p.out /\ r.in = p.in /\ r.to_net = p.to_net /\ r.from_net = p.from_net
      /\ r.c = p.c /\ r.signal = s
  BY <1>1, <1>2 DEF SaslData
<1>5. SaslData(u) /\ Quieted(r, u)
  BY <1>3, QuietDoes
<1>6. ToldMore(a, s, b)
  BY <1>1, <1>2, ToldDoes
<1>7. Told(a, r.signal) = b
  BY <1>4
<1> HIDE DEF u, b
<1>8. b.phase = PhaseOf(s, a.phase) /\ b.phase \in {"first", "params", "check", "peer", "failed"}
  BY <1>6 DEF ToldMore, PhaseOf, AtResult
<1>9. b.phase = "first" => s = "serverStarted"
  BY <1>8 DEF PhaseOf, AtResult
<1>10. (s = "authCheck" => b.phase = "check") /\ (b.phase = "params" => s = "needParams")
  BY <1>8 DEF PhaseOf
<1>11. PhaseAgrees(u, b) /\ QueueShape(u, b) /\ QueueTimed(u) /\ Pending(u, b) /\ Answered(u)
  BY <1>4, <1>5, <1>8 DEF AtResult, PhaseAgrees, QueueShape, QueueTimed, Pending, Answered, Quieted,
                          Attempts, Steps
<1>12. Announced(u, b)
  BY <1>4, <1>5, <1>6 DEF AtResult, Announced, Quieted, ToldMore
<1>13. UserChecked(u, b)
  BY <1>4, <1>5, <1>6, <1>8, <1>9, <1>10 DEF AtResult, UserChecked, Quieted, ToldMore, Attempts, Steps
<1>14. Flow(u, b, q) /\ PeerDone(u, q)
  BY <1>4, <1>5, <1>6 DEF AtResult, Flow, PeerDone, Quieted, ToldMore
<1>15. SaslData3(u, b, q)
  BY <1>1, <1>5, <1>6 DEF SaslData3, ToldMore
<1> QED BY <1>4, <1>7, <1>11, <1>12, <1>13, <1>14, <1>15 DEF Handled, Within, u

\* A result that goes to the peer, alone or as the last one.
LEMMA StepHandled ==
  ASSUME NEW p, NEW a, NEW q, AtResult(p, a, q), a.phase = "working",
         Len(p.queue) \in 1 .. 2, p.queue[1] \in {"clientStarted", "nextStep"},
         IF Len(p.queue) = 1 THEN p.c.result = "Continue"
         ELSE p.queue[2] = "authenticated" /\ p.c.result = "Success" /\ (p.server => a.approved),
         NEW ok \in BOOLEAN, NEW r, r = ProcessNextAction(p, ok)
  PROVE  /\ Handled(Quiet(r), Told(a, r.signal), q)
         /\ r.signal \in {"clientStarted", "nextStep"} /\ r.in = p.in /\ r.server = p.server
<1> DEFINE h == Head(p.queue)
           t == p.timer \/ Len(p.queue) > 1 \/ p.need_update
           u == Quiet(r)
           b == Told(a, h)
<1>1. SaslData(p) /\ AppData(a) /\ PeerData(q)
  BY DEF AtResult, SaslData3
<1>2. p.queue \in Seq(Actions) /\ p.timer \in BOOLEAN /\ p.need_update \in BOOLEAN
  BY <1>1 DEF SaslData
<1>3. p.queue # <<>>
  BY <1>2
<1>4. h = p.queue[1] /\ h \in {"clientStarted", "nextStep"}
  BY <1>2, <1>3, TailIs
<1>5. r = [p EXCEPT !.queue = Tail(p.queue), !.signal = h, !.timer = t]
  BY <1>3, <1>4 DEF ProcessNextAction
<1>6. t \in BOOLEAN /\ h \in Signals /\ Tail(p.queue) \in Seq(Actions)
  BY <1>2, <1>3, <1>4, TailIs DEF Signals, Actions
<1>7. Len(p.queue) = 2 => t
  BY DEF t
<1> HIDE DEF t, h
<1>8. SaslData(r)
  BY <1>1, <1>5, <1>6, ZenonT(40) DEF SaslData
<1>9. /\ r.server = p.server /\ r.sendLast = p.sendLast /\ r.op = p.op /\ r.queue = Tail(p.queue)
      /\ r.timer = t /\ r.need_update = p.need_update /\ r.authed = p.authed
      /\ r.out = p.out /\ r.in = p.in /\ r.to_net = p.to_net /\ r.from_net = p.from_net
      /\ r.c = p.c /\ r.signal = h
  BY <1>1, <1>5 DEF SaslData
<1>10. SaslData(u) /\ Quieted(r, u)
  BY <1>8, QuietDoes
<1>11. ToldMore(a, h, b)
  BY <1>1, <1>6, ToldDoes
<1>12. Told(a, r.signal) = b
  BY <1>9
<1> HIDE DEF u, b
<1>13. b.phase = "peer"
  BY <1>4, <1>11 DEF ToldMore, PhaseOf
<1>14. IF Len(p.queue) = 1 THEN Tail(p.queue) = <<>>
       ELSE /\ Len(Tail(p.queue)) = 1 /\ Tail(p.queue)[1] = "authenticated"
            /\ Tail(p.queue) # <<>>
  <2>1. CASE Len(p.queue) = 1
    <3>1. Len(p.queue) <= 1
      BY <2>1
    <3>2. Tail(p.queue) = <<>>
      BY <1>2, <1>3, <3>1, TailIs
    <3> QED BY <2>1, <3>2
  <2>2. CASE Len(p.queue) = 2
    <3>1. Len(Tail(p.queue)) = 1 /\ 1 \in 1 .. Len(Tail(p.queue))
      BY <1>2, <1>3, <2>2, TailIs
    <3>2. Tail(p.queue)[1] = p.queue[2]
      BY <1>2, <1>3, <3>1, TailIs
    <3>3. p.queue[2] = "authenticated"
      BY <2>2
    <3>4. Tail(p.queue) # <<>>
      BY <3>1, NotEmpty
    <3> QED BY <2>2, <3>1, <3>2, <3>3, <3>4
  <2> QED BY <2>1, <2>2
<1>15. QueueShape(u, b) /\ QueueTimed(u)
  BY <1>7, <1>9, <1>10, <1>11, <1>13, <1>14 DEF AtResult, QueueShape, QueueTimed, Quieted, ToldMore
<1>16. PhaseAgrees(u, b) /\ Pending(u, b) /\ Answered(u)
  BY <1>9, <1>10, <1>13 DEF AtResult, PhaseAgrees, Pending, Answered, Quieted, Attempts, Steps
<1>17. Announced(u, b)
  BY <1>9, <1>10, <1>11 DEF AtResult, Announced, Quieted, ToldMore
<1>18. UserChecked(u, b)
  BY <1>9, <1>10, <1>11, <1>13 DEF AtResult, UserChecked, Quieted, ToldMore, Attempts, Steps
<1>19. Flow(u, b, q)
  BY <1>9, <1>10, <1>11 DEF AtResult, Flow, Quieted, ToldMore
<1>20. PeerDone(u, q)
  BY <1>9, <1>10, <1>14 DEF AtResult, PeerDone, Quieted
<1>21. SaslData3(u, b, q)
  BY <1>1, <1>10, <1>11 DEF SaslData3, ToldMore
<1> QED BY <1>4, <1>9, <1>12, <1>15, <1>16, <1>17, <1>18, <1>19, <1>20, <1>21 DEF Handled, Within, u

\* The news of the authentication: from here on what is written is encoded.
LEMMA AuthenticatedHandled ==
  ASSUME NEW p, NEW a, NEW q, AtResult(p, a, q),
         Len(p.queue) = 1, p.queue[1] = "authenticated",
         p.c.result = "Success", p.server => a.approved,
         NEW ok \in BOOLEAN, NEW r, r = ProcessNextAction(p, ok)
  PROVE  /\ Handled(Quiet(r), Told(a, r.signal), q)
         /\ r.signal = "authenticated" /\ r.in = p.in /\ r.server = p.server
<1> DEFINE w == p.out > 0
           t == p.timer \/ w
           n == p.need_update \/ w
           u == Quiet(r)
           b == Told(a, "authenticated")
<1>1. SaslData(p) /\ AppData(a) /\ PeerData(q)
  BY DEF AtResult, SaslData3
<1>2. p.queue \in Seq(Actions) /\ p.timer \in BOOLEAN /\ p.need_update \in BOOLEAN /\ ~p.need_update
  BY <1>1 DEF SaslData, AtResult
<1>3. p.queue # <<>> /\ Head(p.queue) = "authenticated" /\ Tail(p.queue) = <<>>
  <2>1. p.queue # <<>>
    BY <1>2
  <2>2. Len(p.queue) <= 1
    BY <1>2
  <2> QED BY <1>2, <2>1, <2>2, TailIs
<1>4. r = [p EXCEPT !.queue = <<>>, !.signal = "authenticated", !.timer = t,
                    !.authed = TRUE, !.need_update = n]
  <2> DEFINE t0 == p.timer \/ Len(p.queue) > 1 \/ p.need_update
             r0 == [p EXCEPT !.queue = Tail(p.queue), !.signal = "authenticated", !.timer = t0]
  <2>1. r = [r0 EXCEPT !.authed = TRUE, !.need_update = @ \/ w, !.timer = @ \/ w]
    BY <1>3 DEF ProcessNextAction
  <2>2. t0 = p.timer /\ t0 \in BOOLEAN
    BY <1>2
  <2> HIDE DEF t0, w
  <2> QED BY <1>1, <1>3, <2>1, <2>2, ZenonT(60) DEF SaslData
<1>5. t \in BOOLEAN /\ n \in BOOLEAN /\ <<>> \in Seq(Actions) /\ "authenticated" \in Signals
  BY <1>2 DEF Signals, Actions
<1>6. (p.out > 0 => n) /\ (n => t)
  BY <1>2
<1> HIDE DEF t, n
<1>7. SaslData(r)
  BY <1>1, <1>4, <1>5, ZenonT(40) DEF SaslData
<1>8. /\ r.server = p.server /\ r.op = p.op /\ r.queue = <<>>
      /\ r.timer = t /\ r.need_update = n /\ r.authed
      /\ r.out = p.out /\ r.in = p.in /\ r.to_net = p.to_net /\ r.from_net = p.from_net
      /\ r.c = p.c /\ r.signal = "authenticated"
  BY <1>1, <1>4 DEF SaslData
<1>9. SaslData(u) /\ Quieted(r, u)
  BY <1>7, QuietDoes
<1>10. ToldMore(a, "authenticated", b)
  BY <1>1, <1>5, ToldDoes
<1>11. Told(a, r.signal) = b
  BY <1>8
<1> HIDE DEF u, b
<1>12. b.phase = "authenticated"
  BY <1>10 DEF ToldMore, PhaseOf
<1>13. PhaseAgrees(u, b) /\ QueueShape(u, b) /\ QueueTimed(u) /\ Pending(u, b) /\ Answered(u)
  BY <1>6, <1>8, <1>9, <1>12 DEF AtResult, PhaseAgrees, QueueShape, QueueTimed, Pending, Answered,
                                 Quieted, Attempts, Steps
<1>14. Announced(u, b)
  BY <1>8, <1>9, <1>10, ZenonT(60) DEF AtResult, Announced, Quieted, ToldMore
<1>15. UserChecked(u, b)
  BY <1>8, <1>9, <1>10, <1>12 DEF AtResult, UserChecked, Quieted, ToldMore, Attempts, Steps
<1>16. Flow(u, b, q) /\ PeerDone(u, q)
  BY <1>8, <1>9, <1>10 DEF AtResult, Flow, PeerDone, Quieted, ToldMore
<1>17. SaslData3(u, b, q)
  BY <1>1, <1>9, <1>10 DEF SaslData3, ToldMore
<1> QED BY <1>8, <1>11, <1>13, <1>14, <1>15, <1>16, <1>17 DEF Handled, Within, u

----------------------------------------------------------------------------
(* The result of an update.                                                  *)

LEMMA FlowBound ==
  ASSUME NEW p, NEW a, NEW q, SaslData3(p, a, q), Flow(p, a, q)
  PROVE  p.in + a.read <= q.encoded
<1>1. /\ p.in \in Nat /\ a.read \in Nat /\ p.c.plain \in Nat /\ p.from_net \in Nat /\ p.c.part \in Nat
      /\ q.units \in Nat /\ q.encoded \in Nat /\ p.c.ssf \in 0 .. 1
  <2>1. p.in \in Nat /\ p.from_net \in Nat /\ p.c \in Contexts
    BY DEF SaslData3, SaslData
  <2>2. a.read \in Nat /\ q.units \in Nat /\ q.encoded \in Nat
    BY DEF SaslData3, AppData, PeerData
  <2>3. p.c.plain \in Nat /\ p.c.part \in 0 .. 1 /\ p.c.ssf \in 0 .. 1
    BY <2>1 DEF Contexts
  <2> QED BY <2>1, <2>2, <2>3
<1>2. CASE p.c.ssf = 0
  BY <1>1, <1>2 DEF Flow
<1>3. CASE p.c.ssf = 1
  <2>1. 2 * (p.in + a.read + p.c.plain) + p.c.part + p.from_net + q.units <= 2 * q.encoded
    BY <1>3 DEF Flow
  <2> QED BY <1>1, <2>1
<1> QED BY <1>1, <1>2, <1>3

\* What an update adds to an empty queue.
News(x, y) ==
  <<>> \o (IF x THEN <<"readyReadOutgoing">> ELSE <<>>) \o (IF y THEN <<"readyRead">> ELSE <<>>)

LEMMA NewsIs ==
  ASSUME NEW x \in BOOLEAN, NEW y \in BOOLEAN
  PROVE  /\ News(x, y) \in Seq(Actions)
         /\ \A i \in 1 .. Len(News(x, y)) : News(x, y)[i] \in Reads
         /\ x => \E i \in 1 .. Len(News(x, y)) : News(x, y)[i] = "readyReadOutgoing"
         /\ y => \E i \in 1 .. Len(News(x, y)) : News(x, y)[i] = "readyRead"
<1> DEFINE u == IF x THEN <<"readyReadOutgoing">> ELSE <<>>
           v == IF y THEN <<"readyRead">> ELSE <<>>
           w == <<>> \o u
           q == w \o v
<1>1. u \in Seq(Actions) /\ v \in Seq(Actions) /\ <<>> \in Seq(Actions) /\ Len(<<>>) = 0
  <2>1. {"readyReadOutgoing", "readyRead"} \subseteq Actions
    BY DEF Actions, Reads
  <2>2. <<"readyReadOutgoing">> \in Seq(Actions) /\ <<"readyRead">> \in Seq(Actions)
    BY <2>1
  <2> QED BY <2>2
<1>2. /\ IF x THEN Len(u) = 1 /\ u[1] = "readyReadOutgoing" ELSE Len(u) = 0
      /\ IF y THEN Len(v) = 1 /\ v[1] = "readyRead" ELSE Len(v) = 0
  OBVIOUS
<1> HIDE DEF u, v
<1>3. w \in Seq(Actions) /\ Len(w) = Len(u) /\ \A i \in 1 .. Len(u) : w[i] = u[i]
  BY <1>1
<1> HIDE DEF w
<1>4. /\ q \in Seq(Actions) /\ Len(q) = Len(u) + Len(v)
      /\ \A i \in 1 .. Len(u) : q[i] = u[i]
      /\ \A i \in 1 .. Len(v) : q[Len(u) + i] = v[i]
  BY <1>1, <1>3, SMTT(40)
<1>5. q = News(x, y)
  BY DEF q, w, u, v, News
<1> HIDE DEF q
<1>6. \A i \in 1 .. Len(q) : q[i] \in Reads
  BY <1>2, <1>4 DEF Reads
<1>7. x => 1 \in 1 .. Len(q) /\ q[1] = "readyReadOutgoing"
  BY <1>1, <1>2, <1>4
<1>8. y => Len(q) \in 1 .. Len(q) /\ q[Len(q)] = "readyRead"
  <2>1. SUFFICES ASSUME y PROVE Len(q) \in 1 .. Len(q) /\ q[Len(q)] = "readyRead"
    OBVIOUS
  <2>2. Len(u) \in Nat /\ Len(v) = 1 /\ v[1] = "readyRead" /\ 1 \in 1 .. Len(v)
    BY <1>1, <1>2, <2>1
  <2>3. Len(q) = Len(u) + 1 /\ q[Len(u) + 1] = "readyRead"
    BY <1>4, <2>2
  <2> QED BY <2>2, <2>3
<1> QED BY <1>4, <1>5, <1>6, <1>7, <1>8

\* sasl_resultsReady() of an update: the layer breaks, or what has come is put where
\* it will be announced, and the next update is begun or put off.
LEMMA UpdateHandled ==
  ASSUME NEW p, NEW a, NEW q, Within(p, a, q), p.authed, p.op = "none", p.queue = <<>>,
         p.out > 0 => p.need_update \/ a.phase = "broken",
         NEW ok \in BOOLEAN, NEW r, r = UpdateResult(p, ok)
  PROVE  LET b == Told(a, r.signal)
         IN  /\ Handled(Quiet(r), b, q)
             /\ r.server = p.server /\ b.approved = a.approved /\ b.read = a.read
             /\ \/ b.phase = "broken" /\ r.in = p.in
                \/ b.phase = a.phase /\ r.in \in Nat /\ r.in >= p.in
<1>1. SaslData(p) /\ AppData(a) /\ PeerData(q) /\ p.signal = "none"
  BY DEF Within, SaslData3, PhaseAgrees
<1>2. a.phase \in {"authenticated", "broken"}
  BY DEF Within, PhaseAgrees
<1>3. CASE p.c.result # "Success"
  <2> DEFINE u == Quiet(r)
             b == Told(a, "error")
  <2>1. r = [p EXCEPT !.signal = "error"]
    BY <1>3 DEF UpdateResult, Emit
  <2>2. u = p
    BY <1>1, <2>1, ZenonT(40) DEF SaslData, Quiet
  <2>10. r.signal = "error" /\ r.server = p.server /\ r.in = p.in
    BY <1>1, <2>1 DEF SaslData
  <2>3. ToldMore(a, "error", b)
    BY <1>1, ToldDoes DEF Signals
  <2>4. Told(a, r.signal) = b
    BY <2>10
  <2> HIDE DEF u, b
  <2>5. b.phase = "broken"
    BY <1>2, <2>3 DEF ToldMore, PhaseOf
  <2>6. PhaseAgrees(p, b) /\ QueueShape(p, b) /\ Announced(p, b) /\ UserChecked(p, b) /\ Flow(p, b, q)
    BY <1>2, <2>3, <2>5 DEF Within, PhaseAgrees, QueueShape, Announced, UserChecked, Flow, ToldMore,
                            Attempts, Steps
  <2>7. QueueTimed(p) /\ Pending(p, b)
    BY <2>5 DEF QueueTimed, Pending
  <2>8. SaslData3(p, b, q)
    BY <1>1, <2>3 DEF SaslData3, ToldMore
  <2>9. Handled(p, b, q)
    BY <2>6, <2>7, <2>8 DEF Handled, Within
  <2> QED BY <2>2, <2>10, <2>3, <2>4, <2>5, <2>9 DEF ToldMore, u
<1>4. CASE p.c.result = "Success"
  <2> DEFINE c    == p.c
             sent == c.to_net > 0
             left == p.out_pending - (IF sent THEN c.encoded ELSE 0)
             n    == p.to_net_encoded + (IF sent THEN c.encoded ELSE -1)
             enc  == IF n < MinEncoded THEN MinEncoded ELSE n
             come == c.plain > 0
             news == News(sent, come)
             c1   == [c EXCEPT !.to_net = 0, !.plain = 0, !.encoded = 0]
             net  == p.to_net + c.to_net
             in   == p.in + c.plain
             kept == [p EXCEPT !.out_pending = left, !.to_net = net, !.in = in,
                               !.to_net_encoded = enc, !.queue = news, !.c = c1]
             next == IF left > 0 \/ p.out > 0 THEN Update(kept, ok) ELSE kept
  <2>1. r = ProcessNextAction(next, ok)
    BY <1>4 DEF UpdateResult, News
  <2>2. /\ c \in Contexts /\ c.to_net \in Nat /\ c.plain \in Nat /\ c.encoded \in Nat
        /\ c.part \in 0 .. 1 /\ c.ssf \in 0 .. 1 /\ p.to_net \in Nat /\ p.in \in Nat
        /\ p.out_pending \in Int /\ p.to_net_encoded \in Int /\ MinEncoded \in Int
    BY <1>1, SaslAssumption DEF SaslData, Contexts
  <2>3. /\ sent \in BOOLEAN /\ come \in BOOLEAN /\ left \in Int /\ enc \in Int
        /\ net \in Nat /\ in \in Nat /\ 0 \in Nat
    <3>1. left \in Int /\ n \in Int /\ net \in Nat /\ in \in Nat
      <4>1. (IF sent THEN c.encoded ELSE 0) \in Int /\ (IF sent THEN c.encoded ELSE -1) \in Int
        BY <2>2
      <4> HIDE DEF sent
      <4>2. left \in Int
        BY <2>2, <4>1
      <4>3. n \in Int
        BY <2>2, <4>1
      <4>4. net \in Nat
        BY <2>2, SMTT(40)
      <4>5. in \in Nat
        BY <2>2, SMTT(40)
      <4> QED BY <4>2, <4>3, <4>4, <4>5
    <3> HIDE DEF left, n, net, in
    <3>2. enc \in Int
      BY <2>2, <3>1
    <3> QED BY <3>1, <3>2
  <2>4. /\ news \in Seq(Actions) /\ \A i \in 1 .. Len(news) : news[i] \in Reads
        /\ sent => \E i \in 1 .. Len(news) : news[i] = "readyReadOutgoing"
        /\ c.plain > 0 => \E i \in 1 .. Len(news) : news[i] = "readyRead"
    <3>1. come <=> c.plain > 0
      OBVIOUS
    <3> HIDE DEF sent, come
    <3> QED BY <2>3, <3>1, NewsIs, SMTT(40)
  <2>5. net > 0 => p.to_net > 0 \/ sent
    BY <2>2
  <2>6. /\ c1 \in Contexts /\ c1.plain = 0 /\ c1.server = c.server /\ c1.step = c.step
        /\ c1.ssf = c.ssf /\ c1.part = c.part /\ c1.ca_flag = c.ca_flag /\ c1.ca_done = c.ca_done
        /\ c1.ca_skip = c.ca_skip /\ c1.result = c.result /\ c1.posted = c.posted
    <3>1. c1 \in Contexts
      BY <2>2, <2>3, ZenonT(40) DEF Contexts
    <3> QED BY <2>2, <3>1 DEF Contexts
  <2>7. in > 0 => p.in > 0 \/ c.plain > 0
    BY <2>2
  <2>8. in = p.in + c.plain
    OBVIOUS
  <2> HIDE DEF sent, come, left, enc, news, c1, net, in
  <2>9. SaslData(kept)
    BY <1>1, <2>3, <2>4, <2>6, ZenonT(40) DEF SaslData
  <2>10. /\ kept.server = p.server /\ kept.op = "none" /\ kept.queue = news /\ kept.timer = p.timer
         /\ kept.need_update = p.need_update /\ kept.authed /\ kept.out = p.out /\ kept.in = in
         /\ kept.to_net = net /\ kept.from_net = p.from_net /\ kept.c = c1 /\ kept.signal = "none"
    BY <1>1 DEF SaslData
  <2> HIDE DEF kept
  <2>11. PhaseAgrees(kept, a) /\ QueueShape(kept, a)
    BY <1>2, <2>4, <2>10 DEF Within, PhaseAgrees, QueueShape, Attempts, Steps
  <2>12. Announced(kept, a)
    BY <2>4, <2>5, <2>7, <2>10 DEF Within, Announced
  <2>13. UserChecked(kept, a)
    BY <2>6, <2>10 DEF Within, UserChecked
  <2>14. Flow(kept, a, q)
    <3>1. a.read \in Nat /\ p.from_net \in Nat /\ q.units \in Nat /\ q.encoded \in Nat
      BY <1>1 DEF AppData, PeerData, SaslData
    <3>2. CASE c.ssf = 0
      <4>1. p.in + a.read + c.plain + p.from_net + q.units <= q.encoded
        BY <3>2 DEF Within, Flow
      <4>2. kept.in + a.read + kept.c.plain + kept.from_net + q.units <= q.encoded
        BY <2>2, <2>6, <2>8, <2>10, <3>1, <4>1, SMTT(40)
      <4> QED BY <2>6, <2>10, <3>2, <4>2 DEF Flow
    <3>3. CASE c.ssf = 1
      <4>1. 2 * (p.in + a.read + c.plain) + c.part + p.from_net + q.units <= 2 * q.encoded
        BY <3>3 DEF Within, Flow
      <4>2. 2 * (kept.in + a.read + kept.c.plain) + kept.c.part + kept.from_net + q.units
              <= 2 * q.encoded
        <5>1. kept.in + a.read + kept.c.plain = p.in + a.read + c.plain
          <6>1. kept.in = p.in + c.plain /\ kept.c.plain = 0
            BY <2>6, <2>8, <2>10
          <6> QED BY <2>2, <3>1, <6>1, SMTT(40)
        <5>2. kept.c.part = c.part /\ kept.from_net = p.from_net
          BY <2>6, <2>10
        <5> QED BY <4>1, <5>1, <5>2
      <4> QED BY <2>6, <2>10, <3>3, <4>2 DEF Flow
    <3> QED BY <2>2, <3>2, <3>3
  <2>15. PeerDone(kept, q) /\ Answered(kept)
    BY <2>6, <2>10 DEF Within, PeerDone, Answered
  <2>16. Within(kept, a, q)
    BY <1>1, <2>9, <2>11, <2>12, <2>13, <2>14, <2>15 DEF Within, SaslData3
  <2>17. /\ Within(next, a, q) /\ next.authed /\ next.in = in /\ next.server = p.server
         /\ next.out > 0 => next.need_update \/ a.phase = "broken"
    <3>1. CASE left > 0 \/ p.out > 0
      <4>1. next = Update(kept, ok)
        BY <3>1
      <4> HIDE DEF next
      <4> QED BY <2>10, <2>16, <4>1, UpdateKeeps DEF Beside
    <3>2. CASE ~(left > 0 \/ p.out > 0)
      <4>1. next = kept
        BY <3>2
      <4> QED BY <2>10, <2>16, <3>2, <4>1
    <3> QED BY <3>1, <3>2
  <2> HIDE DEF next
  <2>18. /\ Handled(Quiet(r), Told(a, r.signal), q)
         /\ r.in = in /\ r.server = p.server
         /\ Told(a, r.signal).phase = a.phase /\ Told(a, r.signal).approved = a.approved
         /\ Told(a, r.signal).read = a.read
    BY <2>1, <2>17, ProcessAuthed
  <2> QED BY <2>2, <2>3, <2>8, <2>18
<1> QED BY <1>3, <1>4

----------------------------------------------------------------------------
(* sasl_resultsReady() of an attempt.                                        *)

\* e is p with these actions to emit.
Enqueued(p, e, a, q, acts) ==
  /\ AtResult(e, a, q) /\ e.queue = acts
  /\ e.in = p.in /\ e.server = p.server /\ e.c = p.c

LEMMA EmptyConcat ==
  ASSUME NEW s \in Seq(Actions)
  PROVE  <<>> \o s = s
OBVIOUS

LEMMA EnqueueDoes ==
  ASSUME NEW p, NEW a, NEW q, AtResult(p, a, q), p.queue = <<>>, NEW acts \in Seq(Actions)
  PROVE  Enqueued(p, Enqueue(p, acts), a, q, acts)
<1> DEFINE e == Enqueue(p, acts)
<1>1. SaslData(p)
  BY DEF AtResult, SaslData3
<1>2. e = [p EXCEPT !.queue = acts]
  BY EmptyConcat DEF Enqueue
<1> HIDE DEF e
<1>3. SaslData(e)
  BY <1>1, <1>2, ZenonT(40) DEF SaslData
<1>4. /\ e.server = p.server /\ e.sendLast = p.sendLast /\ e.op = p.op /\ e.queue = acts
      /\ e.timer = p.timer /\ e.need_update = p.need_update /\ e.authed = p.authed
      /\ e.out = p.out /\ e.in = p.in /\ e.to_net = p.to_net /\ e.from_net = p.from_net
      /\ e.c = p.c /\ e.signal = p.signal
  BY <1>1, <1>2 DEF SaslData
<1>5. AtResult(e, a, q)
  BY <1>3, <1>4 DEF AtResult, SaslData3, Flow
<1>6. Enqueued(p, e, a, q, acts)
  BY <1>4, <1>5 DEF Enqueued
<1> QED BY <1>6 DEF e

LEMMA FirstDoes ==
  ASSUME NEW p, NEW a, NEW q, AtResult(p, a, q)
  PROVE  Enqueued(p, [p EXCEPT !.first = FALSE], a, q, p.queue)
<1> DEFINE e == [p EXCEPT !.first = FALSE]
<1>1. SaslData(p)
  BY DEF AtResult, SaslData3
<1>2. SaslData(e)
  BY <1>1, ZenonT(40) DEF SaslData
<1>3. /\ e.server = p.server /\ e.sendLast = p.sendLast /\ e.op = p.op /\ e.queue = p.queue
      /\ e.timer = p.timer /\ e.need_update = p.need_update /\ e.authed = p.authed
      /\ e.out = p.out /\ e.in = p.in /\ e.to_net = p.to_net /\ e.from_net = p.from_net
      /\ e.c = p.c /\ e.signal = p.signal
  BY <1>1 DEF SaslData
<1> HIDE DEF e
<1>4. AtResult(e, a, q)
  BY <1>2, <1>3 DEF AtResult, SaslData3, Flow
<1>5. Enqueued(p, e, a, q, p.queue)
  BY <1>3, <1>4 DEF Enqueued
<1> QED BY <1>5 DEF e

\* What the application learns of an attempt: whose turn it is, or how it ended.
Learns(p, a, q, r) ==
  /\ Handled(Quiet(r), Told(a, r.signal), q)
  /\ r.in = p.in /\ r.server = p.server
  /\ Told(a, r.signal).approved = a.approved /\ Told(a, r.signal).read = a.read
  /\ \/ Told(a, r.signal).phase \in {"first", "params", "check", "peer", "failed"}
     \/ Told(a, r.signal).phase = "authenticated" /\ (p.server => a.approved)

LEMMA LearnsBySignal ==
  ASSUME NEW p, NEW a, NEW q, AppData(a), a.phase = "working", NEW r,
         Handled(Quiet(r), Told(a, r.signal), q), r.in = p.in, r.server = p.server,
         \/ r.signal \in {"serverStarted", "needParams", "authCheck", "nextStep", "error", "clientStarted"}
         \/ r.signal = "authenticated" /\ (p.server => a.approved)
  PROVE  Learns(p, a, q, r)
<1> DEFINE s == r.signal
           b == Told(a, s)
<1>1. s \in Signals
  BY DEF Signals, Actions, Reads
<1>2. ToldMore(a, s, b)
  BY <1>1, ToldDoes
<1>3. b.approved = a.approved /\ b.read = a.read
  BY <1>2 DEF ToldMore
<1> HIDE DEF b
<1>4. \/ b.phase \in {"first", "params", "check", "peer", "failed"}
      \/ b.phase = "authenticated" /\ (p.server => a.approved)
  BY <1>2 DEF ToldMore, PhaseOf
<1> QED BY <1>3, <1>4 DEF Learns, b

LEMMA AttemptHandled ==
  ASSUME NEW p, NEW a, NEW q, AtResult(p, a, q), a.phase = "working", p.queue = <<>>,
         NEW op \in Attempts, NEW ok \in BOOLEAN,
         ~p.server => p.c.result # "AuthCheck",
         p.server /\ op = "Start" => p.c.step = 0 /\ p.c.result \in {"Success", "Error"},
         p.server /\ op # "Start" /\ p.c.result = "Success" => a.approved,
         NEW r, r = Handle(p, op, ok)
  PROVE  Learns(p, a, q, r)
<1>1. AppData(a) /\ p.c.result \in Results /\ p.server \in BOOLEAN /\ p.first \in BOOLEAN
      /\ p.sendLast \in BOOLEAN
  BY DEF AtResult, SaslData3, SaslData, Contexts
<1>2. op \notin {"none", "Update"}
  BY DEF Attempts, Steps
<1>3. /\ <<"nextStep", "authenticated">> \in Seq(Actions) /\ <<"authenticated">> \in Seq(Actions)
      /\ <<"clientStarted", "authenticated">> \in Seq(Actions) /\ <<"clientStarted">> \in Seq(Actions)
  BY DEF Actions
<1>4. ASSUME NEW s \in {"serverStarted", "needParams", "authCheck", "nextStep", "error"},
             r = Emit(p, s), ~(p.c.step = 1 /\ p.c.result = "Success"),
             p.server => /\ s = "serverStarted" => p.c.step = 0
                         /\ s # "needParams"
                         /\ p.c.result = "AuthCheck" => s = "authCheck"
      PROVE  Learns(p, a, q, r)
  <2>1. /\ Handled(Quiet(r), Told(a, r.signal), q)
        /\ r.signal = s /\ r.in = p.in /\ r.server = p.server
    BY <1>4, EmitHandled
  <2> QED BY <1>1, <2>1, LearnsBySignal
<1>5. ASSUME NEW e, NEW acts, Enqueued(p, e, a, q, acts), r = ProcessNextAction(e, ok),
             \/ /\ acts = <<"authenticated">> /\ p.c.result = "Success" /\ (p.server => a.approved)
             \/ /\ acts \in {<<"clientStarted", "authenticated">>, <<"nextStep", "authenticated">>}
                /\ p.c.result = "Success" /\ (p.server => a.approved)
             \/ acts = <<"clientStarted">> /\ p.c.result = "Continue"
      PROVE  Learns(p, a, q, r)
  <2>1. AtResult(e, a, q) /\ e.queue = acts /\ e.in = p.in /\ e.server = p.server /\ e.c = p.c
    BY <1>5 DEF Enqueued
  <2>2. CASE acts = <<"authenticated">> /\ p.c.result = "Success" /\ (p.server => a.approved)
    <3>1. Len(e.queue) = 1 /\ e.queue[1] = "authenticated"
      BY <2>1, <2>2
    <3>2. /\ Handled(Quiet(r), Told(a, r.signal), q)
          /\ r.signal = "authenticated" /\ r.in = e.in /\ r.server = e.server
      BY <1>5, <2>1, <2>2, <3>1, AuthenticatedHandled
    <3> QED BY <1>1, <2>1, <2>2, <3>2, LearnsBySignal
  <2>3. CASE /\ acts \in {<<"clientStarted", "authenticated">>, <<"nextStep", "authenticated">>}
             /\ p.c.result = "Success" /\ (p.server => a.approved)
    <3>1. /\ Len(e.queue) = 2 /\ e.queue[1] \in {"clientStarted", "nextStep"}
          /\ e.queue[2] = "authenticated"
      BY <2>1, <2>3
    <3>2. /\ Handled(Quiet(r), Told(a, r.signal), q)
          /\ r.signal \in {"clientStarted", "nextStep"} /\ r.in = e.in /\ r.server = e.server
      BY <1>5, <2>1, <2>3, <3>1, StepHandled
    <3> QED BY <1>1, <2>1, <3>2, LearnsBySignal
  <2>4. CASE acts = <<"clientStarted">> /\ p.c.result = "Continue"
    <3>1. Len(e.queue) = 1 /\ e.queue[1] = "clientStarted"
      BY <2>1, <2>4
    <3>2. /\ Handled(Quiet(r), Told(a, r.signal), q)
          /\ r.signal \in {"clientStarted", "nextStep"} /\ r.in = e.in /\ r.server = e.server
      BY <1>5, <2>1, <2>4, <3>1, StepHandled
    <3> QED BY <1>1, <2>1, <3>2, LearnsBySignal
  <2> QED BY <1>5, <2>2, <2>3, <2>4
<1>6. CASE p.server /\ op = "Start"
  <2>1. r = Emit(p, IF p.c.result = "Success" THEN "serverStarted" ELSE "error")
    BY <1>6 DEF Handle
  <2>2. CASE p.c.result = "Success"
    BY <1>4, <1>6, <2>1, <2>2
  <2>3. CASE p.c.result # "Success"
    BY <1>4, <1>6, <2>1, <2>3
  <2> QED BY <2>2, <2>3
<1>7. CASE p.server /\ op # "Start"
  <2>1. r = ServerResult(p, ok)
    BY <1>2, <1>7 DEF Handle
  <2>2. CASE p.c.result = "Continue"
    BY <1>4, <2>1, <2>2 DEF ServerResult
  <2>3. CASE p.c.result = "AuthCheck"
    BY <1>4, <2>1, <2>3 DEF ServerResult
  <2>4. CASE p.c.result = "Success"
    <3> DEFINE acts == IF p.sendLast THEN <<"nextStep", "authenticated">> ELSE <<"authenticated">>
    <3>1. r = ProcessNextAction(Enqueue(p, acts), ok)
      BY <2>1, <2>4 DEF ServerResult
    <3>2. acts \in {<<"nextStep", "authenticated">>, <<"authenticated">>} /\ acts \in Seq(Actions)
      BY <1>3
    <3> HIDE DEF acts
    <3>3. Enqueued(p, Enqueue(p, acts), a, q, acts)
      BY <3>2, EnqueueDoes
    <3> QED BY <1>5, <1>7, <2>4, <3>1, <3>2, <3>3
  <2>5. CASE p.c.result \in {"Params", "Error"}
    BY <1>4, <2>1, <2>5 DEF ServerResult
  <2> QED BY <1>1, <2>2, <2>3, <2>4, <2>5 DEF Results
<1>8. CASE ~p.server
  <2>1. r = ClientResult(p, ok)
    BY <1>2, <1>8 DEF Handle
  <2>2. CASE p.c.result \in {"Params", "Error"}
    BY <1>4, <1>8, <2>1, <2>2 DEF ClientResult
  <2> DEFINE f == [p EXCEPT !.first = FALSE]
  <2>3. Enqueued(p, f, a, q, p.queue)
    BY FirstDoes
  <2> HIDE DEF f
  <2>4. ASSUME NEW acts \in Seq(Actions)
        PROVE  Enqueued(p, Enqueue(f, acts), a, q, acts)
    <3>1. Enqueued(f, Enqueue(f, acts), a, q, acts)
      BY <2>3, EnqueueDoes DEF Enqueued
    <3> QED BY <2>3, <3>1 DEF Enqueued
  <2>5. CASE p.c.result = "Continue" /\ p.first
    <3>1. r = ProcessNextAction(Enqueue(f, <<"clientStarted">>), ok)
      BY <2>1, <2>5 DEF ClientResult, f
    <3> QED BY <1>3, <1>5, <2>4, <2>5, <3>1
  <2>6. CASE p.c.result = "Continue" /\ ~p.first
    BY <1>4, <1>8, <2>1, <2>6 DEF ClientResult
  <2>7. CASE p.c.result = "Success"
    <3> DEFINE acts == IF p.first THEN <<"clientStarted", "authenticated">>
                       ELSE <<"nextStep", "authenticated">>
    <3>1. r = ProcessNextAction(Enqueue(f, acts), ok)
      BY <2>1, <2>7 DEF ClientResult, f
    <3>2. /\ acts \in {<<"clientStarted", "authenticated">>, <<"nextStep", "authenticated">>}
          /\ acts \in Seq(Actions)
      BY <1>3
    <3> HIDE DEF acts
    <3> QED BY <1>5, <1>8, <2>4, <2>7, <3>1, <3>2
  <2> QED BY <1>1, <1>8, <2>2, <2>5, <2>6, <2>7 DEF Results
<1> QED BY <1>1, <1>6, <1>7, <1>8

----------------------------------------------------------------------------
(* The steps.  Each keeps the invariant, and is a step of Promised or none.  *)

Stays == UNCHANGED <<app.phase, d.server, app.approved, peer.encoded, d.in + app.read>>

Good == SaslIInv' /\ (Promised!SessionNext \/ Stays)

\* b is a for all that the invariant looks at.
Similar(a, b) ==
  /\ AppData(b) /\ b.phase = a.phase /\ b.approved = a.approved /\ b.read = a.read
  /\ b.toRead = a.toRead /\ b.toReadOutgoing = a.toReadOutgoing

LEMMA SimilarHandled ==
  ASSUME NEW p, NEW a, NEW b, NEW q, Similar(a, b)
  PROVE  /\ Within(p, a, q) => Within(p, b, q)
         /\ Pending(p, a) => Pending(p, b)
<1>1. Pending(p, a) => Pending(p, b)
  BY DEF Similar, Pending
<1>2. /\ PhaseAgrees(p, a) => PhaseAgrees(p, b)
      /\ QueueShape(p, a) => QueueShape(p, b)
      /\ Announced(p, a) => Announced(p, b)
  BY DEF Similar, PhaseAgrees, QueueShape, Announced
<1>3. /\ UserChecked(p, a) => UserChecked(p, b)
      /\ Flow(p, a, q) => Flow(p, b, q)
      /\ SaslData3(p, a, q) => SaslData3(p, b, q)
  BY DEF Similar, UserChecked, Flow, SaslData3
<1> QED BY <1>1, <1>2, <1>3 DEF Within

LEMMA CountedDoes ==
  ASSUME AppData(app), NEW ok \in BOOLEAN
  PROVE  Similar(app, Counted(ok))
<1> DEFINE n == IF ok THEN app.failures ELSE app.failures + 1
<1>1. n \in Nat
  BY DEF AppData
<1>2. Counted(ok) = [app EXCEPT !.failures = n]
  BY DEF Counted
<1> HIDE DEF n
<1>3. AppData(Counted(ok))
  BY <1>1, <1>2, ZenonT(40) DEF AppData
<1> QED BY <1>2, <1>3 DEF Similar, AppData

\* A result is taken up: the operation is over.
LEMMA TakenUp ==
  ASSUME NEW p, SaslData(p), p.c.posted > 0,
         NEW u, u = [p EXCEPT !.c.posted = @ - 1, !.op = "none"]
  PROVE  /\ SaslData(u)
         /\ u.server = p.server /\ u.op = "none" /\ u.queue = p.queue /\ u.timer = p.timer
         /\ u.need_update = p.need_update /\ u.authed = p.authed /\ u.out = p.out /\ u.in = p.in
         /\ u.to_net = p.to_net /\ u.from_net = p.from_net /\ u.signal = p.signal
         /\ u.c.server = p.c.server /\ u.c.step = p.c.step /\ u.c.ssf = p.c.ssf
         /\ u.c.ca_flag = p.c.ca_flag /\ u.c.ca_done = p.c.ca_done /\ u.c.ca_skip = p.c.ca_skip
         /\ u.c.result = p.c.result /\ u.c.plain = p.c.plain /\ u.c.part = p.c.part
<1> DEFINE c == [p.c EXCEPT !.posted = p.c.posted - 1]
<1>1. p.c \in Contexts /\ p.c.posted \in Nat
  BY DEF SaslData, Contexts
<1>2. p.c.posted - 1 \in Nat
  BY <1>1
<1>3. c \in Contexts
  BY <1>1, <1>2, ZenonT(40) DEF Contexts
<1>4. /\ c.server = p.c.server /\ c.step = p.c.step /\ c.ssf = p.c.ssf
      /\ c.ca_flag = p.c.ca_flag /\ c.ca_done = p.c.ca_done /\ c.ca_skip = p.c.ca_skip
      /\ c.result = p.c.result /\ c.plain = p.c.plain /\ c.part = p.c.part
  BY <1>1 DEF Contexts
<1>5. u = [p EXCEPT !.c = c, !.op = "none"]
  BY <1>1 DEF SaslData
<1> HIDE DEF c
<1>6. SaslData(u)
  BY <1>3, <1>5, ZenonT(40) DEF SaslData
<1> QED BY <1>4, <1>5, <1>6, ZenonT(60) DEF SaslData

LEMMA ResultsReadyGood ==
  ASSUME SaslIInv, NEW ok \in BOOLEAN, ResultsReady(ok)
  PROVE  Good
<1> DEFINE p == [d EXCEPT !.c.posted = @ - 1, !.op = "none"]
           a == Counted(ok)
           r == Handle(p, d.op, ok)
           b == Told(a, r.signal)
<1>1. /\ d.c.posted > 0
      /\ d' = Quiet(r) /\ app' = b /\ peer' = peer
  BY BecomesIs DEF ResultsReady
<1>2. Within(d, app, peer) /\ QueueTimed(d) /\ Pending(d, app)
  BY DEF SaslIInv
<1>3. SaslData(d) /\ AppData(app) /\ PeerData(peer)
  BY <1>2 DEF Within, SaslData3
<1>4. Similar(app, a)
  BY <1>3, CountedDoes
<1>5. Within(d, a, peer) /\ Pending(d, a)
  BY <1>2, <1>4, SimilarHandled
<1>6. /\ SaslData(p)
      /\ p.server = d.server /\ p.op = "none" /\ p.queue = d.queue /\ p.timer = d.timer
      /\ p.need_update = d.need_update /\ p.authed = d.authed /\ p.out = d.out /\ p.in = d.in
      /\ p.to_net = d.to_net /\ p.from_net = d.from_net /\ p.signal = d.signal
      /\ p.c.server = d.c.server /\ p.c.step = d.c.step /\ p.c.ssf = d.c.ssf
      /\ p.c.ca_flag = d.c.ca_flag /\ p.c.ca_done = d.c.ca_done /\ p.c.ca_skip = d.c.ca_skip
      /\ p.c.result = d.c.result /\ p.c.plain = d.c.plain /\ p.c.part = d.c.part
  BY <1>1, <1>3, TakenUp
<1>7. a.phase = app.phase /\ a.approved = app.approved /\ a.read = app.read /\ AppData(a)
  BY <1>4 DEF Similar
<1> HIDE DEF p, a
<1>8. CASE d.op \notin Attempts
  <2>1. PhaseAgrees(p, a) /\ QueueShape(p, a) /\ Announced(p, a)
    BY <1>5, <1>6, <1>8 DEF Within, PhaseAgrees, QueueShape, Announced, Attempts, Steps
  <2>2. UserChecked(p, a)
    BY <1>5, <1>6, <1>8 DEF Within, UserChecked, Attempts, Steps
  <2>3. Flow(p, a, peer) /\ PeerDone(p, peer) /\ Answered(p)
    BY <1>5, <1>6, <1>8 DEF Within, Flow, PeerDone, Answered
  <2>4. Within(p, a, peer)
    BY <1>3, <1>6, <1>7, <2>1, <2>2, <2>3 DEF Within, SaslData3
  <2>5. CASE d.op = "none"
    <3>1. r = p
      BY <2>5 DEF Handle
    <3>2. Quiet(r) = p /\ b = a
      BY <1>6, <1>7, <2>4, <3>1, QuietAlready, NothingTold DEF Within, PhaseAgrees
    <3>3. QueueTimed(p) /\ Pending(p, a)
      BY <1>2, <1>5, <1>6, <2>5 DEF QueueTimed, Pending
    <3> HIDE DEF r, b
    <3>4. d' = p /\ app' = a
      BY <1>1, <3>2
    <3>5. SaslIInv'
      BY <1>1, <2>4, <3>3, <3>4 DEF SaslIInv
    <3>6. Stays
      BY <1>1, <1>6, <1>7, <3>4 DEF Stays
    <3> QED BY <3>5, <3>6 DEF Good
  <2>6. CASE d.op = "Update"
    <3>1. r = UpdateResult(p, ok)
      BY <2>6 DEF Handle
    <3>2. p.authed /\ p.queue = <<>> /\ (p.out > 0 => p.need_update \/ a.phase = "broken")
      BY <1>5, <1>6, <2>6 DEF Within, PhaseAgrees, QueueShape, Pending
    <3> HIDE DEF r, b
    <3>3. /\ Handled(Quiet(r), Told(a, r.signal), peer)
          /\ r.server = p.server /\ Told(a, r.signal).approved = a.approved
          /\ Told(a, r.signal).read = a.read
          /\ \/ Told(a, r.signal).phase = "broken" /\ r.in = p.in
             \/ Told(a, r.signal).phase = a.phase /\ r.in \in Nat /\ r.in >= p.in
      BY <1>6, <2>4, <3>1, <3>2, UpdateHandled
    <3>4. Told(a, r.signal) = b
      BY DEF b
    <3>5. d'.in = r.in /\ d'.server = r.server
      BY <1>1, <3>3 DEF Handled, Within, SaslData3, SaslData, Quiet
    <3>6. SaslIInv'
      BY <1>1, <3>3, <3>4 DEF SaslIInv, Handled
    <3>7. r.in + a.read <= peer.encoded
      BY <1>1, <3>3, <3>4, <3>5, FlowBound DEF Handled, Within
    <3>8. app.phase \in {"authenticated", "broken"}
      BY <1>5, <1>6, <1>7, <3>2 DEF Within, PhaseAgrees
    <3>9. app.read \in Nat /\ d.in \in Nat /\ peer.encoded \in Nat
      BY <1>3 DEF SaslData, AppData, PeerData
    <3>10. /\ app'.read = app.read /\ app'.approved = app.approved /\ d'.server = d.server
           /\ \/ app'.phase = "broken" /\ d'.in = d.in
              \/ app'.phase = app.phase /\ d'.in \in Nat /\ d'.in >= d.in
           /\ d'.in + app.read <= peer.encoded
      BY <1>1, <1>6, <1>7, <3>3, <3>4, <3>5, <3>7
    <3>11. CASE app'.phase = "broken" /\ d'.in = d.in
      <4>1. CASE app.phase = "broken"
        BY <1>1, <3>6, <3>10, <3>11, <4>1 DEF Stays, Good
      <4>2. CASE app.phase = "authenticated"
        BY <1>1, <3>6, <3>10, <3>11, <4>2 DEF Good, Promised!SessionNext, Promised!FailSession
      <4> QED BY <3>6, <3>8, <4>1, <4>2 DEF Good
    <3>12. CASE app'.phase = app.phase /\ d'.in \in Nat /\ d'.in >= d.in
      <4>1. CASE d'.in = d.in
        BY <1>1, <3>6, <3>10, <3>12, <4>1 DEF Stays, Good
      <4>2. CASE d'.in > d.in
        <5>1. d'.in + app'.read \in d.in + app.read + 1 .. peer.encoded
          BY <3>9, <3>10, <3>12, <4>2
        <5> QED BY <1>1, <3>6, <3>8, <3>10, <3>12, <5>1
                DEF Good, Promised!SessionNext, Promised!Deliver
      <4> QED BY <3>9, <3>12, <4>1, <4>2
    <3> QED BY <3>10, <3>11, <3>12
  <2> QED BY <1>3, <1>8, <2>5, <2>6 DEF SaslData
<1>9. CASE d.op \in Attempts
  <2>1. a.phase = "working" /\ ~d.authed /\ ~d.need_update /\ d.queue = <<>> /\ d.signal = "none"
    BY <1>5, <1>9 DEF Within, PhaseAgrees, QueueShape, Attempts, Steps
  <2>2. p.in > 0 => a.toRead
    BY <1>5, <1>6, <2>1 DEF Within, Announced
  <2>3. p.to_net > 0 => a.toReadOutgoing
    BY <1>5, <1>6, <2>1 DEF Within, Announced
  <2>4. /\ p.c.server = p.server
        /\ p.server => /\ p.c.ca_skip => p.c.result = "AuthCheck"
                       /\ p.c.ca_done /\ ~p.c.ca_skip => a.approved
                       /\ p.c.step = 0 /\ p.c.ca_flag => p.c.ca_skip
                       /\ d.op = "Start" => p.c.step = 0 /\ p.c.result \in {"Success", "Error"}
                       /\ d.op # "Start" /\ p.c.result = "Success" => a.approved
        /\ ~p.server => p.c.result # "AuthCheck"
    BY <1>5, <1>6, <1>9 DEF Within, UserChecked, Attempts
  <2>5. Flow(p, a, peer)
    BY <1>5, <1>6 DEF Within, Flow
  <2>6. /\ peer.encoded > 0 => p.c.step = 1 /\ p.c.result = "Success"
        /\ peer.encoded = 0 => p.c.part = 0
    BY <1>5, <1>6, <2>1 DEF Within, PeerDone
  <2>7. AtResult(p, a, peer)
    BY <1>3, <1>6, <1>7, <2>1, <2>2, <2>3, <2>4, <2>5, <2>6 DEF AtResult, SaslData3
  <2>8. r = Handle(p, d.op, ok) /\ b = Told(a, r.signal)
    OBVIOUS
  <2> HIDE DEF r, b
  <2>9. Learns(p, a, peer, r)
    BY <1>6, <1>9, <2>1, <2>4, <2>7, <2>8, AttemptHandled
  <2>10. SaslIInv'
    BY <1>1, <2>8, <2>9 DEF Learns, Handled, SaslIInv
  <2>11. d'.in = r.in /\ d'.server = r.server
    BY <1>1, <2>9 DEF Learns, Handled, Within, SaslData3, SaslData, Quiet
  <2>12. /\ app.phase = "working" /\ d'.in = d.in /\ d'.server = d.server
         /\ app'.approved = app.approved /\ app'.read = app.read
         /\ \/ app'.phase \in {"first", "params", "check", "peer", "failed"}
            \/ app'.phase = "authenticated" /\ (d.server => app.approved)
    BY <1>1, <1>6, <1>7, <2>1, <2>8, <2>9, <2>11 DEF Learns
  <2>13. CASE app'.phase \in {"first", "params", "check", "peer"}
    BY <1>1, <2>10, <2>12, <2>13 DEF Good, Promised!SessionNext, Promised!Ask, Promised!Answers
  <2>14. CASE app'.phase = "failed"
    BY <1>1, <2>10, <2>12, <2>14 DEF Good, Promised!SessionNext, Promised!FailSession
  <2>15. CASE app'.phase = "authenticated" /\ (d.server => app.approved)
    BY <1>1, <2>10, <2>12, <2>15 DEF Good, Promised!SessionNext, Promised!Authenticate
  <2> QED BY <2>12, <2>13, <2>14, <2>15
<1> QED BY <1>8, <1>9

LEMMA DoNextActionGood ==
  ASSUME SaslIInv, NEW ok \in BOOLEAN, DoNextAction(ok)
  PROVE  Good
<1> DEFINE p == [d EXCEPT !.timer = FALSE]
           a == Counted(ok)
           r == ProcessNextAction(p, ok)
           b == Told(a, r.signal)
<1>1. d' = Quiet(r) /\ app' = b /\ peer' = peer
  BY BecomesIs DEF DoNextAction
<1>2. Within(d, app, peer) /\ QueueTimed(d) /\ Pending(d, app)
  BY DEF SaslIInv
<1>3. SaslData(d) /\ AppData(app) /\ PeerData(peer)
  BY <1>2 DEF Within, SaslData3
<1>4. Similar(app, a)
  BY <1>3, CountedDoes
<1>5. Within(d, a, peer) /\ Pending(d, a)
  BY <1>2, <1>4, SimilarHandled
<1>6. SaslData(p)
  BY <1>3, ZenonT(40) DEF SaslData
<1>7. /\ p.server = d.server /\ p.op = d.op /\ p.queue = d.queue
      /\ p.need_update = d.need_update /\ p.authed = d.authed /\ p.out = d.out /\ p.in = d.in
      /\ p.to_net = d.to_net /\ p.from_net = d.from_net /\ p.signal = d.signal /\ p.c = d.c
  BY <1>3 DEF SaslData
<1>8. a.phase = app.phase /\ a.approved = app.approved /\ a.read = app.read /\ AppData(a)
  BY <1>4 DEF Similar
<1>9. r = ProcessNextAction(p, ok) /\ b = Told(a, r.signal)
  OBVIOUS
<1> HIDE DEF p, a, r, b
<1>10. Within(p, a, peer)
  <2>1. PhaseAgrees(p, a) /\ QueueShape(p, a) /\ Announced(p, a)
    BY <1>5, <1>7 DEF Within, PhaseAgrees, QueueShape, Announced
  <2>2. UserChecked(p, a) /\ Flow(p, a, peer) /\ PeerDone(p, peer) /\ Answered(p)
    BY <1>5, <1>7 DEF Within, UserChecked, Flow, PeerDone, Answered
  <2> QED BY <1>3, <1>6, <1>8, <2>1, <2>2 DEF Within, SaslData3
<1>11. ASSUME Handled(Quiet(r), b, peer)
       PROVE  SaslIInv' /\ d'.in = r.in /\ d'.server = r.server
  <2>1. SaslIInv'
    BY <1>1, <1>11 DEF Handled, SaslIInv
  <2>2. d'.in = r.in /\ d'.server = r.server
    BY <1>1, <1>11 DEF Handled, Within, SaslData3, SaslData, Quiet
  <2> QED BY <2>1, <2>2
<1>12. CASE d.authed
  <2>1. p.authed /\ (p.out > 0 => p.need_update \/ a.phase = "broken")
    BY <1>5, <1>7, <1>12 DEF Pending
  <2>2. /\ Handled(Quiet(r), b, peer)
        /\ r.in = p.in /\ r.server = p.server
        /\ b.phase = a.phase /\ b.approved = a.approved /\ b.read = a.read
    BY <1>9, <1>10, <2>1, ProcessAuthed
  <2> QED BY <1>1, <1>7, <1>8, <1>11, <2>2 DEF Good, Stays
<1>13. CASE ~d.authed /\ d.queue = <<>>
  <2>1. r = p
    BY <1>7, <1>9, <1>10, <1>13 DEF ProcessNextAction, Within, PhaseAgrees
  <2>2. Quiet(r) = p /\ b = a
    BY <1>6, <1>8, <1>9, <1>10, <2>1, QuietAlready, NothingTold DEF Within, PhaseAgrees
  <2>3. QueueTimed(p) /\ Pending(p, a)
    BY <1>7, <1>10, <1>13 DEF QueueTimed, Pending, Within, PhaseAgrees
  <2>4. Handled(Quiet(r), b, peer)
    BY <1>10, <2>2, <2>3 DEF Handled
  <2> QED BY <1>1, <1>7, <1>8, <1>11, <2>1, <2>2, <2>4 DEF Good, Stays
<1>14. CASE ~d.authed /\ d.queue # <<>>
  <2>1. /\ Len(p.queue) = 1 /\ p.queue[1] = "authenticated" /\ p.op = "none"
        /\ a.phase = "peer" /\ p.c.result = "Success" /\ (p.server => a.approved)
    BY <1>7, <1>10, <1>14 DEF Within, QueueShape
  <2>2. p.signal = "none" /\ ~p.need_update /\ ~p.authed
    BY <1>7, <1>10, <1>14 DEF Within, PhaseAgrees
  <2>3. (p.in > 0 => a.toRead) /\ (p.to_net > 0 => a.toReadOutgoing)
    <3>1. \A i \in 1 .. Len(p.queue) : p.queue[i] = "authenticated"
      BY <2>1
    <3> QED BY <1>10, <3>1 DEF Within, Announced
  <2>4. AtResult(p, a, peer)
    BY <1>10, <2>1, <2>2, <2>3 DEF AtResult, Within, UserChecked, PeerDone
  <2>5. /\ Handled(Quiet(r), Told(a, r.signal), peer)
        /\ r.signal = "authenticated" /\ r.in = p.in /\ r.server = p.server
    BY <1>9, <2>1, <2>4, AuthenticatedHandled
  <2>6. ToldMore(a, "authenticated", b)
    BY <1>8, <1>9, <2>5, ToldDoes DEF Signals, Actions
  <2>7. b.phase = "authenticated" /\ b.approved = a.approved /\ b.read = a.read
    BY <2>6 DEF ToldMore, PhaseOf
  <2>8. /\ app.phase = "peer" /\ app'.phase = "authenticated" /\ (d.server => app.approved)
        /\ app'.approved = app.approved /\ app'.read = app.read
        /\ d'.in = d.in /\ d'.server = d.server /\ SaslIInv'
    BY <1>1, <1>7, <1>8, <1>9, <1>11, <2>1, <2>5, <2>7
  <2> QED BY <1>1, <2>8 DEF Good, Promised!SessionNext, Promised!Authenticate
<1> QED BY <1>12, <1>13, <1>14

\* write() and writeIncoming() add something and update.
LEMMA UpdateEnds ==
  ASSUME NEW p, NEW a, NEW q, Within(p, a, q), QueueTimed(p), NEW ok \in BOOLEAN,
         NEW u, u = Update(p, ok)
  PROVE  /\ Handled(u, a, q) /\ Quiet(u) = u /\ Told(a, u.signal) = a
         /\ u.in = p.in /\ u.server = p.server
<1>1. /\ Within(u, a, q) /\ Beside(p, u)
      /\ u.authed /\ u.out > 0 => u.need_update
      /\ u.need_update => u.queue # <<>> \/ u.op = "Update"
  BY UpdateKeeps
<1>2. QueueTimed(u)
  BY <1>1 DEF Beside, QueueTimed
<1>3. Pending(u, a)
  BY <1>1, <1>2 DEF Pending, QueueTimed
<1>4. u.signal = "none" /\ SaslData(u) /\ AppData(a)
  BY <1>1 DEF Within, PhaseAgrees, SaslData3
<1> QED BY <1>1, <1>2, <1>3, <1>4, QuietAlready, NothingTold DEF Handled, Beside

LEMMA WriteGood ==
  ASSUME SaslIInv, NEW ok \in BOOLEAN, Write(ok)
  PROVE  Good
<1> DEFINE n == d.out + 1
           l == AddPlain(d.layer, 1)
           p == [d EXCEPT !.out = @ + 1, !.layer = AddPlain(@, 1)]
           w == Counted(ok).written + 1
           a == [Counted(ok) EXCEPT !.written = @ + 1]
           u == Update(p, ok)
<1>1. d' = Quiet(u) /\ app' = Told(a, u.signal) /\ peer' = peer
  BY BecomesIs DEF Write
<1>2. Within(d, app, peer) /\ QueueTimed(d)
  BY DEF SaslIInv
<1>3. SaslData(d) /\ AppData(app) /\ PeerData(peer)
  BY <1>2 DEF Within, SaslData3
<1>4. Similar(app, Counted(ok))
  BY <1>3, CountedDoes
<1>5. AppData(a) /\ Similar(app, a)
  <2>1. AppData(Counted(ok))
    BY <1>4 DEF Similar
  <2>2. w \in Nat
    BY <2>1 DEF AppData
  <2>3. a = [Counted(ok) EXCEPT !.written = w]
    OBVIOUS
  <2> HIDE DEF w, a
  <2>4. AppData(a)
    BY <2>1, <2>2, <2>3, ZenonT(40) DEF AppData
  <2>5. /\ a.phase = Counted(ok).phase /\ a.approved = Counted(ok).approved
        /\ a.read = Counted(ok).read /\ a.toRead = Counted(ok).toRead
        /\ a.toReadOutgoing = Counted(ok).toReadOutgoing
    BY <2>1, <2>3 DEF AppData
  <2> QED BY <1>4, <2>4, <2>5 DEF Similar
<1>6. Within(d, a, peer)
  BY <1>2, <1>5, SimilarHandled
<1>7. /\ SaslData(p)
      /\ p.server = d.server /\ p.op = d.op /\ p.queue = d.queue /\ p.timer = d.timer
      /\ p.need_update = d.need_update /\ p.authed = d.authed /\ p.in = d.in
      /\ p.to_net = d.to_net /\ p.from_net = d.from_net /\ p.signal = d.signal /\ p.c = d.c
  <2>1. n \in Nat
    BY <1>3 DEF SaslData
  <2>2. p = [d EXCEPT !.out = n, !.layer = l]
    OBVIOUS
  <2> HIDE DEF n, l, p
  <2>3. SaslData(p)
    <3>1. p.layer = l
      BY <1>3, <2>2 DEF SaslData
    <3> QED BY <1>3, <2>1, <2>2, <3>1, ZenonT(40) DEF SaslData
  <2> QED BY <1>3, <2>2, <2>3 DEF SaslData
<1>8. u = Update(p, ok)
  OBVIOUS
<1> HIDE DEF p, a, u
<1>9. Within(p, a, peer) /\ QueueTimed(p)
  <2>1. PhaseAgrees(p, a) /\ QueueShape(p, a) /\ Announced(p, a) /\ QueueTimed(p)
    BY <1>2, <1>6, <1>7 DEF Within, PhaseAgrees, QueueShape, Announced, QueueTimed
  <2>2. UserChecked(p, a) /\ Flow(p, a, peer) /\ PeerDone(p, peer) /\ Answered(p)
    BY <1>6, <1>7 DEF Within, UserChecked, Flow, PeerDone, Answered
  <2> QED BY <1>3, <1>5, <1>7, <2>1, <2>2 DEF Within, SaslData3
<1>10. /\ Handled(u, a, peer) /\ Quiet(u) = u /\ Told(a, u.signal) = a
       /\ u.in = p.in /\ u.server = p.server
  BY <1>8, <1>9, UpdateEnds
<1>11. SaslIInv'
  BY <1>1, <1>10 DEF Handled, SaslIInv
<1>12. Stays
  BY <1>1, <1>5, <1>7, <1>10 DEF Stays, Similar
<1> QED BY <1>11, <1>12 DEF Good

LEMMA WriteIncomingGood ==
  ASSUME SaslIInv, NEW ok \in BOOLEAN, NEW n \in 1 .. 2, WriteIncoming(n, ok)
  PROVE  Good
<1> DEFINE m == d.from_net + n
           p == [d EXCEPT !.from_net = @ + n]
           a == Counted(ok)
           q == [peer EXCEPT !.units = @ - n]
           u == Update(p, ok)
<1>1. d' = Quiet(u) /\ app' = Told(a, u.signal) /\ peer' = q /\ n \in 1 .. peer.units
  BY BecomesIs DEF WriteIncoming
<1>2. Within(d, app, peer) /\ QueueTimed(d)
  BY DEF SaslIInv
<1>3. SaslData(d) /\ AppData(app) /\ PeerData(peer)
  BY <1>2 DEF Within, SaslData3
<1>4. Similar(app, a)
  BY <1>3, CountedDoes
<1>5. Within(d, a, peer)
  BY <1>2, <1>4, SimilarHandled
<1>6. PeerData(q) /\ q.encoded = peer.encoded /\ q.units = peer.units - n
  BY <1>1, <1>3 DEF PeerData
<1>7. /\ SaslData(p)
      /\ p.server = d.server /\ p.op = d.op /\ p.queue = d.queue /\ p.timer = d.timer
      /\ p.need_update = d.need_update /\ p.authed = d.authed /\ p.in = d.in
      /\ p.to_net = d.to_net /\ p.from_net = m /\ p.signal = d.signal /\ p.c = d.c
  <2>1. m \in Nat
    BY <1>3 DEF SaslData
  <2>2. p = [d EXCEPT !.from_net = m]
    OBVIOUS
  <2> HIDE DEF m, p
  <2>3. SaslData(p)
    BY <1>3, <2>1, <2>2, ZenonT(40) DEF SaslData
  <2> QED BY <1>3, <2>2, <2>3 DEF SaslData
<1>8. u = Update(p, ok)
  OBVIOUS
<1> HIDE DEF p, a, q, u
<1>9. Within(p, a, q) /\ QueueTimed(p)
  <2>1. PhaseAgrees(p, a) /\ QueueShape(p, a) /\ Announced(p, a) /\ QueueTimed(p)
    BY <1>2, <1>5, <1>7 DEF Within, PhaseAgrees, QueueShape, Announced, QueueTimed
  <2>2. UserChecked(p, a) /\ Answered(p)
    BY <1>5, <1>7 DEF Within, UserChecked, Answered
  <2>3. PeerDone(p, q)
    BY <1>5, <1>6, <1>7 DEF Within, PeerDone
  <2>4. Flow(p, a, q)
    <3>1. p.from_net + q.units = d.from_net + peer.units
      <4>1. d.from_net \in Nat /\ peer.units \in Nat /\ n \in Nat
        BY <1>3 DEF SaslData, PeerData
      <4>2. p.from_net = d.from_net + n /\ q.units = peer.units - n
        BY <1>6, <1>7
      <4> QED BY <4>1, <4>2
    <3>2. d.in \in Nat /\ a.read \in Nat /\ d.c.plain \in Nat /\ d.from_net \in Nat
          /\ d.c.part \in Nat /\ peer.units \in Nat /\ p.from_net \in Nat /\ q.units \in Nat
      <4>1. d.c \in Contexts /\ d.in \in Nat /\ d.from_net \in Nat /\ p.from_net \in Nat
        BY <1>3, <1>7 DEF SaslData
      <4>2. a.read \in Nat /\ peer.units \in Nat /\ q.units \in Nat
        BY <1>3, <1>4, <1>6 DEF Similar, AppData, PeerData
      <4>3. d.c.plain \in Nat /\ d.c.part \in 0 .. 1
        BY <4>1 DEF Contexts
      <4> QED BY <4>1, <4>2, <4>3
    <3>3. CASE d.c.ssf = 0
      <4>1. d.in + a.read + d.c.plain + d.from_net + peer.units <= peer.encoded
        BY <1>5, <3>3 DEF Within, Flow
      <4>2. d.in + a.read + d.c.plain + p.from_net + q.units
              = d.in + a.read + d.c.plain + d.from_net + peer.units
        BY <3>1, <3>2
      <4> QED BY <1>6, <1>7, <3>3, <4>1, <4>2 DEF Flow
    <3>4. CASE d.c.ssf = 1
      <4>1. 2 * (d.in + a.read + d.c.plain) + d.c.part + d.from_net + peer.units <= 2 * peer.encoded
        BY <1>5, <3>4 DEF Within, Flow
      <4>2. 2 * (d.in + a.read + d.c.plain) + d.c.part + p.from_net + q.units
              = 2 * (d.in + a.read + d.c.plain) + d.c.part + d.from_net + peer.units
        BY <3>1, <3>2
      <4> QED BY <1>6, <1>7, <3>4, <4>1, <4>2 DEF Flow
    <3> QED BY <1>7, <3>3, <3>4 DEF Flow
  <2> QED BY <1>4, <1>6, <1>7, <2>1, <2>2, <2>3, <2>4 DEF Within, SaslData3, Similar
<1>10. /\ Handled(u, a, q) /\ Quiet(u) = u /\ Told(a, u.signal) = a
       /\ u.in = p.in /\ u.server = p.server
  BY <1>8, <1>9, UpdateEnds
<1>11. SaslIInv'
  BY <1>1, <1>10 DEF Handled, SaslIInv
<1>12. Stays
  BY <1>1, <1>4, <1>6, <1>7, <1>10 DEF Stays, Similar
<1> QED BY <1>11, <1>12 DEF Good

----------------------------------------------------------------------------
(* What the application does otherwise.                                      *)

LEMMA ResetDoes ==
  ASSUME NEW p, SaslData(p), p.signal = "none", NEW z, z = ResetSessionAndData(p)
  PROVE  /\ SaslData(z)
         /\ ~z.server /\ z.op = "none" /\ z.queue = <<>> /\ ~z.timer /\ ~z.need_update /\ ~z.authed
         /\ z.out = 0 /\ z.in = 0 /\ z.to_net = 0 /\ z.from_net = 0 /\ z.signal = "none"
         /\ z.set = p.set /\ z.c = SaslReset(p.c)
<1>1. SaslReset(p.c) \in Contexts
  <2>1. p.c \in Contexts /\ 0 \in 0 .. 1 /\ 0 \in Nat
    BY DEF SaslData
  <2> QED BY <2>1, ZenonT(40) DEF SaslReset, NewSaslContext, Contexts, Fields, Results
<1>2. z.layer = NoLayer
  BY DEF ResetSessionAndData, SaslData
<1>3. <<>> \in Seq(Actions) /\ 0 \in Nat /\ 0 \in Int
  OBVIOUS
<1>4. SaslData(z)
  BY <1>1, <1>2, <1>3, ZenonT(40) DEF SaslData, ResetSessionAndData
<1> QED BY <1>4, ZenonT(60) DEF SaslData, ResetSessionAndData

\* The context before anything has been said.
LEMMA FreshContext ==
  ASSUME NEW c \in Contexts
  PROVE  LET u == SaslReset(c)
         IN  /\ ~u.server /\ u.step = 0 /\ ~u.ca_flag /\ ~u.ca_done /\ ~u.ca_skip
             /\ u.plain = 0 /\ u.part = 0 /\ u.ssf = 0
BY DEF SaslReset, NewSaslContext, Contexts

\* The application of a session that begins or is reset has seen nothing of it.
Unseen(a) ==
  AppData(a) /\ a.phase \in {"idle", "working"} /\ ~a.approved /\ a.read = 0

LEMMA BeginsGood ==
  ASSUME NEW p, SaslData(p), Unseen(app'), d' = p, peer' = NewPeer,
         p.signal = "none", p.op \in {"none", "Start"}, p.op = "Start" => app'.phase = "working",
         p.queue = <<>>, ~p.need_update, ~p.authed, p.out = 0, p.in = 0, p.to_net = 0, p.from_net = 0,
         p.c.server = p.server, p.c.plain = 0, p.c.part = 0,
         ~p.server => p.c.result # "AuthCheck" \/ p.op = "none",
         p.server => /\ p.c.step = 0 /\ p.c.result \in {"Success", "Error"}
                     /\ ~p.c.ca_skip /\ ~p.c.ca_done /\ ~p.c.ca_flag,
         p.c.step = 1 => p.op = "Start",
         Answered(p)
  PROVE  Good
<1>1. AppData(app') /\ PeerData(NewPeer) /\ NewPeer.encoded = 0 /\ NewPeer.units = 0
  BY DEF Unseen, PeerData, NewPeer
<1>2. PhaseAgrees(p, app') /\ QueueShape(p, app') /\ QueueTimed(p) /\ Pending(p, app') /\ Announced(p, app')
  <2>1. PhaseAgrees(p, app')
    BY DEF Unseen, PhaseAgrees, Attempts, Steps
  <2> QED BY <2>1 DEF QueueShape, QueueTimed, Pending, Announced
<1>3. UserChecked(p, app')
  BY DEF Unseen, UserChecked, Attempts, Steps
<1>4. Flow(p, app', NewPeer)
  BY <1>1 DEF Unseen, Flow
<1>5. PeerDone(p, NewPeer)
  BY <1>1 DEF PeerDone, Attempts
<1>6. SaslIInv'
  BY <1>1, <1>2, <1>3, <1>4, <1>5 DEF SaslIInv, Within, SaslData3
<1>7. d'.in + app'.read = 0 /\ peer'.encoded = 0 /\ ~app'.approved /\ app'.approved \in BOOLEAN
      /\ d'.server \in BOOLEAN
  BY <1>1 DEF Unseen, AppData, SaslData
<1>8. CASE app'.phase = "working"
  BY <1>6, <1>7, <1>8 DEF Good, Promised!SessionNext, Promised!Begin
<1>9. CASE app'.phase = "idle"
  BY <1>6, <1>7, <1>9 DEF Good, Promised!SessionNext, Promised!Reset
<1> QED BY <1>8, <1>9 DEF Unseen

LEMMA UnseenIs ==
  ASSUME AppData(app), NEW a,
         \/ /\ app.sessions + 1 \in Nat
            /\ \E n \in Nat : a = [NewApp EXCEPT !.sessions = app.sessions + 1, !.phase = "working",
                                               !.steps = 1, !.failures = n]
         \/ a = [NewApp EXCEPT !.sessions = app.sessions, !.failures = app.failures]
  PROVE  Unseen(a)
<1>1. app.sessions \in Nat /\ app.failures \in Nat /\ 0 \in Nat /\ 1 \in Nat
  BY DEF AppData
<1>2. ASSUME NEW n \in Nat, NEW m \in Nat,
             a = [NewApp EXCEPT !.sessions = m, !.phase = "working", !.steps = 1, !.failures = n]
      PROVE  Unseen(a) /\ a.phase = "working"
  <2>1. AppData(a)
    BY <1>1, <1>2, ZenonT(40) DEF AppData, NewApp, Phases
  <2> QED BY <1>2, <2>1 DEF Unseen, NewApp
<1>3. ASSUME a = [NewApp EXCEPT !.sessions = app.sessions, !.failures = app.failures]
      PROVE  Unseen(a)
  <2>1. AppData(a)
    BY <1>1, <1>3, ZenonT(40) DEF AppData, NewApp, Phases
  <2> QED BY <1>3, <2>1 DEF Unseen, NewApp
<1> QED BY <1>2, <1>3

LEMMA InvariantData ==
  ASSUME SaslIInv
  PROVE  SaslData(d) /\ AppData(app) /\ PeerData(peer) /\ d.c \in Contexts /\ d.signal = "none"
BY DEF SaslIInv, Within, SaslData3, SaslData, PhaseAgrees

LEMMA BeginsUnseen ==
  ASSUME SaslIInv, NEW p, NEW ok \in BOOLEAN, Begins(p, ok)
  PROVE  d' = p /\ Unseen(app') /\ app'.phase = "working" /\ peer' = NewPeer
<1> DEFINE n == Counted(ok).failures
           m == app.sessions + 1
<1>1. AppData(app) /\ AppData(Counted(ok))
  BY InvariantData, CountedDoes DEF Similar
<1>2. n \in Nat /\ m \in Nat
  BY <1>1 DEF AppData
<1>3. /\ d' = p /\ peer' = NewPeer
      /\ app' = [NewApp EXCEPT !.sessions = m, !.phase = "working", !.steps = 1, !.failures = n]
  BY DEF Begins
<1>4. Unseen(app')
  BY <1>1, <1>2, <1>3, UnseenIs
<1>5. app'.phase = "working"
  BY <1>3 DEF NewApp
<1> QED BY <1>3, <1>4, <1>5

LEMMA StartClientGood ==
  ASSUME SaslIInv, NEW says \in ClientSays, StartClientSession(says)
  PROVE  Good
<1> DEFINE z  == ResetSessionAndData(d)
           c0 == [z.c EXCEPT !.have = z.set]
           c1 == [SaslReset(c0) EXCEPT !.have = c0.have, !.need = c0.need]
           c2 == ClientTryAgain(c1, says)
           c3 == [c2 EXCEPT !.posted = @ + 1]
           p  == [z EXCEPT !.op = "Start", !.first = TRUE, !.c = c3]
<1>1. SaslData(d) /\ d.c \in Contexts /\ d.signal = "none"
  BY InvariantData
<1>2. says \in Says
  BY DEF ClientSays, LibrarySays, Says
<1>3. (says.r # "error") \in BOOLEAN
  OBVIOUS
<1>4. Begins(p, says.r # "error")
  BY DEF StartClientSession, StartClient, DoResultsReady
<1>5. /\ SaslData(z)
      /\ ~z.server /\ z.op = "none" /\ z.queue = <<>> /\ ~z.timer /\ ~z.need_update /\ ~z.authed
      /\ z.out = 0 /\ z.in = 0 /\ z.to_net = 0 /\ z.from_net = 0 /\ z.signal = "none"
      /\ z.set = d.set /\ z.c = SaslReset(d.c)
  BY <1>1, ResetDoes
<1> HIDE DEF z
<1>6. c0 \in Contexts
  <2>1. z.c \in Contexts /\ z.set \in SUBSET Fields
    BY <1>5 DEF SaslData
  <2> QED BY <2>1, ZenonT(40) DEF Contexts
<1> HIDE DEF c0
<1>7. c1 \in Contexts /\ ~c1.server /\ c1.plain = 0 /\ c1.part = 0
  <2>1. c0.have \in SUBSET Fields /\ c0.need \in SUBSET Fields
    BY <1>6 DEF Contexts
  <2>2. c1 = ResetWith(c0, c0.have, c0.need)
    BY DEF ResetWith
  <2> HIDE DEF c1
  <2> QED BY <1>6, <2>1, <2>2, SaslResetDoes
<1> HIDE DEF c1
<1>8. /\ c2 \in Contexts /\ ~c2.server /\ c2.plain = 0 /\ c2.part = 0
      /\ c2.result \in {"Params", "Error", "Success", "Continue"}
  BY <1>2, <1>7, ClientTryAgainDoes
<1> HIDE DEF c2
<1>9. /\ c3 \in Contexts /\ ~c3.server /\ c3.plain = 0 /\ c3.part = 0 /\ c3.posted > 0
      /\ c3.result \in {"Params", "Error", "Success", "Continue"}
  BY <1>8 DEF Contexts
<1> HIDE DEF c3
<1>10. SaslData(p)
  BY <1>5, <1>9, ZenonT(40) DEF SaslData, Attempts
<1>11. /\ ~p.server /\ p.op = "Start" /\ p.queue = <<>> /\ ~p.need_update /\ ~p.authed
       /\ p.out = 0 /\ p.in = 0 /\ p.to_net = 0 /\ p.from_net = 0 /\ p.signal = "none" /\ p.c = c3
  BY <1>5 DEF SaslData
<1> HIDE DEF p
<1>12. d' = p /\ Unseen(app') /\ app'.phase = "working" /\ peer' = NewPeer
  BY <1>3, <1>4, BeginsUnseen
<1>13. Answered(p)
  BY <1>9, <1>11 DEF Answered
<1>14. /\ p.c.server = p.server /\ p.c.plain = 0 /\ p.c.part = 0 /\ p.c.result # "AuthCheck"
  BY <1>9, <1>10, <1>11 DEF Contexts, SaslData
<1> QED BY <1>10, <1>11, <1>12, <1>13, <1>14, BeginsGood

LEMMA StartServerGood ==
  ASSUME SaslIInv, NEW sendLast \in BOOLEAN, NEW how \in ServerStarts,
         StartServerSession(sendLast, how)
  PROVE  Good
<1> DEFINE z  == ResetSessionAndData(d)
           c0 == [z.c EXCEPT !.have = z.set]
           c1 == ResetWith(c0, c0.have, c0.need)
           x  == IF how = "ok" THEN "Success" ELSE "Error"
           c2 == [c1 EXCEPT !.server = TRUE, !.result = x]
           c3 == IF how = "mute" THEN c2 ELSE [c2 EXCEPT !.posted = @ + 1]
           p  == [z EXCEPT !.op = "Start", !.first = TRUE, !.server = TRUE, !.sendLast = sendLast,
                           !.c = c3]
<1>1. SaslData(d) /\ d.c \in Contexts /\ d.signal = "none"
  BY InvariantData
<1>2. (how = "ok") \in BOOLEAN
  OBVIOUS
<1>3. StartServer(c0, how) = c3
  BY DEF StartServer, DoResultsReady, ResetWith
<1>4. Begins(p, how = "ok")
  BY <1>3 DEF StartServerSession
<1>5. /\ SaslData(z)
      /\ ~z.server /\ z.op = "none" /\ z.queue = <<>> /\ ~z.timer /\ ~z.need_update /\ ~z.authed
      /\ z.out = 0 /\ z.in = 0 /\ z.to_net = 0 /\ z.from_net = 0 /\ z.signal = "none"
      /\ z.set = d.set /\ z.c = SaslReset(d.c)
  BY <1>1, ResetDoes
<1> HIDE DEF z
<1>6. c0 \in Contexts
  <2>1. z.c \in Contexts /\ z.set \in SUBSET Fields
    BY <1>5 DEF SaslData
  <2> QED BY <2>1, ZenonT(40) DEF Contexts
<1> HIDE DEF c0
<1>7. /\ c1 \in Contexts /\ c1.plain = 0 /\ c1.part = 0 /\ c1.step = 0
      /\ ~c1.ca_flag /\ ~c1.ca_done /\ ~c1.ca_skip
  <2>1. c0.have \in SUBSET Fields /\ c0.need \in SUBSET Fields
    BY <1>6 DEF Contexts
  <2> QED BY <1>6, <2>1, SaslResetDoes
<1>8. x \in {"Success", "Error"} /\ x \in Results
  BY DEF Results
<1> HIDE DEF c1, x
<1>9. /\ c2 \in Contexts /\ c2.server = TRUE /\ c2.plain = 0 /\ c2.part = 0 /\ c2.step = 0
      /\ ~c2.ca_flag /\ ~c2.ca_done /\ ~c2.ca_skip /\ c2.result = x
  <2>1. c2 \in Contexts
    BY <1>7, <1>8, ZenonT(40) DEF Contexts
  <2> QED BY <1>7, <2>1 DEF Contexts
<1> HIDE DEF c2
<1>10. /\ c3 \in Contexts /\ c3.server = TRUE /\ c3.plain = 0 /\ c3.part = 0 /\ c3.step = 0
       /\ ~c3.ca_flag /\ ~c3.ca_done /\ ~c3.ca_skip /\ c3.result = x
       /\ how # "mute" => c3.posted > 0
  <2>1. CASE how = "mute"
    BY <1>9, <2>1
  <2>2. CASE how # "mute"
    <3>1. c3 = [c2 EXCEPT !.posted = @ + 1]
      BY <2>2
    <3> HIDE DEF c3
    <3> QED BY <1>9, <3>1 DEF Contexts
  <2> QED BY <2>1, <2>2
<1> HIDE DEF c3
<1>11. SaslData(p)
  BY <1>5, <1>10, ZenonT(40) DEF SaslData, Attempts
<1>12. /\ p.server = TRUE /\ p.op = "Start" /\ p.queue = <<>> /\ ~p.need_update /\ ~p.authed
       /\ p.out = 0 /\ p.in = 0 /\ p.to_net = 0 /\ p.from_net = 0 /\ p.signal = "none" /\ p.c = c3
  BY <1>5 DEF SaslData
<1> HIDE DEF p
<1>13. d' = p /\ Unseen(app') /\ app'.phase = "working" /\ peer' = NewPeer
  BY <1>2, <1>4, BeginsUnseen
<1>14. Answered(p)
  BY <1>10, <1>12 DEF Answered
<1>15. /\ p.c.server = p.server /\ p.c.plain = 0 /\ p.c.part = 0 /\ p.c.step = 0
       /\ p.c.result \in {"Success", "Error"} /\ ~p.c.ca_skip /\ ~p.c.ca_done /\ ~p.c.ca_flag
  BY <1>8, <1>10, <1>12
<1> QED BY <1>11, <1>12, <1>13, <1>14, <1>15, BeginsGood

LEMMA ResetByAppGood ==
  ASSUME SaslIInv, ResetByApp
  PROVE  Good
<1> DEFINE z == ResetSessionAndData(d)
           p == [z EXCEPT !.set = {}]
<1>1. SaslData(d) /\ AppData(app) /\ d.c \in Contexts /\ d.signal = "none"
  BY InvariantData
<1>2. /\ d' = p /\ peer' = NewPeer
      /\ app' = [NewApp EXCEPT !.sessions = app.sessions, !.failures = app.failures]
  BY DEF ResetByApp, ResetAll
<1>3. Unseen(app')
  BY <1>1, <1>2, UnseenIs
<1>4. /\ SaslData(z)
      /\ ~z.server /\ z.op = "none" /\ z.queue = <<>> /\ ~z.timer /\ ~z.need_update /\ ~z.authed
      /\ z.out = 0 /\ z.in = 0 /\ z.to_net = 0 /\ z.from_net = 0 /\ z.signal = "none"
      /\ z.c = SaslReset(d.c)
  BY <1>1, ResetDoes
<1> HIDE DEF z
<1>5. SaslData(p)
  BY <1>4, ZenonT(40) DEF SaslData
<1>6. /\ ~p.server /\ p.op = "none" /\ p.queue = <<>> /\ ~p.need_update /\ ~p.authed
      /\ p.out = 0 /\ p.in = 0 /\ p.to_net = 0 /\ p.from_net = 0 /\ p.signal = "none"
      /\ p.c = SaslReset(d.c)
  BY <1>4 DEF SaslData
<1> HIDE DEF p
<1>7. /\ ~p.c.server /\ p.c.plain = 0 /\ p.c.part = 0 /\ p.c.step = 0
  BY <1>1, <1>6, FreshContext
<1>8. p.c.server = p.server /\ Answered(p)
  BY <1>5, <1>6, <1>7 DEF Answered, SaslData, Contexts
<1> QED BY <1>2, <1>3, <1>5, <1>6, <1>7, <1>8, BeginsGood

\* A field that is set: no part of the invariant speaks of set or have.
LEMMA SetFieldGood ==
  ASSUME SaslIInv, NEW f \in Interactive, SetField(f)
  PROVE  Good
<1> DEFINE h == d.set \cup {f}
           g == d.c.have \cup {f}
           c == [d.c EXCEPT !.have = g]
           p == [d EXCEPT !.set = h, !.c = c]
<1>1. SaslData(d) /\ AppData(app) /\ PeerData(peer) /\ d.c \in Contexts
  BY InvariantData
<1>2. d' = p /\ app' = app /\ peer' = peer
  BY <1>1 DEF SetField, SaslData
<1>3. h \in SUBSET Fields /\ g \in SUBSET Fields
  BY <1>1, SaslAssumption, SMTT(40) DEF SaslData, Contexts
<1> HIDE DEF h, g
<1>4. c \in Contexts
  BY <1>1, <1>3, ZenonT(40) DEF Contexts
<1>5. /\ c.server = d.c.server /\ c.step = d.c.step /\ c.ssf = d.c.ssf /\ c.posted = d.c.posted
      /\ c.ca_flag = d.c.ca_flag /\ c.ca_done = d.c.ca_done /\ c.ca_skip = d.c.ca_skip
      /\ c.result = d.c.result /\ c.plain = d.c.plain /\ c.part = d.c.part
  BY <1>1 DEF Contexts
<1> HIDE DEF c
<1>6. SaslData(p)
  BY <1>1, <1>3, <1>4, ZenonT(40) DEF SaslData
<1>7. /\ p.server = d.server /\ p.op = d.op /\ p.queue = d.queue /\ p.timer = d.timer
      /\ p.need_update = d.need_update /\ p.authed = d.authed /\ p.out = d.out /\ p.in = d.in
      /\ p.to_net = d.to_net /\ p.from_net = d.from_net /\ p.signal = d.signal /\ p.c = c
  BY <1>1 DEF SaslData
<1> HIDE DEF p
<1>8. /\ PhaseAgrees(p, app) /\ QueueShape(p, app) /\ Announced(p, app) /\ QueueTimed(p)
      /\ Pending(p, app)
  BY <1>5, <1>7 DEF SaslIInv, Within, PhaseAgrees, QueueShape, Announced, QueueTimed, Pending
<1>9. UserChecked(p, app) /\ Answered(p)
  BY <1>5, <1>7 DEF SaslIInv, Within, UserChecked, Answered
<1>10. Flow(p, app, peer) /\ PeerDone(p, peer)
  BY <1>5, <1>7 DEF SaslIInv, Within, Flow, PeerDone
<1>11. SaslIInv'
  BY <1>1, <1>2, <1>6, <1>8, <1>9, <1>10 DEF SaslIInv, Within, SaslData3
<1>12. Stays
  BY <1>2, <1>7 DEF Stays
<1> QED BY <1>11, <1>12 DEF Good

\* saslContext::tryAgain(), for either side, and when a server asks, or has asked, for its user
\* to be checked.
LEMMA TryAgainDoes ==
  ASSUME NEW c \in Contexts, NEW says \in Says,
         c.server => /\ says.r = "ok" => says.checks \/ c.ca_flag
                     /\ c.step = 0 /\ c.ca_flag => c.ca_skip
  PROVE  LET u == TryAgain(c, says)
         IN  /\ u \in Contexts /\ u.posted > 0
             /\ u.server = c.server /\ u.plain = c.plain /\ u.part = c.part
             /\ ~c.server => u.result # "AuthCheck"
             /\ c.server => /\ u.ca_skip => u.result = "AuthCheck"
                            /\ u.step = 0 /\ u.ca_flag => u.ca_skip
                            /\ u.result = "Success" => c.ca_skip \/ c.ca_done
                            /\ u.ca_done /\ ~u.ca_skip => c.ca_done
<1> DEFINE w == IF c.server THEN ServerTryAgain(c, says) ELSE ClientTryAgain(c, says)
           u == [w EXCEPT !.posted = @ + 1]
<1>1. TryAgain(c, says) = u
  BY DEF TryAgain, DoResultsReady
<1>2. /\ w \in Contexts
      /\ w.server = c.server /\ w.plain = c.plain /\ w.part = c.part
      /\ ~c.server => w.result # "AuthCheck"
      /\ c.server => /\ w.ca_skip => w.result = "AuthCheck"
                     /\ w.step = 0 /\ w.ca_flag => w.ca_skip
                     /\ w.result = "Success" => c.ca_skip \/ c.ca_done
                     /\ w.ca_done /\ ~w.ca_skip => c.ca_done
  <2>1. CASE c.server
    <3>1. w = ServerTryAgain(c, says)
      BY <2>1
    <3> HIDE DEF w
    <3>2. /\ w \in Contexts
          /\ w.server = c.server /\ w.plain = c.plain /\ w.part = c.part /\ w.posted = c.posted
          /\ w.ca_skip => w.result = "AuthCheck"
          /\ w.step = 0 /\ w.ca_flag => w.ca_skip
          /\ w.result = "Success" => c.ca_skip \/ c.ca_done
          /\ w.ca_done /\ ~w.ca_skip => c.ca_done
      <4>1. (says.r = "ok" => says.checks \/ c.ca_flag) /\ (c.step = 0 /\ c.ca_flag => c.ca_skip)
        BY <2>1
      <4> QED BY <3>1, <4>1, ServerTryAgainDoes
    <3> QED BY <2>1, <3>2
  <2>2. CASE ~c.server
    <3>1. w = ClientTryAgain(c, says)
      BY <2>2
    <3> HIDE DEF w
    <3> QED BY <2>2, <3>1, ClientTryAgainDoes
  <2> QED BY <2>1, <2>2
<1> HIDE DEF w
<1>3. /\ u \in Contexts /\ u.posted > 0
      /\ u.server = w.server /\ u.plain = w.plain /\ u.part = w.part /\ u.result = w.result
      /\ u.ca_skip = w.ca_skip /\ u.ca_done = w.ca_done /\ u.ca_flag = w.ca_flag /\ u.step = w.step
  BY <1>2 DEF Contexts
<1> HIDE DEF u
<1> QED BY <1>1, <1>2, <1>3

LEMMA NothingLeft ==
  ASSUME NEW i \in Nat, NEW j \in Nat, NEW k \in Nat, NEW l \in Nat, NEW m \in Nat,
         i + j + k + l + m <= 0 \/ 2 * (i + j + k) + 0 + l + m <= 2 * 0
  PROVE  i = 0 /\ j = 0 /\ k = 0 /\ l = 0 /\ m = 0
OBVIOUS

LEMMA PutAnswerGood ==
  ASSUME SaslIInv, NEW phases, NEW op \in Steps, NEW says \in Says,
         PutAnswer(phases, op, says), app.phase \in {"first", "params", "check", "peer"},
         d.server => (says.r = "ok" => says.checks \/ d.c.ca_flag),
         app.phase = "peer" => d.c.result = "Continue"
  PROVE  Good
<1> DEFINE c == TryAgain(d.c, says)
           p == [d EXCEPT !.op = op, !.c = c]
           n == Counted(says.r # "error")
           x == IF n.steps < MaxSteps THEN n.steps + 1 ELSE n.steps
           y == n.approved \/ app.phase = "check"
           b == [n EXCEPT !.phase = "working", !.steps = x, !.approved = y]
<1>1. SaslData(d) /\ AppData(app) /\ PeerData(peer) /\ d.c \in Contexts /\ d.signal = "none"
  BY InvariantData
<1>2. ~d.authed /\ d.op = "none" /\ ~d.need_update
  BY <1>1 DEF SaslIInv, Within, PhaseAgrees, SaslData
<1>3. d.queue = <<>>
  BY <1>2 DEF SaslIInv, Within, QueueShape
<1>4. peer.encoded = 0 /\ d.c.part = 0
  <2>1. ~(peer.encoded > 0)
    BY <1>2, <1>3 DEF SaslIInv, Within, PeerDone, Attempts, Steps
  <2>2. peer.encoded = 0
    BY <1>1, <2>1 DEF PeerData
  <2> QED BY <2>2 DEF SaslIInv, Within, PeerDone
<1>5. d.in = 0 /\ app.read = 0 /\ d.c.plain = 0 /\ d.from_net = 0 /\ peer.units = 0
  <2>1. /\ d.in \in Nat /\ app.read \in Nat /\ d.c.plain \in Nat /\ d.from_net \in Nat
        /\ peer.units \in Nat /\ d.c.ssf \in 0 .. 1
    <3>1. d.in \in Nat /\ d.from_net \in Nat
      BY <1>1 DEF SaslData
    <3>2. app.read \in Nat /\ peer.units \in Nat
      BY <1>1 DEF AppData, PeerData
    <3>3. d.c.plain \in Nat /\ d.c.ssf \in 0 .. 1
      BY <1>1 DEF Contexts
    <3> QED BY <3>1, <3>2, <3>3
  <2> DEFINE i == d.in
             j == app.read
             k == d.c.plain
             l == d.from_net
             m == peer.units
  <2>2. i + j + k + l + m <= 0 \/ 2 * (i + j + k) + 0 + l + m <= 2 * 0
    BY <1>4, <2>1 DEF SaslIInv, Within, Flow
  <2>3. i \in Nat /\ j \in Nat /\ k \in Nat /\ l \in Nat /\ m \in Nat
    BY <2>1
  <2> HIDE DEF i, j, k, l, m
  <2>4. i = 0 /\ j = 0 /\ k = 0 /\ l = 0 /\ m = 0
    BY <2>2, <2>3, NothingLeft
  <2> QED BY <2>4 DEF i, j, k, l, m
<1>6. d.c.server = d.server /\ (d.server => (d.c.step = 0 /\ d.c.ca_flag => d.c.ca_skip))
  BY DEF SaslIInv, Within, UserChecked
<1>7. /\ c \in Contexts /\ c.posted > 0
      /\ c.server = d.c.server /\ c.plain = d.c.plain /\ c.part = d.c.part
      /\ ~d.c.server => c.result # "AuthCheck"
      /\ d.c.server => /\ c.ca_skip => c.result = "AuthCheck"
                       /\ c.step = 0 /\ c.ca_flag => c.ca_skip
                       /\ c.result = "Success" => d.c.ca_skip \/ d.c.ca_done
                       /\ c.ca_done /\ ~c.ca_skip => d.c.ca_done
  BY <1>1, <1>6, TryAgainDoes
<1> HIDE DEF c
<1>8. SaslData(p)
  BY <1>1, <1>7, ZenonT(40) DEF SaslData, Attempts
<1>9. /\ p.server = d.server /\ p.op = op /\ p.queue = <<>> /\ ~p.need_update /\ ~p.authed
      /\ p.in = 0 /\ p.to_net = d.to_net /\ p.from_net = 0 /\ p.signal = "none" /\ p.c = c
  BY <1>1, <1>2, <1>3, <1>5 DEF SaslData
<1>10. d' = p /\ peer' = peer
  BY <1>2 DEF PutAnswer, c, p
<1> HIDE DEF p
<1>11. Similar(app, n)
  <2>1. (says.r # "error") \in BOOLEAN
    OBVIOUS
  <2> QED BY <1>1, <2>1, CountedDoes
<1>12. AppData(n) /\ n.steps \in Nat /\ n.approved \in BOOLEAN
  BY <1>11 DEF Similar, AppData
<1>24. app' = b
  <2>1. app' = [n EXCEPT !.phase = "working",
                         !.steps = IF @ < MaxSteps THEN @ + 1 ELSE @,
                         !.approved = @ \/ app.phase = "check"]
    BY DEF PutAnswer
  <2> HIDE DEF n
  <2> QED BY <1>12, <2>1 DEF AppData
<1> HIDE DEF n
<1>13. x \in Nat /\ y \in BOOLEAN
  <2>1. CASE n.steps < MaxSteps
    BY <1>12, <2>1
  <2>2. CASE ~(n.steps < MaxSteps)
    BY <1>12, <2>2
  <2> QED BY <2>1, <2>2
<1>14. y = (app.approved \/ app.phase = "check")
  BY <1>11 DEF Similar
<1> HIDE DEF x, y
<1>15. AppData(b)
  BY <1>12, <1>13, ZenonT(40) DEF AppData, Phases
<1>16. /\ b.phase = "working" /\ b.approved = y /\ b.read = 0 /\ b.toRead = app.toRead
       /\ b.toReadOutgoing = app.toReadOutgoing
  <2>1. /\ b.phase = "working" /\ b.approved = y /\ b.read = n.read /\ b.toRead = n.toRead
        /\ b.toReadOutgoing = n.toReadOutgoing
    BY <1>12 DEF AppData
  <2> HIDE DEF b
  <2> QED BY <1>5, <1>11, <2>1 DEF Similar
<1> HIDE DEF b
<1>17. PhaseAgrees(p, b) /\ QueueShape(p, b) /\ QueueTimed(p) /\ Pending(p, b) /\ Answered(p)
  BY <1>7, <1>9, <1>16 DEF PhaseAgrees, QueueShape, QueueTimed, Pending, Answered, Steps
<1>18. Announced(p, b)
  <2>1. d.to_net > 0 => app.toReadOutgoing
    BY <1>3 DEF SaslIInv, Within, Announced
  <2> QED BY <1>9, <1>16, <2>1 DEF Announced
<1>19. UserChecked(p, b)
  <2>1. d.server => /\ d.c.ca_skip => app.phase = "check"
                    /\ d.c.ca_done /\ ~d.c.ca_skip => app.approved
    BY <1>2 DEF SaslIInv, Within, UserChecked, Steps
  <2>2. d.server => (d.c.ca_skip \/ d.c.ca_done => y)
    BY <1>14, <2>1
  <2> QED BY <1>6, <1>7, <1>9, <1>16, <2>2 DEF UserChecked, Steps
<1>20. Flow(p, b, peer)
  BY <1>4, <1>5, <1>7, <1>9, <1>16 DEF Flow
<1>21. PeerDone(p, peer)
  BY <1>4, <1>7, <1>9 DEF PeerDone, Attempts
<1>22. SaslIInv'
  BY <1>1, <1>8, <1>10, <1>24, <1>15, <1>17, <1>18, <1>19, <1>20, <1>21 DEF SaslIInv, Within, SaslData3
<1>23. /\ app'.phase = "working" /\ app'.approved = (app.approved \/ app.phase = "check")
       /\ d'.server = d.server /\ peer' = peer /\ d'.in + app'.read = d.in + app.read
  BY <1>5, <1>9, <1>10, <1>24, <1>14, <1>16
<1> QED BY <1>22, <1>23 DEF Good, Promised!SessionNext, Promised!Answer, Promised!Answers

LEMMA AnswersGood ==
  ASSUME SaslIInv, Answers
  PROVE  Good
<1>1. /\ \A says \in ServerSays : says \in Says /\ (says.r = "ok" => says.checks \/ d.c.ca_flag)
      /\ \A says \in ClientSays : says \in Says
  BY DEF ServerSays, ClientSays, LibrarySays, Says
<1>2. /\ app.phase = "params" => ~d.server
      /\ {"ServerFirstStep", "TryAgain", "NextStep"} \subseteq Steps
  BY DEF SaslIInv, Within, UserChecked, Steps
<1>3. ASSUME NEW says \in ServerSays, PutServerFirstStep(says)
      PROVE  Good
  <2>1. PutAnswer({"first"}, "ServerFirstStep", says) /\ app.phase = "first"
    BY <1>3 DEF PutServerFirstStep, PutAnswer
  <2> QED BY <1>1, <1>2, <2>1, PutAnswerGood
<1>4. ASSUME NEW says \in ServerSays, ContinueAfterAuthCheck(says)
      PROVE  Good
  <2>1. PutAnswer({"check"}, "TryAgain", says) /\ app.phase = "check"
    BY <1>4 DEF ContinueAfterAuthCheck, PutAnswer
  <2> QED BY <1>1, <1>2, <2>1, PutAnswerGood
<1>5. ASSUME NEW says \in ClientSays, ContinueAfterParams(says)
      PROVE  Good
  <2>1. PutAnswer({"params"}, "TryAgain", says) /\ app.phase = "params"
    BY <1>5 DEF ContinueAfterParams, PutAnswer
  <2> QED BY <1>1, <1>2, <2>1, PutAnswerGood
<1>6. ASSUME NEW says \in (IF d.server THEN ServerSays ELSE ClientSays), PutStep(says)
      PROVE  Good
  <2>1. PutAnswer({"peer"}, "NextStep", says) /\ app.phase = "peer" /\ d.c.result = "Continue"
    BY <1>6 DEF PutStep, PutAnswer
  <2>2. says \in Says /\ (d.server => (says.r = "ok" => says.checks \/ d.c.ca_flag))
    BY <1>1, <1>6
  <2> QED BY <1>2, <2>1, <2>2, PutAnswerGood
<1> QED BY <1>3, <1>4, <1>5, <1>6 DEF Answers

LEMMA ReadGood ==
  ASSUME SaslIInv, Read
  PROVE  Good
<1> DEFINE p == [d EXCEPT !.in = 0]
           n == app.read + d.in
           b == [app EXCEPT !.toRead = FALSE, !.read = n]
<1>1. SaslData(d) /\ AppData(app) /\ PeerData(peer)
  BY InvariantData
<1>2. d' = p /\ app' = b /\ peer' = peer
  BY <1>1 DEF Read, AppData
<1>3. SaslData(p)
  <2>1. 0 \in Nat
    OBVIOUS
  <2> QED BY <1>1, <2>1, ZenonT(40) DEF SaslData
<1>4. /\ p.server = d.server /\ p.op = d.op /\ p.queue = d.queue /\ p.timer = d.timer
      /\ p.need_update = d.need_update /\ p.authed = d.authed /\ p.out = d.out /\ p.in = 0
      /\ p.to_net = d.to_net /\ p.from_net = d.from_net /\ p.signal = d.signal /\ p.c = d.c
  BY <1>1 DEF SaslData
<1> HIDE DEF p
<1>5. d.in \in Nat /\ app.read \in Nat /\ n \in Nat /\ n = d.in + app.read
  BY <1>1 DEF SaslData, AppData
<1> HIDE DEF n
<1>6. AppData(b)
  BY <1>1, <1>5, ZenonT(40) DEF AppData
<1>7. /\ b.phase = app.phase /\ b.approved = app.approved /\ b.read = n
      /\ b.toReadOutgoing = app.toReadOutgoing
  BY <1>1 DEF AppData
<1> HIDE DEF b
<1>8. PhaseAgrees(p, b) /\ QueueShape(p, b) /\ QueueTimed(p) /\ Pending(p, b) /\ Answered(p)
  BY <1>4, <1>7 DEF SaslIInv, Within, PhaseAgrees, QueueShape, QueueTimed, Pending, Answered
<1>9. Announced(p, b)
  BY <1>4, <1>7 DEF SaslIInv, Within, Announced
<1>10. UserChecked(p, b) /\ PeerDone(p, peer)
  BY <1>4, <1>7 DEF SaslIInv, Within, UserChecked, PeerDone
<1>11. p.in + b.read = d.in + app.read
  BY <1>4, <1>5, <1>7
<1>12. Flow(p, b, peer)
  BY <1>4, <1>11 DEF SaslIInv, Within, Flow
<1>13. SaslIInv'
  BY <1>1, <1>2, <1>3, <1>6, <1>8, <1>9, <1>10, <1>12 DEF SaslIInv, Within, SaslData3
<1>14. Stays
  BY <1>2, <1>4, <1>7, <1>11 DEF Stays
<1> QED BY <1>13, <1>14 DEF Good

LEMMA ReadOutgoingGood ==
  ASSUME SaslIInv, ReadOutgoing
  PROVE  Good
<1> DEFINE l == SpecifyEncoded(d.layer, d.to_net, d.to_net_encoded)
           p == [d EXCEPT !.to_net = 0, !.to_net_encoded = 0, !.layer = l]
           n == app.unsent + d.to_net
           b == [app EXCEPT !.toReadOutgoing = FALSE, !.unsent = n]
<1>1. SaslData(d) /\ AppData(app) /\ PeerData(peer)
  BY InvariantData
<1>2. d' = p /\ app' = b /\ peer' = peer
  BY <1>1 DEF ReadOutgoing, AppData, SaslData
<1> HIDE DEF l
<1>3. SaslData(p)
  <2>1. 0 \in Nat /\ 0 \in Int
    OBVIOUS
  <2>2. p.layer = l
    BY <1>1 DEF SaslData
  <2> QED BY <1>1, <2>1, <2>2, ZenonT(40) DEF SaslData
<1>4. /\ p.server = d.server /\ p.op = d.op /\ p.queue = d.queue /\ p.timer = d.timer
      /\ p.need_update = d.need_update /\ p.authed = d.authed /\ p.out = d.out /\ p.in = d.in
      /\ p.to_net = 0 /\ p.from_net = d.from_net /\ p.signal = d.signal /\ p.c = d.c
  BY <1>1 DEF SaslData
<1> HIDE DEF p
<1>5. n \in Nat
  BY <1>1 DEF SaslData, AppData
<1> HIDE DEF n
<1>6. AppData(b)
  BY <1>1, <1>5, ZenonT(40) DEF AppData
<1>7. /\ b.phase = app.phase /\ b.approved = app.approved /\ b.read = app.read
      /\ b.toRead = app.toRead
  BY <1>1 DEF AppData
<1> HIDE DEF b
<1>8. PhaseAgrees(p, b) /\ QueueShape(p, b) /\ QueueTimed(p) /\ Pending(p, b) /\ Answered(p)
  BY <1>4, <1>7 DEF SaslIInv, Within, PhaseAgrees, QueueShape, QueueTimed, Pending, Answered
<1>9. Announced(p, b) /\ Flow(p, b, peer)
  BY <1>4, <1>7 DEF SaslIInv, Within, Announced, Flow
<1>10. UserChecked(p, b) /\ PeerDone(p, peer)
  BY <1>4, <1>7 DEF SaslIInv, Within, UserChecked, PeerDone
<1>11. SaslIInv'
  BY <1>1, <1>2, <1>3, <1>6, <1>8, <1>9, <1>10 DEF SaslIInv, Within, SaslData3
<1>12. Stays
  BY <1>2, <1>4, <1>7 DEF Stays
<1> QED BY <1>11, <1>12 DEF Good

LEMMA SocketWroteGood ==
  ASSUME SaslIInv, SocketWrote
  PROVE  Good
<1> DEFINE l == Finished(d.layer, app.unsent).layer
           p == [d EXCEPT !.layer = l]
           b == [app EXCEPT !.unsent = 0]
<1>1. SaslData(d) /\ AppData(app) /\ PeerData(peer)
  BY InvariantData
<1>2. d' = p /\ app' = b /\ peer' = peer
  BY DEF SocketWrote
<1> HIDE DEF l
<1>3. SaslData(p)
  <2>1. p.layer = l
    BY <1>1 DEF SaslData
  <2> QED BY <1>1, <2>1, ZenonT(40) DEF SaslData
<1>4. /\ p.server = d.server /\ p.op = d.op /\ p.queue = d.queue /\ p.timer = d.timer
      /\ p.need_update = d.need_update /\ p.authed = d.authed /\ p.out = d.out /\ p.in = d.in
      /\ p.to_net = d.to_net /\ p.from_net = d.from_net /\ p.signal = d.signal /\ p.c = d.c
  BY <1>1 DEF SaslData
<1> HIDE DEF p
<1>5. Similar(app, b)
  <2>1. 0 \in Nat
    OBVIOUS
  <2>2. AppData(b)
    BY <1>1, <2>1, ZenonT(40) DEF AppData
  <2> QED BY <1>1, <2>2 DEF Similar, AppData
<1>6. Within(p, app, peer) /\ QueueTimed(p) /\ Pending(p, app)
  <2>1. PhaseAgrees(p, app) /\ QueueShape(p, app) /\ QueueTimed(p) /\ Pending(p, app)
    BY <1>4 DEF SaslIInv, Within, PhaseAgrees, QueueShape, QueueTimed, Pending
  <2>2. Announced(p, app) /\ Flow(p, app, peer) /\ UserChecked(p, app) /\ PeerDone(p, peer)
        /\ Answered(p)
    BY <1>4 DEF SaslIInv, Within, Announced, Flow, UserChecked, PeerDone, Answered
  <2> QED BY <1>1, <1>3, <2>1, <2>2 DEF Within, SaslData3
<1>7. SaslIInv'
  BY <1>2, <1>5, <1>6, SimilarHandled DEF SaslIInv
<1>8. Stays
  BY <1>2, <1>4, <1>5 DEF Stays, Similar
<1> QED BY <1>7, <1>8 DEF Good

LEMMA PeerEncodesGood ==
  ASSUME SaslIInv, PeerEncodes
  PROVE  Good
<1> DEFINE x == IF d.c.ssf = 0 THEN 1 ELSE 2
           n == peer.encoded + 1
           m == peer.units + x
           q == [encoded |-> n, units |-> m]
<1>1. SaslData(d) /\ AppData(app) /\ PeerData(peer) /\ d.c \in Contexts
  BY InvariantData
<1>2. /\ d' = d /\ app' = app /\ peer' = q
      /\ d.c.step = 1 /\ d.c.result = "Success"
  BY DEF PeerEncodes
<1>3. /\ peer.encoded \in Nat /\ peer.units \in Nat /\ d.in \in Nat /\ d.from_net \in Nat
      /\ app.read \in Nat /\ d.c.plain \in Nat /\ d.c.part \in 0 .. 1 /\ d.c.ssf \in 0 .. 1
  <2>1. d.in \in Nat /\ d.from_net \in Nat
    BY <1>1 DEF SaslData
  <2>2. app.read \in Nat /\ peer.units \in Nat /\ peer.encoded \in Nat
    BY <1>1 DEF AppData, PeerData
  <2>3. d.c.plain \in Nat /\ d.c.ssf \in 0 .. 1 /\ d.c.part \in 0 .. 1
    BY <1>1 DEF Contexts
  <2> QED BY <2>1, <2>2, <2>3
<1>4. n \in Nat /\ m \in Nat /\ n > 0
  BY <1>3
<1> HIDE DEF x, n, m
<1>5. PeerData(q) /\ q.encoded = n /\ q.units = m
  BY <1>4 DEF PeerData
<1> HIDE DEF q
<1>6. PeerDone(d, q)
  BY <1>2, <1>4, <1>5 DEF SaslIInv, Within, PeerDone
<1>7. Flow(d, app, q)
  <2>1. CASE d.c.ssf = 0
    <3>1. d.in + app.read + d.c.plain + d.from_net + peer.units <= peer.encoded
      BY <2>1 DEF SaslIInv, Within, Flow
    <3>2. m = peer.units + 1 /\ n = peer.encoded + 1
      BY <2>1 DEF m, n, x
    <3>3. d.in + app.read + d.c.plain + d.from_net + m <= n
      BY <1>3, <3>1, <3>2
    <3> QED BY <1>5, <2>1, <3>3 DEF Flow
  <2>2. CASE d.c.ssf = 1
    <3>1. 2 * (d.in + app.read + d.c.plain) + d.c.part + d.from_net + peer.units <= 2 * peer.encoded
      BY <2>2 DEF SaslIInv, Within, Flow
    <3>2. m = peer.units + 2 /\ n = peer.encoded + 1
      BY <2>2 DEF m, n, x
    <3>3. 2 * (d.in + app.read + d.c.plain) + d.c.part + d.from_net + m <= 2 * n
      BY <1>3, <3>1, <3>2
    <3> QED BY <1>5, <2>2, <3>3 DEF Flow
  <2> QED BY <1>3, <2>1, <2>2
<1>8. SaslIInv'
  BY <1>1, <1>2, <1>5, <1>6, <1>7 DEF SaslIInv, Within, SaslData3
<1>9. /\ app'.phase = app.phase /\ d'.server = d.server /\ app'.approved = app.approved
      /\ peer'.encoded = peer.encoded + 1 /\ d'.in + app'.read = d.in + app.read
  BY <1>2, <1>5 DEF n
<1> QED BY <1>8, <1>9 DEF Good, Promised!SessionNext, Promised!PeerEncodes

LEMMA SaslNextGood ==
  ASSUME SaslIInv, SaslNext
  PROVE  Good
<1>1. ASSUME NEW ok \in BOOLEAN, ResultsReady(ok)
      PROVE  Good
  BY <1>1, ResultsReadyGood
<1>2. ASSUME NEW ok \in BOOLEAN, DoNextAction(ok)
      PROVE  Good
  BY <1>2, DoNextActionGood
<1>3. ASSUME NEW ok \in BOOLEAN, Write(ok)
      PROVE  Good
  BY <1>3, WriteGood
<1>4. ASSUME NEW says \in ClientSays, StartClientSession(says)
      PROVE  Good
  BY <1>4, StartClientGood
<1>5. ASSUME NEW sendLast \in BOOLEAN, NEW how \in ServerStarts, StartServerSession(sendLast, how)
      PROVE  Good
  BY <1>5, StartServerGood
<1>6. ASSUME NEW f \in Interactive, SetField(f)
      PROVE  Good
  BY <1>6, SetFieldGood
<1>7. ASSUME NEW ok \in BOOLEAN, NEW n \in 1 .. 2, WriteIncoming(n, ok)
      PROVE  Good
  BY <1>7, WriteIncomingGood
<1> QED BY <1>1, <1>2, <1>3, <1>4, <1>5, <1>6, <1>7, ResetByAppGood, AnswersGood, ReadGood,
           ReadOutgoingGood, SocketWroteGood, PeerEncodesGood DEF SaslNext

LEMMA SaslInitGood ==
  ASSUME SaslInit
  PROVE  SaslIInv /\ Promised!SessionInit
<1> DEFINE c == NewSaslContext
<1>1. 0 \in 0 .. 1 /\ 0 \in Nat /\ 0 \in Int /\ <<>> \in Seq(Actions)
  OBVIOUS
<1>2. c \in Contexts
  BY <1>1, ZenonT(40) DEF NewSaslContext, Contexts, Results
<1>3. ~c.server /\ c.step = 0 /\ c.plain = 0 /\ c.part = 0 /\ c.ssf = 0 /\ c.server = FALSE
  BY DEF NewSaslContext
<1> HIDE DEF c
<1>4. SaslData(d)
  BY <1>1, <1>2, ZenonT(40) DEF SaslInit, SaslData, c, Attempts, Signals
<1>5. /\ d.server = FALSE /\ d.op = "none" /\ d.queue = <<>> /\ ~d.timer /\ ~d.need_update
      /\ d.authed = FALSE /\ d.out = 0 /\ d.in = 0 /\ d.to_net = 0 /\ d.from_net = 0
      /\ d.signal = "none" /\ d.c = c
  BY DEF SaslInit, c
<1>6. /\ AppData(app) /\ app.phase = "idle" /\ app.approved = FALSE /\ app.read = 0
      /\ PeerData(peer) /\ peer.encoded = 0 /\ peer.units = 0
  <2>1. AppData(app)
    BY <1>1, ZenonT(40) DEF SaslInit, NewApp, AppData, Phases
  <2> QED BY <1>1, <2>1 DEF SaslInit, NewApp, NewPeer, PeerData
<1>7. PhaseAgrees(d, app) /\ QueueShape(d, app) /\ QueueTimed(d) /\ Pending(d, app) /\ Announced(d, app)
  BY <1>5, <1>6 DEF PhaseAgrees, QueueShape, QueueTimed, Pending, Announced, Attempts, Steps
<1>8. UserChecked(d, app) /\ Flow(d, app, peer) /\ PeerDone(d, peer) /\ Answered(d)
  <2>1. Flow(d, app, peer)
    BY <1>3, <1>5, <1>6 DEF Flow
  <2>2. UserChecked(d, app)
    BY <1>3, <1>5, <1>6 DEF UserChecked, Attempts, Steps
  <2> QED BY <1>3, <1>5, <1>6, <2>1, <2>2 DEF PeerDone, Answered
<1> QED BY <1>4, <1>5, <1>6, <1>7, <1>8 DEF SaslIInv, Within, SaslData3, Promised!SessionInit

\* SaslIInv holds always.
LEMMA SaslInvariant == SaslSpec => []SaslIInv
<1>1. SaslInit => SaslIInv
  BY SaslInitGood
<1>2. SaslIInv /\ [SaslNext]_saslVars => SaslIInv'
  <2>1. SaslIInv /\ SaslNext => SaslIInv'
    BY SaslNextGood DEF Good
  <2>2. SaslIInv /\ UNCHANGED saslVars => SaslIInv'
    BY DEF SaslIInv, saslVars
  <2> QED BY <2>1, <2>2
<1> QED BY <1>1, <1>2, PTL DEF SaslSpec

\* Whatever the library says and however sessions are restarted: if the start of a
\* server always posts a result, every session is told how its operation went, what
\* waits to be encoded or announced has an event that will do it, and no answer of
\* the application comes when an operation is there to have it dropped.
THEOREM SessionsConsistent ==
  ASSUME "mute" \notin ServerStarts
  PROVE  SaslSpec => []SaslConsistent
<1>1. SaslIInv => SaslConsistent
  <2> SUFFICES ASSUME SaslIInv PROVE SaslConsistent
    OBVIOUS
  <2>1. SaslData(d) /\ AppData(app) /\ PeerData(peer) /\ d.c \in Contexts
    BY InvariantData
  <2>2. SaslTypeOK
    <3>1. /\ {d.server, d.sendLast, d.timer, d.need_update, d.first, d.authed} \subseteq BOOLEAN
          /\ d.op \in {"none", "Start", "ServerFirstStep", "NextStep", "TryAgain", "Update"}
          /\ d.set \subseteq Fields
          /\ d.out \in Nat /\ d.in \in Nat /\ d.to_net \in Nat /\ d.from_net \in Nat
      BY <2>1 DEF SaslData, Attempts, Steps
    <3>2. d.c.have \subseteq Fields /\ d.c.posted \in Nat /\ d.c.result \in Results
      BY <2>1 DEF Contexts
    <3>3. app.read \in Nat /\ peer.units \in Nat
      BY <2>1 DEF AppData, PeerData
    <3> QED BY <3>1, <3>2, <3>3 DEF SaslTypeOK, Results
  <2>3. /\ d.op # "none" => d.c.posted > 0
        /\ app.phase \in {"first", "params", "check", "peer"} => d.op = "none"
    BY <2>1 DEF SaslIInv, Within, Answered, PhaseAgrees, SaslData
  <2>4. /\ d.queue # <<>> => d.timer /\ d.op = "none"
        /\ d.authed /\ d.out > 0 => d.need_update \/ app.phase = "broken"
        /\ d.need_update => d.timer \/ d.op = "Update" \/ app.phase = "broken"
    BY DEF SaslIInv, Within, QueueShape, QueueTimed, Pending
  <2>5. d.queue \in Seq(Actions)
    BY <2>1 DEF SaslData
  <2>6. ASSUME NEW x, NEW i \in 1 .. Len(d.queue), d.queue[i] = x
        PROVE  x \in ToSet(d.queue)
    BY <2>5, <2>6 DEF ToSet
  <2>7. /\ d.in > 0 => app.toRead \/ "readyRead" \in ToSet(d.queue)
        /\ d.to_net > 0 => app.toReadOutgoing \/ "readyReadOutgoing" \in ToSet(d.queue)
    BY <2>6 DEF SaslIInv, Within, Announced
  <2> QED BY <2>2, <2>3, <2>4, <2>7 DEF SaslConsistent
<1> QED BY <1>1, SaslInvariant, PTL

\* A SASL object over the Cyrus context is an AuthSession: one answer is waited for at
\* a time, an attempt ends once, a server's user is approved of before authenticated()
\* is emitted, and read() gives out no more than the peer encoded in this session.
THEOREM SaslIsAuthSession == SaslSpec => ImplementsAuth
<1>1. SaslInit => Promised!SessionInit
  BY SaslInitGood
<1>2. SaslIInv /\ [SaslNext]_saslVars => [Promised!SessionNext]_Promised!sessionVars
  <2>1. SaslIInv /\ SaslNext => Promised!SessionNext \/ Stays
    BY SaslNextGood DEF Good
  <2>2. Stays => UNCHANGED Promised!sessionVars
    BY DEF Stays, Promised!sessionVars
  <2>3. UNCHANGED saslVars => UNCHANGED Promised!sessionVars
    BY DEF saslVars, Promised!sessionVars
  <2> QED BY <2>1, <2>2, <2>3
<1> QED BY <1>1, <1>2, SaslInvariant, PTL DEF SaslSpec, ImplementsAuth, Promised!SessionSpec

=============================================================================
