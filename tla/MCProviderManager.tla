------------------------- MODULE MCProviderManager -------------------------
(* Five parts of the library for TLC, of which only safety is asked: one    *)
(* moves while the others are as they were created, and the invariants of    *)
(* the algorithms are asked of the one that moves.                           *)
(*   ProviderManager: two threads, which are interchangeable, and two        *)
(*   providers, each of a plugin file, the first of which the application    *)
(*   may also add itself.  The default provider and one of the two can do one *)
(*   type; the two can do another, which nobody can while no file is there.  *)
(*   TLS with two sessions; whether a session moves on is asked in MCWaits.  *)
(*   Certificates: chains of three certificates, and lists of three names;   *)
(*   TextFilter: up to five bytes or characters, in chunks of up to three.   *)
(*   SoftKey: two PrivateKeys that stand for one entry of qca-softstore.    *)
EXTENDS ProviderManager, SoftKey, TLS

CONSTANTS t1, t2,
          Certs, Primary, MaxIssuers, Subjects, IssuerInfos, Usages, MaxNamed,
          InfoTypes, InfoValues, MaxInfo,
          Bytes, Digits, Columns, MaxLength,
          h1, h2

VARIABLES part,  \* the one that moves
          question, answer, filter, fed, out, done

certVars == <<question, answer>>
textVars == <<filter, fed, out, done>>

CE == INSTANCE Certificates
TF == INSTANCE TextFilter WITH f <- filter

AllInit ==
  /\ part \in {"providers", "tls", "certificates", "text", "key"}
  /\ Init /\ TlsInit /\ CE!Init /\ TF!Init /\ KeyInit
  /\ part # "providers" => disk = {}
  /\ part # "text" => filter.as = "Hex" /\ filter.dir = "Encode"

Still ==
  /\ part # "providers" => UNCHANGED vars
  /\ part # "tls" => UNCHANGED tlsVars
  /\ part # "certificates" => UNCHANGED certVars
  /\ part # "text" => UNCHANGED textVars
  /\ part # "key" => UNCHANGED keyVars
AllNext ==
  /\ part' = part
  /\ \/ part = "providers" /\ Next
     \/ part = "tls" /\ TlsNext
     \/ part = "certificates" /\ CE!Next
     \/ part = "text" /\ TF!Next
     \/ part = "key" /\ KeyNext
  /\ Still
AllSpec == AllInit /\ [][AllNext]_<<part, vars, tlsVars, certVars, textVars, keyVars>>

\* Of Certificates: a completed chain is the way up from its certificate, and
\* what is found valid goes back to a trusted root.
ChainsRight == part = "certificates" => CE!ChainsRight

\* Of the algorithms that only compute: names tell certificates apart, subjects
\* survive the way to a map and back, addresses are read as what they stand for,
\* and a text filter does not care where its input was cut.
AlgorithmsRight ==
  /\ part = "certificates" => CE!SubjectsRight
  /\ part = "text" => TF!ChunksDoNotMatter

\* What validate_chain() says of the order of a chain.
ChainInOrder == CE!ChainInOrder

MCFeatures == [p \in Providers |-> IF p = "p2" THEN {"tls", "random"} ELSE {"tls"}]
MCOffers == [f \in Files |-> IF f = 1 THEN "p1" ELSE "p2"]
MCConfig == [p \in Providers |-> IF p = "p1" THEN 2 ELSE -1]
LowPriorities == {-1, 0}
Symmetry == Permutations(Threads)

TextDigits == {-1, 5, 10, 64, 65}

\* Never, and after one unit of time.
TwoTimeouts == {-1, 1}

CertificateOnly == {"peerCertificateAvailable"}
Low == -3

\* Three subjects with a name, one with that of its organization, one without.
ShortSubjects ==
  [CommonName : {<<"n">>}, Organization : {<<"x">>, <<"x", "y">>},
   OrganizationalUnit : {<<"x">>}]
    \union [CommonName : {<<"n">>}, Organization : {<<>>}, OrganizationalUnit : {<<>>}]
    \union [CommonName : {<<>>}, Organization : {<<>>, <<"n">>}]
TwoIssuers == [CommonName : {<<"a">>, <<"b">>}]
=============================================================================
