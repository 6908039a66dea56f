---------------------------- MODULE Certificates ----------------------------
(* The algorithms of src/qca_cert.cpp, and of the ossl plugin that checks    *)
(* certificates for it: completing a chain of certificates, validating one,  *)
(* giving a list of certificates names that tell them apart, turning the     *)
(* subject of a certificate from a list into a map and back, and reading an  *)
(* IPv6 address.  None of them keeps a state: the application puts a         *)
(* question, the two variables hold it and its answer, and the invariants    *)
(* compare the answer with a definition that goes another way.               *)
(*                                                                           *)
(* A certificate of a chain is an element of Certs, and issued, a part of    *)
(* the question, says which certificate is good as the issuer of which       *)
(* (names, key identifiers, signature and CA flags: X509_check_issued).      *)
(* Times, revocation and purposes, which the answers do not hang on, are     *)
(* left out.  A certificate to be named is its subject's and its issuer's    *)
(* values and its usages.                                                    *)
EXTENDS Integers, Sequences, FiniteSets, SequencesExt, Functions

CONSTANTS
  Certs,       \* the certificates of a chain
  Primary,     \* the one the chain is about
  MaxIssuers,  \* how many certificates may be good as the issuer of one
  Subjects,    \* what the subject of a certificate can say: type -> values
  IssuerInfos, \* the same of its issuer
  Usages,      \* the sets of usages it can be meant for
  MaxNamed,    \* how many certificates are named at once
  InfoTypes,   \* the types of the values that are turned from list to map
  InfoValues,  \* and the values
  MaxInfo      \* how many of them

VARIABLES question, answer
certVars == <<question, answer>>

Numbers(n) == [i \in 1..n |-> i]

-----------------------------------------------------------------------------
(* Chains: Certificate::chain_complete() and validate(), the ossl plugin's   *)
(* validate_chain(), and X509_verify_cert() of OpenSSL under it.             *)

Distinct(S, n) == UNION {{s \in [1..k -> S] : IsInjective(s)} : k \in 0..n}

IssuedRelations ==
  {r \in SUBSET (Certs \X Certs) :
     \A c \in Certs : Cardinality({d \in Certs : <<d, c>> \in r}) <= MaxIssuers}

isSelfSigned(issued, c) == <<c, c>> \in issued

\* OpenSSL is given the one certificate as all there is, and has to build the
\* chain of the two from it: a self-signed certificate needs no issuer.
isIssuerOf(issued, d, c) == <<d, c>> \in issued /\ ~isSelfSigned(issued, c)

\* The first of the pool that can be the issuer of c, or 0.
FirstIssuer(issued, pool, c) ==
  SelectInSeq(pool, LAMBDA d : isIssuerOf(issued, d, c))

\* One round of chain_complete() after the other.
RECURSIVE CompleteFrom(_, _, _)
CompleteFrom(issued, out, pool) ==
  LET at == FirstIssuer(issued, pool, Last(out))
  IN  IF isSelfSigned(issued, Last(out)) THEN [chain |-> out, result |-> "ValidityGood"]
      ELSE IF at = 0 THEN [chain |-> out, result |-> "ErrorInvalidCA"]
      ELSE IF Contains(out, pool[at]) THEN [chain |-> out, result |-> "ValidityGood"]
      ELSE CompleteFrom(issued, Append(out, pool[at]), RemoveAt(pool, at))

\* Mutant: the rest of the chain is not among the possible issuers.
chain_completeFromIssuers(issued, chain, issuers) ==
  CompleteFrom(issued, <<Head(chain)>>, issuers)

chain_complete(issued, chain, issuers) ==
  CompleteFrom(issued, <<Head(chain)>>, issuers \o Tail(chain))

\* X509_verify_cert(): up the untrusted certificates as far as they go, or the
\* trusted ones, each used once.
RECURSIVE Climb(_, _, _)
Climb(issued, out, pool) ==
  LET at == FirstIssuer(issued, pool, Last(out))
  IN  IF at = 0 THEN out
      ELSE Climb(issued, Append(out, pool[at]), RemoveAt(pool, at))

\* Then the root it has met, if any, gives way to a trusted one.
X509_verify_cert(issued, target, untrusted, trusted) ==
  LET up == Climb(issued, <<target>>, untrusted)
      ss == isSelfSigned(issued, Last(up))
      low == IF ss /\ Len(up) > 1 THEN Front(up) ELSE up
      at == SelectInSeq(trusted, LAMBDA d : <<d, Last(low)>> \in issued)
      high == IF at = 0 THEN low
              ELSE Climb(issued, Append(low, trusted[at]), RemoveAt(trusted, at))
  IN  IF ss /\ Len(up) = 1
      THEN [chain |-> up,
            err |-> IF at # 0 /\ trusted[at] = target THEN "none" ELSE "ErrorSelfSigned"]
      ELSE IF isSelfSigned(issued, Last(high)) THEN [chain |-> high, err |-> "none"]
      ELSE IF ss /\ <<Last(up), Last(high)>> \in issued
      THEN [chain |-> Append(high, Last(up)), err |-> "ErrorSelfSigned"]
      ELSE [chain |-> high, err |-> "ErrorInvalidCA"]

\* The order of the chain is compared, and the outcome put where it is read only
\* if OpenSSL has found an error of its own.
validate_chain(issued, chain, trusted) ==
  LET ret == X509_verify_cert(issued, Head(chain), Tail(chain), trusted)
      err == IF ret.chain = chain THEN ret.err ELSE "ErrorValidityUnknown"
  IN  IF ret.err # "none" THEN err ELSE "ValidityGood"

validate(issued, cert, trusted, untrusted) ==
  LET completed == chain_complete(issued, <<cert>>, trusted \o untrusted)
  IN  IF completed.result # "ValidityGood" THEN completed.result
      ELSE validate_chain(issued, completed.chain, trusted)

Complete ==
  \E issued \in IssuedRelations, others \in Distinct(Certs \ {Primary}, 1),
     issuers \in Distinct(Certs, Cardinality(Certs)) :
       /\ question' = [of |-> "complete", issued |-> issued,
                       chain |-> <<Primary>> \o others, issuers |-> issuers]
       /\ answer' = chain_complete(issued, <<Primary>> \o others, issuers)

ValidateChain ==
  \E issued \in IssuedRelations, trusted \in Distinct(Certs, 2),
     others \in Distinct(Certs \ {Primary}, Cardinality(Certs)) :
       /\ question' = [of |-> "chain", issued |-> issued,
                       chain |-> <<Primary>> \o others, trusted |-> trusted]
       /\ answer' = validate_chain(issued, <<Primary>> \o others, trusted)

Validate ==
  \E issued \in IssuedRelations, trusted \in Distinct(Certs, 2),
     untrusted \in Distinct(Certs \ {Primary}, Cardinality(Certs)) :
       /\ question' = [of |-> "validate", issued |-> issued,
                       trusted |-> trusted, untrusted |-> untrusted]
       /\ answer' = validate(issued, Primary, trusted, untrusted)

-----------------------------------------------------------------------------
(* Names: makeFriendlyNames() and its helpers.  Values of a type are in the  *)
(* order in which the map gives them.                                        *)

SubjectTypes == <<"Organization", "OrganizationalUnit", "Email", "XMPP">>
NamedUsages == <<"DigitalSignature", "ClientAuth", "EmailProtection",
                 "DataEncipherment", "EncipherOnly", "DecipherOnly">>

ValuesOf(info, type) == IF type \in DOMAIN info THEN info[type] ELSE <<>>

baseCertName(info) ==
  LET common == ValuesOf(info, "CommonName")
      organization == ValuesOf(info, "Organization")
  IN  IF common # <<>> THEN Head(common)
      ELSE IF organization # <<>> THEN Head(organization) ELSE "Unnamed"

\* The items, in their order, whose name is the name of item i.
findSameName(list, i) ==
  SelectSeq(Numbers(Len(list)),
            LAMBDA n : baseCertName(list[n].subject) = baseCertName(list[i].subject))

\* Each of the other items takes away the first value that it has too.
uniqueSubjectValue(type, items, list, i) ==
  LET TakeAway(vals, n) ==
        LET at == SelectInSeq(vals, LAMBDA v : Contains(ValuesOf(list[n].subject, type), v))
        IN  IF n = i \/ at = 0 THEN vals ELSE RemoveAt(vals, at)
  IN  FoldLeft(TakeAway, ValuesOf(list[i].subject, type), items)

\* Mutant: the item to leave out is told by its place among the items.
OthersOfByPlace(items, i) == ToSet(items) \ {SelectInSeq(items, LAMBDA n : n = i)}

OthersOf(items, i) == ToSet(items) \ {i}

uniqueIssuerName(items, list, i) ==
  \A n \in OthersOf(items, i) :
     baseCertName(list[n].issuer) # baseCertName(list[i].issuer)

uniqueConstraintValue(usage, items, list, i) ==
  /\ usage \in list[i].constraints
  /\ \A n \in OthersOf(items, i) : usage \notin list[n].constraints

\* The first of these that tells the item apart is added to its name; if none
\* does, its name is its whole subject, which is not spelled out here.
makeUniqueName(items, list, i) ==
  LET byValue == SelectInSeq(SubjectTypes,
                             LAMBDA t : uniqueSubjectValue(t, items, list, i) # <<>>)
      byUsage == SelectInSeq(NamedUsages,
                             LAMBDA u : uniqueConstraintValue(u, items, list, i))
      Name(by, value) ==
        [base |-> baseCertName(list[i].subject), by |-> by, value |-> value]
  IN  IF byValue # 0
      THEN Name(SubjectTypes[byValue],
                Head(uniqueSubjectValue(SubjectTypes[byValue], items, list, i)))
      ELSE IF uniqueIssuerName(items, list, i)
      THEN Name("issuer", baseCertName(list[i].issuer))
      ELSE IF byUsage # 0 THEN Name("usage", NamedUsages[byUsage])
      ELSE [base |-> "", by |-> "DN", value |-> ""]

makeFriendlyNames(list) ==
  [i \in 1..Len(list) |->
     LET items == findSameName(list, i)
     IN  IF Len(items) > 1 THEN makeUniqueName(items, list, i)
         ELSE [base |-> baseCertName(list[i].subject), by |-> "", value |-> ""]]

NameableCerts == [subject : Subjects, issuer : IssuerInfos, constraints : Usages]

MakeNames ==
  \E n \in 1..MaxNamed : \E list \in [1..n -> NameableCerts] :
    /\ question' = [of |-> "names", list |-> list]
    /\ answer' = makeFriendlyNames(list)

-----------------------------------------------------------------------------
(* The values of a subject, as an ordered list and as a map from a type to   *)
(* its values, the last inserted first: orderedToMap(), mapToOrdered().      *)

\* The types that come first in a list made of a map; the rest follow as sorted.
FirstTypes == <<"CommonName", "Country", "Locality", "State", "Organization",
                "OrganizationalUnit", "Email", "URI", "DNS", "IPAddress", "XMPP">>

OfType(info, type) == SelectSeq(info, LAMBDA p : p[1] = type)

orderedToMap(info) ==
  LET Values(type) == Reverse([n \in DOMAIN OfType(info, type) |-> OfType(info, type)[n][2]])
      AddEmail(emails, v) == IF Contains(emails, v) THEN emails ELSE <<v>> \o emails
      emailsOf == FoldRight(LAMBDA v, emails : AddEmail(emails, v),
                            Values("EmailLegacy"), Values("Email"))
  IN  [t \in InfoTypes |->
         IF t = "EmailLegacy" THEN <<>>
         ELSE IF t = "Email" THEN emailsOf ELSE Values(t)]

mapToOrdered(map) ==
  LET order == SelectSeq(FirstTypes, LAMBDA t : t \in InfoTypes)
               \o SetToSeq(InfoTypes \ ToSet(FirstTypes))
      Moved(t) == Reverse([n \in DOMAIN map[t] |-> <<t, map[t][n]>>])
  IN  FoldLeft(LAMBDA to, t : to \o Moved(t), <<>>, order)

setInfoOrdered ==
  \E n \in 1..MaxInfo : \E info \in [1..n -> InfoTypes \X InfoValues] :
    /\ question' = [of |-> "info", info |-> info]
    /\ answer' = orderedToMap(info)

-----------------------------------------------------------------------------
(* An IPv6 address: the parts between its colons are nothing, a number, or   *)
(* an IPv4 address, and the result is eight groups.  A number is told from   *)
(* another by its place.                                                     *)

Zero == 0
Upper == 10
NoAddress == <<>>

ipaddr_str2bin(parts) ==
  LET count == Len(parts)
      Reject(a) == [a EXCEPT !.ok = FALSE]
      Zeros(a, n) == IF a.at < n THEN Reject(a) ELSE [a EXCEPT !.at = @ - n]
      EmptyPart(a, n) ==
        CASE n = count -> IF parts[n - 1] # "" THEN Reject(a) ELSE Zeros(a, 1)
          [] n = 1     -> IF parts[n + 1] # "" THEN Reject(a) ELSE Zeros(a, 1)
          [] OTHER     -> Zeros(a, a.fill)
      NumberPart(a, n) == [a EXCEPT !.groups[a.at] = n, !.at = @ - 1]
      IPv4Part(a, n) ==
        IF n # count THEN Reject(a)
        ELSE [a EXCEPT !.groups[a.at] = n, !.groups[a.at - 1] = n + Upper,
                       !.at = @ - 2, !.fill = @ - 1]
      Part(a, n) ==
        CASE ~a.ok           -> a
          [] a.ok /\ a.at = 0 -> Reject(a)
          [] OTHER           -> CASE parts[n] = ""       -> EmptyPart(a, n)
                                  [] parts[n] = "number" -> NumberPart(a, n)
                                  [] parts[n] = "ipv4"   -> IPv4Part(a, n)
      read == FoldLeft(Part, [ok |-> TRUE, at |-> 8, fill |-> 9 - count,
                              groups |-> [g \in 1..8 |-> Zero]], Reverse(Numbers(count)))
  IN  IF count < 3 \/ count > 8 \/ ~read.ok THEN NoAddress ELSE read.groups

ReadAddress ==
  \E n \in 2..9 : \E parts \in [1..n -> {"", "number", "ipv4"}] :
    /\ question' = [of |-> "address", parts |-> parts]
    /\ answer' = ipaddr_str2bin(parts)

-----------------------------------------------------------------------------
NoQuestion == [of |-> "nothing"]

Init == question = NoQuestion /\ answer = NoQuestion

Next ==
  /\ question = NoQuestion
  /\ Complete \/ ValidateChain \/ Validate \/ MakeNames \/ setInfoOrdered \/ ReadAddress
-----------------------------------------------------------------------------
\* What is good as an issuer of what c was issued by, and so on, among certs:
\* the smallest set that has c and the issuers of all it has.
Ancestors(issued, certs, c) ==
  LET Closed(S) == \A d \in certs, e \in S : <<d, e>> \in issued => d \in S
  IN  {d \in certs : \A S \in SUBSET certs : c \in S /\ Closed(S) => d \in S}

OneIssuerEach(issued, certs) ==
  \A c \in certs : Cardinality({d \in certs : <<d, c>> \in issued}) <= 1

IssuedInTurn(issued, chain) ==
  \A i \in 1..(Len(chain) - 1) : <<chain[i + 1], chain[i]>> \in issued

\* A completed chain begins with its certificate, goes from a certificate to its
\* issuer and to no certificate twice, and goes on as long as the pool has an
\* issuer that is not on it; where nobody has two issuers to choose from, it is
\* all the ancestors there are, in whatever order the pool held them.
CompletesChain ==
  question.of = "complete" =>
    LET issued == question.issued
        chain == answer.chain
        pool == ToSet(question.issuers) \union ToSet(Tail(question.chain))
        all == pool \union {Primary}
    IN  /\ Head(chain) = Primary
        /\ IsInjective(chain)
        /\ IssuedInTurn(issued, chain)
        /\ isSelfSigned(issued, Last(chain)) => answer.result = "ValidityGood"
        /\ answer.result = "ErrorInvalidCA" =>
             \A d \in pool : <<d, Last(chain)>> \in issued => d \in ToSet(chain)
        /\ OneIssuerEach(issued, all) => ToSet(chain) = Ancestors(issued, all, Primary)

\* What is found valid goes back to a root that is trusted; and a certificate
\* does get found valid if it goes back to one, whatever else is known, where
\* nobody has two issuers to choose from.
ValidatesChain ==
  question.of \in {"chain", "validate"} =>
    LET issued == question.issued
        known == ToSet(question.trusted)
                 \union (IF question.of = "chain" THEN ToSet(question.chain)
                         ELSE ToSet(question.untrusted) \union {Primary})
        rooted == \E d \in ToSet(question.trusted) :
                     /\ isSelfSigned(issued, d)
                     /\ d \in Ancestors(issued, known, Primary)
    IN  /\ answer = "ValidityGood" => rooted
        /\ question.of = "validate" /\ rooted /\ OneIssuerEach(issued, known)
             => answer = "ValidityGood"

\* What the comment in validate_chain() says of it: a chain whose order is wrong
\* is not correct.
ChainInOrder ==
  question.of = "chain" /\ answer = "ValidityGood"
    => IssuedInTurn(question.issued, question.chain)

\* A base name that one certificate has alone stays as it is; names that are made
\* of a value of the same kind differ, and the names of the certificates do not
\* depend on their order in the list, as long as no certificate has two values
\* of a kind.
NamesTellApart ==
  question.of = "names" =>
    LET list == question.list
        OneOfAKind ==
          \A i \in DOMAIN list, t \in ToSet(SubjectTypes) :
             Len(ValuesOf(list[i].subject, t)) <= 1
    IN  /\ \A i \in DOMAIN list :
             (answer[i].by = "") <=> (Len(findSameName(list, i)) = 1)
        /\ OneOfAKind =>
             /\ \A i, j \in DOMAIN list :
                  i # j /\ answer[i] = answer[j] => answer[i].by = "DN"
             /\ \A p \in Distinct(DOMAIN list, Len(list)) :
                  Len(p) = Len(list) =>
                    makeFriendlyNames([i \in DOMAIN list |-> list[p[i]]])
                      = [i \in DOMAIN list |-> answer[p[i]]]

\* From list to map and back, each type keeps its values in their order; an
\* address of the old e-mail type is one of the new type, once; and what comes
\* back gives the same map again.
InfoKept ==
  question.of = "info" =>
    LET info == question.info
        back == mapToOrdered(answer)
        Addresses(list) == {p[2] : p \in {q \in ToSet(list) : q[1] \in {"Email", "EmailLegacy"}}}
    IN  /\ orderedToMap(back) = answer
        /\ \A t \in InfoTypes \ {"Email", "EmailLegacy"} : OfType(back, t) = OfType(info, t)
        /\ IsPrefix(OfType(info, "Email"), OfType(back, "Email"))
        /\ OfType(back, "EmailLegacy") = <<>>
        /\ Addresses(back) = Addresses(info)
        /\ OfType(info, "Email") = <<>> => IsInjective(OfType(back, "Email"))

\* The groups that an address text stands for: those before its empty parts,
\* zeros for the empty parts, and those after them.
Groups(parts, ns) ==
  FlattenSeq([k \in DOMAIN ns |->
                IF parts[ns[k]] = "ipv4" THEN <<ns[k] + Upper, ns[k]>> ELSE <<ns[k]>>])

\* Every address text of up to eight parts is read as what it stands for: eight
\* numbers, or fewer with one "::" among them, the last two of which may be
\* written as an IPv4 address.
AddressRead ==
  question.of = "address" =>
    LET parts == question.parts
        n == Len(parts)
        empties == {k \in 1..n : parts[k] = ""}
        Full(ns) == Groups(parts, ns)
        head == SelectSeq(Numbers(n), LAMBDA k : \A e \in empties : k < e)
        tail == SelectSeq(Numbers(n), LAMBDA k : \A e \in empties : k > e)
        zeros == 8 - Len(Full(head)) - Len(Full(tail))
        gap == n - Len(head) - Len(tail)
        wellFormed ==
          /\ n \in 3..8
          /\ \A k \in 1..n : parts[k] = "ipv4" => k = n
          /\ IF empties = {} THEN Len(Full(Numbers(n))) = 8
             ELSE /\ gap = Cardinality(empties)
                  /\ zeros >= 1
                  /\ gap = 1 + (IF head = <<>> THEN 1 ELSE 0) + (IF tail = <<>> THEN 1 ELSE 0)
    IN  wellFormed =>
          answer = IF empties = {} THEN Full(Numbers(n))
                   ELSE Full(head) \o [k \in 1..zeros |-> Zero] \o Full(tail)

ChainsRight == CompletesChain /\ ValidatesChain
SubjectsRight == NamesTellApart /\ InfoKept /\ AddressRead
=============================================================================
