------------------------------ MODULE KeyLoader ------------------------------
(***************************************************************************)
(* KeyLoader (src/qca_cert.cpp) and what its thread runs: fromPEMFile(),    *)
(* fromPEM() and fromDER() of PrivateKey (src/qca_publickey.cpp), which try *)
(* one provider after the other, and fromFile() and fromArray() of          *)
(* KeyBundle.  When none can read the data, the user is asked for a         *)
(* passphrase, once, and all is tried again; the thread waits meanwhile in  *)
(* waitForResponse() (see EventSystem).                                     *)
(***************************************************************************)
EXTENDS Naturals, Sequences, SequencesExt, FiniteSetsExt

CONSTANTS
  Providers  \* the providers in their order, and how each reads keys

\* "none" has no pkey context; "ossl" fails in general when it cannot read the
\* data, "exact" says so when it is the passphrase, and reads some data more.
Types == {"PKPEMFile", "PKPEM", "PKDER", "KBDERFile", "KBDER"}
Calls == {"PEMFile", "PEM", "DER", "BundleFile", "BundleArray"}
Contents == {"missing", "plain", "encrypted", "rare", "garbage"}
Passphrases == {"right", "wrong"}

VARIABLES
  active,  \* KeyLoader::Private::active
  in, out, \* of the loader: what is to be loaded, and what was
  thread,  \* the thread: what it does, its Out, and the answer it got
  call     \* history: the call that in stands for

vars == <<active, in, out, thread, call>>

NoOut == [result |-> "none", privateKey |-> FALSE, keyBundle |-> FALSE]
NoThread == [at |-> "none", result |-> "none", answer |-> "none"]
NoCall == [kind |-> "none", content |-> "missing"]

Init ==
  /\ active = FALSE
  /\ in = [type |-> "none", content |-> "missing"]
  /\ out = NoOut
  /\ thread = NoThread
  /\ call = NoCall

----------------------------------------------------------------------------
(* What is read with a passphrase, or none.                                  *)

CanRead(provider, content, passphrase) ==
  /\ provider # "none"
  /\ \/ content = "plain"
     \/ content = "encrypted" /\ passphrase = "right"
     \/ content = "rare" /\ provider = "exact"

\* Getter_PrivateKey::getKey() of a provider, and fromPKCS12().
Reads(provider, content, passphrase) ==
  CASE CanRead(provider, content, passphrase) -> "ConvertGood"
    [] provider = "exact" /\ content = "encrypted" /\ passphrase # "right" -> "ErrorPassphrase"
    [] OTHER -> "ErrorDecode"

\* getKey() of all providers: to the first that can read it, or says that the
\* passphrase is wrong.
getKey(content, passphrase) ==
  LET r(i) == Reads(Providers[i], content, passphrase)
      last == {i \in DOMAIN Providers : r(i) # "ErrorDecode"} \cup {Len(Providers)}
  IN r(Min(last))

Bundle(type) == type \in {"KBDERFile", "KBDER"}
Convert(type, content, passphrase) ==
  IF Bundle(type) THEN Reads("ossl", content, passphrase) ELSE getKey(content, passphrase)

----------------------------------------------------------------------------
(* The program.                                                              *)

\* The five calls: reset(), in, and start().  That for an array asks for a file,
\* whose name is empty.
TypeOf == [PEMFile |-> "PKPEMFile", PEM |-> "PKPEM", DER |-> "PKDER",
           BundleFile |-> "KBDERFile", BundleArray |-> "KBDERFile"]

load(kind, content) ==
  /\ ~active
  /\ content = "missing" => kind \in {"PEMFile", "BundleFile"}
  /\ active' = TRUE
  /\ in' = [type |-> TypeOf[kind], content |-> IF kind = "BundleArray" THEN "missing" ELSE content]
  /\ out' = NoOut
  /\ thread' = [NoThread EXCEPT !.at = "running"]
  /\ call' = [kind |-> kind, content |-> content]

\* The slot is called from the event loop, and the program may load again in it.
thread_finished ==
  /\ thread.at = "finished"
  /\ out' = [result |-> thread.result,
             privateKey |-> thread.result = "ConvertGood" /\ ~Bundle(in.type),
             keyBundle |-> thread.result = "ConvertGood" /\ Bundle(in.type)]
  /\ thread' = [thread EXCEPT !.at = "none"]
  /\ active' = FALSE
  /\ UNCHANGED <<in, call>>

----------------------------------------------------------------------------
(* The thread, and the user.                                                 *)

\* Without a passphrase.  Whatever the error is, the user is asked.
run ==
  /\ thread.at = "running"
  /\ LET result == IF in.content = "missing" THEN "ErrorFile"
                   ELSE Convert(in.type, in.content, "none")
     IN thread' = [thread EXCEPT !.at = IF result \in {"ConvertGood", "ErrorFile"}
                                        THEN "finished" ELSE "asking",
                                 !.result = result]
  /\ UNCHANGED <<active, in, out, call>>

\* The user answers, or rejects the question as the program does when it has no
\* handler.
Answer(answer) ==
  /\ thread.at = "asking"
  /\ thread' = [thread EXCEPT !.at = "answered", !.answer = answer]
  /\ UNCHANGED <<active, in, out, call>>

\* Mutant: the user is asked until the passphrase is right.
ask_passphraseAgain ==
  /\ thread.at = "answered"
  /\ LET result == Convert(in.type, in.content, thread.answer)
     IN thread' = [thread EXCEPT !.at = IF thread.answer = "rejected" \/ result = "ConvertGood"
                                        THEN "finished" ELSE "asking",
                                 !.result = result]
  /\ UNCHANGED <<active, in, out, call>>

ask_passphrase ==
  /\ thread.at = "answered"
  /\ thread' = [thread EXCEPT !.at = "finished",
                              !.result = IF thread.answer = "rejected" THEN @
                                         ELSE Convert(in.type, in.content, thread.answer)]
  /\ UNCHANGED <<active, in, out, call>>

----------------------------------------------------------------------------
Next ==
  \/ \E kind \in Calls, content \in Contents : load(kind, content)
  \/ thread_finished \/ run \/ ask_passphrase
  \/ \E answer \in Passphrases \cup {"rejected"} : Answer(answer)

Spec == Init /\ [][Next]_vars

\* The thread and the event loop run, and a question is answered or rejected.
Fairness ==
  /\ WF_vars(run) /\ WF_vars(ask_passphrase) /\ WF_vars(thread_finished)
  /\ WF_vars(\E answer \in Passphrases \cup {"rejected"} : Answer(answer))

LiveSpec == Spec /\ Fairness

----------------------------------------------------------------------------
TypeOK ==
  /\ active \in BOOLEAN
  /\ in.type \in Types \cup {"none"} /\ in.content \in Contents
  /\ thread.at \in {"none", "running", "asking", "answered", "finished"}
  /\ thread.answer \in Passphrases \cup {"rejected", "none"}
  /\ active <=> thread.at # "none"

\* Whether data can be read, by whichever provider, with what the user has said.
Able(content, answer, bundle) ==
  LET with == IF bundle THEN {"ossl"} ELSE ToSet(Providers)
  IN \E provider \in with : CanRead(provider, content, answer)

\* What a load ends with is what its own data asks for: the order of the
\* providers, an earlier load and an error of a provider that cannot read it do
\* not matter.  (Bundles in arrays are another matter, see ArrayIsLoaded.)
LoadedRight ==
  ~active /\ call.kind \notin {"none", "BundleArray"} =>
    LET bundle == call.kind = "BundleFile"
        good == Able(call.content, thread.answer, bundle)
    IN /\ out.privateKey = (good /\ ~bundle)
       /\ out.keyBundle = (good /\ bundle)
       /\ (out.result = "ConvertGood") = good
       /\ (out.result = "ErrorFile") = (call.content = "missing")

\* The user is asked only when it is needed: not for data that can be read
\* without, and not for files that are not there.
AskedIfNeeded ==
  thread.at \in {"asking", "answered"} =>
    /\ call.content # "missing"
    /\ ~Able(call.content, "none", Bundle(in.type))

LoaderConsistent == TypeOK /\ LoadedRight /\ AskedIfNeeded

\* A load ends.
LoadEnds == []<>~active

\* Said of the program and not so: loadKeyBundleFromArray() loads "a KeyBundle
\* from an array" (qca_cert.h).
ArrayIsLoaded ==
  ~active /\ call.kind = "BundleArray" =>
    out.keyBundle = Able(call.content, thread.answer, TRUE)
=============================================================================
