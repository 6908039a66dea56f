---------------------------- MODULE KeyGenerator ----------------------------
(***************************************************************************)
(* KeyGenerator (src/qca_publickey.cpp) and the contexts that it drives, as *)
(* the OpenSSL plugin has them: RSAKey, DSAKey and DHKey, which are the     *)
(* same here, and MyDLGroup.  A context makes its result in a thread of its *)
(* own, a QThread, whose finished() is queued for it; or in the caller when *)
(* the generator is blocking.                                               *)
(*                                                                         *)
(* A result is the number of the operation that has made it.  The program's *)
(* slots run last in done() and done_group(): what they do is what the      *)
(* program does next.                                                       *)
(***************************************************************************)
EXTENDS Naturals

CONSTANTS
  Contexts,  \* the objects there can be at a time
  MaxNumber, \* operations have the numbers up to it, which come round again
  Careful    \* while a group is made, the program makes no other, and nothing in place

VARIABLES
  gen,       \* KeyGenerator::Private
  ctx,       \* the contexts that have a thread
  next,      \* history: the number of the next operation
  ended,     \* history: the last operation that has ended
  crashed    \* a null dc was used

vars == <<gen, ctx, next, ended, crashed>>

None == "none"
Nothing == 0
Numbers == 1 .. MaxNumber
NoContext == [kind |-> "free", at |-> None, number |-> Nothing]
NoEnd == [number |-> Nothing, shown |-> Nothing, due |-> FALSE, told |-> FALSE]

Fresh == [blocking |-> TRUE, wasBlocking |-> TRUE, k |-> None, dc |-> None,
          key |-> Nothing, group |-> Nothing]

Init ==
  /\ gen = Fresh
  /\ ctx = [c \in Contexts |-> NoContext]
  /\ next = 1
  /\ ended = NoEnd
  /\ crashed = FALSE

Free == {c \in Contexts : ctx[c].kind = "free"}
Starts == gen.k = None /\ ~crashed /\ next' = (next % MaxNumber) + 1

----------------------------------------------------------------------------
(* The program.                                                              *)

setBlockingEnabled(b) ==
  /\ ~crashed
  /\ gen' = [gen EXCEPT !.blocking = b]
  /\ UNCHANGED <<ctx, next, ended, crashed>>

Thread(c, kind) ==
  /\ ctx' = [ctx EXCEPT ![c] = [kind |-> kind, at |-> "running", number |-> next]]
  /\ UNCHANGED ended

\* The caller is the one that makes the result, and is told by the return.
InPlace(result) ==
  /\ ended' = [number |-> next, shown |-> result, due |-> FALSE, told |-> FALSE]
  /\ UNCHANGED ctx

\* createRSA(), createDSA() and createDH(); a call while the generator is busy
\* returns at once.
createKey ==
  /\ Starts
  /\ Careful => gen.dc = None \/ ~gen.blocking
  /\ LET g == [gen EXCEPT !.key = Nothing, !.wasBlocking = gen.blocking]
     IN IF gen.blocking
        THEN \E result \in {next, Nothing} :
               gen' = [g EXCEPT !.key = result] /\ InPlace(result)
        ELSE \E c \in Free : gen' = [g EXCEPT !.k = c] /\ Thread(c, "key")
  /\ UNCHANGED crashed

\* It is not busy while it makes a group: a second one takes the place of the
\* first, and so its result.
createDLGroup ==
  /\ Starts
  /\ Careful => gen.dc = None
  /\ LET g == [gen EXCEPT !.group = Nothing, !.wasBlocking = gen.blocking]
     IN IF gen.blocking
        THEN \E result \in {next, Nothing} :
               gen' = [g EXCEPT !.group = result, !.dc = None] /\ InPlace(result)
        ELSE \E c \in Free : gen' = [g EXCEPT !.dc = c] /\ Thread(c, "group")
  /\ UNCHANGED crashed

\* The contexts go with the generator, and their destructors wait for the
\* threads; the program makes another generator.
Delete ==
  /\ ~crashed
  /\ gen' = Fresh
  /\ ctx' = [c \in Contexts |-> IF c \in {gen.k, gen.dc} THEN NoContext ELSE ctx[c]]
  /\ ended' = NoEnd
  /\ UNCHANGED <<next, crashed>>

----------------------------------------------------------------------------
(* The threads.                                                              *)

Ends(c) ==
  /\ \E result \in {"made", "failed"} : ctx' = [ctx EXCEPT ![c].at = result]
  /\ UNCHANGED <<gen, next, ended, crashed>>

makeKey(c) == ctx[c].kind = "key" /\ ctx[c].at = "running" /\ Ends(c)
makeGroup(c) == ctx[c].kind \in {"group", "leaked"} /\ ctx[c].at = "running" /\ Ends(c)

----------------------------------------------------------------------------
(* The event loop: km_finished() and gm_finished() of a context, which emit   *)
(* finished() to done() and done_group() of the generator.                   *)

Result(c) == IF ctx[c].at = "made" THEN ctx[c].number ELSE Nothing
\* Mutant: it is told as the generator is set now.
ToldAsSet(c, shown) ==
  ended' = [number |-> ctx[c].number, shown |-> shown, due |-> TRUE, told |-> ~gen.blocking]

Told(c, shown) ==
  ended' = [number |-> ctx[c].number, shown |-> shown, due |-> TRUE, told |-> ~gen.wasBlocking]

done(c) ==
  /\ ctx[c].kind = "key" /\ ctx[c].at # "running" /\ ~crashed
  /\ gen' = [gen EXCEPT !.k = None, !.key = Result(c)]
  /\ ctx' = [ctx EXCEPT ![c] = NoContext]
  /\ Told(c, Result(c))
  /\ UNCHANGED <<next, crashed>>

\* It reads dc, whichever context has finished, and deletes it.  A context that
\* is not dc any more stays for ever.
done_group(c) ==
  /\ ctx[c].kind = "group" /\ ctx[c].at # "running" /\ ~crashed
  /\ IF gen.dc = None
     THEN crashed' = TRUE /\ UNCHANGED <<gen, ctx, ended>>
     ELSE LET group == IF gen.dc = c THEN Result(c) ELSE gen.group
          IN /\ gen' = [gen EXCEPT !.dc = None, !.group = group]
             /\ ctx' = [ctx EXCEPT ![gen.dc] = NoContext,
                                   ![c] = IF c = gen.dc THEN NoContext
                                          ELSE [@ EXCEPT !.kind = "leaked"]]
             /\ Told(c, group)
             /\ UNCHANGED crashed
  /\ UNCHANGED next

----------------------------------------------------------------------------
Next ==
  \/ \E b \in BOOLEAN : setBlockingEnabled(b)
  \/ createKey \/ createDLGroup \/ Delete
  \/ \E c \in Contexts : makeKey(c) \/ makeGroup(c) \/ done(c) \/ done_group(c)

Spec == Init /\ [][Next]_vars

\* The threads run, and so does the event loop.
Fairness == \A c \in Contexts : WF_vars(makeKey(c) \/ makeGroup(c)) /\ WF_vars(done(c) \/ done_group(c))
LiveSpec == Spec /\ Fairness

----------------------------------------------------------------------------
TypeOK ==
  /\ {gen.k, gen.dc} \subseteq Contexts \cup {None}
  /\ {gen.key, gen.group, ended.number, ended.shown} \subseteq Numbers \cup {Nothing}
  /\ \A c \in Contexts :
       /\ ctx[c].kind \in {"free", "key", "group", "leaked"}
       /\ ctx[c].at \in {None, "running", "made", "failed"}

\* Every context is held by the generator, as what it is, and none is used
\* that is not there.
Held ==
  /\ ~crashed
  /\ \A c \in Contexts : /\ ctx[c].kind = "key" <=> gen.k = c
                         /\ ctx[c].kind = "group" <=> gen.dc = c
                         /\ ctx[c].kind # "leaked"

\* The end of an operation in a thread is told, and of one in the caller is
\* not, however blocking was set meanwhile; and what can be had then is what
\* this operation has made, or nothing.
EndedRight ==
  /\ ended.told = ended.due
  /\ ended.shown \in {ended.number, Nothing}

\* Contexts, threads and results fit together.
GeneratorConsistent == TypeOK /\ Held /\ EndedRight

\* What a thread makes is told in the end, or the generator is deleted.
GeneratorEnds == \A c \in Contexts : []<>(ctx[c].kind = "free")
=============================================================================
