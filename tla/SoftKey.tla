------------------------------- MODULE SoftKey -------------------------------
(***************************************************************************)
(* The keys of plugins/qca-softstore, which come from a file or from the    *)
(* configuration and are read when they are needed.                         *)
(*                                                                         *)
(* A key object keeps the private key that it has read, and the copy that a *)
(* signature is made with.  PrivateKeys share an object until one of them   *)
(* uses it, which gives it a clone of its own.  An operation that needs the *)
(* private key asks for the file and the passphrase, in the thread that     *)
(* calls it.                                                                *)
(***************************************************************************)
EXTENDS Integers, FiniteSets

CONSTANTS
  PrivateKeys,  \* the PrivateKeys that stand for one entry; each is used by one thread
  Timeouts,     \* the unlock timeouts an entry may have, Never among them
  Declines,     \* the operations of which the user may decline a question
  Midway,       \* whether a PrivateKey is copied while it signs
  MaxTime, MaxWrong, MaxMoves  \* bounds

ASSUME KeyAssumption == IsFiniteSet(PrivateKeys) /\ Timeouts \subseteq Nat \cup {-1}

VARIABLES
  entry,    \* the SoftStoreEntry, or Closed
  reachable,  \* the file that the entry refers to can be opened
  now, wrong, moves,
  object,   \* the object of each PrivateKey
  key,      \* the objects: _privkey and _privkeySign are not null, and dueTime
  use,      \* the operation of each PrivateKey, and where it is
  begun     \* the signatures that the application has begun

keyVars == <<entry, reachable, now, wrong, moves, object, key, use, begun>>

Never == -1
Closed == [file |-> FALSE, asks |-> FALSE, timeout |-> Never, open |-> FALSE]
Objects == 1 .. Cardinality(PrivateKeys)
Fresh == [priv |-> FALSE, sign |-> FALSE, due |-> 0]
NoUse == [op |-> "none", pc |-> "idle", right |-> FALSE]

KeyInit ==
  /\ entry = Closed
  /\ reachable = FALSE /\ now = 1 /\ wrong = 0 /\ moves = 0
  /\ object = [h \in PrivateKeys |-> 1]
  /\ key = [o \in Objects |-> Fresh]
  /\ use = [h \in PrivateKeys |-> NoUse]
  /\ begun = {}

\* _keyStoreEntryBySoftStoreEntry(): an entry, of a kind or another; only a
\* file can be missing.
Open ==
  /\ ~entry.open
  /\ entry' \in [file : BOOLEAN, asks : BOOLEAN, timeout : Timeouts, open : {TRUE}]
  /\ reachable' = ~entry'.file
  /\ UNCHANGED <<now, wrong, moves, object, key, use, begun>>

Tick ==
  /\ entry.open /\ now < MaxTime
  /\ now' = now + 1
  /\ UNCHANGED <<entry, reachable, wrong, moves, object, key, use, begun>>

\* The medium is put in or taken out.
Medium ==
  /\ entry.open /\ entry.file /\ moves < MaxMoves
  /\ moves' = moves + 1
  /\ reachable' = ~reachable
  /\ UNCHANGED <<entry, now, wrong, object, key, use, begun>>

\* A PrivateKey becomes a copy of another one.
Copy(h, g) ==
  /\ entry.open /\ object[h] # object[g]
  /\ use[h] = NoUse /\ use[g] = NoUse
  /\ g \in begun => Midway
  /\ object' = [object EXCEPT ![h] = object[g]]
  /\ begun' = begun \ {h}
  /\ key' = [o \in Objects |-> IF \E i \in PrivateKeys : object'[i] = o THEN key[o] ELSE Fresh]
  /\ UNCHANGED <<entry, reachable, now, wrong, moves, use>>

\* What a use of h makes of the sharing: a clone() for h alone, without the time
\* and without the signature.  Its object is the result's first component.
Detached(h) ==
  LET shared == \E g \in PrivateKeys \ {h} : object[g] = object[h]
      free == Objects \ {object[g] : g \in PrivateKeys}
      o == IF shared THEN CHOOSE n \in free : TRUE ELSE object[h]
  IN  <<o, IF shared THEN [key EXCEPT ![o] = [Fresh EXCEPT !.priv = key[object[h]].priv]]
           ELSE key>>

\* Mutant: the key that is cleared is the one that signs, too.
ExpiresForAll(k) ==
  IF entry.timeout # Never /\ k.due >= now THEN Fresh ELSE k

\* The private key is cleared while its time has not come.
Expires(k) ==
  IF entry.timeout # Never /\ k.due >= now THEN [k EXCEPT !.priv = FALSE] ELSE k

\* startSign() signs with a copy of the key of its own.
Granted(k, op) == IF op = "sign" THEN [k EXCEPT !.sign = TRUE] ELSE k
Begins(h, op) == IF op = "sign" THEN begun \cup {h} ELSE begun

\* decrypt(), startSign(): _ensureAccess() has the key, or is going to ask.
Use(h, op) ==
  /\ entry.open /\ use[h] = NoUse
  /\ LET d == Detached(h)
         o == d[1]
         k == Expires(d[2][o])
     IN  /\ object' = [object EXCEPT ![h] = o]
         /\ IF k.priv
              THEN /\ key' = [d[2] EXCEPT ![o] = Granted(k, op)]
                   /\ begun' = Begins(h, op)
                   /\ use' = use
              ELSE /\ key' = [d[2] EXCEPT ![o] = k]
                   /\ use' = [use EXCEPT ![h] = [NoUse EXCEPT !.op = op, !.pc = "file"]]
                   /\ begun' = begun
  /\ UNCHANGED <<entry, reachable, now, wrong, moves>>

\* KeyStoreEntry::ensureAccess() unlocks a clone that it throws away.
EnsureAccess(h) ==
  /\ entry.open /\ use[h] = NoUse
  /\ ~key[object[h]].priv
  /\ use' = [use EXCEPT ![h] = [NoUse EXCEPT !.op = "access", !.pc = "file"]]
  /\ UNCHANGED <<entry, reachable, now, wrong, moves, object, key, begun>>

\* update() uses the shared object like any other use does, and endSign() drops
\* the copy.
Update(h) ==
  /\ h \in begun /\ use[h] = NoUse
  /\ object' = [object EXCEPT ![h] = Detached(h)[1]]
  /\ key' = Detached(h)[2]
  /\ UNCHANGED <<entry, reachable, now, wrong, moves, use, begun>>

EndSign(h) ==
  /\ h \in begun /\ use[h] = NoUse
  /\ object' = [object EXCEPT ![h] = Detached(h)[1]]
  /\ key' = [Detached(h)[2] EXCEPT ![Detached(h)[1]].sign = FALSE]
  /\ begun' = begun \ {h}
  /\ UNCHANGED <<entry, reachable, now, wrong, moves, use>>

\* One round of the loop of _ensureAccess().
FindFile(h) ==
  /\ use[h].pc = "file"
  /\ use' = [use EXCEPT ![h].pc = IF ~reachable THEN "askFile"
                                  ELSE IF entry.asks THEN "askPassphrase" ELSE "read",
                        ![h].right = ~entry.asks]
  /\ UNCHANGED <<entry, reachable, now, wrong, moves, object, key, begun>>

Answer(h, right) ==
  /\ use[h].pc \in {"askFile", "askPassphrase"}
  /\ use[h].pc = "askFile" => right
  /\ ~right => wrong < MaxWrong
  /\ wrong' = IF right THEN wrong ELSE wrong + 1
  /\ use' = [use EXCEPT ![h].pc = IF @ = "askFile" THEN "file" ELSE "read", ![h].right = right]
  /\ UNCHANGED <<entry, reachable, now, moves, object, key, begun>>

Decline(h) ==
  /\ use[h].pc \in {"askFile", "askPassphrase"}
  /\ use[h].op \in Declines
  /\ use' = [use EXCEPT ![h] = NoUse]
  /\ begun' = Begins(h, use[h].op)  \* startSign() tells nobody
  /\ UNCHANGED <<entry, reachable, now, wrong, moves, object, key>>

Read(h) ==
  /\ use[h].pc = "read"
  /\ LET op == use[h].op
         read == [key[object[h]] EXCEPT
                    !.priv = TRUE, !.due = IF entry.timeout = Never THEN @ ELSE now + entry.timeout]
     IN  IF reachable /\ use[h].right
           THEN /\ key' = IF op = "access" THEN key
                          ELSE [key EXCEPT ![object[h]] = Granted(read, op)]
                /\ use' = [use EXCEPT ![h] = NoUse]
                /\ begun' = Begins(h, op)
           ELSE use' = [use EXCEPT ![h].pc = "file"] /\ UNCHANGED <<key, begun>>
  /\ UNCHANGED <<entry, reachable, now, wrong, moves, object>>

KeyNext ==
  \/ Open \/ Tick \/ Medium
  \/ \E h, g \in PrivateKeys : Copy(h, g)
  \/ \E h \in PrivateKeys :
       \/ \E op \in {"decrypt", "sign"} : Use(h, op)
       \/ EnsureAccess(h)
       \/ Update(h) \/ EndSign(h)
       \/ FindFile(h) \/ Decline(h) \/ Read(h)
       \/ \E right \in BOOLEAN : Answer(h, right)

KeySpec == KeyInit /\ [][KeyNext]_keyVars

----------------------------------------------------------------------------
KeyTypeOK ==
  /\ object \in [PrivateKeys -> Objects]
  /\ key \in [Objects -> [priv : BOOLEAN, sign : BOOLEAN, due : Nat]]
  /\ begun \subseteq PrivateKeys

\* A signature that is begun goes on with the key it began with, though the key
\* expires, or the user declines a question of another operation, meanwhile; and
\* nobody else has a part in its object.
SigningStands ==
  /\ KeyTypeOK
  /\ \A h \in begun : key[object[h]].sign
  /\ \A h \in begun : \A g \in PrivateKeys \ {h} : object[g] # object[h]

\* README: the passphrase is asked for again when the timeout has passed.
AskedAgain ==
  \A h \in PrivateKeys :
    LET d == Detached(h) IN
    entry.timeout # Never /\ use[h] = NoUse /\ Expires(d[2][d[1]]).priv
      => now <= key[object[h]].due
=============================================================================
