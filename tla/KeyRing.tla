------------------------------- MODULE KeyRing -------------------------------
(***************************************************************************)
(* MyKeyStoreList and RingWatch of plugins/qca-gnupg: the GnuPG key store,  *)
(* which keeps a copy of the secret and the public ring.  gpg reads a ring  *)
(* when the store starts, and again when its file has changed; a change is *)
(* noticed by a watch of the directory, 100 ms after it.                    *)
(*                                                                         *)
(* All of it runs in the tracker thread; only gpg, and whoever changes the  *)
(* files, run beside it.  A file is its version, 0 if it does not exist.    *)
(***************************************************************************)
EXTENDS Naturals

CONSTANTS MaxVersion, MaxFailures  \* bounds

ASSUME RingAssumption == {MaxVersion, MaxFailures} \subseteq Nat

VARIABLES
  disk,        \* the files
  init_step, initialized, ended,    \* of MyKeyStoreList; ended: busyEnd() was emitted
  doing,       \* what gpg does: "none", "check", "names" of a file, "sec" or "pub" (read it)
  gpgRead,     \* the version that gpg has read, or -1
  cache,       \* seckeys and pubkeys
  dirty,       \* secdirty and pubdirty
  watched, seen, noticed, timer,    \* RingWatch: its files, as it has seen them last
  announced,   \* history: the copies when they were last announced
  gpgFailures

storeVars == <<init_step, initialized, ended, doing, gpgRead, cache, dirty, announced, gpgFailures>>
watchVars == <<watched, seen, noticed, timer>>
ringVars == <<disk, storeVars, watchVars>>

Rings == {"sec", "pub"}
Unread == 0 - 1

RingInit ==
  /\ disk = [r \in Rings |-> 0]
  /\ init_step = 0 /\ initialized = FALSE /\ ended = FALSE
  /\ doing = "none" /\ gpgRead = Unread
  /\ cache = [r \in Rings |-> 0]
  /\ dirty = {}
  /\ watched = {} /\ seen = [r \in Rings |-> 0] /\ noticed = FALSE /\ timer = FALSE
  /\ announced = cache
  /\ gpgFailures = 0

----------------------------------------------------------------------------
(* The files, and gpg.                                                       *)

Change(r) ==
  /\ disk[r] < MaxVersion
  /\ disk' = [disk EXCEPT ![r] = @ + 1]
  /\ noticed' = (noticed \/ watched # {})
  /\ UNCHANGED <<storeVars, watched, seen, timer>>

\* gpg reads a ring once, at some moment of its run.
GpgReads ==
  /\ doing \in Rings /\ gpgRead = Unread
  /\ gpgRead' = disk[doing]
  /\ UNCHANGED <<disk, watchVars, init_step, initialized, ended, doing, cache, dirty, announced,
                 gpgFailures>>

Exits(ok) ==
  /\ doing # "none"
  /\ ok /\ doing \in Rings => gpgRead # Unread
  /\ ~ok => gpgFailures < MaxFailures
  /\ gpgFailures' = IF ok THEN gpgFailures ELSE gpgFailures + 1
  /\ gpgRead' = Unread

----------------------------------------------------------------------------
(* RingWatch: one directory, as both rings are in ~/.gnupg.                  *)

\* A file that does not exist has no canonical path, and is not watched.
add(r) ==
  IF disk[r] = 0 THEN UNCHANGED <<watched, seen>>
  ELSE watched' = watched \cup {r} /\ seen' = [seen EXCEPT ![r] = disk[r]]

dirChanged ==
  /\ noticed
  /\ noticed' = FALSE
  /\ timer' = TRUE
  /\ UNCHANGED <<disk, storeVars, watched, seen>>

(* handleDirtyRings(): what gpg is to do next, if it is idle.                *)
Rereads(rings) ==
  doing' = CASE "sec" \in rings -> "sec" [] rings = {"pub"} -> "pub" [] OTHER -> "none"

\* handleChanged(), and ring_changed() for every file that is not as it was.
changeList == {r \in watched : disk[r] # seen[r]}
handleChanged ==
  /\ timer
  /\ timer' = FALSE
  /\ seen' = [r \in Rings |-> IF r \in watched THEN disk[r] ELSE seen[r]]
  /\ dirty' = dirty \cup changeList
  /\ IF initialized /\ doing = "none" /\ changeList # {} THEN Rereads(dirty') ELSE doing' = doing
  /\ UNCHANGED <<disk, init_step, initialized, ended, gpgRead, cache, announced, gpgFailures,
                 watched, noticed>>

----------------------------------------------------------------------------
(* start(), and gpg_finished() until the store is there.                     *)

startStore ==
  /\ doing = "none" /\ ~ended
  /\ doing' = "check"
  /\ UNCHANGED <<disk, watchVars, init_step, initialized, ended, gpgRead, cache, dirty, announced,
                 gpgFailures>>

Gives(step, next) == init_step' = step /\ doing' = next /\ UNCHANGED <<initialized, ended, announced>>

\* Any failure ends the start, and the watch; no store is there.
init_fails ==
  /\ ~initialized /\ Exits(FALSE)
  /\ doing' = "none" /\ ended' = TRUE
  /\ watched' = {} /\ noticed' = FALSE /\ timer' = FALSE
  /\ UNCHANGED <<disk, init_step, initialized, cache, dirty, announced, seen>>

init_checked ==
  /\ ~initialized /\ init_step = 0 /\ Exits(TRUE)
  /\ Gives(1, "names")
  /\ UNCHANGED <<disk, watchVars, cache, dirty>>

init_named ==
  /\ ~initialized /\ init_step \in {1, 2} /\ Exits(TRUE)
  /\ IF init_step = 1 THEN add("sec") /\ Gives(2, "names") ELSE add("pub") /\ Gives(3, "sec")
  /\ UNCHANGED <<disk, noticed, timer, cache, dirty>>

init_secret ==
  /\ ~initialized /\ init_step = 3 /\ Exits(TRUE)
  /\ cache' = [cache EXCEPT !.sec = gpgRead]
  /\ Gives(4, "pub")
  /\ UNCHANGED <<disk, watchVars, dirty>>

init_public ==
  /\ ~initialized /\ init_step = 4 /\ Exits(TRUE)
  /\ cache' = [cache EXCEPT !.pub = gpgRead]
  /\ initialized' = TRUE /\ ended' = TRUE
  /\ announced' = cache'
  /\ Rereads(dirty)
  /\ UNCHANGED <<disk, watchVars, init_step, dirty>>

----------------------------------------------------------------------------
(* gpg_finished() afterwards.                                                *)

\* Mutant: the store is announced when there is more to read.
reread_finishedTooEarly ==
  /\ initialized /\ doing \in Rings /\ Exits(TRUE)
  /\ cache' = [cache EXCEPT ![doing] = gpgRead]
  /\ dirty' = dirty \ {doing}
  /\ announced' = IF dirty' = {} THEN announced ELSE cache'
  /\ Rereads(dirty')
  /\ UNCHANGED <<disk, watchVars, init_step, initialized, ended>>

\* The ring is clean now, though it may have changed since gpg has read it; when
\* both are, storeUpdated() is emitted.
reread_finished ==
  /\ initialized /\ doing \in Rings /\ Exits(TRUE)
  /\ cache' = [cache EXCEPT ![doing] = gpgRead]
  /\ dirty' = dirty \ {doing}
  /\ announced' = IF dirty' = {} THEN cache' ELSE announced
  /\ Rereads(dirty')
  /\ UNCHANGED <<disk, watchVars, init_step, initialized, ended>>

\* The ring stays dirty, until a change of either lets gpg try again.
reread_fails ==
  /\ initialized /\ Exits(FALSE)
  /\ doing' = "none"
  /\ UNCHANGED <<disk, watchVars, init_step, initialized, ended, cache, dirty, announced>>

RingNext ==
  \/ \E r \in Rings : Change(r)
  \/ GpgReads
  \/ dirChanged \/ handleChanged
  \/ startStore \/ init_fails \/ init_checked \/ init_named \/ init_secret \/ init_public
  \/ reread_finished \/ reread_fails

\* gpg ends, the event loop runs, and the system tells of changed directories.
RingFairness ==
  /\ WF_ringVars(GpgReads)
  /\ WF_ringVars(dirChanged) /\ WF_ringVars(handleChanged)
  /\ WF_ringVars(init_fails \/ init_checked \/ init_named \/ init_secret \/ init_public)
  /\ WF_ringVars(reread_finished \/ reread_fails)

RingSpec == RingInit /\ [][RingNext]_ringVars
RingFairSpec == RingSpec /\ RingFairness

----------------------------------------------------------------------------
RingTypeOK ==
  /\ disk \in [Rings -> 0 .. MaxVersion] /\ cache \in [Rings -> 0 .. MaxVersion]
  /\ doing \in {"none", "check", "names"} \cup Rings
  /\ gpgRead \in {Unread} \cup 0 .. MaxVersion
  /\ dirty \subseteq Rings /\ watched \subseteq Rings

\* What the store shows has been announced: keyStores() and storeUpdated() come
\* with the last copy that changes, and with no ring in between.  A ring that is
\* dirty is being read, or comes next, or gpg has failed.
RingsAreShown ==
  /\ RingTypeOK
  /\ initialized => ended
  /\ initialized /\ dirty = {} => announced = cache
  /\ initialized /\ dirty # {} => doing \in dirty \/ gpgFailures > 0

\* A change that is noticed while gpg does not read the ring is read.
ChangeIsRead ==
  \A r \in Rings, v \in 1 .. MaxVersion :
    (r \in dirty /\ seen[r] >= v /\ doing # r) ~> (cache[r] >= v \/ gpgFailures > 0)

\* The copies follow the files: however changes and reads overlap, what is in a
\* watched ring is shown at last.
RingsFollow ==
  \A r \in Rings, v \in 1 .. MaxVersion :
    (initialized /\ r \in watched /\ disk[r] >= v) ~> (cache[r] >= v \/ gpgFailures > 0)
=============================================================================
