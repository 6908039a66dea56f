----------------------------- MODULE MCSupport -----------------------------
(* Classes of src/support, and what the GnuPG plugin does with its pipes and *)
(* files.                                                                    *)
(*   SyncThread with three calling threads: one can hold the call mutex, one *)
(*   wait for it and one be on its way.                                      *)
(*   QPipe with buffers that are small against the number of bytes, so that  *)
(*   each is filled more than once.                                          *)
(*   FileWatch, of a file that comes and goes more than once.                *)
(*   SecureMessage, with one or two short operations, and KeyRing.           *)
(* Each stands for what is below it by itself: one moves while the others    *)
(* are as they were created.                                                 *)
EXTENDS SyncThread, QPipe, KeyRing, SecureMessage

CONSTANTS c1, c2, c3,
          MaxChanges, MaxFiles, MaxStarts

VARIABLES
  now, version, files, watcher, queued, fileExisted, watching, known, raced, starts

fileVars == <<now, version, files, watcher, queued, fileExisted, watching, known, raced, starts>>

FW == INSTANCE FileWatch WITH pc <- watching

\* The parts: where each begins, what it does, what it has.
Still(moving) ==
  /\ moving # "thread" => Init /\ UNCHANGED vars
  /\ moving # "pipe" => PipeInit /\ UNCHANGED pipeVars
  /\ moving # "watch" => FW!Init /\ now = 0 /\ UNCHANGED fileVars
  /\ moving # "message" => MessageInit /\ UNCHANGED messageVars
  /\ moving # "rings" => RingInit /\ UNCHANGED ringVars

SupportInit == Init /\ PipeInit /\ FW!Init /\ MessageInit /\ RingInit
SupportNext ==
  \/ Still("thread") /\ Next
  \/ Still("pipe") /\ PipeNext
  \/ Still("watch") /\ FW!Next
  \/ Still("message") /\ MessageNext
  \/ Still("rings") /\ RingNext

SupportSpec ==
  /\ SupportInit /\ [][SupportNext]_<<vars, pipeVars, fileVars, messageVars, ringVars>>
  /\ Fairness /\ LoopFairness /\ FW!Fairness /\ MessageFairness /\ RingFairness

\* Every call returns, every operation on a message ends and its result stands,
\* every byte arrives, every change of the file is told, and one of a ring that is
\* noticed while the ring is not being read is read.
NothingIsMissed ==
  /\ AllReturn /\ AllArrives /\ FW!ChangeIsTold
  /\ CallsEnd /\ ResultStands /\ ChangeIsRead
=============================================================================
