----------------------------- MODULE FileWatch -----------------------------
(* class FileWatch of src/support/dirwatch.cpp: it watches a file and, to    *)
(* see it come back, the file's directory.  Qt's watcher is told of paths,   *)
(* but what it watches is the file that has the name at that moment: it      *)
(* forgets a file that is deleted, and its signals are queued.  Meanwhile    *)
(* the file may be written, deleted and created.                             *)
EXTENDS Naturals, Sequences

CONSTANTS
  MaxChanges, MaxFiles,  \* bounds: changes of the file; files of that name
  MaxStarts              \* bound: calls of start()

VARIABLES
  now,         \* the file there is: a number, or 0; and the version of what it says
  version,
  files,       \* the files there have been
  watcher,     \* the file that the watcher watches, or 0
  queued,      \* its signals: "dir", "file"
  fileExisted,
  pc,          \* where start() or dir_changed() is: between two looks at the file
  known,       \* the version when the watch was set, or when changed() was emitted
  raced,       \* the file came or went between two looks at it
  starts

watchVars == <<now, version, files, watcher, queued, fileExisted, pc, known, raced, starts>>

FileExists == now # 0
addPath == watcher' = IF watcher = 0 THEN now ELSE watcher

-----------------------------------------------------------------------------
(* setFileName(): stop(), with which what is queued goes, and start(): the   *)
(* file is watched, then looked at.                                          *)
start ==
  /\ pc = "idle" /\ starts < MaxStarts
  /\ watcher' = now /\ queued' = <<>>
  /\ known' = version
  /\ raced' = FALSE
  /\ starts' = starts + 1
  /\ pc' = "start"
  /\ UNCHANGED <<now, version, files, fileExisted>>

start_exists ==
  /\ pc = "start"
  /\ fileExisted' = FileExists
  /\ pc' = "idle"
  /\ UNCHANGED <<now, version, files, watcher, queued, known, raced, starts>>

(* The file is there that was not: it is watched, and changed().             *)
dir_changed ==
  /\ pc = "idle" /\ queued # <<>> /\ Head(queued) = "dir"
  /\ queued' = Tail(queued)
  /\ IF FileExists /\ ~fileExisted
     THEN fileExisted' = TRUE /\ pc' = "created"
     ELSE UNCHANGED <<fileExisted, pc>>
  /\ UNCHANGED <<now, version, files, watcher, known, raced, starts>>

dir_changed_add ==
  /\ pc = "created"
  /\ addPath
  /\ known' = version
  /\ pc' = "idle"
  /\ UNCHANGED <<now, version, files, queued, fileExisted, raced, starts>>

file_changed ==
  /\ pc = "idle" /\ queued # <<>> /\ Head(queued) = "file"
  /\ queued' = Tail(queued)
  /\ fileExisted' = (fileExisted /\ FileExists)
  /\ known' = version
  /\ UNCHANGED <<now, version, files, watcher, pc, raced, starts>>

-----------------------------------------------------------------------------
(* Whoever writes, deletes and creates the file.  What comes or goes while   *)
(* the handler is between two looks, or while an earlier coming or going is  *)
(* still queued, is a race that FileWatch may lose; Qt may tell of the file and of the     *)
(* directory in either order.                                                *)

Signals(s) == queued' = queued \o s
Races == raced' = (raced \/ pc # "idle" \/ queued # <<>>)

Write ==
  /\ FileExists /\ version < MaxChanges
  /\ version' = version + 1
  /\ Signals(IF watcher = now THEN <<"file">> ELSE <<>>)
  /\ UNCHANGED <<now, files, watcher, fileExisted, pc, known, raced, starts>>

Delete ==
  /\ FileExists /\ version < MaxChanges
  /\ now' = 0 /\ version' = version + 1
  /\ watcher' = IF watcher = now THEN 0 ELSE watcher
  /\ \E both \in {<<"file", "dir">>, <<"dir", "file">>} :
       Signals(IF watcher = now THEN both ELSE <<"dir">>)
  /\ Races
  /\ UNCHANGED <<files, fileExisted, pc, known, starts>>

Create ==
  /\ ~FileExists /\ version < MaxChanges /\ files < MaxFiles
  /\ files' = files + 1 /\ now' = files + 1 /\ version' = version + 1
  /\ Signals(<<"dir">>)
  /\ Races
  /\ UNCHANGED <<watcher, fileExisted, pc, known, starts>>

-----------------------------------------------------------------------------
Init ==
  /\ now \in {0, 1} /\ files = now /\ version = 0
  /\ watcher = 0 /\ queued = <<>> /\ fileExisted = FALSE
  /\ pc = "idle" /\ known = 0 /\ raced = FALSE /\ starts = 0

Handles == start_exists \/ dir_changed \/ dir_changed_add \/ file_changed
Changes == Write \/ Delete \/ Create
Next == start \/ Handles \/ Changes

Fairness == WF_watchVars(Handles)

-----------------------------------------------------------------------------
(* Once the signals have been handled, FileWatch knows whether the file is   *)
(* there, and watches the very file that is; unless there has been a race.   *)
WatchesTheFile ==
  starts > 0 /\ ~raced /\ pc = "idle" /\ queued = <<>> =>
    /\ fileExisted = FileExists
    /\ watcher = now

(* Every change of the file that is made after start() has set its watch is  *)
(* told by a changed() that comes after it; unless there has been a race.    *)
ChangeIsTold ==
  /\ []WatchesTheFile
  /\ []<>(starts > 0 => version = known \/ raced)
=============================================================================
