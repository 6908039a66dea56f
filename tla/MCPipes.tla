------------------------------ MODULE MCPipes ------------------------------
(* What reads and writes pipes: GPGProc with one channel of the process and   *)
(* one that is a pipe; and Console with two prompts.  They have nothing to do *)
(* with each other: one moves while the other is as it was created.           *)
EXTENDS GPGProc, Console

PipesInit == Init /\ ConsoleInit
PipesNext ==
  \/ ConsoleInit /\ Next /\ UNCHANGED consoleVars
  \/ Init /\ ConsoleNext /\ UNCHANGED vars

PipesSpec ==
  PipesInit /\ [][PipesNext]_<<vars, consoleVars>> /\ LoopFairness /\ ConsoleFairness

\* When gpg or the input of a prompt is at its end, the program is told.
EndsAreTold == EndIsTold /\ PromptEnds
=============================================================================
