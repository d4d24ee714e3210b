--------------------------- MODULE AbstractProgram ---------------------------
(***************************************************************************)
(* What likwid.startProgram, likwid.checkProgram and likwid.killProgram    *)
(* promise a Lua script: a program is launched, runs, and is over (it      *)
(* exited, could not be executed, or was killed); the flag checkProgram     *)
(* returns is raised at launch and lowered only once the program is over,  *)
(* and, when the program ends by itself, it is eventually lowered.         *)
(***************************************************************************)

VARIABLES
  prog,  \* "none", "running" or "over"
  flag   \* the value checkProgram returns (program_running)

vars == <<prog, flag>>

Init == prog = "none" /\ flag = 0

\* startProgram: the flag is raised and a program launched; if the launch
\* fails the program is over at once.  A script may launch again at any
\* time; from then on the flag is about the new program.
Launch ==
  /\ prog' \in {"running", "over"}
  /\ flag' = 1

\* The program ends by itself.
Finish ==
  /\ prog = "running"
  /\ prog' = "over"
  /\ UNCHANGED flag

\* The end of the program is reported to the script.
Report ==
  /\ prog = "over"
  /\ flag = 1
  /\ flag' = 0
  /\ UNCHANGED prog

\* killProgram: the program is over and the flag lowered.
Kill ==
  /\ prog' = "over"
  /\ flag' = 0

Next == Launch \/ Finish \/ Report \/ Kill

SafeSpec == Init /\ [][Next]_vars

\* The script is eventually told of the end of its program.
Spec == SafeSpec /\ WF_vars(Report)

=============================================================================
