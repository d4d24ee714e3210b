------------------------------ MODULE LuaProgram ------------------------------
(***************************************************************************)
(* The program launcher of the Lua bindings (src/src/luawid.c): the       *)
(* parent interpreter running lua_likwid_startProgram, checkProgram and   *)
(* killProgram, the children it forks, and the SIGCHLD and SIGINT signals *)
(* between them.                                                           *)
(*                                                                         *)
(* The parent and every child are processes that the kernel interleaves   *)
(* freely.  A standard signal does not queue: SIGCHLD is kept as one       *)
(* pending bit.  While the parent has no handler for SIGCHLD its default   *)
(* disposition is to ignore it, so a SIGCHLD generated then is discarded.  *)
(* The Lua script that calls these functions is not part of the source;   *)
(* its calls are free choices of the model.                                *)
(***************************************************************************)
EXTENDS Naturals, FiniteSets, Sequences

SeqExt == INSTANCE SequencesExt

CONSTANTS
  MaxStarts,  \* bound on startProgram calls
  MaxSigint,  \* bound on SIGINTs sent from the terminal
  MaxLineLen  \* bound on the length of the command lines parse() is given

ASSUME MaxStarts \in Nat \ {0} /\ MaxSigint \in Nat /\ MaxLineLen \in Nat

Starts == 1 .. MaxStarts

\* Life of a child: not forked; forked, before execvp ("pre": pinning and
\* timer_sleep(10)); running the program; execvp failed; returned from
\* startProgram into the Lua interpreter; terminated.  "nofork" marks a
\* startProgram whose fork failed.
ChildStates == {"none", "nofork", "pre", "prog", "execfail", "lua", "dead"}
Alive == {"pre", "prog", "execfail", "lua"}

VARIABLES
  program_running, \* program_running
  handler,         \* catch_sigchild installed for SIGCHLD in the parent
  parent,          \* "lua" (in the script), "forked" (between fork and signal()), "dead"
  child,           \* child[k]: the process forked by the k-th startProgram
  n,               \* number of startProgram calls so far
  sigPending,      \* SIGCHLD pending for the parent
  sigintCaught,    \* signal_catcher installed for SIGINT
  recv_sigint,     \* recv_sigint
  sigints,         \* SIGINTs sent so far (model bound)
  seen,            \* the value the last checkProgram returned
  killed,          \* ghost: starts whose child killProgram targeted
  lost,            \* ghost: a SIGCHLD was discarded for want of a handler
  cmd,             \* cmd[k]: the command line (exec) of the k-th startProgram
  catching         \* starts whose child was forked with signal_catcher for SIGINT

vars == <<program_running, handler, parent, child, n, sigPending, sigintCaught,
          recv_sigint, sigints, seen, killed, lost, cmd, catching>>

-----------------------------------------------------------------------------

\* The kernel sends SIGCHLD to the parent: it becomes pending if the parent
\* catches it and is discarded otherwise.
GenerateSigchld ==
  IF handler
  THEN sigPending' = TRUE /\ UNCHANGED lost
  ELSE lost' = TRUE /\ UNCHANGED sigPending

\* catch_sigchild: the value the handler stores in program_running.
CatchSigchildDecrement == program_running - 1
CatchSigchild == 0

\* lua_likwid_checkProgram
CheckProgramResult == program_running

(* parse(exec, argv): startProgram splits its command line into the argv  *)
(* it hands to execvp.  A line is a sequence of characters; one letter    *)
(* stands for every character that is not a blank.                       *)

Blank == {" ", "\t", "\n"}
CmdLines == UNION {[1 .. k -> {"a", " ", "\t"}] : k \in 0 .. MaxLineLen}

Drop(l, k) == SubSeq(l, k + 1, Len(l))

\* while (*line == ' ' || ...) *line++ = '\0';
RECURSIVE SkipBlanks(_)
SkipBlanks(l) == IF l # <<>> /\ Head(l) \in Blank THEN SkipBlanks(Tail(l)) ELSE l

\* The argument starting at l: the same loop stopping at ' ' only.
RECURSIVE ArgAtSpaceOnly(_)
ArgAtSpaceOnly(l) ==
  IF l = <<>> \/ Head(l) = " " THEN <<>> ELSE <<Head(l)>> \o ArgAtSpaceOnly(Tail(l))

\* The argument starting at l: characters up to the next blank or the end.
RECURSIVE ArgAt(_)
ArgAt(l) ==
  IF l = <<>> \/ Head(l) \in Blank THEN <<>> ELSE <<Head(l)>> \o ArgAt(Tail(l))

\* The outer loop: while not at the end, skip blanks, save the position as
\* the next argument (the end of the line, if only blanks were left) and
\* skip the argument.  The terminating NULL is left out.
RECURSIVE Parse(_)
Parse(l) ==
  IF l = <<>> THEN <<>>
  ELSE LET rest == SkipBlanks(l)
       IN  <<ArgAt(rest)>> \o Parse(Drop(rest, Len(ArgAt(rest))))

\* Reference: the words of l, its maximal runs of non-blank characters,
\* from left to right.
Words(l) ==
  LET NonBlank(i, j) == \A m \in i .. j : l[m] \notin Blank
      IsWord(i, j) ==
        /\ i <= j /\ NonBlank(i, j)
        /\ i = 1 \/ l[i - 1] \in Blank
        /\ j = Len(l) \/ l[j + 1] \in Blank
      spans == {<<i, j>> \in (1 .. Len(l)) \X (1 .. Len(l)) : IsWord(i, j)}
      order == SeqExt!SetToSortSeq(spans, LAMBDA x, y : x[1] < y[1])
  IN  [w \in 1 .. Len(order) |-> SubSeq(l, order[w][1], order[w][2])]

-----------------------------------------------------------------------------

\* lua_likwid_startProgram, up to fork: program_running is set, then the
\* fork either fails (startProgram returns 0 with program_running still 1)
\* or creates the child; the parent goes on to install the handler.
StartProgram ==
  /\ parent = "lua"
  /\ n < MaxStarts
  /\ \E line \in CmdLines : cmd' = [cmd EXCEPT ![n + 1] = line]
  /\ program_running' = 1
  /\ n' = n + 1
  /\ \/ child' = [child EXCEPT ![n + 1] = "nofork"] /\ UNCHANGED <<parent, catching>>
     \/ /\ child' = [child EXCEPT ![n + 1] = "pre"]
        /\ parent' = "forked"
        /\ catching' = IF sigintCaught THEN catching \cup {n + 1} ELSE catching
  /\ UNCHANGED <<handler, sigPending, sigintCaught, recv_sigint, sigints, seen,
                 killed, lost>>

\* The rest of startProgram in the parent: signal(SIGCHLD, catch_sigchild)
\* and return the pid.
InstallHandler ==
  /\ parent = "forked"
  /\ handler' = TRUE
  /\ parent' = "lua"
  /\ UNCHANGED <<cmd, catching, program_running, child, n, sigPending, sigintCaught, recv_sigint,
                 sigints, seen, killed, lost>>

\* The child pins itself, calls timer_sleep(10) and execvp(*argv, argv)
\* with argv = parse(exec).  On an empty line *argv is NULL and glibc's
\* execvp faults reading the name: the child dies and the kernel sends
\* SIGCHLD.  Otherwise the program image replaces the child, or execvp
\* returns -1; it always does for the empty name of a line of blanks.
ChildExec(k) ==
  LET argv == Parse(cmd[k])
  IN
  /\ child[k] = "pre"
  /\ \/ /\ argv = <<>>
        /\ child' = [child EXCEPT ![k] = "dead"]
        /\ GenerateSigchld
     \/ /\ argv # <<>>
        /\ child' \in {[child EXCEPT ![k] = "execfail"]}
                     \cup {[child EXCEPT ![k] = "prog"] : x \in {argv[1]} \ {<<>>}}
        /\ UNCHANGED <<sigPending, lost>>
  /\ UNCHANGED <<cmd, catching, program_running, handler, parent, n, sigintCaught,
                 recv_sigint, sigints, seen, killed>>

\* A variant of the failure path that returns without telling the parent.
ChildExecFailSilent(k) ==
  /\ child[k] = "execfail"
  /\ child' = [child EXCEPT ![k] = "lua"]
  /\ UNCHANGED <<cmd, catching, program_running, handler, parent, n, sigPending, sigintCaught,
                 recv_sigint, sigints, seen, killed, lost>>

\* After a failed execvp: kill(ppid, SIGCHLD), then return 0 from
\* startProgram into the child's copy of the Lua interpreter.
ChildExecFail(k) ==
  /\ child[k] = "execfail"
  /\ child' = [child EXCEPT ![k] = "lua"]
  /\ GenerateSigchld
  /\ UNCHANGED <<cmd, catching, program_running, handler, parent, n, sigintCaught, recv_sigint,
                 sigints, seen, killed>>

\* The program, or the child's interpreter, exits; the kernel sends
\* SIGCHLD to the parent.
ChildExit(k) ==
  /\ child[k] \in {"prog", "lua"}
  /\ child' = [child EXCEPT ![k] = "dead"]
  /\ GenerateSigchld
  /\ UNCHANGED <<cmd, catching, program_running, handler, parent, n, sigintCaught, recv_sigint,
                 sigints, seen, killed>>

\* The kernel runs catch_sigchild in the parent for a pending SIGCHLD.
DeliverSigchld ==
  /\ sigPending
  /\ parent # "dead"
  /\ sigPending' = FALSE
  /\ program_running' = CatchSigchild
  /\ UNCHANGED <<cmd, catching, handler, parent, child, n, sigintCaught, recv_sigint, sigints,
                 seen, killed, lost>>

\* lua_likwid_checkProgram
CheckProgram ==
  /\ parent = "lua"
  /\ seen' = CheckProgramResult
  /\ UNCHANGED <<cmd, catching, program_running, handler, parent, child, n, sigPending,
                 sigintCaught, recv_sigint, sigints, killed, lost>>

\* lua_likwid_killProgram(pid) with the pid of the last start: SIGTERM
\* ends the child (a child that already ended is unaffected), then
\* program_running is cleared.  After a failed fork startProgram returned
\* no pid, lua_tonumber gives 0, and kill(0, SIGTERM) reaches the whole
\* process group: the interpreter and every live child end.
KillProgram ==
  /\ parent = "lua"
  /\ n > 0
  /\ killed' = killed \cup {n}
  /\ IF child[n] = "nofork"
     THEN /\ parent' = "dead"
          /\ child' = [k \in Starts |-> IF child[k] \in Alive THEN "dead" ELSE child[k]]
          /\ UNCHANGED <<program_running, sigPending, lost>>
     ELSE /\ program_running' = 0
          /\ UNCHANGED parent
          /\ IF child[n] \in Alive
             THEN child' = [child EXCEPT ![n] = "dead"] /\ GenerateSigchld
             ELSE UNCHANGED <<child, sigPending, lost>>
  /\ UNCHANGED <<cmd, catching, handler, n, sigintCaught, recv_sigint, sigints, seen>>

\* lua_likwid_catch_signal: signal(SIGINT, signal_catcher).
CatchSignal ==
  /\ parent = "lua"
  /\ sigintCaught' = TRUE
  /\ UNCHANGED <<cmd, catching, program_running, handler, parent, child, n, sigPending,
                 recv_sigint, sigints, seen, killed, lost>>

\* Ctrl-C sends SIGINT to the foreground process group: signal_catcher
\* counts it in the parent, or the default action ends the parent.  A
\* child forked after catch_signal keeps signal_catcher until execvp
\* replaces its image, and in its copy of the interpreter after a failed
\* execvp; every other live child ends (default action), each sending
\* SIGCHLD.
Sigint ==
  LET ending == {k \in Starts : child[k] \in Alive /\
                   ~(k \in catching /\ child[k] \in {"pre", "execfail", "lua"})}
  IN
  /\ sigints < MaxSigint
  /\ sigints' = sigints + 1
  /\ IF sigintCaught /\ parent # "dead"
     THEN recv_sigint' = recv_sigint + 1 /\ UNCHANGED parent
     ELSE parent' = "dead" /\ UNCHANGED recv_sigint
  /\ child' = [k \in Starts |-> IF k \in ending THEN "dead" ELSE child[k]]
  /\ IF ending # {} THEN GenerateSigchld ELSE UNCHANGED <<sigPending, lost>>
  /\ UNCHANGED <<cmd, catching, program_running, handler, n, sigintCaught, seen, killed>>

-----------------------------------------------------------------------------

Init ==
  /\ program_running = 0
  /\ handler = FALSE
  /\ parent = "lua"
  /\ child = [k \in Starts |-> "none"]
  /\ n = 0
  /\ sigPending = FALSE
  /\ sigintCaught = FALSE
  /\ recv_sigint = 0
  /\ sigints = 0
  /\ seen = 0
  /\ killed = {}
  /\ lost = FALSE
  /\ cmd = [k \in Starts |-> <<>>]
  /\ catching = {}

Next ==
  \/ StartProgram
  \/ InstallHandler
  \/ \E k \in Starts : ChildExec(k) \/ ChildExecFail(k) \/ ChildExit(k)
  \/ DeliverSigchld
  \/ CheckProgram
  \/ KillProgram
  \/ CatchSignal
  \/ Sigint

\* The kernel keeps scheduling the parent and the children and delivers a
\* pending signal; whether a program ends, and what the script calls, is
\* left unconstrained.
Fairness ==
  /\ WF_vars(InstallHandler)
  /\ WF_vars(DeliverSigchld)
  /\ \A k \in Starts : WF_vars(ChildExec(k)) /\ WF_vars(ChildExecFail(k))

Spec == Init /\ [][Next]_vars /\ Fairness

-----------------------------------------------------------------------------
(* Properties.                                                             *)

TypeOK ==
  /\ program_running \in {0, 1}
  /\ handler \in BOOLEAN
  /\ parent \in {"lua", "forked", "dead"}
  /\ child \in [Starts -> ChildStates]
  /\ n \in 0 .. MaxStarts
  /\ sigPending \in BOOLEAN
  /\ sigintCaught \in BOOLEAN
  /\ recv_sigint \in 0 .. MaxSigint
  /\ sigints \in 0 .. MaxSigint
  /\ seen \in {0, 1}
  /\ killed \subseteq Starts
  /\ lost \in BOOLEAN
  /\ cmd \in [Starts -> CmdLines]
  /\ catching \subseteq Starts

\* The launch as the script sees it: the last start's program.
ProgOf ==
  CASE n = 0                        -> "none"
    [] child[n] \in {"pre", "prog"} -> "running"
    [] OTHER                        -> "over"

\* The flag as the script sees it: an interpreter that has ended calls
\* checkProgram no more.
FlagOf == IF parent = "dead" THEN 0 ELSE program_running

\* Refinement: startProgram, checkProgram and killProgram implement the
\* promise of AbstractProgram, with the last start's child as the program
\* and program_running, while the interpreter lives, as the flag.

Abs == INSTANCE AbstractProgram WITH prog <- ProgOf, flag <- FlagOf

(* checkProgram eventually reports the end of a program that failed to    *)
(* execute or exited by itself (and was not killed), unless its SIGCHLD    *)
(* was discarded before startProgram installed catch_sigchild or the      *)
(* parent interpreter itself ended.                                        *)
ExitReportedOrLost ==
  \A k \in Starts :
    (n = k /\ child[k] \in {"lua", "dead"} /\ k \notin killed)
      ~> (program_running = 0 \/ lost \/ parent = "dead" \/ n > k)

(* checkProgram eventually reports the end of a program that failed to    *)
(* execute or exited by itself and was not killed, while the parent       *)
(* interpreter lives.                                                      *)
ExitReported ==
  \A k \in Starts :
    (n = k /\ child[k] \in {"lua", "dead"} /\ k \notin killed)
      ~> (program_running = 0 \/ parent = "dead" \/ n > k)

(* While the child of the last start is still to run or running its        *)
(* program and was not killed, checkProgram says it is running.            *)
NoFalseFinish ==
  n > 0 /\ child[n] \in {"pre", "prog"} /\ n \notin killed => CheckProgramResult = 1

(* AbstractProgram's full promise: the end of a program is eventually      *)
(* reported by checkProgram.                                               *)
AbsLive == Abs!Spec

(* parse() gives execvp the words of each command line startProgram was  *)
(* called with, in order, as its non-empty arguments: every blank (space, *)
(* tab, newline) separates two arguments and none ends up inside one.     *)
ParseSplitsWords ==
  \A k \in 1 .. n : SelectSeq(Parse(cmd[k]), LAMBDA a : a # <<>>) = Words(cmd[k])

(* parse() gives execvp exactly the words of each command line: no empty  *)
(* argument besides them.                                                  *)
ParseGivesWords == \A k \in 1 .. n : Parse(cmd[k]) = Words(cmd[k])

=============================================================================
