----------------------------- MODULE SumDaemon -----------------------------
(***************************************************************************)
(* The daemons of src/Lab1 once they run: the parent sends 1, 2, 3, ... to *)
(* its child through pipe1 and reads the running sum from pipe2, once a    *)
(* second, until it is told to stop.  lab1_task1.c stops after ten rounds  *)
(* and leaves without a word.  lab1_source_code.c (and its twin            *)
(* lab1sourcecode.c) never blocks and watches for a child that is silent;  *)
(* lab1_task2.c blocks in read() and closes its pipes before it waits for  *)
(* the child.  The child has the parent's handler for SIGTERM, which only  *)
(* clears a flag that the child never looks at.                            *)
(***************************************************************************)
EXTENDS Integers, Sequences

CONSTANTS
  Versions,  \* the programs: "lab1_source_code", "lab1_task2", "lab1_task1"
  Timeout,   \* seconds without a sum, 5 in the code
  PipeCap,   \* numbers that fit into pipe1
  Rounds,    \* of lab1_task1, 10 in the code
  MaxNum,    \* bound: the parent is told to stop before it sends more
  Faults     \* "pause": the child is stopped and continued; "kill": it is
             \* killed; "orphan": the parent is

ASSUME SumAssumption ==
  /\ Versions \subseteq {"lab1_source_code", "lab1_task2", "lab1_task1"}
  /\ Timeout \in Nat \ {0} /\ PipeCap \in Nat \ {0} /\ Rounds \in Nat \ {0} /\ MaxNum \in Nat \ {0}
  /\ Faults \subseteq {"pause", "kill", "orphan"}

VARIABLES
  version,    \* the program that runs
  running,    \* the flag SIGTERM clears
  parent,     \* "write", "read", "cleanup", "wait", "exited", "killed"
  num, silent,\* the number to send, seconds from the last sum to the next check
  received,   \* history: the sums read so far, and the last of them
  lastSum,
  pipe1, pipe2,
  writeEnd,   \* the parent's end of pipe1 is open
  readEnd,    \* and of pipe2
  child,      \* "runs", "paused" or "gone"
  sum

parentVars == <<version, running, parent, num, silent, received, lastSum, writeEnd, readEnd>>
sumVars == <<parentVars, pipe1, pipe2, child, sum>>

Watching == version = "lab1_source_code"
Limit == IF version = "lab1_task1" THEN Rounds ELSE MaxNum
Ended == parent \in {"exited", "killed"}

SumInit ==
  /\ version \in Versions
  /\ running = TRUE /\ parent = "write" /\ num = 1 /\ silent = 0
  /\ received = 0 /\ lastSum = 0
  /\ pipe1 = <<>> /\ pipe2 = <<>> /\ writeEnd = TRUE /\ readEnd = TRUE
  /\ child = "runs" /\ sum = 0

-----------------------------------------------------------------------------
(* The parent *)

\* The kernel closes its ends of the pipes.
ParentEnds(how) ==
  /\ parent' = how /\ writeEnd' = FALSE /\ readEnd' = FALSE
  /\ UNCHANGED <<version, num, silent, received, lastSum, pipe1, pipe2, child, sum>>

\* handle_term, at any point; lab1_task1 has no handler.
Sigterm ==
  /\ running /\ ~Ended
  /\ running' = FALSE
  /\ IF version = "lab1_task1" THEN ParentEnds("killed")
     ELSE UNCHANGED <<version, parent, num, silent, received, lastSum, writeEnd, readEnd, pipe1, pipe2, child, sum>>

LoopEnds ==
  /\ parent = "write" /\ ~running
  /\ parent' = "cleanup"
  /\ UNCHANGED <<version, running, num, silent, received, lastSum, writeEnd, readEnd, pipe1, pipe2, child, sum>>

\* lab1_task1 does not close, kill or wait.
RoundsEnd ==
  /\ version = "lab1_task1" /\ parent = "write" /\ num > Rounds
  /\ running' = running /\ ParentEnds("exited")

\* Slip to be caught: the number is counted although the pipe was full.
WriteCounts ==
  /\ parent = "write" /\ running /\ num <= Limit /\ child # "gone"
  /\ num' = num + 1 /\ parent' = "read"
  /\ pipe1' = IF Len(pipe1) < PipeCap THEN Append(pipe1, num) ELSE pipe1
  /\ UNCHANGED <<version, running, silent, received, lastSum, writeEnd, readEnd, pipe2, child, sum>>

\* A full pipe makes the one version try again a second later and the other
\* wait.
Write ==
  /\ parent = "write" /\ running /\ num <= Limit /\ child # "gone"
  /\ IF Len(pipe1) < PipeCap
       THEN num' = num + 1 /\ pipe1' = Append(pipe1, num)
       ELSE Watching /\ UNCHANGED <<num, pipe1>>
  /\ parent' = "read"
  /\ UNCHANGED <<version, running, silent, received, lastSum, writeEnd, readEnd, pipe2, child, sum>>

\* Nobody can read what is written: SIGPIPE.
WriteKills ==
  /\ parent = "write" /\ running /\ child = "gone"
  /\ version = "lab1_task1" => num <= Rounds
  /\ running' = running /\ ParentEnds("killed")

ReadSum ==
  /\ parent = "read" /\ pipe2 # <<>>
  /\ lastSum' = Head(pipe2) /\ pipe2' = Tail(pipe2)
  /\ received' = received + 1 /\ silent' = 1
  /\ parent' = "write"
  /\ UNCHANGED <<version, running, num, writeEnd, readEnd, pipe1, child, sum>>

\* Nothing to read: the watching version counts the second, and gives up when
\* they are too many; the other comes back only at the end of the file.
ReadNothing ==
  /\ parent = "read" /\ pipe2 = <<>> /\ (Watching \/ child = "gone")
  /\ parent' = IF Watching /\ silent > Timeout THEN "cleanup" ELSE "write"
  /\ silent' = IF Watching /\ silent <= Timeout THEN silent + 1 ELSE silent
  /\ UNCHANGED <<version, running, num, received, lastSum, writeEnd, readEnd, pipe1, pipe2, child, sum>>

\* The SIGTERM sent to the child changes nothing.  lab1_task2 closes its pipes.
Cleanup ==
  /\ parent = "cleanup"
  /\ parent' = "wait"
  /\ writeEnd' = Watching /\ readEnd' = Watching
  /\ UNCHANGED <<version, running, num, silent, received, lastSum, pipe1, pipe2, child, sum>>

\* waitpid() returns; then the pid file goes and the parent exits.
Waitpid ==
  /\ parent = "wait" /\ child = "gone"
  /\ running' = running /\ ParentEnds("exited")

KillParent ==
  /\ "orphan" \in Faults /\ ~Ended
  /\ running' = running /\ ParentEnds("killed")

-----------------------------------------------------------------------------
(* The child *)

ChildIs(state) == child' = state /\ UNCHANGED <<parentVars, pipe1, pipe2, sum>>

\* A number is added and the sum sent back; if nobody can read it: SIGPIPE.
Add ==
  /\ child = "runs" /\ pipe1 # <<>>
  /\ pipe1' = Tail(pipe1) /\ sum' = sum + Head(pipe1)
  /\ IF readEnd THEN pipe2' = Append(pipe2, sum') /\ child' = child
                ELSE child' = "gone" /\ pipe2' = pipe2
  /\ UNCHANGED parentVars

\* Slip to be caught: the end of file is taken for an empty pipe.
EofIgnored == child = "runs" /\ pipe1 = <<>> /\ ~writeEnd /\ ChildIs("runs")

Eof == child = "runs" /\ pipe1 = <<>> /\ ~writeEnd /\ ChildIs("gone")

Pause    == "pause" \in Faults /\ child = "runs" /\ ChildIs("paused")
Continue == child = "paused" /\ ChildIs("runs")
Kill     == "kill" \in Faults /\ child # "gone" /\ ChildIs("gone")

Parent == LoopEnds \/ RoundsEnd \/ Write \/ WriteKills \/ ReadSum \/ ReadNothing \/ Cleanup \/ Waitpid
Child == Add \/ Eof
SumNext == Parent \/ Child \/ Sigterm \/ KillParent \/ Pause \/ Continue \/ Kill

\* Both processes run when they can, and a child that is paused goes on.
SumSpec == SumInit /\ [][SumNext]_sumVars /\ WF_sumVars(Parent) /\ SF_sumVars(Child) /\ WF_sumVars(Continue)

-----------------------------------------------------------------------------
(* Properties *)

\* Types; the seconds without a sum and the two pipes keep within their limits.
SumTypeOK ==
  /\ version \in Versions /\ running \in BOOLEAN /\ writeEnd \in BOOLEAN /\ readEnd \in BOOLEAN
  /\ parent \in {"write", "read", "cleanup", "wait", "exited", "killed"}
  /\ num \in 1 .. Limit + 1 /\ silent \in 0 .. Timeout + 1
  /\ received \in 0 .. Limit /\ lastSum \in Nat /\ sum \in Nat
  /\ pipe1 \in Seq(1 .. Limit) /\ Len(pipe1) <= PipeCap
  /\ pipe2 \in Seq(Nat) /\ Len(pipe2) <= Limit
  /\ child \in {"runs", "paused", "gone"}

Triangular(n) == (n * (n + 1)) \div 2

\* The n-th sum the parent reads is 1 + 2 + ... + n, whichever writes found the
\* pipe full and however long the child was stopped: nothing on its way is
\* lost, counted twice or out of order.  A parent that blocks reads the answer
\* to a number before it sends the next, as long as there is a child.
SumsAreRight ==
  /\ SumTypeOK
  /\ lastSum = Triangular(received)
  /\ \A i \in 1 .. Len(pipe2) : pipe2[i] = Triangular(received + i)
  /\ ~Watching /\ parent = "write" /\ child # "gone" => received = num - 1

\* The strengthening that makes it inductive: while there is a child, every
\* number that was written is in pipe1, or its sum in pipe2 or read; the parent
\* that blocks in read() waits for one sum.
FlowInv ==
  /\ received + Len(pipe2) <= num - 1
  /\ child # "gone" =>
       /\ received + Len(pipe2) + Len(pipe1) = num - 1
       /\ \A i \in 1 .. Len(pipe1) : pipe1[i] = received + Len(pipe2) + i
       /\ sum = Triangular(received + Len(pipe2))
       /\ ~Watching /\ parent = "read" => received = num - 2
SumInv == SumsAreRight /\ FlowInv

\* A daemon of lab1_task2.c that is told to stop ends, which "Daemon stopped
\* cleanly" promises, as it closes its pipes first: neither of the two waits for
\* the other.  One of lab1_source_code.c does so only once its child has gone,
\* and one of lab1_task1.c need not be told.
DaemonStops ==
  version = "lab1_task1" \/ (~running /\ (~Watching \/ child = "gone")) ~> Ended

\* No child outlives its parent.
NoOrphan == Ended ~> child = "gone"
=============================================================================
