---------------------------- MODULE StaticRender ---------------------------
(***************************************************************************)
(* The renderers of src/Lab5/task4-con and task4: the master waits for all *)
(* workers and gives each an equal part of the rows.  In task4-con it then *)
(* takes the results in the order of the workers; a part that does not     *)
(* come is reported and skipped, and the image is written all the same.    *)
(* In task4 the workers print their tasks, and the master ends.            *)
(***************************************************************************)
EXTENDS Integers, FiniteSets, FiniteSetsExt

CONSTANTS
  MAX_WORKERS,  \* as in the code, 3
  Height,       \* rows of the image, 600 in the code
  Faults        \* "die": a worker may end or lose its connection; "hang": it
                \* may stop answering

ASSUME StaticAssumption ==
  /\ MAX_WORKERS \in Nat \ {0} /\ Height \in Nat \ {0}
  /\ Height % MAX_WORKERS = 0 /\ Faults \subseteq {"die", "hang"}

Workers == 0 .. MAX_WORKERS - 1
Rows == 0 .. Height - 1
Garbage == -1   \* what malloc() returns
None == -1      \* no task

\* i * (height / MAX_WORKERS), and as many rows
Share(i) == LET n == Height \div MAX_WORKERS IN i * n .. i * n + n - 1

VARIABLES
  version,  \* "task4" or "task4-con"
  master,   \* "accept", "send", "receive", "sleep", "done", "failed", "killed"
  i,        \* the worker it deals with: the one it accepts in round i
  image,    \* the worker that has computed each row
  worker,   \* "new", "connected", "computing", "ended", "refused", "hung", "dead"
  task,     \* the share of the first task in a worker's connection, or None
  result    \* what it sends back: "none", "part" of the result, or "whole"

staticVars == <<version, master, i, image, worker, task, result>>

StaticInit ==
  /\ version \in {"task4", "task4-con"} /\ master = "accept" /\ i = 0 /\ image = [r \in Rows |-> Garbage]
  /\ worker = [w \in Workers |-> "new"]
  /\ task = [w \in Workers |-> None] /\ result = [w \in Workers |-> "none"]

-----------------------------------------------------------------------------
(* The master *)

\* The loops go on to the next worker, the last one to the next loop.
Step(from, to) ==
  /\ master = from /\ UNCHANGED version
  /\ i' = IF i = MAX_WORKERS - 1 THEN 0 ELSE i + 1
  /\ master' = IF i = MAX_WORKERS - 1 THEN to ELSE from

\* Workers are numbered in the order they connect.
Accept ==
  /\ Step("accept", "send")
  /\ worker' = [worker EXCEPT ![i] = "connected"]
  /\ UNCHANGED <<image, task, result>>

\* accept() fails: task4-con gives up, task4 goes on with the next worker, and
\* nothing is stored in worker_sockets[i].
AcceptFails ==
  /\ \/ version = "task4" /\ Step("accept", "send")
     \/ version = "task4-con" /\ master = "accept" /\ master' = "failed" /\ UNCHANGED <<version, i>>
  /\ UNCHANGED <<image, worker, task, result>>

\* Where worker_sockets[i] may lead: if it is not initialised, to any connection.
Target == IF worker[i] = "new" THEN {w \in Workers : worker[w] # "new"} ELSE {i}
AfterSend == IF version = "task4" THEN "sleep" ELSE "receive"

\* A worker that has its task reads no other.
SendTask ==
  /\ Step("send", AfterSend)
  /\ \E w \in Target : worker[w] \in {"connected", "hung"}
       /\ task' = [task EXCEPT ![w] = IF @ = None THEN i ELSE @]
  /\ UNCHANGED <<image, worker, result>>

\* A connection that is lost takes the task, or refuses it; a descriptor that
\* is no connection refuses it.
SendFails ==
  /\ Step("send", AfterSend)
  /\ worker[i] = "new" \/ \E w \in Target : worker[w] \notin {"connected", "hung"}
  /\ UNCHANGED <<image, worker, task, result>>

\* SIGPIPE, at the second of the five sends or later, or because the descriptor
\* is that of the listening socket
SendKills ==
  /\ master = "send"
  /\ worker[i] = "new" \/ \E w \in Target : worker[w] \notin {"connected", "hung"}
  /\ master' = "killed"
  /\ UNCHANGED <<version, i, image, worker, task, result>>

\* sleep(3); every connection is closed.
Close ==
  /\ master = "sleep" /\ master' = "done"
  /\ UNCHANGED <<version, i, image, worker, task, result>>

\* Slip to be caught: rows are copied as they come.
PaintAsItComes ==
  /\ result[i] # "none" /\ Step("receive", "done")
  /\ \E n \in 1 .. Cardinality(Share(i)) :
       image' = [r \in Rows |-> IF r \in Share(i) /\ r < Min(Share(i)) + n THEN i ELSE image[r]]
  /\ UNCHANGED <<worker, task, result>>

Paint ==
  /\ result[i] = "whole" /\ Step("receive", "done")
  /\ image' = [r \in Rows |-> IF r \in Share(i) THEN i ELSE image[r]]
  /\ UNCHANGED <<worker, task, result>>

\* Slip to be caught: the master tries again.
SkipAgain ==
  /\ worker[i] \in {"dead", "ended"} /\ result[i] # "whole" /\ master = "receive"
  /\ UNCHANGED staticVars

\* The connection has ended before the result has: "Failed to receive result."
\* Memory for it is assumed to be there.
Skip ==
  /\ worker[i] \in {"dead", "ended"} /\ result[i] # "whole"
  /\ Step("receive", "done")
  /\ UNCHANGED <<image, worker, task, result>>

-----------------------------------------------------------------------------
(* The workers *)

MasterGone == master \in {"done", "failed", "killed"}

\* It is computed in task4-con, printed in task4.
ReceiveTask(w) ==
  /\ worker[w] = "connected" /\ task[w] # None
  /\ worker' = [worker EXCEPT ![w] = IF version = "task4" THEN "ended" ELSE "computing"]
  /\ UNCHANGED <<version, master, i, image, task, result>>

\* The master has gone: "Failed to receive task.", or there is no connection.
NoTask(w) ==
  /\ MasterGone
  /\ \/ worker[w] = "connected" /\ task[w] = None /\ worker' = [worker EXCEPT ![w] = "ended"]
     \/ worker[w] = "new" /\ worker' = [worker EXCEPT ![w] = "refused"]
  /\ UNCHANGED <<version, master, i, image, task, result>>

\* A result is larger than a send; a master that has gone ends the worker.
SendResult(w) ==
  /\ worker[w] = "computing"
  /\ result' = [result EXCEPT ![w] = IF @ = "none" THEN "part" ELSE "whole"]
  /\ worker' = [worker EXCEPT ![w] = IF result[w] = "none" THEN @ ELSE "ended"]
  /\ UNCHANGED <<version, master, i, image, task>>

Die(w) ==
  /\ "die" \in Faults /\ worker[w] \in {"connected", "computing"}
  /\ worker' = [worker EXCEPT ![w] = "dead"]
  /\ UNCHANGED <<version, master, i, image, task, result>>

Hang(w) ==
  /\ "hang" \in Faults /\ worker[w] \in {"connected", "computing"}
  /\ worker' = [worker EXCEPT ![w] = "hung"]
  /\ UNCHANGED <<version, master, i, image, task, result>>

Master == Accept \/ AcceptFails \/ SendTask \/ SendFails \/ SendKills \/ Paint \/ Skip \/ Close
Worker(w) == ReceiveTask(w) \/ NoTask(w) \/ SendResult(w)
StaticNext == Master \/ \E w \in Workers : Worker(w) \/ Die(w) \/ Hang(w)

\* The workers connect, and every process runs.
StaticSpec == StaticInit /\ [][StaticNext]_staticVars /\ WF_staticVars(Master) /\ \A w \in Workers : WF_staticVars(Worker(w))

-----------------------------------------------------------------------------
(* Properties *)

StaticTypeOK ==
  /\ version \in {"task4", "task4-con"} /\ i \in Workers
  /\ master \in {"accept", "send", "receive", "sleep", "done", "failed", "killed"}
  /\ image \in [Rows -> Workers \cup {Garbage}]
  /\ worker \in [Workers -> {"new", "connected", "computing", "ended", "refused", "hung", "dead"}]
  /\ task \in [Workers -> Workers \cup {None}]
  /\ result \in [Workers -> {"none", "part", "whole"}]

\* Whenever workers die, a share of the image is there entirely, computed by the
\* worker it was given to, or not at all; and what is missing in an image that is
\* written was to come from a worker that has gone: no result is dropped.
\* Unless an accept() has failed and left its entry of worker_sockets to chance,
\* no worker ever gets the task of another.
SharesAreWhole ==
  /\ StaticTypeOK
  /\ \A w \in Workers :
       \/ \A r \in Share(w) : image[r] = w
       \/ /\ \A r \in Share(w) : image[r] = Garbage
          /\ version = "task4-con" /\ master = "done" => worker[w] = "dead"
  /\ \/ \A w \in Workers : task[w] \in {w, None}
     \/ version = "task4" /\ \E v \in Workers : worker[v] \in {"new", "refused"}

\* The strengthening that makes it inductive: how far the loops of the master
\* have come, and what they have left behind.
LoopInv ==
  /\ master = "receive" => version = "task4-con"
  /\ master = "sleep" => version = "task4"
  /\ master = "accept" => \A w \in Workers : task[w] = None
  /\ version = "task4-con" =>
       /\ master = "accept" => \A w \in Workers : w < i => worker[w] # "new"
       /\ master \in {"send", "receive"} => \A w \in Workers : worker[w] # "new"
LeftInv == version = "task4-con" =>
  /\ ~MasterGone => \A w \in Workers : worker[w] = "ended" => result[w] = "whole"
  /\ master = "receive" => \A w \in Workers :
       w < i => (\A r \in Share(w) : image[r] = w) \/ worker[w] = "dead"
StaticInv == SharesAreWhole /\ LoopInv /\ LeftInv

\* However many workers die, and in whatever order, the master comes to an end,
\* and so does every worker, be it with a task, without one, or without a connection;
\* only a worker that hangs can keep the master, when it waits for its result.
MasterEnds ==
  LET gone == MasterGone /\ \A w \in Workers : worker[w] \in {"ended", "refused", "dead", "hung"}
  IN <>(gone \/ (version = "task4-con" /\ \E w \in Workers : worker[w] = "hung"))
=============================================================================
