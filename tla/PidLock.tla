------------------------------ MODULE PidLock ------------------------------
(***************************************************************************)
(* How the daemons of src/Lab1 keep a second copy from running: each       *)
(* start opens /tmp/mydaemon.pid, creating it if it is not there, and      *)
(* takes flock() on what it has opened.  lab1_source_code.c does so before *)
(* it becomes a daemon, which closes every descriptor; lab1sourcecode.c    *)
(* afterwards.  Both use the same name.  A lock belongs to a file, not to  *)
(* its name, and to all processes that share the descriptor.               *)
(***************************************************************************)
EXTENDS Integers, FiniteSets

CONSTANTS
  Starts,   \* the times somebody starts one of the two programs
  Early     \* those of lab1_source_code, which locks before it daemonizes

ASSUME PidAssumption ==
  IsFiniteSet(Starts) /\ Early \subseteq Starts /\ "nobody" \notin Starts

VARIABLES
  pc,      \* "new", "opened", "locked", "running", "unlinked"; at last
           \* "refused", "stopped", or "killed", after which its child, the
           \* "orphan", may go on
  opened,  \* the file it has open, 0 for none
  path,    \* the file that has the name, 0 for none
  files,   \* how many files have been created so far
  lock     \* who holds the lock of a file

pidVars == <<pc, opened, path, files, lock>>

Nobody == "nobody"
Files == 1 .. Cardinality(Starts)
Goes(s, to) == pc' = [pc EXCEPT ![s] = to]
Release(s) == lock' = [f \in Files |-> IF lock[f] = s THEN Nobody ELSE lock[f]]

PidInit ==
  /\ pc = [s \in Starts |-> "new"]
  /\ opened = [s \in Starts |-> 0]
  /\ path = 0 /\ files = 0
  /\ lock = [f \in Files |-> Nobody]

\* open(O_RDWR | O_CREAT)
Open(s) ==
  /\ pc[s] = "new" /\ Goes(s, "opened")
  /\ files' = IF path = 0 THEN files + 1 ELSE files
  /\ path' = IF path = 0 THEN files + 1 ELSE path
  /\ opened' = [opened EXCEPT ![s] = path']
  /\ UNCHANGED lock

\* Slip to be caught: a shared lock.
FlockShared(s) ==
  /\ pc[s] = "opened"
  /\ lock' = [lock EXCEPT ![opened[s]] = s]
  /\ Goes(s, IF s \in Early THEN "locked" ELSE "running")
  /\ UNCHANGED <<opened, path, files>>

\* flock(LOCK_EX | LOCK_NB) succeeds; one of the programs daemonizes next.
Flock(s) ==
  /\ pc[s] = "opened" /\ lock[opened[s]] = Nobody
  /\ lock' = [lock EXCEPT ![opened[s]] = s]
  /\ Goes(s, IF s \in Early THEN "locked" ELSE "running")
  /\ UNCHANGED <<opened, path, files>>

\* "Daemon already running"
Refused(s) ==
  /\ pc[s] = "opened" /\ lock[opened[s]] # Nobody /\ Goes(s, "refused")
  /\ UNCHANGED <<opened, path, files, lock>>

\* daemonize() closes all descriptors, and the last one of a file unlocks it.
Daemonize(s) ==
  /\ pc[s] = "locked" /\ Goes(s, "running")
  /\ Release(s)
  /\ UNCHANGED <<opened, path, files>>

\* The end of main, or fork() has failed: the name goes first, whichever file
\* it leads to by now.
Unlink(s) ==
  /\ pc[s] = "running" /\ Goes(s, "unlinked")
  /\ path' = 0
  /\ UNCHANGED <<opened, files, lock>>

Exit(s) ==
  /\ pc[s] = "unlinked" /\ Goes(s, "stopped")
  /\ Release(s)
  /\ UNCHANGED <<opened, path, files>>

\* Killed: the child has the descriptor too, and with it the lock.
Crash(s) ==
  /\ pc[s] \in {"opened", "locked", "running"}
  /\ Goes(s, IF pc[s] = "running" THEN "orphan" ELSE "killed")
  /\ Release(IF pc[s] = "running" THEN Nobody ELSE s)
  /\ UNCHANGED <<opened, path, files>>

\* Slip to be caught: only an orderly end gives the lock back.
OrphanKeepsLock(s) ==
  /\ pc[s] = "orphan" /\ Goes(s, "killed")
  /\ UNCHANGED <<opened, path, files, lock>>

\* The child has ended too.
OrphanEnds(s) ==
  /\ pc[s] = "orphan" /\ Goes(s, "killed")
  /\ Release(s)
  /\ UNCHANGED <<opened, path, files>>

PidNext == \E s \in Starts :
  \/ Open(s) \/ Flock(s) \/ Refused(s) \/ Daemonize(s) \/ Unlink(s) \/ Exit(s)
  \/ Crash(s) \/ OrphanEnds(s)

PidSpec == PidInit /\ [][PidNext]_pidVars

-----------------------------------------------------------------------------
(* Properties *)

PidTypeOK ==
  /\ pc \in [Starts -> {"new", "opened", "locked", "running", "unlinked",
                        "orphan", "refused", "stopped", "killed"}]
  /\ opened \in [Starts -> Files \cup {0}]
  /\ path \in Files \cup {0} /\ files \in Files \cup {0}
  /\ lock \in [Files -> Starts \cup {Nobody}]

Running(s) == pc[s] = "running"
NameWasRemoved == \E s \in Starts : pc[s] \in {"unlinked", "stopped"}

\* The strengthening that makes these inductive: each file was created by a start
\* of its own, until a name is removed there is one file, and whoever locks its
\* file and stays keeps it locked.
Begun == {s \in Starts : pc[s] # "new"}
FilesInv ==
  /\ files <= Cardinality(Begun) /\ path <= files
  /\ \A s \in Begun : opened[s] \in 1 .. files /\ (opened[s] = path \/ NameWasRemoved)
LockInv == \A s \in Starts :
  /\ pc[s] = "locked" => s \in Early
  /\ pc[s] \in {"running", "unlinked", "orphan"} /\ s \notin Early => lock[opened[s]] = s

\* Two daemons of lab1sourcecode never run on the same file, and as long as no
\* daemon has removed the name they never run together: the other start is
\* refused, "Daemon already running".  That holds whoever is killed meanwhile,
\* and even if daemons of lab1_source_code, which keep no lock, run beside them.
SingleDaemon ==
  \A s, t \in Starts \ Early :
    Running(s) /\ Running(t) /\ s # t => opened[s] # opened[t] /\ NameWasRemoved

\* What the next start finds is the truth.  The name leads to the file of every
\* daemon that runs, until some daemon removes it; and whoever has a lock is alive
\* and has that file open, so that nobody who was killed keeps the next daemon
\* from starting once its child has gone.
PidFileTellsTruth ==
  /\ PidTypeOK
  /\ \A s \in Starts : Running(s) => path = opened[s] \/ NameWasRemoved
  /\ \A f \in Files : LET h == lock[f] IN
       h # Nobody => opened[h] = f /\ pc[h] \in {"locked", "running", "unlinked", "orphan"}
PidInv == PidFileTellsTruth /\ FilesInv /\ LockInv
=============================================================================
