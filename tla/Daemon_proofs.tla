--------------------------- MODULE Daemon_proofs ---------------------------
(***************************************************************************)
(* Theorems about three programs of one process or two.  Of PidLock, for   *)
(* any number of starts of both daemons of src/Lab1: a single daemon runs  *)
(* as long as no daemon has removed the name, and the pid file and its     *)
(* lock tell the truth.  Of SumDaemon: no number and no sum is lost on its *)
(* way, and each sum is right.  Of HttpEpoll: no edge is forgotten.        *)
(***************************************************************************)
EXTENDS PidLock, SumDaemon, HttpEpoll, FiniteSetTheorems, SequenceTheorems, TLAPS

-----------------------------------------------------------------------------
(* The lock of the pid file *)

LEMMA NobodyStarts == Nobody \notin Starts /\ Cardinality(Starts) \in Nat
BY PidAssumption, FS_CardinalityType DEF PidAssumption, Nobody

LEMMA BegunCounts ==
  /\ Cardinality(Begun) \in Nat /\ Cardinality(Begun) <= Cardinality(Starts)
  /\ \A s \in Starts : pc[s] = "new" =>
       Cardinality(Begun \cup {s}) = Cardinality(Begun) + 1
       /\ Cardinality(Begun \cup {s}) <= Cardinality(Starts)
<1>1. Begun \subseteq Starts /\ \A s \in Starts : Begun \cup {s} \subseteq Starts
  BY DEF Begun
<1>2. IsFiniteSet(Begun) /\ Cardinality(Begun) <= Cardinality(Starts)
  BY <1>1, FS_Subset, PidAssumption DEF PidAssumption
<1>3. ASSUME NEW s \in Starts, pc[s] = "new"
      PROVE  /\ Cardinality(Begun \cup {s}) = Cardinality(Begun) + 1
             /\ Cardinality(Begun \cup {s}) <= Cardinality(Starts)
  <2>1. s \notin Begun
    BY <1>3 DEF Begun
  <2>2. Cardinality(Begun \cup {s}) = Cardinality(Begun) + 1
    BY <1>2, <2>1, FS_AddElement
  <2>3. Cardinality(Begun \cup {s}) <= Cardinality(Starts)
    BY <1>1, FS_Subset, PidAssumption DEF PidAssumption
  <2> QED BY <2>2, <2>3
<1> QED BY <1>2, <1>3, FS_CardinalityType

LEMMA PidParts == PidInv => PidTypeOK /\ PidFileTellsTruth /\ FilesInv /\ LockInv
BY DEF PidInv, PidFileTellsTruth

\* A start that has begun changes neither the files nor who has begun.
LEMMA FilesKept ==
  ASSUME PidInv, UNCHANGED <<opened, path, files>>,
         pc' \in [Starts -> {"new", "opened", "locked", "running", "unlinked",
                             "orphan", "refused", "stopped", "killed"}],
         \A s \in Starts : pc'[s] = "new" <=> pc[s] = "new",
         NameWasRemoved => NameWasRemoved'
  PROVE  FilesInv'
<1>1. Begun' = Begun
  BY DEF Begun
<1> QED BY <1>1, PidParts DEF FilesInv

LEMMA OpenKeeps == ASSUME PidInv, NEW s \in Starts, Open(s) PROVE PidInv'
<1> USE PidParts, NobodyStarts DEF Open, Goes
<1>1. /\ pc[s] = "new" /\ pc'[s] = "opened" /\ opened'[s] = path'
      /\ \A t \in Starts \ {s} : pc'[t] = pc[t] /\ opened'[t] = opened[t]
  BY DEF PidTypeOK
<1>2. Begun' = Begun \cup {s} /\ s \notin Begun
  BY <1>1 DEF Begun
<1>3. Cardinality(Begun') = Cardinality(Begun) + 1 /\ Cardinality(Begun') <= Cardinality(Starts)
      /\ Cardinality(Begun) \in Nat
  BY <1>1, <1>2, BegunCounts
<1>4. files \in Nat /\ path \in Nat /\ path <= files /\ files <= Cardinality(Begun)
  BY DEF PidTypeOK, FilesInv, Files
<1>5. path' \in 1 .. files' /\ files' \in {files, files + 1} /\ (path # 0 => path' = path)
      /\ files' <= Cardinality(Begun')
  BY <1>3, <1>4
<1>6. NameWasRemoved' <=> NameWasRemoved
  BY <1>1 DEF NameWasRemoved
<1>7. PidTypeOK'
  <2>1. path' \in Files /\ files' \in Files
    BY <1>3, <1>4, <1>5 DEF Files
  <2> QED BY <2>1 DEF PidTypeOK
<1>8. FilesInv'
  <2>1. ASSUME NEW t \in Begun PROVE opened'[t] \in 1 .. files' /\ (opened'[t] = path' \/ NameWasRemoved')
    <3>1. t # s /\ t \in Starts /\ opened[t] \in 1 .. files /\ (opened[t] = path \/ NameWasRemoved)
      BY <1>2, <2>1 DEF FilesInv, Begun
    <3> QED BY <1>1, <1>4, <1>5, <1>6, <3>1
  <2> QED BY <1>1, <1>2, <1>4, <1>5, <2>1 DEF FilesInv
<1>9. LockInv'
  BY <1>1 DEF LockInv
<1>10. ASSUME NEW f \in Files, lock'[f] # Nobody
       PROVE  opened'[lock'[f]] = f /\ pc'[lock'[f]] \in {"locked", "running", "unlinked", "orphan"}
  BY <1>1, <1>10 DEF PidFileTellsTruth, PidTypeOK
<1>11. \A t \in Starts : Running(t)' => path' = opened'[t] \/ NameWasRemoved'
  BY <1>8 DEF FilesInv, Running, Begun
<1> QED BY <1>7, <1>8, <1>9, <1>10, <1>11 DEF PidInv, PidFileTellsTruth

\* What is left to show of a step of a start that has begun.
Locks ==
  /\ lock \in [Files -> Starts \cup {Nobody}]
  /\ \A f \in Files : lock[f] # Nobody =>
       /\ opened[lock[f]] = f
       /\ pc[lock[f]] \in {"locked", "running", "unlinked", "orphan"}

LEMMA StepKeeps ==
  ASSUME PidInv, NEW s \in Starts, pc[s] # "new", NEW to, pc' = [pc EXCEPT ![s] = to],
         to \in {"opened", "locked", "running", "unlinked", "orphan", "refused", "stopped", "killed"},
         UNCHANGED <<opened, files>>, path' = path \/ (path' = 0 /\ to = "unlinked"),
         pc[s] = "unlinked" => to = "stopped", pc[s] # "stopped",
         Locks', LockInv'
  PROVE  PidInv'
<1> USE PidParts
<1>1. pc'[s] = to /\ \A t \in Starts \ {s} : pc'[t] = pc[t]
  BY DEF PidTypeOK
<1>2. Begun' = Begun
  BY <1>1 DEF Begun
<1>3. NameWasRemoved => NameWasRemoved'
  BY <1>1 DEF NameWasRemoved
<1>4. path' = path \/ (path' = 0 /\ NameWasRemoved')
  BY <1>1 DEF NameWasRemoved
<1>5. PidTypeOK'
  BY DEF PidTypeOK, Locks
<1>6. FilesInv'
  <2>1. files \in Nat
    BY DEF PidTypeOK, Files
  <2> QED BY <1>2, <1>3, <1>4, <2>1 DEF FilesInv
<1>7. \A t \in Starts : Running(t)' => path' = opened'[t] \/ NameWasRemoved'
  BY <1>6 DEF FilesInv, Running, Begun
<1> QED BY <1>5, <1>6, <1>7 DEF PidInv, PidFileTellsTruth, Locks

\* Nobody but its holder has a lock, and it has one at most.
LEMMA OneLock ==
  ASSUME PidInv, NEW s \in Starts
  PROVE  /\ \A f \in Files : lock[f] = s => opened[s] = f
         /\ pc[s] \notin {"locked", "running", "unlinked", "orphan"} => \A f \in Files : lock[f] # s
         /\ pc[s] # "new" => opened[s] \in Files
BY PidParts, NobodyStarts DEF PidFileTellsTruth, FilesInv, Begun, PidTypeOK, Files

LEMMA FlockKeeps == ASSUME PidInv, NEW s \in Starts, Flock(s) PROVE PidInv'
<1> USE PidParts, NobodyStarts, OneLock DEF Flock, Goes
<1>1. opened[s] \in Files /\ lock[opened[s]] = Nobody /\ pc[s] = "opened"
  OBVIOUS
<1>2. /\ lock'[opened[s]] = s /\ \A f \in Files \ {opened[s]} : lock'[f] = lock[f]
      /\ lock' \in [Files -> Starts \cup {Nobody}]
  BY <1>1 DEF PidTypeOK
<1>3. pc'[s] = (IF s \in Early THEN "locked" ELSE "running") /\ \A t \in Starts \ {s} : pc'[t] = pc[t]
  BY DEF PidTypeOK
<1>4. Locks'
  BY <1>1, <1>2, <1>3 DEF Locks, PidFileTellsTruth, PidTypeOK
<1>5. LockInv'
  BY <1>1, <1>2, <1>3 DEF LockInv
<1> QED BY <1>1, <1>4, <1>5, StepKeeps

LEMMA RefusedKeeps == ASSUME PidInv, NEW s \in Starts, Refused(s) PROVE PidInv'
<1> USE PidParts, NobodyStarts, OneLock DEF Refused, Goes
<1>1. pc'[s] = "refused" /\ \A t \in Starts \ {s} : pc'[t] = pc[t]
  BY DEF PidTypeOK
<1>2. Locks'
  BY <1>1 DEF Locks, PidFileTellsTruth, PidTypeOK
<1>3. LockInv'
  BY <1>1 DEF LockInv
<1> QED BY <1>2, <1>3, StepKeeps

LEMMA UnlinkKeeps == ASSUME PidInv, NEW s \in Starts, Unlink(s) PROVE PidInv'
<1> USE PidParts, NobodyStarts, OneLock DEF Unlink, Goes
<1>1. pc'[s] = "unlinked" /\ \A t \in Starts \ {s} : pc'[t] = pc[t]
  BY DEF PidTypeOK
<1>2. Locks'
  BY <1>1 DEF Locks, PidFileTellsTruth, PidTypeOK
<1>3. LockInv'
  BY <1>1 DEF LockInv
<1> QED BY <1>2, <1>3, StepKeeps

\* A step that gives back what s has locked, if it has.
LEMMA ReleaseKeeps ==
  ASSUME PidInv, NEW s \in Starts, Release(s), UNCHANGED opened, NEW to, pc' = [pc EXCEPT ![s] = to],
         to \in {"running", "stopped", "killed"}, to = "running" => s \in Early
  PROVE  Locks' /\ LockInv'
<1> USE PidParts, NobodyStarts, OneLock DEF Release
<1>1. pc'[s] = to /\ \A t \in Starts \ {s} : pc'[t] = pc[t]
  BY DEF PidTypeOK
<1>2. /\ lock' \in [Files -> Starts \cup {Nobody}]
      /\ \A f \in Files : lock'[f] = IF lock[f] = s THEN Nobody ELSE lock[f]
  BY DEF PidTypeOK
<1>3. Locks'
  BY <1>1, <1>2 DEF Locks, PidFileTellsTruth, PidTypeOK
<1>4. ASSUME NEW t \in Starts, pc'[t] \in {"running", "unlinked", "orphan"}, t \notin Early
      PROVE  lock'[opened'[t]] = t
  <2>1. t # s
    BY <1>1, <1>4
  <2>2. lock[opened[t]] = t /\ opened[t] \in Files
    BY <1>1, <1>4, <2>1 DEF LockInv
  <2> QED BY <1>2, <2>1, <2>2
<1>5. \A t \in Starts : pc'[t] = "locked" => t \in Early
  BY <1>1 DEF LockInv
<1> QED BY <1>3, <1>4, <1>5 DEF LockInv

LEMMA GiveBackKeeps ==
  ASSUME PidInv, NEW s \in Starts, Daemonize(s) \/ Exit(s) \/ OrphanEnds(s) PROVE PidInv'
<1>1. CASE Daemonize(s)
  <2>1. s \in Early
    BY <1>1, PidParts DEF Daemonize, LockInv
  <2>2. Locks' /\ LockInv'
    BY <1>1, <2>1, ReleaseKeeps DEF Daemonize, Goes
  <2> QED BY <1>1, <2>2, StepKeeps DEF Daemonize, Goes
<1>2. CASE Exit(s)
  <2>1. Locks' /\ LockInv'
    BY <1>2, ReleaseKeeps DEF Exit, Goes
  <2> QED BY <1>2, <2>1, StepKeeps DEF Exit, Goes
<1>3. CASE OrphanEnds(s)
  <2>1. Locks' /\ LockInv'
    BY <1>3, ReleaseKeeps DEF OrphanEnds, Goes
  <2> QED BY <1>3, <2>1, StepKeeps DEF OrphanEnds, Goes
<1> QED BY <1>1, <1>2, <1>3

\* A running daemon that is killed leaves the lock to its child.
LEMMA CrashKeeps == ASSUME PidInv, NEW s \in Starts, Crash(s) PROVE PidInv'
<1>1. CASE pc[s] = "running"
  <2> USE PidParts, NobodyStarts, OneLock DEF Crash, Goes, Release
  <2>1. /\ lock' \in [Files -> Starts \cup {Nobody}] /\ \A f \in Files : lock'[f] = lock[f]
        /\ pc'[s] = "orphan" /\ \A t \in Starts \ {s} : pc'[t] = pc[t]
    BY <1>1 DEF PidTypeOK
  <2>2. Locks'
    BY <1>1, <2>1 DEF Locks, PidFileTellsTruth, PidTypeOK
  <2>3. LockInv'
    BY <1>1, <2>1 DEF LockInv
  <2> QED BY <1>1, <2>2, <2>3, StepKeeps
<1>2. CASE pc[s] # "running"
  <2>1. Locks' /\ LockInv'
    BY <1>2, ReleaseKeeps DEF Crash, Goes
  <2> QED BY <1>2, <2>1, StepKeeps DEF Crash, Goes
<1> QED BY <1>1, <1>2

LEMMA PidInitially == PidInit => PidInv
<1> SUFFICES ASSUME PidInit PROVE PidInv
  OBVIOUS
<1> USE NobodyStarts DEF PidInit
<1>1. PidTypeOK
  BY DEF PidTypeOK, Files
<1>2. FilesInv
  BY BegunCounts DEF FilesInv, Begun
<1>3. LockInv /\ PidFileTellsTruth
  BY <1>1 DEF LockInv, PidFileTellsTruth, Running
<1> QED BY <1>2, <1>3 DEF PidInv

LEMMA PidStutters == PidInv /\ UNCHANGED pidVars => PidInv'
BY DEF PidInv, PidFileTellsTruth, PidTypeOK, FilesInv, LockInv, Begun, NameWasRemoved, Running, pidVars

\* The inductive invariant: the files and who has created them, the locks and who
\* holds them.
THEOREM PidInvariance == PidSpec => []PidInv
<1>1. PidInv /\ [PidNext]_pidVars => PidInv'
  BY OpenKeeps, FlockKeeps, RefusedKeeps, UnlinkKeeps, GiveBackKeeps, CrashKeeps, PidStutters
     DEF PidNext
<1> QED BY <1>1, PidInitially, PTL DEF PidSpec

\* For any number of starts, the name leads to the file of every daemon that runs
\* until some daemon removes it, and whoever has a lock is alive.
THEOREM TruthOfThePidFile == PidSpec => []PidFileTellsTruth
<1>1. PidInv => PidFileTellsTruth
  BY DEF PidInv
<1> QED BY <1>1, PidInvariance, PTL

\* For any number of starts, two daemons of lab1sourcecode never run on the same
\* file, and never together as long as no daemon has removed the name.
THEOREM OneDaemon == PidSpec => []SingleDaemon
<1>1. PidInv => SingleDaemon
  <2> SUFFICES ASSUME PidInv, NEW s \in Starts \ Early, NEW t \in Starts \ Early,
                      Running(s), Running(t), s # t
               PROVE  opened[s] # opened[t] /\ NameWasRemoved
    BY DEF SingleDaemon
  <2>1. lock[opened[s]] = s /\ lock[opened[t]] = t
    BY PidParts DEF LockInv, Running
  <2>2. opened[s] # opened[t]
    BY <2>1
  <2>3. (opened[s] = path /\ opened[t] = path) \/ NameWasRemoved
    BY PidParts DEF FilesInv, Begun, Running
  <2> QED BY <2>2, <2>3
<1> QED BY <1>1, PidInvariance, PTL

-----------------------------------------------------------------------------
(* The running sum *)

LEMMA NextTriangle ==
  \A n \in Nat : Triangular(n) \in Nat /\ Triangular(n + 1) = Triangular(n) + (n + 1)
<1> SUFFICES ASSUME NEW n \in Nat
             PROVE  Triangular(n) \in Nat /\ Triangular(n + 1) = Triangular(n) + (n + 1)
  OBVIOUS
<1>1. \E k \in Nat : n * (n + 1) = 2 * k
  <2>1. PICK m \in Nat : n = 2 * m \/ n = 2 * m + 1
    <3>1. n \div 2 \in Nat /\ (n = 2 * (n \div 2) \/ n = 2 * (n \div 2) + 1)
      OBVIOUS
    <3> QED BY <3>1
  <2>2. CASE n = 2 * m
    <3>1. m * (n + 1) \in Nat /\ n * (n + 1) = 2 * (m * (n + 1))
      BY <2>2
    <3> QED BY <3>1
  <2>3. CASE n = 2 * m + 1
    <3>1. n * (m + 1) \in Nat /\ n * (n + 1) = 2 * (n * (m + 1))
      BY <2>3
    <3> QED BY <3>1
  <2> QED BY <2>1, <2>2, <2>3
<1>2. PICK k \in Nat : n * (n + 1) = 2 * k
  BY <1>1
<1>3. (n + 1) * (n + 2) = 2 * (k + (n + 1))
  <2>1. (n + 1) * (n + 2) = n * (n + 1) + 2 * (n + 1)
    OBVIOUS
  <2> QED BY <1>2, <2>1
<1>4. \A j \in Nat : (2 * j) \div 2 = j
  OBVIOUS
<1>5. (n + 1) + 1 = n + 2 /\ k + (n + 1) \in Nat
  OBVIOUS
<1> QED BY <1>2, <1>3, <1>4, <1>5 DEF Triangular

LEMMA Bounds ==
  ASSUME version \in Versions
  PROVE  Limit \in Nat \ {0} /\ PipeCap \in Nat \ {0} /\ Timeout \in Nat \ {0}
BY SumAssumption DEF SumAssumption, Limit

LEMMA SumParts ==
  SumInv => /\ SumTypeOK /\ FlowInv /\ lastSum = Triangular(received)
            /\ \A i \in 1 .. Len(pipe2) : pipe2[i] = Triangular(received + i)
            /\ ~Watching /\ parent = "write" /\ child # "gone" => received = num - 1
BY DEF SumInv, SumsAreRight

\* Where nothing is written, read or added, only who waits for what may change.
LEMMA SameSums ==
  ASSUME SumInv, UNCHANGED <<version, num, received, lastSum, pipe1, pipe2, sum>>, SumTypeOK',
         child' # "gone" => child # "gone",
         \/ parent' = parent
         \/ parent' \notin {"write", "read"}
         \/ child' = "gone" 
         \/ Watching
  PROVE  SumInv'
<1> USE SumParts
<1>1. FlowInv'
  BY DEF FlowInv, Triangular, Watching
<1>2. SumsAreRight'
  BY DEF SumsAreRight, Triangular, Watching
<1> QED BY <1>1, <1>2 DEF SumInv

LEMMA OtherSteps ==
  ASSUME SumInv,
         \/ LoopEnds \/ RoundsEnd \/ WriteKills \/ ReadNothing \/ Cleanup \/ Waitpid
         \/ Sigterm \/ KillParent \/ Eof \/ Pause \/ Continue \/ Kill \/ UNCHANGED sumVars
  PROVE  SumInv'
<1> USE SumParts, SumAssumption DEF SumAssumption
<1>1. UNCHANGED <<version, num, received, lastSum, pipe1, pipe2, sum>>
  BY DEF LoopEnds, RoundsEnd, WriteKills, ReadNothing, Cleanup, Waitpid, Sigterm, KillParent,
         Eof, Pause, Continue, Kill, ParentEnds, ChildIs, sumVars, parentVars
<1>2. child' # "gone" => child # "gone"
  BY DEF LoopEnds, RoundsEnd, WriteKills, ReadNothing, Cleanup, Waitpid, Sigterm, KillParent,
         Eof, Pause, Continue, Kill, ParentEnds, ChildIs, sumVars
<1>3. \/ parent' = parent
      \/ parent' \notin {"write", "read"}
      \/ child' = "gone"
      \/ Watching
  BY DEF LoopEnds, RoundsEnd, WriteKills, ReadNothing, Cleanup, Waitpid, Sigterm, KillParent,
         Eof, Pause, Continue, Kill, ParentEnds, ChildIs, sumVars, parentVars
<1>4. SumTypeOK'
  <2>1. /\ parent' \in {"write", "read", "cleanup", "wait", "exited", "killed"}
        /\ running' \in BOOLEAN /\ child' \in {"runs", "paused", "gone"}
    BY DEF SumTypeOK, LoopEnds, RoundsEnd, WriteKills, ReadNothing, Cleanup, Waitpid, Sigterm,
           KillParent, Eof, Pause, Continue, Kill, ParentEnds, ChildIs, sumVars, parentVars
  <2>2. writeEnd' \in BOOLEAN /\ readEnd' \in BOOLEAN
    BY DEF SumTypeOK, LoopEnds, RoundsEnd, WriteKills, ReadNothing, Cleanup, Waitpid, Sigterm,
           KillParent, Eof, Pause, Continue, Kill, ParentEnds, ChildIs, sumVars, parentVars,
           Watching
  <2>3. silent' \in 0 .. Timeout + 1
    <3>1. CASE ReadNothing
      BY <3>1 DEF ReadNothing, SumTypeOK
    <3>2. CASE ~ReadNothing
      BY <3>2 DEF SumTypeOK, LoopEnds, RoundsEnd, WriteKills, Cleanup, Waitpid, Sigterm,
           KillParent, Eof, Pause, Continue, Kill, ParentEnds, ChildIs, sumVars, parentVars
    <3> QED BY <3>1, <3>2
  <2>4. Limit' = Limit
    BY <1>1 DEF Limit
  <2> HIDE DEF SumAssumption
  <2> QED BY <1>1, <2>1, <2>2, <2>3, <2>4 DEF SumTypeOK
<1> HIDE SumAssumption DEF SumAssumption
<1> QED BY <1>1, <1>2, <1>3, <1>4, SameSums

LEMMA WriteKeeps == ASSUME SumInv, Write PROVE SumInv'
<1> USE SumParts, Bounds DEF Write
<1> DEFINE r == received + Len(pipe2)
<1>1. /\ num \in Nat /\ received \in Nat /\ Limit \in Nat /\ Limit' = Limit /\ num <= Limit
      /\ pipe1 \in Seq(1 .. Limit) /\ Len(pipe1) \in Nat /\ pipe2 \in Seq(Nat) /\ Len(pipe2) \in Nat
      /\ version' = version /\ parent = "write" /\ parent' = "read" /\ child' = child
      /\ received' = received /\ pipe2' = pipe2 /\ sum' = sum /\ lastSum' = lastSum
      /\ child # "gone" /\ num \in 1 .. Limit /\ PipeCap \in Nat
  <2>1. Limit' = Limit /\ num <= Limit
    BY DEF Limit
  <2>2. Limit \in Nat
    BY DEF SumTypeOK
  <2> QED BY <2>1, <2>2, LenProperties DEF SumTypeOK
<1>2. CASE Len(pipe1) < PipeCap
  <2>1. num' = num + 1 /\ pipe1' = Append(pipe1, num)
    BY <1>2
  <2>2. /\ pipe1' \in Seq(1 .. Limit) /\ Len(pipe1') = Len(pipe1) + 1
        /\ \A i \in 1 .. Len(pipe1) + 1 :
             pipe1'[i] = IF i = Len(pipe1) + 1 THEN num ELSE pipe1[i]
    BY <1>1, <2>1
  <2>3. SumTypeOK'
    <3>1. Len(pipe1') <= PipeCap /\ num' \in 1 .. Limit' + 1
      BY <1>1, <1>2, <2>1, <2>2
    <3> QED BY <1>1, <2>2, <3>1 DEF SumTypeOK
  <2>4. /\ r + Len(pipe1) = num - 1 /\ r \in Nat
        /\ \A i \in 1 .. Len(pipe1) : pipe1[i] = r + i /\ sum = Triangular(r)
    BY <1>1 DEF FlowInv
  <2>5. sum = Triangular(r)
    BY <1>1 DEF FlowInv
  <2> HIDE DEF r
  <2>6. \A i \in 1 .. Len(pipe1') : pipe1'[i] = r + i
    <3> SUFFICES ASSUME NEW i \in 1 .. Len(pipe1') PROVE pipe1'[i] = r + i
      OBVIOUS
    <3>1. CASE i = Len(pipe1) + 1
      <4>1. r + i = num
        BY <1>1, <2>4, <3>1
      <4> QED BY <2>2, <3>1, <4>1
    <3>2. CASE i # Len(pipe1) + 1
      <4>1. i \in 1 .. Len(pipe1) /\ pipe1'[i] = pipe1[i]
        BY <1>1, <2>2, <3>2
      <4> QED BY <2>4, <4>1
    <3> QED BY <3>1, <3>2
  <2>7. r + Len(pipe1') = num' - 1 /\ r <= num' - 1
    BY <1>1, <2>1, <2>2, <2>4
  <2>8. ~Watching => received = num' - 2
    BY <1>1, <2>1
  <2>9. FlowInv'
    BY <1>1, <2>5, <2>6, <2>7, <2>8 DEF FlowInv, Triangular, Watching, r
  <2>10. SumsAreRight'
    BY <1>1, <2>3 DEF SumsAreRight, Triangular
  <2> QED BY <2>9, <2>10 DEF SumInv
<1>3. CASE ~(Len(pipe1) < PipeCap)
  <2>1. Watching /\ num' = num /\ pipe1' = pipe1
    BY <1>3
  <2>2. SumTypeOK'
    BY <1>1, <2>1 DEF SumTypeOK
  <2> QED BY <1>1, <2>1, <2>2, SameSums
<1> QED BY <1>2, <1>3

LEMMA ReadSumKeeps == ASSUME SumInv, ReadSum PROVE SumInv'
<1> USE SumParts, Bounds DEF ReadSum
<1>1. /\ num \in Nat /\ received \in Nat /\ Limit \in Nat /\ Limit' = Limit /\ num <= Limit + 1
      /\ pipe1 \in Seq(1 .. Limit) /\ Len(pipe1) \in Nat /\ pipe2 \in Seq(Nat)
      /\ parent = "read" /\ parent' = "write" /\ received' = received + 1
      /\ UNCHANGED <<version, num, pipe1, child, sum>>
  <2>1. Limit' = Limit
    BY DEF Limit
  <2>2. Limit \in Nat /\ Len(pipe1) \in Nat
    BY LenProperties DEF SumTypeOK
  <2> QED BY <2>1, <2>2 DEF SumTypeOK
<1>2. /\ pipe2' \in Seq(Nat) /\ Len(pipe2') = Len(pipe2) - 1 /\ Len(pipe2) \in Nat \ {0}
      /\ \A i \in 1 .. Len(pipe2') : pipe2'[i] = pipe2[i + 1]
      /\ lastSum' = pipe2[1] /\ lastSum' \in Nat
  <2>1. Len(pipe2) \in Nat \ {0}
    BY <1>1, EmptySeq
  <2>2. pipe2' = Tail(pipe2) /\ lastSum' = Head(pipe2) /\ Tail(pipe2) \in Seq(Nat)
        /\ Len(Tail(pipe2)) = Len(pipe2) - 1 /\ Head(pipe2) \in Nat
    BY <1>1, HeadTailProperties
  <2>3. \A i \in 1 .. Len(Tail(pipe2)) : Tail(pipe2)[i] = pipe2[i + 1]
    BY <1>1, <2>1
  <2> QED BY <1>1, <2>1, <2>2, <2>3
<1>3. received' + Len(pipe2') = received + Len(pipe2)
  BY <1>1, <1>2
<1>4. SumTypeOK'
  <2>1. received + Len(pipe2) <= num - 1
    BY DEF FlowInv
  <2>2. received' \in 0 .. Limit' /\ Len(pipe2') <= Limit'
    BY <1>1, <1>2, <2>1
  <2>3. silent' \in 0 .. Timeout + 1
    BY SumAssumption DEF SumAssumption
  <2> QED BY <1>1, <1>2, <2>2, <2>3 DEF SumTypeOK
<1>5. FlowInv'
  <2>1. ~(~Watching' /\ parent' = "read")
    BY <1>1
  <2> HIDE DEF ReadSum
  <2> QED BY <1>1, <1>3, <2>1 DEF FlowInv, Triangular
<1>6. SumsAreRight'
  <2>1. lastSum' = Triangular(received')
    BY <1>1, <1>2
  <2>2. \A i \in 1 .. Len(pipe2') : pipe2'[i] = Triangular(received' + i)
    <3> SUFFICES ASSUME NEW i \in 1 .. Len(pipe2') PROVE pipe2'[i] = Triangular(received' + i)
      OBVIOUS
    <3>1. i + 1 \in 1 .. Len(pipe2) /\ received' + i = received + (i + 1)
      BY <1>1, <1>2
    <3> QED BY <1>2, <3>1
  <2>3. ~Watching /\ child # "gone" => received' = num - 1
    BY <1>1 DEF FlowInv
  <2> QED BY <1>1, <1>4, <2>1, <2>2, <2>3 DEF SumsAreRight, Triangular, Watching
<1> QED BY <1>5, <1>6 DEF SumInv

LEMMA AddKeeps == ASSUME SumInv, Add PROVE SumInv'
<1> USE SumParts, Bounds
<1> DEFINE r == received + Len(pipe2)
<1>1. /\ num \in Nat /\ received \in Nat /\ Limit \in Nat /\ Limit' = Limit /\ num <= Limit + 1
      /\ pipe1 \in Seq(1 .. Limit) /\ pipe2 \in Seq(Nat) /\ Len(pipe2) \in Nat
      /\ Len(pipe1) <= PipeCap /\ PipeCap \in Nat /\ child = "runs" /\ sum \in Nat
      /\ UNCHANGED <<version, running, parent, num, silent, received, lastSum, writeEnd, readEnd>>
      /\ pipe1 # <<>> /\ pipe1' = Tail(pipe1) /\ sum' = sum + Head(pipe1)
  <2>1. version' = version /\ Limit' = Limit
    BY DEF Add, parentVars, Limit
  <2>2. Limit \in Nat /\ PipeCap \in Nat /\ Len(pipe2) \in Nat
    BY LenProperties DEF SumTypeOK
  <2> QED BY <2>1, <2>2 DEF SumTypeOK, Add, parentVars
<1>2. /\ Len(pipe1) \in Nat \ {0} /\ pipe1' \in Seq(1 .. Limit) /\ Len(pipe1') = Len(pipe1) - 1
      /\ \A i \in 1 .. Len(pipe1') : pipe1'[i] = pipe1[i + 1]
      /\ sum' = sum + pipe1[1]
  <2>1. Len(pipe1) \in Nat \ {0}
    BY <1>1, EmptySeq
  <2>2. Tail(pipe1) \in Seq(1 .. Limit) /\ Len(Tail(pipe1)) = Len(pipe1) - 1
    BY <1>1, HeadTailProperties
  <2>3. \A i \in 1 .. Len(Tail(pipe1)) : Tail(pipe1)[i] = pipe1[i + 1]
    BY <1>1, <2>1
  <2> QED BY <1>1, <2>1, <2>2, <2>3
<1>3. /\ r + Len(pipe1) = num - 1 /\ sum = Triangular(r) /\ r \in Nat
      /\ \A i \in 1 .. Len(pipe1) : pipe1[i] = r + i
      /\ ~Watching /\ parent = "read" => received = num - 2
  BY <1>1 DEF FlowInv
<1> HIDE DEF r
<1>4. sum' = Triangular(r + 1) /\ sum' \in Nat /\ r + 1 <= num - 1
  <2>1. pipe1[1] = r + 1
    BY <1>2, <1>3
  <2>2. Triangular(r + 1) \in Nat
    BY <1>3, NextTriangle
  <2> QED BY <1>2, <1>3, <1>1, <2>1, <2>2, NextTriangle
<1>5. CASE readEnd
  <2>1. pipe2' = Append(pipe2, sum') /\ child' = child
    BY <1>5 DEF Add
  <2>2. /\ pipe2' \in Seq(Nat) /\ Len(pipe2') = Len(pipe2) + 1
        /\ \A i \in 1 .. Len(pipe2) : pipe2'[i] = pipe2[i]
        /\ pipe2'[Len(pipe2) + 1] = sum'
    BY <1>1, <1>4, <2>1
  <2>3. received + Len(pipe2') = r + 1
    BY <1>1, <2>2 DEF r
  <2>4. SumTypeOK'
    <3>1. Len(pipe1') <= PipeCap /\ Len(pipe2') <= Limit'
      BY <1>1, <1>2, <1>4, <2>2, <2>3
    <3> QED BY <1>1, <1>2, <1>4, <2>1, <2>2, <3>1 DEF SumTypeOK
  <2>5. FlowInv'
    <3>1. (r + 1) + Len(pipe1') = num - 1
      BY <1>1, <1>2, <1>3
    <3>2. \A i \in 1 .. Len(pipe1') : pipe1'[i] = (r + 1) + i
      BY <1>2, <1>3
    <3> QED BY <1>1, <1>3, <1>4, <2>1, <2>3, <3>1, <3>2 DEF FlowInv, Triangular, Watching
  <2>6. SumsAreRight'
    <3>1. \A i \in 1 .. Len(pipe2') : pipe2'[i] = Triangular(received + i)
      <4> SUFFICES ASSUME NEW i \in 1 .. Len(pipe2') PROVE pipe2'[i] = Triangular(received + i)
        OBVIOUS
      <4>1. CASE i \in 1 .. Len(pipe2)
        BY <2>2, <4>1
      <4>2. CASE i = Len(pipe2) + 1
        BY <1>4, <2>2, <2>3, <4>2
      <4> QED BY <1>1, <2>2, <4>1, <4>2
    <3> QED BY <1>1, <2>1, <2>4, <3>1 DEF SumsAreRight, Triangular, Watching
  <2> QED BY <2>5, <2>6 DEF SumInv
<1>6. CASE ~readEnd
  <2>1. pipe2' = pipe2 /\ child' = "gone"
    BY <1>6 DEF Add
  <2>2. SumTypeOK'
    <3>1. Len(pipe1') <= PipeCap
      BY <1>1, <1>2
    <3> QED BY <1>1, <1>2, <1>4, <2>1, <3>1 DEF SumTypeOK
  <2>3. FlowInv'
    BY <1>1, <2>1 DEF FlowInv
  <2>4. SumsAreRight'
    BY <1>1, <2>1, <2>2 DEF SumsAreRight, Triangular
  <2> QED BY <2>3, <2>4 DEF SumInv
<1> QED BY <1>5, <1>6

LEMMA SumInitially == SumInit => SumInv
<1> SUFFICES ASSUME SumInit PROVE SumInv
  OBVIOUS
<1> USE DEF SumInit
<1>1. Limit \in Nat \ {0} /\ PipeCap \in Nat \ {0} /\ Timeout \in Nat \ {0}
  BY Bounds
<1>2. pipe1 \in Seq(1 .. Limit) /\ pipe2 \in Seq(Nat) /\ Len(pipe1) = 0 /\ Len(pipe2) = 0
      /\ 1 .. 0 = {}
  BY EmptySeq
<1>3. Triangular(0) = 0
  BY DEF Triangular
<1>4. SumTypeOK
  BY <1>1, <1>2 DEF SumTypeOK
<1> QED BY <1>2, <1>3, <1>4 DEF SumInv, SumsAreRight, FlowInv

LEMMA SumStep == SumInv /\ [SumNext]_sumVars => SumInv'
BY OtherSteps, WriteKeeps, ReadSumKeeps, AddKeeps DEF SumNext, Parent, Child

\* For each of the programs, however long the pipe, the time-out and the life of
\* either process: no number is lost on its way, and no sum.
THEOREM SumInvariance == SumSpec => []SumInv
BY SumInitially, SumStep, PTL DEF SumSpec

\* The n-th sum the parent reads is 1 + 2 + ... + n, and a parent that blocks has
\* read the last one before it writes, whatever happens to pipes and processes.
THEOREM SumsStayRight == SumSpec => []SumsAreRight
<1>1. SumInv => SumsAreRight
  BY DEF SumInv
<1> QED BY <1>1, SumInvariance, PTL
-----------------------------------------------------------------------------
(* The edges of the epoll web server *)

LEMMA OpenedIsFinite ==
  /\ Opened \subseteq Clients /\ IsFiniteSet(Opened) /\ Cardinality(Opened) \in Nat
  /\ Server \notin Clients /\ NoClient \notin Clients /\ MaxFds \in Nat \ {0}
<1>1. Opened \subseteq Clients
  BY DEF Opened
<1> QED BY <1>1, EpollAssumption, FS_Subset, FS_CardinalityType DEF EpollAssumption, Server, NoClient

\* A step that opens no connection, and leaves those that are not served open.
LEMMA OpenedShrinks ==
  ASSUME EpollInv, conn' \in [Clients -> {"none", "queued", "open", "closed"}], Opened' \subseteq Opened
  PROVE  Cardinality(Opened') <= MaxFds
<1>1. Cardinality(Opened') \in Nat /\ Cardinality(Opened') <= Cardinality(Opened)
  BY OpenedIsFinite, FS_Subset, FS_CardinalityType
<1>2. Cardinality(Opened) <= MaxFds
  BY DEF EpollInv, NothingForgotten, EpollTypeOK
<1> QED BY <1>1, <1>2, OpenedIsFinite

\* A browser that comes is announced at the listening socket.
LEMMA ConnectKeeps == ASSUME EpollInv, NEW c \in Clients, Connect(c) PROVE EpollInv'
<1> USE DEF EpollInv, NothingForgotten, EpollTypeOK, Connect
<1>1. Opened' = Opened
  BY DEF Opened
<1>2. queue' \in Seq(Clients) /\ Server \in edge'
  OBVIOUS
<1>3. EpollTypeOK'
  BY <1>1, OpenedIsFinite DEF clientVars
<1> QED BY <1>1, <1>2, <1>3, OpenedIsFinite DEF clientVars

\* What an open connection does is announced there.
LEMMA EdgeKeeps ==
  ASSUME EpollInv, NEW c \in Clients, EdgeAt(c), UNCHANGED <<up, loop, cur, batch, queue, conn, answer, full>>,
         asked' \subseteq Clients, gone' \subseteq Clients, (asked \cup gone)' = asked \cup gone \cup {c}
  PROVE  EpollInv'
<1> USE DEF EpollInv, NothingForgotten, EpollTypeOK, EdgeAt
<1>1. Opened' = Opened
  BY DEF Opened
<1>2. edge \subseteq edge' /\ edge' \subseteq edge \cup {c} /\ (c \in Opened => c \in edge')
      /\ (c \notin Opened => edge' = edge)
  BY DEF Opened
<1>3. EpollTypeOK'
  BY <1>1, <1>2
<1>4. up' => \A d \in (Opened \cap (asked \cup gone))' :
        d \in (edge \cup batch)' \/ (loop' = "handle" /\ cur' = d)
  BY <1>1, <1>2
<1> QED BY <1>1, <1>2, <1>3, <1>4, OpenedIsFinite

LEMMA AskKeeps == ASSUME EpollInv, NEW c \in Clients, Ask(c) PROVE EpollInv'
BY EdgeKeeps DEF Ask, EpollInv, NothingForgotten, EpollTypeOK

LEMMA HangUpKeeps == ASSUME EpollInv, NEW c \in Clients, HangUp(c) PROVE EpollInv'
BY EdgeKeeps DEF HangUp, EpollInv, NothingForgotten, EpollTypeOK

LEMMA EpollWaitKeeps == EpollInv /\ EpollWait => EpollInv'
<1> SUFFICES ASSUME EpollInv, EpollWait PROVE EpollInv'
  OBVIOUS
<1> USE DEF EpollInv, NothingForgotten, EpollTypeOK, EpollWait, clientVars
<1>1. Opened' = Opened /\ batch = {}
  BY DEF Opened
<1>2. EpollTypeOK'
  BY <1>1
<1> QED BY <1>1, <1>2

LEMMA NextEventKeeps == EpollInv /\ NextEvent => EpollInv'
<1> SUFFICES ASSUME EpollInv, NextEvent PROVE EpollInv'
  OBVIOUS
<1> USE DEF EpollInv, NothingForgotten, EpollTypeOK, NextEvent, clientVars
<1>1. Opened' = Opened
  BY DEF Opened
<1>2. CASE batch = {} /\ loop' = "wait" /\ UNCHANGED <<cur, batch>>
  BY <1>1, <1>2
<1>3. CASE Server \in batch /\ loop' = "accept" /\ batch' = batch \ {Server} /\ cur' = cur
  BY <1>1, <1>3, OpenedIsFinite
<1>4. ASSUME NEW c \in batch \ {Server}, loop' = "handle", cur' = c, batch' = batch \ {c}
      PROVE  EpollInv'
  <2>1. c \in Opened
    BY <1>4
  <2>2. EpollTypeOK'
    BY <1>1, <1>4, <2>1
  <2> QED BY <1>1, <1>4, <2>1, <2>2
<1> QED BY <1>2, <1>3, <1>4

\* A connection that has something to say when it is added to the epoll is
\* announced at once, and the loop goes on to accept.
LEMMA AcceptKeeps == EpollInv /\ Accept => EpollInv'
<1> SUFFICES ASSUME EpollInv, Accept PROVE EpollInv'
  OBVIOUS
<1> USE DEF EpollInv, NothingForgotten, EpollTypeOK, clientVars
<1> DEFINE c == Head(queue)
<1>1. /\ up /\ loop = "accept" /\ Cardinality(Opened) < MaxFds
      /\ conn' = [conn EXCEPT ![c] = "open"] /\ queue' = Tail(queue)
      /\ edge' = IF c \in asked \cup gone THEN edge \cup {c} ELSE edge
      /\ UNCHANGED <<up, loop, cur, batch, clientVars, answer, full>>
  BY DEF Accept
<1>2. c \in Clients /\ queue' \in Seq(Clients)
  BY <1>1 DEF Accept
<1> HIDE DEF c
<1>3. Opened' = Opened \cup {c}
  BY <1>1, <1>2 DEF Opened
<1>4. Cardinality(Opened') <= MaxFds
  <2>1. Cardinality(Opened') <= Cardinality(Opened) + 1
    <3>1. Cardinality(Opened \cup {c}) =
            IF c \in Opened THEN Cardinality(Opened) ELSE Cardinality(Opened) + 1
      BY OpenedIsFinite, FS_AddElement
    <3>2. Cardinality(Opened) \in Nat
      BY OpenedIsFinite
    <3> HIDE DEF EpollInv, NothingForgotten, EpollTypeOK
    <3> QED BY <1>3, <3>1, <3>2
  <2>2. Cardinality(Opened') \in Nat
    BY <1>3, OpenedIsFinite, FS_AddElement, FS_CardinalityType
  <2> QED BY <1>1, <2>1, <2>2, OpenedIsFinite
<1>5. EpollTypeOK'
  BY <1>1, <1>2, <1>3, <1>4
<1> QED BY <1>1, <1>2, <1>3, <1>5

LEMMA AcceptFailsKeeps == EpollInv /\ AcceptFails => EpollInv'
<1> SUFFICES ASSUME EpollInv, AcceptFails PROVE EpollInv'
  OBVIOUS
<1> USE DEF EpollInv, NothingForgotten, EpollTypeOK, AcceptFails, clientVars
<1>1. Opened' = Opened
  BY DEF Opened
<1>2. EpollTypeOK'
  BY <1>1
<1> QED BY <1>1, <1>2

\* The connection that is closed has left the batch, and close() takes back its
\* edge.
LEMMA HandleKeeps == EpollInv /\ Handle => EpollInv'
<1> SUFFICES ASSUME EpollInv, Handle PROVE EpollInv'
  OBVIOUS
<1> USE DEF EpollInv, NothingForgotten, EpollTypeOK, clientVars
<1>1. /\ up /\ loop = "handle" /\ cur \in Opened /\ loop' = "next"
      /\ conn' = [conn EXCEPT ![cur] = "closed"] /\ edge' = edge \ {cur}
      /\ UNCHANGED <<up, cur, batch, queue, asked, gone, full>>
  BY DEF Handle, Close
<1>2. answer' \in [Clients -> {"none", "404", "page", "cut"}]
  BY DEF Handle
<1>3. Opened' = Opened \ {cur}
  BY <1>1 DEF Opened
<1>4. Cardinality(Opened') <= MaxFds
  BY <1>1, <1>3, OpenedShrinks
<1>5. EpollTypeOK'
  BY <1>1, <1>2, <1>3, <1>4
<1> QED BY <1>1, <1>3, <1>5, OpenedIsFinite

LEMMA HandleKillsKeeps == EpollInv /\ HandleKills => EpollInv'
<1> SUFFICES ASSUME EpollInv, HandleKills PROVE EpollInv'
  OBVIOUS
<1> USE DEF EpollInv, NothingForgotten, EpollTypeOK, HandleKills, clientVars
<1>1. Opened' \subseteq Opened
  BY DEF Opened
<1>2. Cardinality(Opened') <= MaxFds
  BY <1>1, OpenedShrinks
<1>3. EpollTypeOK'
  BY <1>2
<1>4. queue' \in Seq(Clients) /\ (edge \cup batch)' \subseteq Clients \cup {Server}
  OBVIOUS
<1> QED BY <1>3, <1>4

LEMMA EpollInitially == EpollInit => EpollInv
<1> SUFFICES ASSUME EpollInit PROVE EpollInv
  OBVIOUS
<1>1. Opened = {}
  BY DEF EpollInit, Opened
<1>2. Cardinality(Opened) <= MaxFds
  BY <1>1, FS_EmptySet, OpenedIsFinite
<1>3. EpollTypeOK
  BY <1>1, <1>2 DEF EpollInit, EpollTypeOK
<1> QED BY <1>1, <1>3 DEF EpollInit, EpollInv, NothingForgotten

LEMMA EpollStutters == EpollInv /\ UNCHANGED epollVars => EpollInv'
BY DEF EpollInv, NothingForgotten, EpollTypeOK, Opened, epollVars, clientVars

\* For any number of browsers and descriptors: sockets have the edges, and the
\* event that is handled is no longer in the batch.
THEOREM EpollInvariance == EpollSpec => []EpollInv
<1>1. EpollInv /\ [EpollNext]_epollVars => EpollInv'
  BY ConnectKeeps, AskKeeps, HangUpKeeps, EpollWaitKeeps, NextEventKeeps, AcceptKeeps,
     AcceptFailsKeeps, HandleKeeps, HandleKillsKeeps, EpollStutters DEF EpollNext, Main
<1> QED BY <1>1, EpollInitially, PTL DEF EpollSpec

\* For any number of browsers and descriptors, a connection, a request or a
\* hang-up is announced by an edge that is still to be handled.
THEOREM NoEdgeForgotten == EpollSpec => []NothingForgotten
<1>1. EpollInv => NothingForgotten
  BY DEF EpollInv
<1> QED BY <1>1, EpollInvariance, PTL
=============================================================================
