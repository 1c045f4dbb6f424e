------------------------------ MODULE HttpPool ------------------------------
(***************************************************************************)
(* The thread-pool web server of src/Lab4/task3/http_threadpool.c: main    *)
(* accepts connections into a ring of descriptors, worker threads take     *)
(* them out, answer one request and close.  The ring is guarded by mutex   *)
(* and cond; a section under the mutex is one step, as no other thread can *)
(* see the middle of it.  A client is one connection.                      *)
(***************************************************************************)
EXTENDS Integers, Sequences, FiniteSetsExt

CONSTANTS
  Clients, Workers,   \* THREAD_COUNT workers, 4 in the code
  QueueSize,          \* QUEUE_SIZE, 256 in the code
  MaxFds,             \* descriptors the process may have open
  Faults              \* "hangup": clients may leave before they are answered,
                      \* "stall": they may stop reading

ASSUME PoolAssumption ==
  /\ QueueSize \in Nat \ {0, 1} /\ MaxFds \in Nat \ {0}
  /\ Workers # {} /\ "none" \notin Clients
  /\ Faults \subseteq {"hangup", "stall"}

VARIABLES
  client,     \* "away", "connected", "asked", "stalled", "answered", "gone"
  accepted,   \* the clients main has accepted
  conn,       \* the client a descriptor belongs to, None when it is closed
  newFd,      \* main: 0 in accept(), else the descriptor to enqueue
  queue, front, rear,
  pc,         \* workers: "ready" to lock, "waiting" on cond, "recv", "send", "close"
  has,        \* the descriptor a worker handles
  up,         \* the process lives
  overrun     \* history: rear has caught up with front

ring == <<queue, front, rear, overrun>>
vars == <<client, accepted, conn, newFd, ring, pc, has, up>>

None == "none"
Fds == 1 .. MaxFds
FreeFds == {f \in Fds : conn[f] = None}
Slots == 0 .. QueueSize - 1
Succ(i) == (i + 1) % QueueSize
Waiting == {w \in Workers : pc[w] = "waiting"}

\* What a reader of the ring sees: from front up to rear.
Pending ==
  [i \in 1 .. (rear - front) % QueueSize |-> queue[(front + i - 1) % QueueSize]]

Init ==
  /\ client = [c \in Clients |-> "away"] /\ accepted = {}
  /\ conn = [f \in Fds |-> None] /\ newFd = 0
  /\ queue = [i \in Slots |-> 0] /\ front = 0 /\ rear = 0
  /\ pc = [w \in Workers |-> "ready"] /\ has = [w \in Workers |-> 0]
  /\ up = TRUE /\ overrun = FALSE

-----------------------------------------------------------------------------
(* Clients *)

ClientGoes(c, from, to) ==
  /\ client[c] = from
  /\ client' = [client EXCEPT ![c] = to]
  /\ UNCHANGED <<accepted, conn, newFd, ring, pc, has, up>>

Connect(c) == up /\ ClientGoes(c, "away", "connected")
Ask(c)     == ClientGoes(c, "connected", "asked")
HangUp(c)  ==
  "hangup" \in Faults /\ \E from \in {"connected", "asked", "stalled"} : ClientGoes(c, from, "gone")

\* A client does not read its page, and the page is more than the two sockets
\* take: one that they take goes out whether it is read or not.
StopReading(c) == "stall" \in Faults /\ ClientGoes(c, "asked", "stalled")
ReadOn(c)      == ClientGoes(c, "stalled", "asked")

-----------------------------------------------------------------------------
(* main *)

\* Without a free descriptor accept() fails and main tries again.
Accept ==
  /\ up /\ newFd = 0 /\ FreeFds # {}
  /\ \E c \in Clients \ accepted :
       /\ client[c] # "away"
       /\ accepted' = accepted \cup {c}
       /\ newFd' = Min(FreeFds)
       /\ conn' = [conn EXCEPT ![Min(FreeFds)] = c]
  /\ UNCHANGED <<client, ring, pc, has, up>>

\* Slip to be caught: nobody is woken.
EnqueueSilently ==
  /\ up /\ newFd # 0
  /\ queue' = [queue EXCEPT ![rear] = newFd] /\ rear' = Succ(rear)
  /\ overrun' = (overrun \/ Succ(rear) = front)
  /\ newFd' = 0
  /\ UNCHANGED <<client, accepted, conn, front, pc, has, up>>

\* The ring is not tested for being full.  The signal wakes one waiting worker.
enqueue ==
  /\ up /\ newFd # 0
  /\ queue' = [queue EXCEPT ![rear] = newFd] /\ rear' = Succ(rear)
  /\ overrun' = (overrun \/ Succ(rear) = front)
  /\ newFd' = 0
  /\ IF Waiting = {} THEN UNCHANGED pc
     ELSE \E w \in Waiting : pc' = [pc EXCEPT ![w] = "ready"]
  /\ UNCHANGED <<client, accepted, conn, front, has, up>>

-----------------------------------------------------------------------------
(* worker_thread *)

\* Slip to be caught: the ring is never left empty.
TakeButLast(w) ==
  /\ has' = [has EXCEPT ![w] = queue[front]]
  /\ front' = IF Succ(front) = rear THEN front ELSE Succ(front)
  /\ pc' = [pc EXCEPT ![w] = "recv"]

Take(w) ==
  /\ has' = [has EXCEPT ![w] = queue[front]]
  /\ front' = Succ(front)
  /\ pc' = [pc EXCEPT ![w] = "recv"]

\* Slip to be caught: the last one is taken.
DequeueLast(w) ==
  /\ up /\ pc[w] = "ready"
  /\ IF front = rear
       THEN pc' = [pc EXCEPT ![w] = "waiting"] /\ UNCHANGED <<has, rear>>
       ELSE /\ rear' = (rear - 1) % QueueSize
            /\ has' = [has EXCEPT ![w] = queue[(rear - 1) % QueueSize]]
            /\ pc' = [pc EXCEPT ![w] = "recv"]
  /\ UNCHANGED <<client, accepted, conn, newFd, queue, front, overrun, up>>

\* Under the mutex: wait while the ring looks empty, else take the first.
dequeue(w) ==
  /\ up /\ pc[w] = "ready"
  /\ IF front = rear
       THEN pc' = [pc EXCEPT ![w] = "waiting"] /\ UNCHANGED <<has, front>>
       ELSE Take(w)
  /\ UNCHANGED <<client, accepted, conn, newFd, queue, rear, overrun, up>>

\* pthread_cond_wait() may return without a signal.
WakeSpuriously(w) ==
  /\ up /\ pc[w] = "waiting"
  /\ pc' = [pc EXCEPT ![w] = "ready"]
  /\ UNCHANGED <<client, accepted, conn, newFd, ring, has, up>>

\* handle_client: recv() blocks until the request or the end of file is there.
Recv(w) ==
  /\ up /\ pc[w] = "recv" /\ client[conn[has[w]]] \in {"asked", "stalled", "gone"}
  /\ pc' = [pc EXCEPT ![w] = "send"]
  /\ UNCHANGED <<client, accepted, conn, newFd, ring, has, up>>

\* The sends, which block while the client does not read.  On a connection whose
\* client has gone one of them may be a SIGPIPE, which ends the process.
Send(w) ==
  /\ up /\ pc[w] = "send"
  /\ LET c == conn[has[w]] IN
     \/ /\ client[c] # "stalled"
        /\ pc' = [pc EXCEPT ![w] = "close"] /\ up' = up
        /\ client' = [client EXCEPT ![c] = IF @ = "gone" THEN @ ELSE "answered"]
     \/ client[c] = "gone" /\ up' = FALSE /\ UNCHANGED <<pc, client>>
  /\ UNCHANGED <<accepted, conn, newFd, ring, has>>

Close(w) ==
  /\ up /\ pc[w] = "close"
  /\ conn' = [conn EXCEPT ![has[w]] = None]
  /\ has' = [has EXCEPT ![w] = 0]
  /\ pc' = [pc EXCEPT ![w] = "ready"]
  /\ UNCHANGED <<client, accepted, newFd, ring, up>>

Client(c) == Connect(c) \/ Ask(c) \/ HangUp(c) \/ StopReading(c) \/ ReadOn(c)
Main == Accept \/ enqueue
Worker(w) == dequeue(w) \/ Recv(w) \/ Send(w) \/ Close(w)
Next ==
  \/ \E c \in Clients : Client(c)
  \/ Main
  \/ \E w \in Workers : Worker(w) \/ WakeSpuriously(w)

\* Threads that can run do.  Each time its client reads on, some more of the
\* page leaves send(), and a page has an end.  Nothing is asked of the clients.
Spec ==
  /\ Init /\ [][Next]_vars
  /\ WF_vars(Main)
  /\ \A w \in Workers : WF_vars(Worker(w)) /\ SF_vars(Send(w))

-----------------------------------------------------------------------------
(* Properties *)

TypeOK ==
  /\ client \in [Clients -> {"away", "connected", "asked", "stalled", "answered", "gone"}]
  /\ accepted \subseteq Clients
  /\ conn \in [Fds -> Clients \cup {None}]
  /\ newFd \in Fds \cup {0}
  /\ queue \in [Slots -> Fds \cup {0}] /\ front \in Slots /\ rear \in Slots
  /\ pc \in [Workers -> {"ready", "waiting", "recv", "send", "close"}]
  /\ has \in [Workers -> Fds \cup {0}]
  /\ up \in BOOLEAN /\ overrun \in BOOLEAN

\* In how many places a descriptor is: with main, in the ring, or with a worker.
Places(f) ==
  Cardinality({w \in Workers : pc[w] \in {"recv", "send", "close"} /\ has[w] = f})
    + Cardinality({k \in DOMAIN Pending : Pending[k] = f}) + (IF newFd = f THEN 1 ELSE 0)

\* No connection is handled twice, although its descriptor is reused as soon as
\* it is closed, and none is lost: an open descriptor is in exactly one place,
\* a closed one in none.  Once the ring has overrun, in one place at most.
OnePlacePerConnection ==
  /\ TypeOK
  /\ \A f \in Fds :
       /\ Places(f) <= (IF conn[f] = None THEN 0 ELSE 1)
       /\ conn[f] # None /\ ~overrun => Places(f) = 1
  /\ \A k \in DOMAIN Pending : Pending[k] # 0

\* The strengthening that makes it inductive: who has a descriptor, in the ring
\* or elsewhere, has an open one, and nobody else has it.
Held(f) == newFd = f \/ (\E k \in DOMAIN Pending : Pending[k] = f) \/ \E w \in Workers : has[w] = f
OpenInv ==
  /\ \A w \in Workers : has[w] # 0 <=> pc[w] \in {"recv", "send", "close"}
  /\ newFd # 0 => conn[newFd] # None
  /\ \A w \in Workers : has[w] # 0 => conn[has[w]] # None
  /\ \A k \in DOMAIN Pending : Pending[k] # 0 /\ conn[Pending[k]] # None
  /\ \A f \in Fds : conn[f] # None => conn[f] \in accepted
ApartInv ==
  /\ \A w, x \in Workers : has[w] = has[x] /\ has[w] # 0 => w = x
  /\ \A j, k \in DOMAIN Pending : Pending[j] = Pending[k] => j = k
  /\ \A w \in Workers : \A k \in DOMAIN Pending : has[w] # Pending[k]
  /\ newFd # 0 => (\A w \in Workers : has[w] # newFd) /\ \A k \in DOMAIN Pending : Pending[k] # newFd
HeldInv == ~overrun => \A f \in Fds : conn[f] # None => Held(f)
PoolInv == TypeOK /\ OpenInv /\ ApartInv /\ HeldInv

\* The connections that main has passed on, those in the ring in order, and the
\* one each worker has.
PassedOn == {c \in accepted : newFd = 0 \/ c # conn[newFd]}
Queued == [k \in DOMAIN Pending |-> conn[Pending[k]]]
Serving == [w \in Workers |-> IF has[w] = 0 THEN None ELSE conn[has[w]]]

Service == INSTANCE WorkQueue
  WITH Connections <- Clients, Capacity <- QueueSize - 1,
       put <- PassedOn, queue <- Queued, serving <- Serving

\* The ring is a queue of QUEUE_SIZE - 1 connections, each of which is served
\* once, by one worker, in order of arrival, however descriptors are reused and
\* threads woken.  One more makes it look empty, which loses them all, and it
\* is a queue again.
QueueSpec == Service!Spec

\* No wake-up is lost: while something is queued, not every worker sleeps.
SomeoneIsAwake == up /\ Pending # <<>> => Waiting # Workers

\* Each worker is blocked, by a client that says nothing or does not read.
AllHeld ==
  \A w \in Workers :
    \/ pc[w] = "recv" /\ client[conn[has[w]]] = "connected"
    \/ pc[w] = "send" /\ client[conn[has[w]]] = "stalled"

\* Every client that has sent its request is answered, unless it leaves or never
\* reads again, a SIGPIPE ends the process or the ring has overrun; and unless
\* such clients hold all the workers for ever, as nothing in the code limits how
\* long one may.  One worker that is free is enough for everybody else.
EveryClientAnswered ==
  []<>~AllHeld => \A c \in Clients :
    client[c] = "asked" ~>
      (client[c] \in {"answered", "gone"} \/ [](client[c] = "stalled") \/ ~up \/ overrun)
=============================================================================
