-------------------------- MODULE HttpPool_proofs --------------------------
(***************************************************************************)
(* Proofs about HttpPool for any number of clients, workers, descriptors   *)
(* and slots: no connection is in two places and none is lost before the   *)
(* ring has overrun, no wake-up is lost, and the ring with its workers     *)
(* implements WorkQueue.  And about HttpFork, for any number of browsers:  *)
(* no process holds a stranger's connection.                               *)
(***************************************************************************)
EXTENDS HttpPool, HttpFork, WellFoundedInduction, FiniteSetTheorems, TLAPS

-----------------------------------------------------------------------------
(* The ring as a sequence *)

\* What a remainder is next to the range of the indices.
LEMMA Remainder ==
  ASSUME NEW x \in -QueueSize .. 2 * QueueSize - 1
  PROVE  x % QueueSize = IF x < 0 THEN x + QueueSize ELSE IF x < QueueSize THEN x ELSE x - QueueSize
<1>1. QueueSize \in Nat \ {0} /\ x \in Int
  BY PoolAssumption DEF PoolAssumption
<1>2. CASE x < 0
  <2>1. x \in -QueueSize .. -1
    BY <1>1, <1>2
  <2>2. x % QueueSize = x + QueueSize
    BY <1>1, <2>1
  <2> QED BY <1>2, <2>2
<1>3. CASE x \in 0 .. QueueSize - 1
  <2>1. x % QueueSize = x
    BY <1>1, <1>3
  <2> QED BY <1>1, <1>3, <2>1
<1>4. CASE x \in QueueSize .. 2 * QueueSize - 1
  <2>1. x % QueueSize = x - QueueSize
    BY <1>1, <1>4
  <2> QED BY <1>1, <1>4, <2>1
<1> QED BY <1>1, <1>2, <1>3, <1>4

\* The ring from front up to rear, as a sequence of descriptors.
RingIs ==
  /\ Pending \in Seq(Fds \cup {0})
  /\ Len(Pending) = IF front <= rear THEN rear - front ELSE rear - front + QueueSize
  /\ Len(Pending) \in 0 .. QueueSize - 1
  /\ DOMAIN Pending = 1 .. Len(Pending)
  /\ \A k \in 1 .. Len(Pending) :
       Pending[k] = queue[IF front + k - 1 < QueueSize THEN front + k - 1 ELSE front + k - 1 - QueueSize]

LEMMA RingShape == TypeOK => RingIs
<1> SUFFICES ASSUME TypeOK PROVE RingIs
  OBVIOUS
<1> DEFINE L == IF front <= rear THEN rear - front ELSE rear - front + QueueSize
           At(k) == IF front + k - 1 < QueueSize THEN front + k - 1 ELSE front + k - 1 - QueueSize
<1>1. front \in 0 .. QueueSize - 1 /\ rear \in 0 .. QueueSize - 1 /\ QueueSize \in Nat \ {0, 1}
  BY PoolAssumption DEF PoolAssumption, TypeOK, Slots
<1>2. (rear - front) % QueueSize = L
  BY <1>1, Remainder
<1>3. L \in 0 .. QueueSize - 1
  BY <1>1
<1>4. \A k \in 1 .. L : (front + k - 1) % QueueSize = At(k)
  BY <1>1, <1>3, Remainder
<1>5. \A k \in 1 .. L : At(k) \in Slots
  BY <1>1, <1>3 DEF Slots
<1> HIDE DEF L, At
<1>6. Pending = [k \in 1 .. L |-> queue[At(k)]]
  BY <1>2, <1>4 DEF Pending
<1>7. \A k \in 1 .. L : queue[At(k)] \in Fds \cup {0}
  BY <1>5 DEF TypeOK
<1>8. Pending \in [1 .. L -> Fds \cup {0}]
  BY <1>6, <1>7
<1>9. Pending \in Seq(Fds \cup {0}) /\ Len(Pending) = L
  BY <1>8, <1>3
<1> QED BY <1>3, <1>6, <1>8, <1>9 DEF L, At, RingIs

LEMMA RingShapeNext == TypeOK' => RingIs'
BY RingShape, PTL

\* enqueue adds at the end, or finds the ring full and leaves it empty.
LEMMA PutShape ==
  ASSUME TypeOK, TypeOK', newFd # 0,
         queue' = [queue EXCEPT ![rear] = newFd], rear' = Succ(rear), front' = front
  PROVE  /\ Succ(rear) = front <=> Len(Pending) = QueueSize - 1
         /\ Pending' = IF Succ(rear) = front THEN <<>> ELSE Append(Pending, newFd)
<1> DEFINE L == Len(Pending)
<1>1. front \in 0 .. QueueSize - 1 /\ rear \in 0 .. QueueSize - 1 /\ QueueSize \in Nat \ {0, 1}
  BY PoolAssumption DEF PoolAssumption, TypeOK, Slots
<1>2. Succ(rear) = IF rear + 1 < QueueSize THEN rear + 1 ELSE 0
  BY <1>1, Remainder DEF Succ
<1>3. L = IF front <= rear THEN rear - front ELSE rear - front + QueueSize
  BY RingShape, RingShapeNext DEF RingIs
<1>4. Succ(rear) = front <=> L = QueueSize - 1
  BY <1>1, <1>2, <1>3
<1>5. Len(Pending') = IF Succ(rear) = front THEN 0 ELSE L + 1
  <2>1. Len(Pending') = IF front' <= rear' THEN rear' - front' ELSE rear' - front' + QueueSize
    BY RingShapeNext DEF RingIs
  <2> QED BY <1>1, <1>2, <1>3, <2>1
<1>6. CASE Succ(rear) = front
  BY <1>4, <1>5, <1>6, RingShape, RingShapeNext DEF RingIs
<1>7. CASE Succ(rear) # front
  <2>1. Pending' \in Seq(Fds \cup {0}) /\ Len(Pending') = L + 1
    BY <1>5, <1>7, RingShape, RingShapeNext DEF RingIs
  <2>2. \A k \in 1 .. L + 1 : Pending'[k] = Append(Pending, newFd)[k]
    <3> SUFFICES ASSUME NEW k \in 1 .. L + 1 PROVE Pending'[k] = Append(Pending, newFd)[k]
      OBVIOUS
    <3> DEFINE At(j) == IF front + j - 1 < QueueSize THEN front + j - 1 ELSE front + j - 1 - QueueSize
    <3>1. L \in 0 .. QueueSize - 1
      BY RingShape, RingShapeNext DEF RingIs
    <3>2. At(k) \in Slots /\ (At(k) = rear <=> k = L + 1)
      BY <1>1, <1>3, <3>1, <1>4, <1>7 DEF Slots
    <3>3. Pending'[k] = queue'[At(k)]
      BY <2>1, RingShape, RingShapeNext DEF RingIs
    <3>4. k <= L => Pending[k] = queue[At(k)]
      BY RingShape, RingShapeNext, <3>1 DEF RingIs
    <3> HIDE DEF At
    <3>5. queue'[At(k)] = IF k = L + 1 THEN newFd ELSE queue[At(k)]
      BY <3>2 DEF TypeOK
    <3>6. Append(Pending, newFd)[k] = IF k = L + 1 THEN newFd ELSE Pending[k]
      BY RingShape, RingShapeNext, <3>1 DEF RingIs
    <3> QED BY <3>1, <3>3, <3>4, <3>5, <3>6
  <2>3. Append(Pending, newFd) \in Seq(Fds \cup {0}) /\ Len(Append(Pending, newFd)) = L + 1
    BY RingShape, RingShapeNext DEF TypeOK, RingIs
  <2>4. Pending' = Append(Pending, newFd)
    BY <2>1, <2>2, <2>3
  <2> QED BY <1>4, <1>7, <2>4
<1> QED BY <1>4, <1>6, <1>7

\* dequeue takes the first.
LEMMA TakeShape ==
  ASSUME TypeOK, TypeOK', front # rear, front' = Succ(front), queue' = queue, rear' = rear
  PROVE  Pending # <<>> /\ queue[front] = Head(Pending) /\ Pending' = Tail(Pending)
<1> DEFINE L == Len(Pending)
<1>1. front \in 0 .. QueueSize - 1 /\ rear \in 0 .. QueueSize - 1 /\ QueueSize \in Nat \ {0, 1}
  BY PoolAssumption DEF PoolAssumption, TypeOK, Slots
<1>2. Succ(front) = IF front + 1 < QueueSize THEN front + 1 ELSE 0
  BY <1>1, Remainder DEF Succ
<1>3. L = (IF front <= rear THEN rear - front ELSE rear - front + QueueSize) /\ L \in 1 .. QueueSize - 1
  BY <1>1, RingShape, RingShapeNext DEF RingIs
<1>4. Len(Pending') = L - 1
  <2>1. Len(Pending') = IF front' <= rear' THEN rear' - front' ELSE rear' - front' + QueueSize
    BY RingShapeNext DEF RingIs
  <2> QED BY <1>1, <1>2, <1>3, <2>1
<1>5. Pending # <<>> /\ queue[front] = Head(Pending)
  BY <1>1, <1>3, RingShape, RingShapeNext DEF RingIs
<1>6. Pending' \in Seq(Fds \cup {0}) /\ Len(Pending') = L - 1
  BY <1>4, RingShape, RingShapeNext DEF RingIs
<1>7. \A k \in 1 .. L - 1 : Pending'[k] = Tail(Pending)[k]
  <2> SUFFICES ASSUME NEW k \in 1 .. L - 1 PROVE Pending'[k] = Tail(Pending)[k]
    OBVIOUS
  <2> DEFINE At(f, j) == IF f + j - 1 < QueueSize THEN f + j - 1 ELSE f + j - 1 - QueueSize
  <2>1. At(front', k) = At(front, k + 1)
    BY <1>1, <1>2, <1>3
  <2>2. Pending'[k] = queue'[At(front', k)]
    BY <1>6, RingShape, RingShapeNext DEF RingIs
  <2>3. Pending[k + 1] = queue[At(front, k + 1)]
    BY <1>3, RingShape, RingShapeNext DEF RingIs
  <2> HIDE DEF At
  <2>4. Tail(Pending)[k] = Pending[k + 1]
    BY <1>3, <1>5, RingShape, RingShapeNext DEF RingIs
  <2> QED BY <2>1, <2>2, <2>3, <2>4
<1>8. Tail(Pending) \in Seq(Fds \cup {0}) /\ Len(Tail(Pending)) = L - 1
  BY <1>3, <1>5, RingShape, RingShapeNext DEF RingIs
<1> QED BY <1>5, <1>6, <1>7, <1>8

LEMMA SameShape == ASSUME UNCHANGED <<queue, front, rear>> PROVE Pending' = Pending
BY DEF Pending

-----------------------------------------------------------------------------
(* Types *)

LEMMA SuccSlot == ASSUME NEW i \in Slots PROVE Succ(i) \in Slots
<1>1. QueueSize \in Nat \ {0, 1}
  BY PoolAssumption DEF PoolAssumption
<1>2. i + 1 \in 0 .. 2 * QueueSize - 1 /\ i \in 0 .. QueueSize - 1
  BY <1>1 DEF Slots
<1>3. Succ(i) = IF i + 1 < QueueSize THEN i + 1 ELSE 0
  BY <1>1, <1>2, Remainder DEF Succ
<1> QED BY <1>1, <1>2, <1>3 DEF Slots

\* accept() gives the lowest number that is free.
LEMMA FreshFd == ASSUME FreeFds # {} PROVE Min(FreeFds) \in FreeFds
<1>1. FreeFds \in SUBSET Nat
  BY PoolAssumption DEF PoolAssumption, FreeFds, Fds
<1>2. \E f \in FreeFds : \A g \in FreeFds : f <= g
  <2> DEFINE R == {p \in Nat \X Nat : p[1] < p[2]}
  <2>1. IsWellFoundedOn(R, Nat)
    BY NatLessThanWellFounded DEF OpToRel
  <2>2. \E f \in FreeFds : \A g \in FreeFds : ~(<<g, f>> \in R)
    <3> HIDE DEF R
    <3> QED BY <1>1, <2>1, WFMin
  <2>3. \A f, g \in Nat : <<g, f>> \in R <=> g < f
    OBVIOUS
  <2> HIDE DEF R
  <2>4. PICK f \in FreeFds : \A g \in FreeFds : ~(<<g, f>> \in R)
    BY <2>2
  <2>5. ASSUME NEW g \in FreeFds PROVE f <= g
    <3>1. f \in Nat /\ g \in Nat
      BY <1>1
    <3>2. ~(g < f)
      BY <2>3, <2>4, <3>1, Zenon
    <3> QED BY <3>1, <3>2
  <2> QED BY <2>5
<1> QED BY <1>2 DEF Min

LEMMA InitTypes == Init => TypeOK
<1> SUFFICES ASSUME Init PROVE TypeOK
  OBVIOUS
<1>1. front \in Slots /\ rear \in Slots
  BY PoolAssumption DEF PoolAssumption, Init, Slots
<1>2. up \in BOOLEAN /\ overrun \in BOOLEAN
  BY DEF Init
<1> QED BY <1>1, <1>2 DEF Init, TypeOK

LEMMA NextTypes == TypeOK /\ [Next]_vars => TypeOK'
<1> SUFFICES ASSUME TypeOK, [Next]_vars PROVE TypeOK'
  OBVIOUS
<1> USE DEF TypeOK
<1>1. ASSUME NEW c \in Clients, Client(c) PROVE TypeOK'
  BY <1>1 DEF Client, Connect, Ask, HangUp, StopReading, ReadOn, ClientGoes, ring
<1>2. CASE Accept
  <2>1. Min(FreeFds) \in Fds
    BY <1>2, FreshFd DEF Accept, FreeFds
  <2> QED BY <1>2, <2>1 DEF Accept, ring
<1>3. CASE enqueue
  <2>1. rear' \in Slots
    BY <1>3, SuccSlot DEF enqueue
  <2> QED BY <1>3, <2>1 DEF enqueue
<1>4. ASSUME NEW w \in Workers, dequeue(w) PROVE TypeOK'
  <2>1. front' \in Slots
    BY <1>4, SuccSlot DEF dequeue, Take
  <2> QED BY <1>4, <2>1 DEF dequeue, Take
<1>5. ASSUME NEW w \in Workers, WakeSpuriously(w) PROVE TypeOK'
  BY <1>5 DEF WakeSpuriously, ring
<1>6. ASSUME NEW w \in Workers, Recv(w) PROVE TypeOK'
  BY <1>6 DEF Recv, ring
<1>7. ASSUME NEW w \in Workers, Send(w) PROVE TypeOK'
  BY <1>7 DEF Send, ring
<1>8. ASSUME NEW w \in Workers, Close(w) PROVE TypeOK'
  BY <1>8 DEF Close, ring
<1>9. CASE UNCHANGED vars
  BY <1>9 DEF vars, ring
<1> QED BY <1>1, <1>2, <1>3, <1>4, <1>5, <1>6, <1>7, <1>8, <1>9 DEF Next, Main, Worker

-----------------------------------------------------------------------------
(* Every open connection in one place *)

LEMMA InitPool == Init => PoolInv
<1> SUFFICES ASSUME Init PROVE PoolInv
  OBVIOUS
<1>1. TypeOK
  BY InitTypes
<1>2. DOMAIN Pending = {}
  <2>1. Len(Pending) = 0
    BY <1>1, RingShape, PoolAssumption DEF PoolAssumption, RingIs, Init
  <2> QED BY <1>1, <2>1, RingShape DEF RingIs
<1>3. OpenInv /\ ApartInv /\ HeldInv
  BY <1>2 DEF Init, OpenInv, ApartInv, HeldInv
<1> QED BY <1>1, <1>3 DEF PoolInv

\* A step that moves no descriptor.
LEMMA NothingMoves ==
  ASSUME PoolInv, TypeOK', UNCHANGED <<accepted, conn, newFd, ring, has>>,
         \A w \in Workers :
           pc'[w] \in {"recv", "send", "close"} <=> pc[w] \in {"recv", "send", "close"}
  PROVE  PoolInv'
<1>1. Pending' = Pending
  BY SameShape DEF ring
<1>2. OpenInv'
  BY <1>1 DEF PoolInv, OpenInv
<1>3. ApartInv'
  BY <1>1 DEF PoolInv, ApartInv
<1>4. HeldInv'
  BY <1>1 DEF PoolInv, HeldInv, Held, ring
<1> QED BY <1>2, <1>3, <1>4 DEF PoolInv

LEMMA AcceptKeeps == ASSUME PoolInv, TypeOK', Accept PROVE PoolInv'
<1> DEFINE f == Min(FreeFds)
<1>1. Pending' = Pending
  BY SameShape DEF Accept, ring
<1>2. f \in Fds /\ conn[f] = None
  BY FreshFd DEF Accept, FreeFds
<1>3. PICK c \in Clients \ accepted :
        accepted' = accepted \cup {c} /\ newFd' = f /\ conn' = [conn EXCEPT ![f] = c]
  BY DEF Accept
<1>4. newFd = 0 /\ has' = has /\ pc' = pc /\ overrun' = overrun /\ c # None /\ f # 0
  BY <1>2, <1>3, PoolAssumption DEF PoolAssumption, Accept, ring, None, Fds
<1> HIDE DEF f
<1>5. conn \in [Fds -> Clients \cup {None}]
  BY DEF PoolInv, TypeOK
<1>6. OpenInv'
  BY <1>1, <1>2, <1>3, <1>4, <1>5 DEF PoolInv, OpenInv
<1>7. ApartInv'
  BY <1>1, <1>2, <1>3, <1>4 DEF PoolInv, OpenInv, ApartInv
<1>8. HeldInv'
  <2> SUFFICES ASSUME ~overrun, NEW g \in Fds, conn'[g] # None PROVE Held(g)'
    BY <1>4 DEF HeldInv
  <2>1. CASE g = f
    BY <2>1, <1>3 DEF Held
  <2>2. CASE g # f
    <3>1. Held(g) /\ newFd # g
      BY <2>2, <1>2, <1>3, <1>4, <1>5, PoolAssumption DEF PoolAssumption, PoolInv, HeldInv, Fds
    <3> QED BY <3>1, <1>1, <1>4 DEF Held
  <2> QED BY <2>1, <2>2
<1> QED BY <1>6, <1>7, <1>8 DEF PoolInv

LEMMA enqueueKeeps == ASSUME PoolInv, TypeOK', enqueue PROVE PoolInv'
<1> DEFINE full == Succ(rear) = front
<1>1. newFd \in Fds /\ conn[newFd] # None /\ newFd # 0
  BY DEF enqueue, PoolInv, TypeOK, OpenInv
<1>2. Pending' = IF full THEN <<>> ELSE Append(Pending, newFd)
  BY PutShape DEF enqueue, PoolInv
<1>3. /\ newFd' = 0 /\ conn' = conn /\ has' = has /\ accepted' = accepted
      /\ overrun' = (overrun \/ full)
      /\ \A w \in Workers :
           pc'[w] \in {"recv", "send", "close"} <=> pc[w] \in {"recv", "send", "close"}
  BY DEF enqueue, Waiting, PoolInv, TypeOK
<1>4. Pending \in Seq(Fds \cup {0}) /\ DOMAIN Pending = 1 .. Len(Pending) /\ Len(Pending) \in Nat
  BY RingShape, PoolAssumption DEF PoolAssumption, RingIs, PoolInv
\* What is in the ring afterwards was there before, or is the new descriptor.
<1>5. \A k \in DOMAIN Pending' :
        \/ k \in DOMAIN Pending /\ Pending'[k] = Pending[k]
        \/ k = Len(Pending) + 1 /\ Pending'[k] = newFd
  BY <1>1, <1>2, <1>4
<1> HIDE DEF full
<1>6. OpenInv'
  BY <1>1, <1>3, <1>5 DEF PoolInv, OpenInv
<1>7. ApartInv'
  <2>1. \A j, k \in DOMAIN Pending' : Pending'[j] = Pending'[k] => j = k
    BY <1>1, <1>5 DEF PoolInv, ApartInv
  <2> QED BY <1>1, <1>3, <1>5, <2>1 DEF PoolInv, ApartInv
<1>8. HeldInv'
  <2> SUFFICES ASSUME ~overrun, ~full, NEW f \in Fds, conn[f] # None PROVE Held(f)'
    BY <1>3 DEF HeldInv
  <2>1. DOMAIN Pending' = 1 .. Len(Pending) + 1 /\ Pending' = Append(Pending, newFd)
    BY <1>1, <1>2, <1>4
  <2>2. Held(f)
    BY DEF PoolInv, HeldInv
  <2>3. CASE newFd = f
    <3>1. Pending'[Len(Pending) + 1] = f /\ Len(Pending) + 1 \in DOMAIN Pending'
      BY <2>1, <2>3, <1>1, <1>4
    <3> QED BY <3>1 DEF Held
  <2>4. ASSUME NEW k \in DOMAIN Pending, Pending[k] = f PROVE Held(f)'
    <3>1. Pending'[k] = f /\ k \in DOMAIN Pending'
      BY <2>1, <2>4, <1>1, <1>4
    <3> QED BY <3>1 DEF Held
  <2>5. ASSUME NEW w \in Workers, has[w] = f PROVE Held(f)'
    BY <2>5, <1>3 DEF Held
  <2> QED BY <2>2, <2>3, <2>4, <2>5 DEF Held
<1> QED BY <1>6, <1>7, <1>8 DEF PoolInv

LEMMA TakeKeeps ==
  ASSUME PoolInv, TypeOK', NEW w \in Workers, dequeue(w), front # rear PROVE PoolInv'
<1> DEFINE f == queue[front]
<1>1. /\ pc[w] = "ready" /\ pc' = [pc EXCEPT ![w] = "recv"] /\ has' = [has EXCEPT ![w] = f]
      /\ UNCHANGED <<accepted, conn, newFd, overrun>>
  BY DEF dequeue, Take
<1>2. Pending # <<>> /\ f = Head(Pending) /\ Pending' = Tail(Pending)
  BY TakeShape DEF dequeue, Take, PoolInv
<1>3. Pending \in Seq(Fds \cup {0}) /\ DOMAIN Pending = 1 .. Len(Pending) /\ Len(Pending) \in Nat
  BY RingShape, PoolAssumption DEF PoolAssumption, RingIs, PoolInv
<1>4. 1 \in DOMAIN Pending /\ Pending[1] = f
  BY <1>2, <1>3
<1>5. f # 0 /\ f \in Fds /\ conn[f] # None
  BY <1>3, <1>4 DEF PoolInv, OpenInv
<1>6. \A k \in DOMAIN Pending' :
        k + 1 \in DOMAIN Pending /\ k + 1 # 1 /\ Pending'[k] = Pending[k + 1] /\ k \in Nat
  BY <1>2, <1>3
<1>7. has \in [Workers -> Fds \cup {0}] /\ pc \in [Workers -> {"ready", "waiting", "recv", "send", "close"}]
  BY DEF PoolInv, TypeOK
<1> HIDE DEF f
<1>8. OpenInv'
  BY <1>1, <1>5, <1>6, <1>7 DEF PoolInv, OpenInv
<1>9. ApartInv'
  <2>1. \A v \in Workers : has[v] # f
    BY <1>4 DEF PoolInv, ApartInv
  <2>2. \A k \in DOMAIN Pending' : Pending'[k] # f
    BY <1>4, <1>6 DEF PoolInv, ApartInv
  <2>3. \A j, k \in DOMAIN Pending' : Pending'[j] = Pending'[k] => j = k
    BY <1>6 DEF PoolInv, ApartInv
  <2>4. newFd # 0 => newFd # f
    BY <1>4 DEF PoolInv, ApartInv
  <2>5. \A v, x \in Workers : has'[v] = has'[x] /\ has'[v] # 0 => v = x
    BY <1>1, <1>7, <2>1 DEF PoolInv, ApartInv
  <2>6. \A v \in Workers : \A k \in DOMAIN Pending' : has'[v] # Pending'[k]
    BY <1>1, <1>6, <1>7, <2>2 DEF PoolInv, ApartInv
  <2>7. newFd # 0 => (\A v \in Workers : has'[v] # newFd) /\ \A k \in DOMAIN Pending' : Pending'[k] # newFd
    BY <1>1, <1>6, <1>7, <2>4 DEF PoolInv, ApartInv
  <2> QED BY <1>1, <2>3, <2>5, <2>6, <2>7 DEF ApartInv
<1>10. HeldInv'
  <2> SUFFICES ASSUME ~overrun, NEW g \in Fds, conn[g] # None PROVE Held(g)'
    BY <1>1 DEF HeldInv
  <2>1. Held(g)
    BY DEF PoolInv, HeldInv
  <2>2. CASE newFd = g
    BY <2>2, <1>1 DEF Held
  <2>3. ASSUME NEW k \in DOMAIN Pending, Pending[k] = g PROVE Held(g)'
    <3>1. CASE k = 1
      BY <3>1, <2>3, <1>1, <1>4, <1>7 DEF Held
    <3>2. CASE k # 1
      <4>1. k - 1 \in DOMAIN Pending' /\ Pending'[k - 1] = g
        BY <3>2, <2>3, <1>2, <1>3
      <4> QED BY <4>1 DEF Held
    <3> QED BY <3>1, <3>2
  <2>4. ASSUME NEW v \in Workers, has[v] = g PROVE Held(g)'
    <3>1. v # w
      BY <2>4, <1>1, PoolAssumption DEF PoolAssumption, PoolInv, OpenInv, Fds
    <3> QED BY <3>1, <2>4, <1>1 DEF Held
  <2> QED BY <2>1, <2>2, <2>3, <2>4 DEF Held
<1> QED BY <1>8, <1>9, <1>10 DEF PoolInv

LEMMA CloseKeeps == ASSUME PoolInv, TypeOK', NEW w \in Workers, Close(w) PROVE PoolInv'
<1> DEFINE f == has[w]
<1>1. /\ f # 0 /\ f \in Fds /\ conn' = [conn EXCEPT ![f] = None] /\ has' = [has EXCEPT ![w] = 0]
      /\ pc' = [pc EXCEPT ![w] = "ready"] /\ UNCHANGED <<accepted, newFd, overrun>>
  BY DEF Close, ring, PoolInv, OpenInv, TypeOK
<1>2. Pending' = Pending
  BY SameShape DEF Close, ring
<1>3. /\ conn \in [Fds -> Clients \cup {None}] /\ has \in [Workers -> Fds \cup {0}]
      /\ pc \in [Workers -> {"ready", "waiting", "recv", "send", "close"}]
      /\ newFd \in Fds \cup {0} /\ \A k \in DOMAIN Pending : Pending[k] \in Fds \cup {0}
  BY RingShape DEF PoolInv, TypeOK, RingIs
<1>4. /\ \A v \in Workers : v # w => has[v] # f
      /\ \A k \in DOMAIN Pending : Pending[k] # f
      /\ newFd # f
  BY <1>1 DEF PoolInv, ApartInv
<1> HIDE DEF f
<1>5. OpenInv'
  BY <1>1, <1>2, <1>3, <1>4 DEF PoolInv, OpenInv
<1>6. ApartInv'
  BY <1>1, <1>2, <1>3, <1>4 DEF PoolInv, OpenInv, ApartInv
<1>7. HeldInv'
  <2> SUFFICES ASSUME ~overrun, NEW g \in Fds, conn'[g] # None PROVE Held(g)'
    BY <1>1 DEF HeldInv
  <2>1. g # f /\ Held(g)
    BY <1>1, <1>3 DEF PoolInv, HeldInv
  <2>2. \A v \in Workers : has[v] = g => has'[v] = g
    BY <2>1, <1>1, <1>3 DEF f
  <2> QED BY <2>1, <2>2, <1>1, <1>2 DEF Held
<1> QED BY <1>5, <1>6, <1>7 DEF PoolInv

LEMMA NextPool == PoolInv /\ [Next]_vars => PoolInv'
<1> SUFFICES ASSUME PoolInv, [Next]_vars PROVE PoolInv'
  OBVIOUS
<1>t. TypeOK'
  BY NextTypes DEF PoolInv
<1>1. ASSUME NEW c \in Clients, Client(c) PROVE PoolInv'
  BY <1>1, <1>t, NothingMoves DEF Client, Connect, Ask, HangUp, StopReading, ReadOn, ClientGoes
<1>2. CASE Accept
  BY <1>2, <1>t, AcceptKeeps
<1>3. CASE enqueue
  BY <1>3, <1>t, enqueueKeeps
<1>4. ASSUME NEW w \in Workers, dequeue(w) PROVE PoolInv'
  <2>1. CASE front # rear
    BY <2>1, <1>4, <1>t, TakeKeeps
  <2>2. CASE front = rear
    BY <2>2, <1>4, <1>t, NothingMoves DEF dequeue, ring, PoolInv, TypeOK
  <2> QED BY <2>1, <2>2
<1>5. ASSUME NEW w \in Workers, WakeSpuriously(w) PROVE PoolInv'
  BY <1>5, <1>t, NothingMoves DEF WakeSpuriously, PoolInv, TypeOK
<1>6. ASSUME NEW w \in Workers, Recv(w) PROVE PoolInv'
  BY <1>6, <1>t, NothingMoves DEF Recv, PoolInv, TypeOK
<1>7. ASSUME NEW w \in Workers, Send(w) PROVE PoolInv'
  BY <1>7, <1>t, NothingMoves DEF Send, PoolInv, TypeOK
<1>8. ASSUME NEW w \in Workers, Close(w) PROVE PoolInv'
  BY <1>8, <1>t, CloseKeeps
<1>9. CASE UNCHANGED vars
  BY <1>9, <1>t, NothingMoves DEF vars
<1> QED BY <1>1, <1>2, <1>3, <1>4, <1>5, <1>6, <1>7, <1>8, <1>9 DEF Next, Main, Worker

\* Types of all variables of main, the ring, the workers and the connections.
THEOREM TypeCorrect == Spec => []TypeOK
<1> QED BY InitTypes, NextTypes, PTL DEF Spec

\* The inductive invariant: who has a descriptor has an open one, alone.
THEOREM Invariance == Spec => []PoolInv
<1> QED BY InitPool, NextPool, PTL DEF Spec

LEMMA AtMostOne ==
  ASSUME NEW S, \A x, y \in S : x = y
  PROVE  Cardinality(S) = IF S = {} THEN 0 ELSE 1
<1>1. CASE S = {}
  BY <1>1, FS_EmptySet
<1>2. CASE S # {}
  <2>1. PICK x : x \in S
    BY <1>2
  <2>2. S = {x}
    BY <2>1
  <2> QED BY <1>2, <2>2, FS_Singleton
<1> QED BY <1>1, <1>2

LEMMA PoolInvOnePlace == PoolInv => OnePlacePerConnection
<1> SUFFICES ASSUME PoolInv PROVE OnePlacePerConnection
  OBVIOUS
<1>1. ASSUME NEW f \in Fds
      PROVE  /\ Places(f) <= (IF conn[f] = None THEN 0 ELSE 1)
             /\ conn[f] # None /\ ~overrun => Places(f) = 1
  <2> DEFINE A == {w \in Workers : pc[w] \in {"recv", "send", "close"} /\ has[w] = f}
             B == {k \in DOMAIN Pending : Pending[k] = f}
  <2>1. f # 0
    BY PoolAssumption DEF PoolAssumption, Fds
  <2>2. A = {w \in Workers : has[w] = f}
    BY <2>1 DEF PoolInv, OpenInv
  <2>3. Cardinality(A) = IF A = {} THEN 0 ELSE 1
    <3>1. \A x, y \in A : x = y
      BY <2>1 DEF PoolInv, ApartInv
    <3> QED BY <3>1, AtMostOne
  <2>4. Cardinality(B) = IF B = {} THEN 0 ELSE 1
    <3>1. \A x, y \in B : x = y
      BY DEF PoolInv, ApartInv
    <3> QED BY <3>1, AtMostOne
  <2>5. /\ ~(A # {} /\ B # {})
        /\ newFd = f => A = {} /\ B = {}
        /\ newFd = f \/ A # {} \/ B # {} => conn[f] # None
    BY <2>1, <2>2 DEF PoolInv, OpenInv, ApartInv
  <2>6. conn[f] # None /\ ~overrun => newFd = f \/ A # {} \/ B # {}
    BY <2>2 DEF PoolInv, HeldInv, Held
  <2>7. Places(f) = Cardinality(A) + Cardinality(B) + (IF newFd = f THEN 1 ELSE 0)
    BY DEF Places
  <2> HIDE DEF A, B
  <2> QED BY <2>3, <2>4, <2>5, <2>6, <2>7
<1> QED BY <1>1 DEF PoolInv, OpenInv, OnePlacePerConnection

\* No connection is handled twice, and before the ring overruns none is lost.
THEOREM NoneTwiceNoneLost == Spec => []OnePlacePerConnection
<1> QED BY Invariance, PoolInvOnePlace, PTL

-----------------------------------------------------------------------------
(* No lost wake-up *)

LEMMA InitAwake == Init => SomeoneIsAwake
BY PoolAssumption DEF PoolAssumption, Init, SomeoneIsAwake, Waiting

LEMMA NextAwake == TypeOK /\ SomeoneIsAwake /\ [Next]_vars => SomeoneIsAwake'
<1> SUFFICES ASSUME TypeOK, SomeoneIsAwake, [Next]_vars PROVE SomeoneIsAwake'
  OBVIOUS
<1>t. TypeOK' /\ pc \in [Workers -> {"ready", "waiting", "recv", "send", "close"}]
  BY NextTypes DEF TypeOK
<1>1. ASSUME UNCHANGED <<queue, front, rear>>, up' => up,
             \A w \in Workers : pc'[w] = "waiting" => pc[w] = "waiting"
      PROVE  SomeoneIsAwake'
  BY <1>1, SameShape DEF SomeoneIsAwake, Waiting
<1>2. ASSUME NEW c \in Clients, Client(c) PROVE SomeoneIsAwake'
  BY <1>1, <1>2 DEF Client, Connect, Ask, HangUp, StopReading, ReadOn, ClientGoes, ring
<1>3. CASE Accept
  BY <1>1, <1>3 DEF Accept, ring
<1>4. CASE enqueue
  <2>1. CASE Waiting = {}
    BY <2>1, <1>4, PoolAssumption DEF PoolAssumption, enqueue, SomeoneIsAwake, Waiting
  <2>2. CASE Waiting # {}
    <3>1. PICK w \in Waiting : pc' = [pc EXCEPT ![w] = "ready"]
      BY <2>2, <1>4 DEF enqueue
    <3> QED BY <3>1, <1>t DEF SomeoneIsAwake, Waiting
  <2> QED BY <2>1, <2>2
<1>5. ASSUME NEW w \in Workers, dequeue(w) PROVE SomeoneIsAwake'
  <2>1. CASE front = rear
    <3>1. Pending' = Pending
      BY <2>1, <1>5, SameShape DEF dequeue
    <3>2. Pending = <<>>
      BY <2>1, RingShape, PoolAssumption DEF PoolAssumption, RingIs, TypeOK, Slots
    <3> QED BY <3>1, <3>2 DEF SomeoneIsAwake
  <2>2. CASE front # rear
    <3>1. pc' = [pc EXCEPT ![w] = "recv"]
      BY <2>2, <1>5 DEF dequeue, Take
    <3> QED BY <3>1, <1>t DEF SomeoneIsAwake, Waiting
  <2> QED BY <2>1, <2>2
<1>6. ASSUME NEW w \in Workers, WakeSpuriously(w) PROVE SomeoneIsAwake'
  BY <1>1, <1>6, <1>t DEF WakeSpuriously, ring
<1>7. ASSUME NEW w \in Workers, Recv(w) PROVE SomeoneIsAwake'
  BY <1>1, <1>7, <1>t DEF Recv, ring
<1>8. ASSUME NEW w \in Workers, Send(w) PROVE SomeoneIsAwake'
  BY <1>1, <1>8, <1>t DEF Send, ring, TypeOK
<1>9. ASSUME NEW w \in Workers, Close(w) PROVE SomeoneIsAwake'
  BY <1>1, <1>9, <1>t DEF Close, ring
<1>10. CASE UNCHANGED vars
  BY <1>1, <1>10 DEF vars, ring
<1> QED BY <1>2, <1>3, <1>4, <1>5, <1>6, <1>7, <1>8, <1>9, <1>10 DEF Next, Main, Worker

\* One signal for each connection is enough, with spurious wake-ups and workers
\* that come back while a signal is under way.
THEOREM NoLostWakeup == Spec => []SomeoneIsAwake
<1> QED BY InitTypes, NextTypes, InitAwake, NextAwake, PTL DEF Spec

-----------------------------------------------------------------------------
(* The refinement *)

LEMMA InitService == Init => Service!Init
<1> SUFFICES ASSUME Init PROVE Service!Init
  OBVIOUS
<1>1. Len(Pending) = 0 /\ Pending = <<>>
  BY InitTypes, RingShape, PoolAssumption DEF PoolAssumption, RingIs, Init
<1>2. Queued = <<>>
  BY <1>1 DEF Queued
<1>3. PassedOn = {} /\ Serving = [w \in Workers |-> Service!None]
  BY DEF Init, PassedOn, Serving, None, Service!None
<1> QED BY <1>2, <1>3 DEF Service!Init

\* A step that moves no descriptor is not seen.
LEMMA NothingSeen ==
  ASSUME UNCHANGED <<accepted, conn, newFd, queue, front, rear, has>>
  PROVE  UNCHANGED Service!vars
BY SameShape DEF Service!vars, PassedOn, Queued, Serving

LEMMA AcceptUnseen == ASSUME PoolInv, Accept PROVE UNCHANGED Service!vars
<1> DEFINE f == Min(FreeFds)
<1>1. Pending' = Pending /\ has' = has /\ newFd = 0
  BY SameShape DEF Accept, ring
<1>2. f \in Fds /\ conn[f] = None /\ f # 0
  BY FreshFd, PoolAssumption DEF PoolAssumption, Accept, FreeFds, Fds
<1>3. PICK c \in Clients \ accepted :
        accepted' = accepted \cup {c} /\ newFd' = f /\ conn' = [conn EXCEPT ![f] = c]
  BY DEF Accept
<1> HIDE DEF f
<1>4. conn \in [Fds -> Clients \cup {None}] /\ conn'[f] = c
  BY <1>2, <1>3 DEF PoolInv, TypeOK
<1>5. PassedOn' = PassedOn
  BY <1>1, <1>2, <1>3, <1>4 DEF PassedOn
<1>6. Queued' = Queued
  <2>1. \A k \in DOMAIN Pending : conn'[Pending[k]] = conn[Pending[k]]
    BY <1>2, <1>3, <1>4 DEF PoolInv, OpenInv
  <2> QED BY <1>1, <2>1 DEF Queued
<1>7. Serving' = Serving
  <2>1. \A w \in Workers : has[w] # 0 => conn'[has[w]] = conn[has[w]]
    BY <1>2, <1>3, <1>4 DEF PoolInv, OpenInv
  <2> QED BY <1>1, <2>1 DEF Serving
<1> QED BY <1>5, <1>6, <1>7 DEF Service!vars

LEMMA FunctionIsSeq ==
  ASSUME NEW S, NEW n \in Nat, NEW t \in [1 .. n -> S] PROVE t \in Seq(S) /\ Len(t) = n
OBVIOUS

LEMMA QueuedShape ==
  ASSUME PoolInv
  PROVE  Queued \in Seq(Clients) /\ Len(Queued) = Len(Pending) /\ DOMAIN Queued = DOMAIN Pending
<1>1. Pending \in Seq(Fds \cup {0}) /\ DOMAIN Pending = 1 .. Len(Pending) /\ Len(Pending) \in Nat
  BY RingShape, PoolAssumption DEF PoolAssumption, RingIs, PoolInv
<1>2. \A k \in 1 .. Len(Pending) : conn[Pending[k]] \in Clients
  BY <1>1 DEF PoolInv, OpenInv, TypeOK
<1>3. Queued = [k \in 1 .. Len(Pending) |-> conn[Pending[k]]]
  BY <1>1 DEF Queued
<1>4. Queued \in [1 .. Len(Pending) -> Clients]
  BY <1>2, <1>3
<1> QED BY <1>1, <1>4

LEMMA enqueuePuts == ASSUME PoolInv, TypeOK', enqueue PROVE Service!Put(conn[newFd])
<1> DEFINE c == conn[newFd]
<1>1. newFd \in Fds /\ newFd # 0 /\ c \in accepted
  BY DEF enqueue, PoolInv, TypeOK, OpenInv
<1>2. newFd' = 0 /\ conn' = conn /\ has' = has /\ accepted' = accepted
  BY DEF enqueue
<1>3. /\ Succ(rear) = front <=> Len(Pending) = QueueSize - 1
      /\ Pending' = IF Succ(rear) = front THEN <<>> ELSE Append(Pending, newFd)
  BY PutShape DEF enqueue, PoolInv
<1>4. Pending \in Seq(Fds \cup {0}) /\ DOMAIN Pending = 1 .. Len(Pending) /\ Len(Pending) \in 0 .. QueueSize - 1
  BY RingShape DEF RingIs, PoolInv
<1>5. c \notin PassedOn /\ PassedOn' = PassedOn \cup {c}
  BY <1>1, <1>2 DEF PassedOn
<1>6. Queued' = IF Len(Queued) < QueueSize - 1 THEN Append(Queued, c) ELSE <<>>
  <2>q. Len(Queued) = Len(Pending) /\ Queued \in Seq(Clients)
    BY QueuedShape
  <2>1. CASE Len(Pending) = QueueSize - 1
    <3>1. Pending' = <<>>
      BY <2>1, <1>3
    <3>2. Queued' = <<>>
      BY <3>1 DEF Queued
    <3> QED BY <3>2, <2>1, <2>q, PoolAssumption DEF PoolAssumption
  <2>2. CASE Len(Pending) # QueueSize - 1
    <3>1. Pending' = Append(Pending, newFd) /\ Len(Pending) < QueueSize - 1
      BY <2>2, <1>3, <1>4, PoolAssumption DEF PoolAssumption
    <3>2. /\ DOMAIN Pending' = 1 .. Len(Pending) + 1
          /\ \A k \in 1 .. Len(Pending) : Pending'[k] = Pending[k]
          /\ Pending'[Len(Pending) + 1] = newFd
      BY <3>1, <1>1, <1>4
    <3>3. Queued' = [k \in 1 .. Len(Pending) + 1 |-> conn[Pending'[k]]]
      BY <3>2, <1>2 DEF Queued
    <3>4. Append(Queued, c) = [k \in 1 .. Len(Pending) + 1 |-> IF k = Len(Pending) + 1 THEN c ELSE Queued[k]]
      BY <2>q, <1>4
    <3>5. \A k \in 1 .. Len(Pending) + 1 :
            conn[Pending'[k]] = IF k = Len(Pending) + 1 THEN c ELSE Queued[k]
      BY <3>2, <1>4 DEF Queued
    <3>6. Queued' = Append(Queued, c)
      BY <3>3, <3>4, <3>5
    <3> QED BY <3>1, <3>6, <2>q
  <2> QED BY <2>1, <2>2
<1>7. Serving' = Serving
  BY <1>2 DEF Serving
<1> QED BY <1>5, <1>6, <1>7 DEF Service!Put

LEMMA dequeueTakes ==
  ASSUME PoolInv, TypeOK', NEW w \in Workers, dequeue(w), front # rear
  PROVE  Service!Take(w)
<1> DEFINE f == queue[front]
<1>1. /\ pc[w] = "ready" /\ has' = [has EXCEPT ![w] = f] /\ UNCHANGED <<accepted, conn, newFd>>
      /\ has[w] = 0 /\ has \in [Workers -> Fds \cup {0}]
  BY DEF dequeue, Take, PoolInv, OpenInv, TypeOK
<1>2. Pending # <<>> /\ f = Head(Pending) /\ Pending' = Tail(Pending)
  BY TakeShape DEF dequeue, Take, PoolInv
<1>3. Pending \in Seq(Fds \cup {0}) /\ DOMAIN Pending = 1 .. Len(Pending) /\ Len(Pending) \in Nat \ {0}
  BY <1>2, RingShape, PoolAssumption DEF PoolAssumption, RingIs, PoolInv
<1>4. f = Pending[1] /\ f # 0
  BY <1>2, <1>3 DEF PoolInv, OpenInv
<1> HIDE DEF f
<1>q. Len(Queued) = Len(Pending) /\ Queued \in Seq(Clients)
  BY QueuedShape
<1>5. Queued # <<>> /\ Head(Queued) = conn[f]
  BY <1>3, <1>4, <1>q DEF Queued
<1>6. Queued' = Tail(Queued)
  <2>1. DOMAIN Pending' = 1 .. Len(Pending) - 1 /\ \A k \in 1 .. Len(Pending) - 1 : Pending'[k] = Pending[k + 1]
    BY <1>2, <1>3
  <2>2. Queued' = [k \in 1 .. Len(Pending) - 1 |-> conn[Pending'[k]]]
    BY <2>1, <1>1 DEF Queued
  <2>3. Tail(Queued) = [k \in 1 .. Len(Pending) - 1 |-> Queued[k + 1]]
    <3> DEFINE T == [k \in 1 .. Len(Pending) - 1 |-> Queued[k + 1]]
    <3>1. Tail(Queued) \in Seq(Clients) /\ Len(Tail(Queued)) = Len(Pending) - 1
      BY <1>3, <1>q, <1>5
    <3>2. T \in [1 .. Len(Pending) - 1 -> Clients]
      BY <1>3, <1>q
    <3>3. T \in Seq(Clients) /\ Len(T) = Len(Pending) - 1
      <4>1. Len(Pending) - 1 \in Nat
        BY <1>3
      <4> HIDE DEF T
      <4> QED BY <3>2, <4>1, FunctionIsSeq
    <3>4. \A k \in 1 .. Len(Pending) - 1 : Tail(Queued)[k] = T[k]
      BY <1>3, <1>q, <1>5
    <3> HIDE DEF T
    <3>5. Tail(Queued) = T
      BY <3>1, <3>3, <3>4
    <3> QED BY <3>5 DEF T
  <2>4. \A k \in 1 .. Len(Pending) - 1 : conn[Pending'[k]] = Queued[k + 1]
    BY <2>1, <1>3 DEF Queued
  <2> QED BY <2>2, <2>3, <2>4
<1>7. Serving[w] = Service!None /\ Serving' = [Serving EXCEPT ![w] = Head(Queued)]
  BY <1>1, <1>4, <1>5 DEF Serving, None, Service!None
<1>8. PassedOn' = PassedOn
  BY <1>1 DEF PassedOn
<1> QED BY <1>5, <1>6, <1>7, <1>8 DEF Service!Take

LEMMA CloseFinishes ==
  ASSUME PoolInv, NEW w \in Workers, Close(w) PROVE Service!Finish(w)
<1> DEFINE f == has[w]
<1>1. /\ f # 0 /\ f \in Fds /\ conn[f] # None /\ conn' = [conn EXCEPT ![f] = None]
      /\ has' = [has EXCEPT ![w] = 0] /\ UNCHANGED <<accepted, newFd>>
      /\ conn \in [Fds -> Clients \cup {None}] /\ has \in [Workers -> Fds \cup {0}]
  BY DEF Close, PoolInv, OpenInv, TypeOK
<1>2. Pending' = Pending
  BY SameShape DEF Close, ring
<1>3. /\ \A v \in Workers : v # w => has[v] # f
      /\ \A k \in DOMAIN Pending : Pending[k] # f
      /\ newFd # f
  BY <1>1 DEF PoolInv, ApartInv
<1>4. PassedOn' = PassedOn
  BY <1>1, <1>3 DEF PassedOn
<1>5. Queued' = Queued
  <2>1. \A k \in DOMAIN Pending : conn'[Pending[k]] = conn[Pending[k]]
    BY <1>1, <1>3
  <2> QED BY <1>2, <2>1 DEF Queued
<1>6. Serving[w] # Service!None /\ Serving' = [Serving EXCEPT ![w] = Service!None]
  <2>1. \A v \in Workers : v # w => has'[v] = has[v] /\ (has[v] # 0 => conn'[has[v]] = conn[has[v]])
    BY <1>1, <1>3
  <2>2. has'[w] = 0
    BY <1>1
  <2> QED BY <1>1, <2>1, <2>2 DEF Serving, None, Service!None
<1> QED BY <1>4, <1>5, <1>6 DEF Service!Finish

LEMMA NextService == PoolInv /\ PoolInv' /\ [Next]_vars => [Service!Next]_Service!vars
<1> SUFFICES ASSUME PoolInv, PoolInv', [Next]_vars PROVE [Service!Next]_Service!vars
  OBVIOUS
<1>t. TypeOK'
  BY DEF PoolInv
<1>1. ASSUME NEW c \in Clients, Client(c) PROVE UNCHANGED Service!vars
  BY <1>1, NothingSeen DEF Client, Connect, Ask, HangUp, StopReading, ReadOn, ClientGoes, ring
<1>2. CASE Accept
  BY <1>2, AcceptUnseen
<1>3. CASE enqueue
  <2>1. conn[newFd] \in Clients
    BY <1>3 DEF enqueue, PoolInv, OpenInv, TypeOK
  <2> QED BY <2>1, <1>3, <1>t, enqueuePuts DEF Service!Next
<1>4. ASSUME NEW w \in Workers, dequeue(w) PROVE [Service!Next]_Service!vars
  <2>1. CASE front # rear
    BY <2>1, <1>4, <1>t, dequeueTakes DEF Service!Next
  <2>2. CASE front = rear
    BY <2>2, <1>4, NothingSeen DEF dequeue
  <2> QED BY <2>1, <2>2
<1>5. ASSUME NEW w \in Workers, WakeSpuriously(w) PROVE UNCHANGED Service!vars
  BY <1>5, NothingSeen DEF WakeSpuriously, ring
<1>6. ASSUME NEW w \in Workers, Recv(w) PROVE UNCHANGED Service!vars
  BY <1>6, NothingSeen DEF Recv, ring
<1>7. ASSUME NEW w \in Workers, Send(w) PROVE UNCHANGED Service!vars
  BY <1>7, NothingSeen DEF Send, ring
<1>8. ASSUME NEW w \in Workers, Close(w) PROVE [Service!Next]_Service!vars
  BY <1>8, CloseFinishes DEF Service!Next
<1>9. CASE UNCHANGED vars
  BY <1>9, NothingSeen DEF vars, ring
<1> QED BY <1>1, <1>2, <1>3, <1>4, <1>5, <1>6, <1>7, <1>8, <1>9 DEF Next, Main, Worker

\* The ring, the descriptors and the workers are a queue of connections that
\* holds QUEUE_SIZE - 1 of them and loses all when one more comes.
THEOREM ImplementsQueue == Spec => QueueSpec
<1>1. Spec => []PoolInv
  BY Invariance
<1> QED BY <1>1, InitService, NextService, PTL DEF Spec, QueueSpec, Service!Spec
-----------------------------------------------------------------------------
(* The connections a process of the forking server holds *)

LEMMA ForkTyped ==
  ForkInv => /\ Nobody \notin Browsers /\ holds \in [Processes -> SUBSET Browsers]
             /\ \A c \in Browsers : holds[c] \subseteq {c}
             /\ holds[Nobody] \subseteq {current} /\ current \in Processes
             /\ Processes = Browsers \cup {Nobody} /\ (\A c : Process(c) \in {c, Nobody})
BY ForkAssumption DEF ForkAssumption, Nobody, ForkInv, NothingInherited, ForkTypeOK, Processes, Process

LEMMA BrowserKeeps ==
  ASSUME ForkInv, NEW c \in Browsers, Browser(c)
  PROVE  ForkInv'
<1>1. UNCHANGED <<server, parent, current, child, holds>>
      /\ browser' \in [Browsers -> {"away", "silent", "asked", "stalled", "answered", "complete", "gone"}]
  BY DEF ForkInv, NothingInherited, ForkTypeOK, Browser, Arrive, Request, Leave, Stall, Resume, SeeEnd, BrowserGoes
<1> QED BY <1>1 DEF ForkInv, NothingInherited, ForkTypeOK

\* The parent has closed the connection before, and holds this one only.
LEMMA AcceptNextKeeps == ForkInv /\ AcceptNext => ForkInv'
<1> SUFFICES ASSUME ForkInv, AcceptNext PROVE ForkInv'
  OBVIOUS
<1>1. PICK c \in Browsers :
        /\ current' = c /\ holds' = [holds EXCEPT ![Nobody] = @ \cup {c}]
        /\ child' = IF server = "fork" THEN child ELSE [child EXCEPT ![c] = "recv"]
  BY DEF AcceptNext
<1>2. /\ parent = "accept" /\ parent' \in {"fork", "serve"} /\ UNCHANGED <<server, browser>>
      /\ current = Nobody
  BY DEF AcceptNext, ForkInv
<1>3. holds[Nobody] = {}
  BY <1>2, ForkTyped
<1>4. ForkTypeOK'
  BY <1>1, <1>2, ForkTyped DEF ForkInv, NothingInherited, ForkTypeOK
<1>5. NothingInherited'
  BY <1>1, <1>3, <1>4, ForkTyped DEF NothingInherited
<1> QED BY <1>1, <1>2, <1>5 DEF ForkInv

\* The child inherits the connection it is there for, and no other.
LEMMA ForkKeeps == ForkInv /\ Fork => ForkInv'
<1> SUFFICES ASSUME ForkInv, Fork PROVE ForkInv'
  OBVIOUS
<1>1. current \in Browsers /\ holds' = [holds EXCEPT ![current] = holds[Nobody]]
  BY DEF ForkInv, Fork
<1>2. ForkTypeOK'
  BY <1>1, ForkTyped DEF ForkInv, NothingInherited, ForkTypeOK, Fork
<1>3. NothingInherited'
  BY <1>1, <1>2, ForkTyped DEF NothingInherited, Fork
<1> QED BY <1>1, <1>3 DEF ForkInv, Fork

LEMMA ForkFailsKeeps == ForkInv /\ ForkFails => ForkInv'
BY ForkTyped DEF ForkInv, NothingInherited, ForkTypeOK, ForkFails

\* Closing its only connection, the parent holds none.
LEMMA CloseCopyKeeps == ForkInv /\ CloseCopy => ForkInv'
<1> SUFFICES ASSUME ForkInv, CloseCopy PROVE ForkInv'
  OBVIOUS
<1>1. holds'[Nobody] = {} /\ \A c \in Browsers : holds'[c] = holds[c]
  BY ForkTyped DEF CloseCopy
<1>2. ForkTypeOK'
  BY ForkTyped DEF ForkInv, NothingInherited, ForkTypeOK, CloseCopy
<1> QED BY <1>1, <1>2, ForkTyped DEF ForkInv, NothingInherited, CloseCopy

\* A process that ends, or the only process when it is done, holds nothing.
LEMMA EndsKeeps ==
  ASSUME ForkInv, NEW c \in Browsers, Ends(c)
  PROVE  /\ holds' \in [Processes -> SUBSET Browsers]
         /\ \A d \in Processes : holds'[d] \subseteq holds[d]
         /\ server # "fork" => holds'[Nobody] = {}
         /\ child \in [Browsers -> {"none", "recv", "send", "close", "exited"}]
         /\ child' \in [Browsers -> {"none", "recv", "send", "close", "exited"}]
<1>1. Process(c) \in Processes /\ (server # "fork" => Process(c) = Nobody)
  BY ForkTyped DEF Process
<1> QED BY <1>1, ForkTyped DEF Ends, ForkInv, NothingInherited, ForkTypeOK

LEMMA ChildKeeps == ASSUME ForkInv, NEW c \in Browsers, Child(c) PROVE ForkInv'
<1>1. CASE Receive(c)
  BY <1>1 DEF ForkInv, NothingInherited, ForkTypeOK, Receive
<1>2. CASE Answer(c)
  <2>1. CASE /\ child' = [child EXCEPT ![c] = "close"]
             /\ browser' = [browser EXCEPT ![c] = IF @ = "gone" THEN @ ELSE "answered"]
             /\ UNCHANGED <<parent, holds, server, current>>
    BY <2>1 DEF ForkInv, NothingInherited, ForkTypeOK
  <2>2. CASE /\ browser' = browser /\ Ends(c) /\ UNCHANGED <<server, current>>
             /\ parent' = IF server = "fork" THEN parent ELSE "killed"
    <3>1. ForkTypeOK'
      BY <2>2, EndsKeeps DEF ForkInv, NothingInherited, ForkTypeOK
    <3>2. NothingInherited'
      BY <2>2, <3>1, EndsKeeps, ForkTyped DEF NothingInherited
    <3> QED BY <2>2, <3>2 DEF ForkInv
  <2> QED BY <1>2, <2>1, <2>2 DEF Answer
<1>3. CASE Exit(c)
  <2>1. ForkTypeOK'
    BY <1>3, EndsKeeps, ForkTyped DEF Exit, ForkInv, NothingInherited, ForkTypeOK
  <2>2. CASE server = "fork"
    <3>1. NothingInherited'
      BY <1>3, <2>1, <2>2, EndsKeeps, ForkTyped DEF Exit, NothingInherited
    <3> QED BY <1>3, <2>2, <3>1 DEF Exit, ForkInv
  <2>3. CASE server # "fork"
    <3>1. NothingInherited'
      BY <1>3, <2>1, <2>3, EndsKeeps, ForkTyped DEF Exit, NothingInherited
    <3> QED BY <1>3, <2>3, <3>1 DEF Exit, ForkInv
  <2> QED BY <2>2, <2>3
<1> QED BY <1>1, <1>2, <1>3 DEF Child

LEMMA ForkInitially == ForkInit => ForkInv
BY ForkAssumption DEF ForkAssumption, ForkInit, ForkInv, NothingInherited, ForkTypeOK, Processes, Nobody

LEMMA ForkStutters == ForkInv /\ UNCHANGED forkVars => ForkInv'
BY DEF ForkInv, NothingInherited, ForkTypeOK, forkVars

\* For any number of browsers and both servers: the parent has let go of a
\* connection before it accepts the next.
THEOREM ForkInvariance == ForkSpec => []ForkInv
<1>1. ForkInv /\ [ForkNext]_forkVars => ForkInv'
  BY BrowserKeeps, AcceptNextKeeps, ForkKeeps, ForkFailsKeeps, CloseCopyKeeps, ChildKeeps,
     ForkStutters DEF ForkNext, Parent
<1> QED BY <1>1, ForkInitially, PTL DEF ForkSpec

\* For any number of browsers, a child holds no connection but its own, and the
\* parent none but the one it has accepted last.
THEOREM NoStrangersHeld == ForkSpec => []NothingInherited
<1>1. ForkInv => NothingInherited
  BY DEF ForkInv
<1> QED BY <1>1, ForkInvariance, PTL
=============================================================================
