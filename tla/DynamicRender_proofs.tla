------------------------ MODULE DynamicRender_proofs ------------------------
(***************************************************************************)
(* The proofs about DynamicRender, for every number of workers, every      *)
(* image height and chunk size and every combination of faults: first the  *)
(* geometry of the chunks, then the inductive invariant, one conjunct at a *)
(* time, and the theorems that follow from it.                             *)
(***************************************************************************)
EXTENDS DynamicRender, FiniteSetTheorems, SequenceTheorems, TLAPS

-----------------------------------------------------------------------------
(* The chunks tile the image *)

\* total_chunks is the ceiling: slot k exists exactly when its first row does.
LEMMA Ceiling == /\ TotalChunks \in Nat \ {0}
                 /\ \A k \in Nat : k < TotalChunks <=> k * ChunkSize < Height
<1> USE GeometryAssumption
<1> DEFINE n == Height + ChunkSize - 1
<1>1. n \in Nat /\ n >= ChunkSize
  OBVIOUS
<1>2. /\ TotalChunks \in Int
      /\ TotalChunks * ChunkSize <= n
      /\ n < TotalChunks * ChunkSize + ChunkSize
  BY <1>1 DEF TotalChunks
<1>3. TotalChunks >= 1
  BY <1>1, <1>2
<1>4. ASSUME NEW k \in Nat
      PROVE  k < TotalChunks <=> k * ChunkSize < Height
  <2>1. CASE k < TotalChunks
    <3>1. k * ChunkSize + ChunkSize <= TotalChunks * ChunkSize
      BY <1>2, <2>1
    <3> QED BY <1>2, <2>1, <3>1
  <2>2. CASE k >= TotalChunks
    <3>1. k * ChunkSize >= TotalChunks * ChunkSize
      BY <1>2, <2>2
    <3> QED BY <1>2, <2>2, <3>1
  <2> QED BY <1>2, <2>1, <2>2
<1> QED BY <1>2, <1>3, <1>4

\* A chunk is not empty, ends inside the image, and only the last is short.
LEMMA ChunkShape ==
  ASSUME NEW k \in Slots
  PROVE  /\ ChunkAt(k).start = k * ChunkSize /\ k * ChunkSize \in Nat
         /\ ChunkAt(k).num_rows \in 1 .. ChunkSize
         /\ ChunkAt(k).start + ChunkAt(k).num_rows <= Height
         /\ ChunkAt(k).num_rows = ChunkSize
            \/ ChunkAt(k).start + ChunkAt(k).num_rows = Height
<1>1. k \in Nat /\ k * ChunkSize \in Nat /\ k * ChunkSize < Height
  BY GeometryAssumption, Ceiling DEF Slots
<1> QED BY <1>1, GeometryAssumption DEF ChunkAt

\* No row belongs to two chunks: a row is never painted by two work units.
LEMMA ChunksDisjoint ==
  ASSUME NEW c \in Chunks, NEW d \in Chunks, c # d
  PROVE  Rows(c) \cap Rows(d) = {}
<1>1. ASSUME NEW j \in Slots, NEW k \in Slots, j < k
      PROVE  ChunkAt(j).start + ChunkAt(j).num_rows <= ChunkAt(k).start
  <2>1. j \in Int /\ k \in Int /\ j + 1 <= k
    BY <1>1, Ceiling DEF Slots
  <2>2. j * ChunkSize + ChunkSize <= k * ChunkSize
    BY <2>1, GeometryAssumption
  <2> QED BY <2>1, <2>2, ChunkShape, GeometryAssumption
<1>2. PICK j \in Slots, k \in Slots : c = ChunkAt(j) /\ d = ChunkAt(k)
  BY DEF Chunks
<1>3. j < k \/ k < j
  BY <1>2, Ceiling DEF Slots
<1>4. /\ c.start \in Int /\ c.num_rows \in Int
      /\ d.start \in Int /\ d.num_rows \in Int
  BY <1>2, ChunkShape, GeometryAssumption
<1> QED BY <1>1, <1>2, <1>3, <1>4 DEF Rows

\* The rows of a chunk are rows of the image, num_rows of them.
LEMMA ChunkRows ==
  ASSUME NEW c \in Chunks
  PROVE  /\ c \in [start : Nat, num_rows : Nat]
         /\ Rows(c) \subseteq ImageRows /\ Rows(c) # {}
         /\ IsFiniteSet(Rows(c)) /\ Cardinality(Rows(c)) = c.num_rows
<1>1. PICK k \in Slots : c = ChunkAt(k)
  BY DEF Chunks
<1>2. c.start \in Nat /\ c.num_rows \in Nat \ {0} /\ c.start + c.num_rows <= Height
  BY <1>1, ChunkShape, GeometryAssumption
<1>3. c \in [start : Nat, num_rows : Nat]
  BY <1>1, <1>2 DEF ChunkAt
<1>4. IsFiniteSet(Rows(c)) /\ Cardinality(Rows(c)) = c.num_rows
  <2>1. ASSUME NEW a \in Nat, NEW n \in Nat \ {0}
        PROVE  IsFiniteSet(a .. a + n - 1) /\ Cardinality(a .. a + n - 1) = n
    <3> DEFINE b == a + n - 1
    <3>1. b \in Int /\ b >= a /\ b - a + 1 = n
      OBVIOUS
    <3> HIDE DEF b
    <3>2. IsFiniteSet(a .. b) /\ Cardinality(a .. b) = n
      BY <3>1, FS_Interval
    <3> QED BY <3>2 DEF b
  <2> QED BY <1>2, <2>1, Zenon DEF Rows
<1>5. c.start \in Rows(c)
  BY <1>2 DEF Rows
<1>6. Rows(c) \subseteq ImageRows
  BY <1>2, GeometryAssumption DEF Rows, ImageRows
<1> QED BY <1>3, <1>4, <1>5, <1>6

\* Every row of the image belongs to a chunk.
LEMMA ChunksCover == \A r \in ImageRows : \E c \in Chunks : r \in Rows(c)
<1> TAKE r \in ImageRows
<1> DEFINE k == r \div ChunkSize
<1>1. r \in Nat /\ r < Height
  BY GeometryAssumption DEF ImageRows
<1>2. k \in Nat /\ k * ChunkSize <= r /\ r < k * ChunkSize + ChunkSize
  BY <1>1, GeometryAssumption
<1>3. k \in Slots
  BY <1>1, <1>2, Ceiling, GeometryAssumption DEF Slots
<1>4. r \in Rows(ChunkAt(k))
  BY <1>1, <1>2, <1>3, ChunkShape, GeometryAssumption DEF Rows
<1> QED BY <1>3, <1>4 DEF Chunks

\* The queue as built holds no chunk twice.
LEMMA ChunkAtInjective ==
  ASSUME NEW j \in Slots, NEW k \in Slots, ChunkAt(j) = ChunkAt(k)
  PROVE  j = k
<1>1. j * ChunkSize = k * ChunkSize
  BY ChunkShape
<1> QED BY <1>1, GeometryAssumption, Ceiling DEF Slots

\* There are finitely many chunks.
LEMMA ChunksFinite == IsFiniteSet(Chunks)
<1>1. IsFiniteSet(Slots)
  BY FS_Interval, Ceiling DEF Slots
<1>2. [k \in Slots |-> ChunkAt(k)] \in Surjection(Slots, Chunks)
  BY DEF Surjection, Chunks
<1> QED BY <1>1, <1>2, FS_Surjection
-----------------------------------------------------------------------------
(* Streams of at most three parts *)

\* Appending to a stream of one part, or of two.
LEMMA AppendSecond ==
  ASSUME NEW S, NEW a \in S, NEW b \in S
  PROVE  Append(<<a>>, b) = <<a, b>>
<1> DEFINE s == Append(<<a>>, b)
           t == <<a, b>>
<1>1. t \in Seq(S) /\ Len(t) = 2 /\ t[1] = a /\ t[2] = b
  OBVIOUS
<1>2. s \in Seq(S) /\ Len(s) = 2 /\ s[1] = a /\ s[2] = b
  <2>1. <<a>> \in Seq(S)
    OBVIOUS
  <2> QED BY <2>1
<1> HIDE DEF s, t
<1>3. \A j \in 1 .. Len(s) : s[j] = t[j]
  BY <1>1, <1>2
<1>4. s = t
  BY <1>1, <1>2, <1>3, SeqEqual
<1> QED BY <1>4 DEF s, t

LEMMA AppendThird ==
  ASSUME NEW S, NEW a \in S, NEW b \in S, NEW c \in S
  PROVE  Append(<<a, b>>, c) = <<a, b, c>>
<1> DEFINE s == Append(<<a, b>>, c)
           t == <<a, b, c>>
<1>1. t \in Seq(S) /\ Len(t) = 3 /\ t[1] = a /\ t[2] = b /\ t[3] = c
  OBVIOUS
<1>2. s \in Seq(S) /\ Len(s) = 3 /\ s[1] = a /\ s[2] = b /\ s[3] = c
  <2>1. <<a, b>> \in Seq(S)
    OBVIOUS
  <2> QED BY <2>1
<1> HIDE DEF s, t
<1>3. \A j \in 1 .. Len(s) : s[j] = t[j]
  BY <1>1, <1>2
<1>4. s = t
  BY <1>1, <1>2, <1>3, SeqEqual
<1> QED BY <1>4 DEF s, t

\* What append, head and tail give on the short streams of a connection.
LEMMA ShortStreams ==
  ASSUME NEW S, NEW a \in S, NEW b \in S, NEW c \in S
  PROVE  /\ <<>> \in Seq(S)
         /\ Append(<<>>, a) = <<a>>
         /\ Head(<<a>>) = a /\ Head(<<a, b>>) = a /\ Head(<<a, b, c>>) = a
         /\ Tail(<<a>>) = <<>> /\ Tail(<<a, b>>) = <<b>> /\ Tail(<<a, b, c>>) = <<b, c>>
         /\ <<a>> # <<>> /\ <<a, b>> # <<>> /\ <<a, b, c>> # <<>>
<1>1. Append(<<>>, a) = <<a>>
  OBVIOUS
<1>2. Head(<<a>>) = a /\ Head(<<a, b>>) = a /\ Head(<<a, b, c>>) = a
  OBVIOUS
<1>3. Tail(<<a>>) = <<>> /\ Tail(<<a, b>>) = <<b>>
  OBVIOUS
<1>4. Tail(<<a, b, c>>) = <<b, c>>
  OBVIOUS
<1>5. <<a>> # <<>> /\ <<a, b>> # <<>> /\ <<a, b, c>> # <<>>
  OBVIOUS
<1> QED BY <1>1, <1>2, <1>3, <1>4, <1>5

-----------------------------------------------------------------------------
(* The inductive invariant *)

\* The parts of a stream, and the values its ends take from it, are typed.
LEMMA StreamTypes ==
  ASSUME NEW s \in Seq(PartType), NEW p \in PartType
  PROVE  /\ Append(s, p) \in Seq(PartType)
         /\ s # <<>> => Tail(s) \in Seq(PartType) /\ Head(s) \in PartType
                       /\ Head(s).chunk \in ChunkType
<1>1. ASSUME NEW S, NEW t \in Seq(S), NEW q \in S
      PROVE  Append(t, q) \in Seq(S) /\ (t # <<>> => Tail(t) \in Seq(S) /\ Head(t) \in S)
  OBVIOUS
<1>2. \A q \in PartType : q.chunk \in ChunkType
  BY DEF PartType
<1> QED BY <1>1, <1>2

LEMMA PartTypes ==
  /\ NoChunk \in ChunkType
  /\ \A c \in ChunkType : Part("WORK", c) \in PartType /\ Part("RESULT", c) \in PartType
  /\ Request \in PartType /\ Terminate \in PartType /\ Pixels \in PartType
  BY DEF NoChunk, ChunkType, Part, PartType, Request, Terminate, Pixels

\* A worker that is active makes the head at least one: no rewind underflows.
LEMMA HeadPositive ==
  ASSUME TypeOK, HeadCountsDispatched, NEW w \in Assigned
  PROVE  queue_head >= 1
<1>1. IsFiniteSet(Assigned) /\ IsFiniteSet(Done)
  <2>1. IsFiniteSet(Workers)
    BY RenderAssumption, FS_Interval DEF Workers
  <2>2. Assigned \subseteq Workers /\ Done \subseteq Chunks
    BY DEF Assigned, Done
  <2> QED BY <2>1, <2>2, ChunksFinite, FS_Subset
<1>2. Cardinality(Assigned) \in Nat /\ Cardinality(Assigned) # 0
  BY <1>1, FS_CardinalityType, FS_EmptySet
<1>3. Cardinality(Done) \in Nat
  BY <1>1, FS_CardinalityType
<1> QED BY <1>2, <1>3 DEF HeadCountsDispatched

LEMMA InitIInv == Init => IInv
<1> SUFFICES ASSUME Init PROVE IInv
  OBVIOUS
<1> USE RenderAssumption, GeometryAssumption
<1>1. TypeOK
  <2>1. queue \in [Slots -> ChunkType]
    BY ChunkRows DEF Init, Chunks, ChunkType
  <2>2. queue_head \in 0 .. TotalChunks
    BY Ceiling DEF Init
  <2>3. <<>> \in Seq(PartType)
    OBVIOUS
  <2> QED BY <2>1, <2>2, <2>3, PartTypes DEF Init, TypeOK, Workers, ImageRows
<1>2. ControlInv
  BY DEF Init, ControlInv, Workers, ResultIsForAssignedChunk, Assigned
<1>3. ScheduleInv
  <2>1. Undispatched = Slots
    BY DEF Init, Undispatched, Slots
  <2>2. \A k \in Undispatched : queue[k] = ChunkAt(k) /\ queue[k] \in Chunks
    BY <2>1 DEF Init, Chunks
  <2>3. Assigned = {} /\ image = {}
    BY DEF Init, Assigned
  <2>4. Done = {}
    BY <2>3, ChunkRows DEF Done
  <2>5. Pending = Chunks
    BY <2>1, <2>2 DEF Pending, Chunks, Undispatched, Slots
  <2>6. HeadCountsDispatched /\ RowsCountedOnce
    BY <2>3, <2>4, FS_EmptySet DEF Init, HeadCountsDispatched, RowsCountedOnce
  <2>7. \A j, k \in Undispatched : queue[j] = queue[k] => j = k
    BY <2>1, <2>2, ChunkAtInjective
  <2> QED BY <2>2, <2>3, <2>5, <2>6, <2>7 DEF ScheduleInv
<1>4. ConnectionInv
  BY DEF Init, ConnectionInv, IdleConnection, Serving
<1> QED BY <1>1, <1>2, <1>3, <1>4 DEF IInv

\* Every step keeps the types; what a result may paint and a rewind may reach
\* comes from the other parts of the invariant.
LEMMA TypeStep == IInv /\ [Next]_vars => TypeOK'
<1> SUFFICES ASSUME IInv, [Next]_vars PROVE TypeOK'
  OBVIOUS
<1> USE RenderAssumption DEF IInv, Workers, masterVars, workerVars, NextAccept
<1> DEFINE Goal == TypeOK'
<1>1. CASE Accept
  <2>1. i \in 1 .. MaxWorkers
    BY <1>1 DEF ControlInv, Accept
  <2>2. i' \in 1 .. MaxWorkers + 1 /\ pc' \in {"accept", "scan"}
    BY <1>1, <2>1 DEF Accept
  <2>3. sock' \in [Workers -> {"none", "open", "closed"}]
    BY <1>1 DEF TypeOK, Accept
  <2> QED BY <1>1, <2>2, <2>3 DEF TypeOK, Accept
<1>2. CASE AcceptFails
  <2>1. i \in 1 .. MaxWorkers
    BY <1>2 DEF ControlInv, AcceptFails
  <2>2. i' \in 1 .. MaxWorkers + 1 /\ pc' \in {"accept", "scan"}
    BY <1>2, <2>1 DEF AcceptFails
  <2>3. sock' \in [Workers -> {"none", "open", "closed"}]
    BY <1>2 DEF TypeOK, AcceptFails
  <2> QED BY <1>2, <2>2, <2>3 DEF TypeOK, AcceptFails
<1>3. CASE ScanSkip
  BY <1>3 DEF TypeOK, ScanSkip
<1>4. CASE RecvRequest
  BY <1>4, StreamTypes, PartTypes DEF TypeOK, RecvRequest
<1>5. CASE RequestFails
  BY <1>5 DEF TypeOK, RequestFails
<1>6. CASE SendTerminate
  BY <1>6, StreamTypes, PartTypes DEF TypeOK, ControlInv, SendTerminate
<1>7. CASE Dispatch
  <2>1. i \in Workers /\ queue_head \in Slots /\ queue_head' \in 0 .. TotalChunks
    BY <1>7, Ceiling DEF Dispatch, ControlInv, TypeOK, Slots
  <2>2. queue[queue_head] \in ChunkType
    BY <2>1 DEF TypeOK
  <2> QED BY <1>7, <2>1, <2>2, StreamTypes, PartTypes DEF TypeOK, Dispatch
<1>8. CASE DispatchFails
  BY <1>8 DEF TypeOK, ControlInv, DispatchFails
<1>9. CASE SigPipe
  BY <1>9 DEF TypeOK, SigPipe
<1>10. CASE ArmSelect
  BY <1>10 DEF TypeOK, ArmSelect
<1>11. CASE SelectReady
  BY <1>11 DEF TypeOK, Active, SelectReady
<1>12. CASE SelectTimeout
  <2>1. /\ pc' = "timeout" /\ i' = 1
        /\ UNCHANGED <<queue, queue_head, completed_rows, image, result, read_fds, sock,
                       active, chunk, outcome, wpc, task, status, up, down>>
    BY <1>12 DEF SelectTimeout
  <2> QED BY <2>1 DEF TypeOK
<1>13. CASE SelectFails
  BY <1>13 DEF TypeOK, SelectFails
<1>14. CASE TimeoutWorker
  <2>1. i \in Assigned /\ queue_head' = queue_head - 1
    BY <1>14 DEF TimeoutWorker, Requeue, Assigned, Active, ControlInv, ResultIsForAssignedChunk
  <2>2. queue_head' \in 0 .. TotalChunks
    BY <2>1, HeadPositive, Ceiling DEF TypeOK, ScheduleInv
  <2>3. /\ queue' \in [Slots -> ChunkType] /\ i' \in 1 .. MaxWorkers + 1
        /\ sock' \in [Workers -> {"none", "open", "closed"}]
        /\ active' \in [Workers -> BOOLEAN]
    <3>1. i \in Workers /\ chunk[i] \in ChunkType
      BY <2>1 DEF TypeOK, Assigned
    <3>2. queue' = [queue EXCEPT ![queue_head - 1] = chunk[i]]
      BY <1>14 DEF TimeoutWorker, Requeue
    <3>3. queue' \in [Slots -> ChunkType]
      BY <3>1, <3>2 DEF TypeOK
    <3>4. i' \in 1 .. MaxWorkers + 1
      BY <1>14, <3>1 DEF TimeoutWorker
    <3> QED BY <1>14, <3>1, <3>3, <3>4 DEF TypeOK, TimeoutWorker, Requeue
  <2> QED BY <1>14, <2>2, <2>3 DEF TypeOK, TimeoutWorker
<1>15. CASE TimeoutSkip
  BY <1>15 DEF TypeOK, TimeoutSkip
<1>16. CASE CollectSkip
  BY <1>16 DEF TypeOK, CollectSkip
<1>17. CASE RecvHeader
  BY <1>17, StreamTypes, PartTypes DEF TypeOK, RecvHeader
<1>18. CASE RecvPixels
  <2>1. i \in Workers /\ result \in Chunks
    BY <1>18 DEF RecvPixels, ControlInv, ResultIsForAssignedChunk, ScheduleInv, Assigned
  <2>2. Rows(result) \subseteq ImageRows
    BY <2>1, ChunkRows
  <2>3. image' \subseteq ImageRows /\ completed_rows' \in Nat
    <3>1. completed_rows \in Nat /\ result.num_rows \in Nat
      BY DEF TypeOK, ChunkType
    <3> QED BY <1>18, <2>2, <3>1 DEF TypeOK, RecvPixels
  <2>4. up' \in [Workers -> Seq(PartType)] /\ active' \in [Workers -> BOOLEAN]
    BY <1>18, <2>1, StreamTypes, PartTypes DEF TypeOK, RecvPixels
  <2>5. i' \in 1 .. MaxWorkers + 1
    BY <1>18, <2>1 DEF RecvPixels
  <2> QED BY <1>18, <2>3, <2>4, <2>5 DEF TypeOK, RecvPixels
<1>19. CASE RecvResultFails
  <2>1. i \in Assigned /\ queue_head' = queue_head - 1
    BY <1>19 DEF RecvResultFails, Requeue, Assigned, Active, ControlInv, ResultIsForAssignedChunk
  <2>2. queue_head' \in 0 .. TotalChunks
    BY <2>1, HeadPositive, Ceiling DEF TypeOK, ScheduleInv
  <2>3. /\ queue' \in [Slots -> ChunkType] /\ i' \in 1 .. MaxWorkers + 1
        /\ sock' \in [Workers -> {"none", "open", "closed"}]
        /\ active' \in [Workers -> BOOLEAN]
    <3>1. i \in Workers /\ chunk[i] \in ChunkType
      BY <2>1 DEF TypeOK, Assigned
    <3>2. queue' = [queue EXCEPT ![queue_head - 1] = chunk[i]]
      BY <1>19 DEF RecvResultFails, Requeue
    <3>3. queue' \in [Slots -> ChunkType]
      BY <3>1, <3>2 DEF TypeOK
    <3>4. i' \in 1 .. MaxWorkers + 1
      BY <1>19, <3>1 DEF RecvResultFails
    <3> QED BY <1>19, <3>1, <3>3, <3>4 DEF TypeOK, RecvResultFails, Requeue
  <2>4. /\ pc' = "collect"
        /\ UNCHANGED <<completed_rows, image, result, read_fds, chunk, outcome,
                       wpc, task, status, up, down>>
    BY <1>19 DEF RecvResultFails
  <2> QED BY <2>2, <2>3, <2>4 DEF TypeOK
<1>20. CASE LoopTest
  BY <1>20 DEF TypeOK, LoopTest
<1>21. CASE Finish
  BY <1>21 DEF TypeOK, Finish
<1>22. ASSUME NEW w \in Workers, Connect(w) PROVE Goal
  BY <1>22 DEF TypeOK, Connect
<1>23. ASSUME NEW w \in Workers, SendRequest(w) PROVE Goal
  BY <1>23, StreamTypes, PartTypes DEF TypeOK, SendRequest, Deliver
<1>24. ASSUME NEW w \in Workers, RecvTask(w) PROVE Goal
  BY <1>24, StreamTypes, PartTypes DEF TypeOK, RecvTask
<1>25. ASSUME NEW w \in Workers, RecvTerminate(w) PROVE Goal
  BY <1>25, StreamTypes, PartTypes DEF TypeOK, RecvTerminate, Exit
<1>26. ASSUME NEW w \in Workers, SendHeader(w) PROVE Goal
  BY <1>26, StreamTypes, PartTypes DEF TypeOK, SendHeader, Deliver
<1>27. ASSUME NEW w \in Workers, SendPixels(w) PROVE Goal
  BY <1>27, StreamTypes, PartTypes DEF TypeOK, SendPixels, Deliver
<1>28. ASSUME NEW w \in Workers, WorkerFails(w) PROVE Goal
  BY <1>28 DEF TypeOK, WorkerFails, Exit
<1>29. ASSUME NEW w \in Workers, Crash(w) PROVE Goal
  BY <1>29 DEF TypeOK, Crash
<1>30. ASSUME NEW w \in Workers, Hang(w) PROVE Goal
  BY <1>30 DEF TypeOK, Hang
<1>31. CASE UNCHANGED vars
  BY <1>31 DEF TypeOK, vars
<1> QED BY <1>1, <1>2, <1>3, <1>4, <1>5, <1>6, <1>7, <1>8, <1>9, <1>10, <1>11, <1>12, <1>13, <1>14, <1>15, <1>16, <1>17, <1>18, <1>19, <1>20, <1>21, <1>22, <1>23, <1>24, <1>25, <1>26, <1>27, <1>28, <1>29, <1>30, <1>31 DEF Next, Master, Worker, Stopped
\* Every step keeps what the program counter says about the tables.
LEMMA ControlStep == IInv /\ [Next]_vars => ControlInv'
<1> SUFFICES ASSUME IInv, [Next]_vars PROVE ControlInv'
  OBVIOUS
<1> USE RenderAssumption DEF IInv, ControlInv, ResultIsForAssignedChunk, Assigned, Idle
<1>0. /\ i \in 1 .. MaxWorkers + 1
      /\ active \in [Workers -> BOOLEAN]
      /\ sock \in [Workers -> {"none", "open", "closed"}]
  BY DEF TypeOK
<1>1. CASE Accept
  BY <1>1, <1>0 DEF Accept, NextAccept, Workers
<1>2. CASE AcceptFails
  BY <1>2, <1>0 DEF AcceptFails, NextAccept, Workers
<1>3. CASE ScanSkip
  BY <1>3, <1>0 DEF ScanSkip
<1>4. CASE RecvRequest
  BY <1>4, <1>0 DEF RecvRequest
<1>5. CASE RequestFails
  BY <1>5, <1>0 DEF RequestFails
<1>6. CASE SendTerminate
  BY <1>6, <1>0 DEF SendTerminate
<1>7. CASE Dispatch
  BY <1>7, <1>0 DEF Dispatch
<1>8. CASE DispatchFails
  BY <1>8, <1>0 DEF DispatchFails
<1>9. CASE SigPipe
  BY <1>9, <1>0 DEF SigPipe
<1>10. CASE ArmSelect
  BY <1>10, <1>0 DEF ArmSelect
<1>11. CASE SelectReady
  BY <1>11, <1>0 DEF SelectReady
<1>12. CASE SelectTimeout
  BY <1>12, <1>0 DEF SelectTimeout
<1>13. CASE SelectFails
  BY <1>13, <1>0 DEF SelectFails
<1>14. CASE TimeoutWorker
  BY <1>14, <1>0 DEF TimeoutWorker, Requeue, Active
<1>15. CASE TimeoutSkip
  BY <1>15, <1>0 DEF TimeoutSkip
<1>16. CASE CollectSkip
  BY <1>16, <1>0 DEF CollectSkip
<1>17. CASE RecvHeader
  <2>1. i \in Workers /\ active[i] /\ sock[i] = "open" /\ up[i] # <<>>
    BY <1>17 DEF RecvHeader, Active
  <2>2. Head(up[i]).op = "RESULT" => Head(up[i]).chunk = chunk[i]
    <3>1. BusyConnection(i) /\ ~Receiving(i)
      BY <1>17, <2>1 DEF ConnectionInv, IdleConnection, Cut, Receiving, RecvHeader
    <3>2. Part("RESULT", chunk[i]) \in PartType /\ Pixels \in PartType /\ Request \in PartType
      BY <2>1, PartTypes DEF TypeOK
    <3>3. up[i] # <<>> => Head(up[i]) = Part("RESULT", chunk[i])
      BY <3>1, <3>2, ShortStreams DEF BusyConnection
    <3> QED BY <2>1, <3>3 DEF Part
  <2> QED BY <1>17, <1>0, <2>1, <2>2 DEF RecvHeader
<1>18. CASE RecvPixels
  BY <1>18, <1>0 DEF RecvPixels
<1>19. CASE RecvResultFails
  BY <1>19, <1>0 DEF RecvResultFails, Requeue, Active
<1>20. CASE LoopTest
  BY <1>20, <1>0 DEF LoopTest
<1>21. CASE Finish
  BY <1>21, <1>0 DEF Finish
<1>22. ASSUME UNCHANGED masterVars PROVE ControlInv'
  BY <1>22 DEF masterVars
<1>23. ASSUME NEW w \in Workers, Connect(w) \/ Worker(w) \/ Crash(w) \/ Hang(w)
      PROVE  UNCHANGED masterVars
  BY <1>23 DEF Worker, Connect, SendRequest, RecvTask, RecvTerminate, SendHeader, SendPixels, WorkerFails, Crash, Hang
<1> QED BY <1>1, <1>2, <1>3, <1>4, <1>5, <1>6, <1>7, <1>8, <1>9, <1>10, <1>11, <1>12, <1>13, <1>14, <1>15, <1>16, <1>17, <1>18, <1>19, <1>20, <1>21, <1>22, <1>23 DEF Next, Master, Stopped, vars
\* The sets the counting is about are finite.
LEMMA FiniteTables ==
  /\ IsFiniteSet(Assigned) /\ Cardinality(Assigned) \in Nat
  /\ IsFiniteSet(Done) /\ Cardinality(Done) \in Nat
<1>1. IsFiniteSet(Workers)
  BY RenderAssumption, FS_Interval DEF Workers
<1>2. Assigned \subseteq Workers /\ Done \subseteq Chunks
  BY DEF Assigned, Done
<1> QED BY <1>1, <1>2, ChunksFinite, FS_Subset, FS_CardinalityType

\* Dispatching takes one chunk from the queue to one worker.
LEMMA DispatchKeepsSchedule == IInv /\ Dispatch => ScheduleInv'
<1> SUFFICES ASSUME IInv, Dispatch PROVE ScheduleInv'
  OBVIOUS
<1> DEFINE c == queue[queue_head]
<1>1. /\ i \in Workers /\ ~active[i] /\ i \notin Assigned
      /\ active \in [Workers -> BOOLEAN] /\ chunk \in [Workers -> ChunkType]
      /\ queue_head \in Nat /\ TotalChunks \in Nat /\ queue_head < TotalChunks
      /\ image \subseteq ImageRows
  BY Ceiling DEF Dispatch, IInv, ControlInv, Idle, Assigned, TypeOK
<1>2. /\ active' = [active EXCEPT ![i] = TRUE]
      /\ chunk' = [chunk EXCEPT ![i] = c]
      /\ queue_head' = queue_head + 1
      /\ UNCHANGED <<queue, completed_rows, image>>
  BY DEF Dispatch
<1>3. /\ queue_head \in Undispatched
      /\ Undispatched' = Undispatched \ {queue_head}
  BY <1>1, <1>2 DEF Undispatched
<1>4. /\ Assigned' = Assigned \cup {i}
      /\ chunk'[i] = c /\ \A w \in Assigned : chunk'[w] = chunk[w]
  BY <1>1, <1>2 DEF Assigned
<1>5. Done' = Done
  BY <1>2 DEF Done
<1>6. HeadCountsDispatched'
  <2>1. Cardinality(Assigned') = Cardinality(Assigned) + 1
    BY <1>1, <1>4, FiniteTables, FS_AddElement
  <2> QED BY <1>1, <1>2, <1>5, <2>1, FiniteTables DEF HeadCountsDispatched, IInv, ScheduleInv
<1>7. \A d \in Chunks : d \in Pending' \cup InFlight' \cup Done'
  <2> TAKE d \in Chunks
  <2>1. CASE d \in Done
    BY <2>1, <1>5
  <2>2. CASE d \in InFlight
    <3>1. PICK w \in Assigned : d = chunk[w]
      BY <2>2 DEF InFlight
    <3>2. w \in Assigned' /\ d = chunk'[w]
      BY <3>1, <1>4
    <3> QED BY <3>2 DEF InFlight
  <2>3. CASE d \in Pending
    <3>1. PICK k \in Undispatched : d = queue[k]
      BY <2>3 DEF Pending, Undispatched
    <3>2. CASE k = queue_head
      <4>1. i \in Assigned' /\ d = chunk'[i]
        BY <3>1, <3>2, <1>4
      <4> QED BY <4>1 DEF InFlight
    <3>3. CASE k # queue_head
      <4>1. k \in Undispatched' /\ d = queue'[k]
        BY <3>1, <3>3, <1>2, <1>3
      <4> QED BY <4>1 DEF Pending, Undispatched
    <3> QED BY <3>2, <3>3
  <2> QED BY <2>1, <2>2, <2>3 DEF IInv, ScheduleInv
<1>8. \A w \in Assigned' :
        /\ chunk'[w] \in Chunks /\ Rows(chunk'[w]) \cap image = {}
        /\ \A k \in Undispatched' : queue[k] # chunk'[w]
  BY <1>3, <1>4 DEF IInv, ScheduleInv
<1>9. \A v, w \in Assigned' : chunk'[v] = chunk'[w] => v = w
  BY <1>3, <1>4 DEF IInv, ScheduleInv
<1>10. RowsCountedOnce'
  BY <1>2 DEF IInv, ScheduleInv, RowsCountedOnce
<1> QED BY <1>2, <1>3, <1>6, <1>7, <1>8, <1>9, <1>10 DEF IInv, ScheduleInv, Pending, InFlight

\* Re-queueing takes the chunk of one worker back to the slot before the head.
LEMMA RequeueKeepsSchedule ==
  ASSUME IInv, i \in Assigned, Requeue, UNCHANGED <<completed_rows, image, chunk>>
  PROVE  ScheduleInv'
<1> DEFINE h == queue_head - 1
<1>1. /\ i \in Workers /\ active[i]
      /\ active \in [Workers -> BOOLEAN]
      /\ queue \in [Slots -> ChunkType]
      /\ queue_head \in Nat /\ TotalChunks \in Nat /\ queue_head <= TotalChunks
  BY Ceiling DEF IInv, Assigned, TypeOK
<1>2. h \in Slots /\ h \in Nat
  BY <1>1, HeadPositive DEF IInv, ScheduleInv, Slots
<1>3. /\ active' = [active EXCEPT ![i] = FALSE]
      /\ queue' = [queue EXCEPT ![h] = chunk[i]]
      /\ queue_head' = h
  BY DEF Requeue
<1>4. /\ Undispatched' = Undispatched \cup {h} /\ h \notin Undispatched
      /\ Undispatched \subseteq Slots
  BY <1>1, <1>2, <1>3 DEF Undispatched, Slots
<1>5. queue'[h] = chunk[i] /\ \A k \in Undispatched : queue'[k] = queue[k]
  BY <1>1, <1>2, <1>3, <1>4
<1>6. Assigned' = Assigned \ {i}
  BY <1>1, <1>3 DEF Assigned
<1>7. Done' = Done
  BY DEF Done
<1>8. HeadCountsDispatched'
  <2>1. Cardinality(Assigned') = Cardinality(Assigned) - 1
    BY <1>6, FiniteTables, FS_RemoveElement
  <2> QED BY <1>1, <1>3, <1>7, <2>1, FiniteTables DEF HeadCountsDispatched, IInv, ScheduleInv
<1>9. \A d \in Chunks : d \in Pending' \cup InFlight' \cup Done'
  <2> TAKE d \in Chunks
  <2>1. CASE d \in Done
    BY <2>1, <1>7
  <2>2. CASE d \in InFlight
    <3>1. PICK w \in Assigned : d = chunk[w]
      BY <2>2 DEF InFlight
    <3>2. CASE w = i
      <4>1. h \in Undispatched' /\ d = queue'[h]
        BY <3>1, <3>2, <1>4, <1>5
      <4> QED BY <4>1 DEF Pending, Undispatched
    <3>3. CASE w # i
      <4>1. w \in Assigned' /\ d = chunk'[w]
        BY <3>1, <3>3, <1>6
      <4> QED BY <4>1 DEF InFlight
    <3> QED BY <3>2, <3>3
  <2>3. CASE d \in Pending
    <3>1. PICK k \in Undispatched : d = queue[k]
      BY <2>3 DEF Pending, Undispatched
    <3>2. k \in Undispatched' /\ d = queue'[k]
      BY <3>1, <1>4, <1>5
    <3> QED BY <3>2 DEF Pending, Undispatched
  <2> QED BY <2>1, <2>2, <2>3 DEF IInv, ScheduleInv
<1>10. \A k \in Undispatched' : queue'[k] \in Chunks /\ Rows(queue'[k]) \cap image = {}
  BY <1>4, <1>5 DEF IInv, ScheduleInv
<1>11. \A j, k \in Undispatched' : queue'[j] = queue'[k] => j = k
  BY <1>4, <1>5 DEF IInv, ScheduleInv
<1>12. \A w \in Assigned' :
         /\ chunk[w] \in Chunks /\ Rows(chunk[w]) \cap image = {}
         /\ \A k \in Undispatched' : queue'[k] # chunk[w]
  BY <1>4, <1>5, <1>6 DEF IInv, ScheduleInv
<1>13. \A v, w \in Assigned' : chunk[v] = chunk[w] => v = w
  BY <1>6 DEF IInv, ScheduleInv
<1>14. RowsCountedOnce'
  BY DEF IInv, ScheduleInv, RowsCountedOnce
<1> QED BY <1>8, <1>9, <1>10, <1>11, <1>12, <1>13, <1>14 DEF ScheduleInv

\* Receiving a result moves the worker's chunk to the image, row by row new.
LEMMA PixelsKeepSchedule == IInv /\ RecvPixels => ScheduleInv'
<1> SUFFICES ASSUME IInv, RecvPixels PROVE ScheduleInv'
  OBVIOUS
<1> DEFINE c == chunk[i]
<1>1. /\ i \in Assigned /\ i \in Workers /\ result = c
      /\ active \in [Workers -> BOOLEAN]
      /\ image \subseteq ImageRows
  BY DEF RecvPixels, IInv, ControlInv, ResultIsForAssignedChunk, Assigned, TypeOK
<1>2. /\ active' = [active EXCEPT ![i] = FALSE]
      /\ image' = image \cup Rows(c)
      /\ completed_rows' = completed_rows + c.num_rows
      /\ UNCHANGED <<queue, queue_head, chunk>>
  BY <1>1 DEF RecvPixels
<1>3. Assigned' = Assigned \ {i}
  BY <1>1, <1>2 DEF Assigned
<1>4. c \in Chunks /\ Rows(c) \cap image = {}
  BY <1>1 DEF IInv, ScheduleInv
<1>5. \A d \in Chunks : d # c => Rows(d) \cap Rows(c) = {}
  BY <1>4, ChunksDisjoint
<1>6. Done' = Done \cup {c} /\ c \notin Done
  BY <1>2, <1>4, <1>5, ChunkRows DEF Done
<1>7. HeadCountsDispatched'
  <2>1. Cardinality(Assigned') = Cardinality(Assigned) - 1
    BY <1>1, <1>3, FiniteTables, FS_RemoveElement
  <2>2. Cardinality(Done') = Cardinality(Done) + 1
    BY <1>6, FiniteTables, FS_AddElement
  <2> QED BY <1>2, <2>1, <2>2, FiniteTables DEF HeadCountsDispatched, IInv, ScheduleInv
<1>8. RowsCountedOnce'
  <2>1. IsFiniteSet(image)
    <3>1. IsFiniteSet(ImageRows)
      BY GeometryAssumption, FS_Interval DEF ImageRows
    <3> QED BY <1>1, <3>1, FS_Subset
  <2>2. IsFiniteSet(Rows(c)) /\ Cardinality(Rows(c)) = c.num_rows
    BY <1>4, ChunkRows
  <2>3. Cardinality(image \cup Rows(c))
          = Cardinality(image) + Cardinality(Rows(c)) - Cardinality(image \cap Rows(c))
    BY <2>1, <2>2, FS_Union
  <2>4. Cardinality(image \cap Rows(c)) = 0
    BY <1>4, FS_EmptySet
  <2>5. Cardinality(image) \in Nat /\ Cardinality(Rows(c)) \in Nat
    BY <2>1, <2>2, FS_CardinalityType
  <2> QED BY <1>2, <2>2, <2>3, <2>4, <2>5 DEF RowsCountedOnce, IInv, ScheduleInv
<1>9. \A d \in Chunks : d \in Pending' \cup InFlight' \cup Done'
  <2> TAKE d \in Chunks
  <2>1. CASE d \in Done
    BY <2>1, <1>6
  <2>2. CASE d \in InFlight
    <3>1. PICK w \in Assigned : d = chunk[w]
      BY <2>2 DEF InFlight
    <3>2. CASE w = i
      BY <3>1, <3>2, <1>6
    <3>3. CASE w # i
      <4>1. w \in Assigned' /\ d = chunk'[w]
        BY <3>1, <3>3, <1>2, <1>3
      <4> QED BY <4>1 DEF InFlight
    <3> QED BY <3>2, <3>3
  <2>3. CASE d \in Pending
    BY <2>3, <1>2 DEF Pending
  <2> QED BY <2>1, <2>2, <2>3 DEF IInv, ScheduleInv
<1>10. Undispatched' = Undispatched
  BY <1>2 DEF Undispatched
<1>11. \A k \in Undispatched : Rows(queue[k]) \cap image' = {}
  BY <1>1, <1>2, <1>5 DEF IInv, ScheduleInv
<1>12. \A w \in Assigned' : Rows(chunk[w]) \cap image' = {}
  BY <1>1, <1>2, <1>3, <1>5 DEF IInv, ScheduleInv
<1> QED BY <1>2, <1>3, <1>7, <1>8, <1>9, <1>10, <1>11, <1>12 DEF IInv, ScheduleInv

\* No other step touches the schedule.
LEMMA ScheduleStep == IInv /\ [Next]_vars => ScheduleInv'
<1> SUFFICES ASSUME IInv, [Next]_vars PROVE ScheduleInv'
  OBVIOUS
<1>1. ASSUME UNCHANGED <<queue, queue_head, completed_rows, image, active, chunk>>
      PROVE  ScheduleInv'
  <2>1. /\ Undispatched' = Undispatched /\ Assigned' = Assigned
        /\ Pending' = Pending /\ InFlight' = InFlight /\ Done' = Done
    BY <1>1 DEF Undispatched, Assigned, Pending, InFlight, Done
  <2>2. HeadCountsDispatched' /\ RowsCountedOnce'
    BY <1>1, <2>1 DEF IInv, ScheduleInv, HeadCountsDispatched, RowsCountedOnce
  <2> QED BY <1>1, <2>1, <2>2 DEF IInv, ScheduleInv
<1>2. CASE Dispatch
  BY <1>2, DispatchKeepsSchedule
<1>3. CASE TimeoutWorker
  <2>1. i \in Assigned /\ Requeue /\ UNCHANGED <<completed_rows, image, chunk>>
    BY <1>3 DEF TimeoutWorker, Active, Assigned
  <2> QED BY <2>1, RequeueKeepsSchedule
<1>4. CASE RecvResultFails
  <2>1. i \in Assigned /\ Requeue /\ UNCHANGED <<completed_rows, image, chunk>>
    BY <1>4 DEF RecvResultFails, Active, Assigned, IInv, ControlInv, ResultIsForAssignedChunk
  <2> QED BY <2>1, RequeueKeepsSchedule
<1>5. CASE RecvPixels
  BY <1>5, PixelsKeepSchedule
<1>6. CASE \/ Accept \/ AcceptFails \/ ScanSkip \/ RecvRequest \/ RequestFails
           \/ SendTerminate \/ DispatchFails \/ SigPipe \/ ArmSelect \/ SelectReady
           \/ SelectTimeout \/ SelectFails \/ TimeoutSkip \/ CollectSkip
           \/ RecvHeader \/ LoopTest \/ Finish
  BY <1>1, <1>6 DEF Accept, AcceptFails, ScanSkip, RecvRequest, RequestFails, SendTerminate,
     DispatchFails, SigPipe, ArmSelect, SelectReady, SelectTimeout, SelectFails, TimeoutSkip,
     CollectSkip, RecvHeader, LoopTest, Finish
<1>7. ASSUME NEW w \in Workers, Connect(w) \/ Worker(w) \/ Crash(w) \/ Hang(w)
      PROVE  ScheduleInv'
  BY <1>1, <1>7 DEF masterVars, Connect, Worker, SendRequest, RecvTask, RecvTerminate,
     SendHeader, SendPixels, WorkerFails, Crash, Hang
<1>8. CASE UNCHANGED vars
  BY <1>1, <1>8 DEF vars, masterVars
<1> QED BY <1>2, <1>3, <1>4, <1>5, <1>6, <1>7, <1>8 DEF Next, Master, Stopped

\* A connection neither of whose ends moved keeps its shape.
LEMMA UntouchedConnection ==
  ASSUME NEW w \in Workers, ConnectionInv, ~Cut(w),
         active'[w] = active[w], chunk'[w] = chunk[w],
         wpc'[w] = wpc[w], task'[w] = task[w], status'[w] = status[w],
         up'[w] = up[w], down'[w] = down[w],
         Serving(w)' = Serving(w), Receiving(w)' = Receiving(w)
  PROVE  (IdleConnection(w) \/ BusyConnection(w))'
<1>1. IdleConnection(w) \/ BusyConnection(w)
  BY DEF ConnectionInv
<1>2. CASE IdleConnection(w)
  BY <1>2 DEF IdleConnection
<1>3. CASE BusyConnection(w)
  BY <1>3 DEF BusyConnection, Gone
<1> QED BY <1>1, <1>2, <1>3

\* The parts a connection is made of are parts, so ShortStreams applies.
LEMMA ConnectionParts ==
  ASSUME TypeOK, NEW w \in Workers
  PROVE  /\ Part("WORK", chunk[w]) \in PartType /\ Part("RESULT", chunk[w]) \in PartType
         /\ Request \in PartType /\ Pixels \in PartType
  BY PartTypes DEF TypeOK

\* Every step keeps every open connection in one of the described shapes.
LEMMA ConnectionStep == IInv /\ [Next]_vars => ConnectionInv'
<1> SUFFICES ASSUME IInv, [Next]_vars, NEW w \in Workers, ~Cut(w)'
             PROVE  (IdleConnection(w) \/ BusyConnection(w))'
  BY DEF ConnectionInv
<1> USE DEF Serving, Receiving, Cut
<1>0. /\ active \in [Workers -> BOOLEAN] /\ chunk \in [Workers -> ChunkType]
      /\ sock \in [Workers -> {"none", "open", "closed"}]
      /\ wpc \in [Workers -> {"connect", "request", "receive", "header", "pixels",
                              "terminated", "failed"}]
      /\ task \in [Workers -> ChunkType] /\ status \in [Workers -> {"up", "hung", "gone"}]
      /\ up \in [Workers -> Seq(PartType)] /\ down \in [Workers -> Seq(PartType)]
      /\ i \in 1 .. MaxWorkers + 1 /\ queue \in [Slots -> ChunkType]
      /\ ConnectionInv /\ ControlInv
  BY DEF IInv, TypeOK
<1>1. CASE Accept
  <2>1. /\ pc = "accept" /\ pc' \in {"accept", "scan"} /\ sock' = [sock EXCEPT ![i] = "open"]
        /\ UNCHANGED <<active, chunk, wpc, task, status, up, down>>
    BY <1>1 DEF Accept, NextAccept, workerVars
  <2>2. i \in Workers /\ sock[i] = "none"
    BY <2>1, <1>0 DEF ControlInv, Workers
  <2>3. ~Cut(w)
    BY <2>1, <2>2, <1>0
  <2> QED BY <2>1, <2>3, <1>0, UntouchedConnection
<1>2. CASE AcceptFails
  BY <1>2, <1>0, UntouchedConnection DEF AcceptFails, NextAccept, workerVars, ControlInv
<1>3. CASE ScanSkip
  BY <1>3, <1>0, UntouchedConnection DEF ScanSkip, workerVars, ControlInv
<1>4. CASE RequestFails
  BY <1>4, <1>0, UntouchedConnection DEF RequestFails, workerVars, ControlInv
<1>5. CASE SendTerminate
  BY <1>5, <1>0, UntouchedConnection DEF SendTerminate, workerVars, ControlInv
<1>6. CASE DispatchFails
  BY <1>6, <1>0, UntouchedConnection DEF DispatchFails, workerVars, ControlInv
<1>7. CASE SigPipe
  BY <1>7, <1>0, UntouchedConnection DEF SigPipe, workerVars, ControlInv
<1>8. CASE ArmSelect
  BY <1>8, <1>0, UntouchedConnection DEF ArmSelect, workerVars, ControlInv
<1>9. CASE SelectReady
  BY <1>9, <1>0, UntouchedConnection DEF SelectReady, workerVars, ControlInv
<1>10. CASE SelectTimeout
  BY <1>10, <1>0, UntouchedConnection DEF SelectTimeout, workerVars, ControlInv
<1>11. CASE SelectFails
  BY <1>11, <1>0, UntouchedConnection DEF SelectFails, workerVars, ControlInv
<1>12. CASE TimeoutWorker
  BY <1>12, <1>0, UntouchedConnection DEF TimeoutWorker, Requeue, workerVars, ControlInv
<1>13. CASE TimeoutSkip
  BY <1>13, <1>0, UntouchedConnection DEF TimeoutSkip, workerVars, ControlInv
<1>14. CASE CollectSkip
  BY <1>14, <1>0, UntouchedConnection DEF CollectSkip, workerVars, ControlInv
<1>15. CASE RecvResultFails
  BY <1>15, <1>0, UntouchedConnection DEF RecvResultFails, Requeue, workerVars, ControlInv
<1>16. CASE LoopTest
  BY <1>16, <1>0, UntouchedConnection DEF LoopTest, workerVars, ControlInv
<1>17. CASE Finish
  BY <1>17, <1>0, UntouchedConnection DEF Finish, workerVars, ControlInv
<1>18. CASE RecvRequest
  <2>1. CASE w # i
    BY <1>18, <2>1, <1>0, UntouchedConnection DEF RecvRequest, workerVars
  <2>2. CASE w = i
    <3>1. /\ ~Serving(w) /\ ~active[w] /\ ~Cut(w) /\ Head(up[w]).op = "REQUEST" /\ up[w] # <<>>
          /\ up'[w] = Tail(up[w]) /\ Serving(w)'
          /\ UNCHANGED <<active, wpc, down>>
      BY <1>18, <2>2, <1>0 DEF RecvRequest, workerVars, Idle
    <3>2. IdleConnection(w) /\ wpc[w] = "receive" /\ up[w] = <<Request>>
      BY <3>1, <1>0 DEF ConnectionInv, IdleConnection, BusyConnection
    <3>3. up'[w] = <<>>
      BY <3>1, <3>2, ConnectionParts, ShortStreams DEF IInv
    <3> QED BY <3>1, <3>2, <3>3 DEF IdleConnection
  <2> QED BY <2>1, <2>2
<1>19. CASE Dispatch
  <2>1. CASE w # i
    BY <1>19, <2>1, <1>0, UntouchedConnection DEF Dispatch, workerVars
  <2>2. CASE w = i
    <3>1. /\ Serving(w) /\ ~active[w] /\ ~Cut(w)
          /\ active'[w] /\ chunk'[w] = queue[queue_head] /\ ~Receiving(w)'
          /\ down'[w] = IF Gone(w) THEN down[w] ELSE Append(down[w], Part("WORK", chunk'[w]))
          /\ UNCHANGED <<wpc, status, up>>
      BY <1>19, <2>2, <1>0 DEF Dispatch, workerVars, ControlInv, Idle
    <3>2. wpc[w] = "receive" /\ up[w] = <<>> /\ down[w] = <<>>
      BY <3>1, <1>0 DEF ConnectionInv, IdleConnection, BusyConnection
    <3>3. Part("WORK", chunk'[w]) \in PartType
      <4>1. queue_head \in Slots
        BY <1>19, Ceiling DEF Dispatch, IInv, TypeOK, Slots
      <4> QED BY <4>1, <3>1, <1>0, PartTypes
    <3>4. down'[w] = <<Part("WORK", chunk'[w])>> \/ (down'[w] = <<>> /\ Gone(w)')
      BY <3>1, <3>2, <3>3, ShortStreams DEF Gone
    <3> QED BY <3>1, <3>2, <3>4 DEF BusyConnection
  <2> QED BY <2>1, <2>2
<1>20. CASE RecvHeader
  <2>1. CASE w # i
    BY <1>20, <2>1, <1>0, UntouchedConnection DEF RecvHeader, workerVars
  <2>2. CASE w = i
    <3>1. /\ ~Receiving(w) /\ active[w] /\ ~Cut(w) /\ up[w] # <<>>
          /\ up'[w] = Tail(up[w]) /\ Receiving(w)'
          /\ UNCHANGED <<active, chunk, wpc, task, down>>
      BY <1>20, <2>2, <1>0 DEF RecvHeader, workerVars, Active
    <3>2. BusyConnection(w)
      BY <3>1, <1>0 DEF ConnectionInv, IdleConnection
    <3>3. /\ Tail(<<Part("RESULT", chunk[w])>>) = <<>>
          /\ Tail(<<Part("RESULT", chunk[w]), Pixels>>) = <<Pixels>>
          /\ Tail(<<Part("RESULT", chunk[w]), Pixels, Request>>) = <<Pixels, Request>>
      BY ConnectionParts, ShortStreams DEF IInv
    <3> QED BY <3>1, <3>2, <3>3 DEF BusyConnection
  <2> QED BY <2>1, <2>2
<1>21. CASE RecvPixels
  <2>1. CASE w # i
    BY <1>21, <2>1, <1>0, UntouchedConnection DEF RecvPixels, workerVars
  <2>2. CASE w = i
    <3>1. /\ Receiving(w) /\ active[w] /\ ~Cut(w) /\ up[w] # <<>>
          /\ up'[w] = Tail(up[w]) /\ ~Serving(w)' /\ ~active'[w]
          /\ UNCHANGED <<wpc, down>>
      BY <1>21, <2>2, <1>0 DEF RecvPixels, workerVars, ControlInv, ResultIsForAssignedChunk
    <3>2. BusyConnection(w)
      BY <3>1, <1>0 DEF ConnectionInv, IdleConnection
    <3>3. Tail(<<Pixels>>) = <<>> /\ Tail(<<Pixels, Request>>) = <<Request>>
      BY ConnectionParts, ShortStreams DEF IInv
    <3> QED BY <3>1, <3>2, <3>3 DEF BusyConnection, IdleConnection
  <2> QED BY <2>1, <2>2
<1>22. ASSUME NEW v \in Workers, Connect(v) \/ Worker(v) \/ Crash(v) \/ Hang(v), v # w
       PROVE  (IdleConnection(w) \/ BusyConnection(w))'
  BY <1>22, <1>0, UntouchedConnection DEF Connect, Worker, SendRequest, RecvTask, RecvTerminate,
     SendHeader, SendPixels, WorkerFails, Crash, Hang, Deliver, Exit, masterVars
<1>23. CASE Connect(w)
  BY <1>23, <1>0 DEF Connect, masterVars, ConnectionInv, IdleConnection, BusyConnection
<1>24. CASE SendRequest(w)
  <2>1. /\ ~Cut(w) /\ wpc[w] = "request" /\ wpc'[w] = "receive"
        /\ up'[w] = Append(up[w], Request)
        /\ UNCHANGED <<pc, i, active, chunk, task, status, down>>
    BY <1>24, <1>0 DEF SendRequest, Deliver, masterVars
  <2>2. /\ Append(<<>>, Request) = <<Request>> /\ Append(<<Pixels>>, Request) = <<Pixels, Request>>
        /\ Append(<<Part("RESULT", chunk[w]), Pixels>>, Request)
             = <<Part("RESULT", chunk[w]), Pixels, Request>>
    <3>1. TypeOK
      BY DEF IInv
    <3> QED BY <3>1, ConnectionParts, AppendSecond, AppendThird
  <2>3. CASE IdleConnection(w)
    BY <2>1, <2>2, <2>3 DEF IdleConnection
  <2>4. CASE BusyConnection(w)
    BY <2>1, <2>2, <2>4 DEF BusyConnection
  <2> QED BY <2>1, <2>3, <2>4, <1>0 DEF ConnectionInv
<1>25. CASE RecvTask(w)
  <2>1. /\ ~Cut(w) /\ wpc[w] = "receive" /\ down[w] # <<>> /\ wpc'[w] = "header"
        /\ down'[w] = Tail(down[w]) /\ task'[w] = Head(down[w]).chunk
        /\ UNCHANGED <<pc, i, active, chunk, status, up>>
    BY <1>25, <1>0 DEF RecvTask, masterVars
  <2>2. /\ BusyConnection(w) /\ up[w] = <<>> /\ ~Receiving(w)
        /\ down[w] = <<Part("WORK", chunk[w])>>
    BY <2>1, <1>0 DEF ConnectionInv, IdleConnection, BusyConnection
  <2>3. down'[w] = <<>> /\ task'[w] = chunk[w]
    BY <2>1, <2>2, ConnectionParts, ShortStreams DEF IInv, Part
  <2> QED BY <2>1, <2>2, <2>3 DEF BusyConnection
<1>26. CASE RecvTerminate(w)
  <2>1. ~Cut(w) /\ down[w] # <<>> /\ Head(down[w]).op = "TERMINATE"
    BY <1>26 DEF RecvTerminate, masterVars
  <2>2. down[w] = <<Part("WORK", chunk[w])>>
    BY <2>1, <1>0 DEF ConnectionInv, IdleConnection, BusyConnection
  <2>3. Head(down[w]).op = "WORK"
    BY <2>2, ConnectionParts, ShortStreams DEF IInv, Part
  <2> QED BY <2>1, <2>3
<1>27. CASE SendHeader(w)
  <2>1. /\ ~Cut(w) /\ wpc[w] = "header" /\ wpc'[w] = "pixels"
        /\ up'[w] = Append(up[w], Part("RESULT", task[w]))
        /\ UNCHANGED <<pc, i, active, chunk, task, down>>
    BY <1>27, <1>0 DEF SendHeader, Deliver, masterVars
  <2>2. BusyConnection(w) /\ up[w] = <<>> /\ task[w] = chunk[w] /\ ~Receiving(w) /\ down[w] = <<>>
    BY <2>1, <1>0 DEF ConnectionInv, IdleConnection, BusyConnection
  <2>3. up'[w] = <<Part("RESULT", chunk[w])>>
    BY <2>1, <2>2, ConnectionParts, ShortStreams DEF IInv
  <2> QED BY <2>1, <2>2, <2>3 DEF BusyConnection
<1>28. CASE SendPixels(w)
  <2>1. /\ ~Cut(w) /\ wpc[w] = "pixels" /\ wpc'[w] = "request"
        /\ up'[w] = Append(up[w], Pixels)
        /\ UNCHANGED <<pc, i, active, chunk, task, down>>
    BY <1>28, <1>0 DEF SendPixels, Deliver, masterVars
  <2>2. /\ BusyConnection(w) /\ task[w] = chunk[w] /\ down[w] = <<>>
        /\ up[w] = IF Receiving(w) THEN <<>> ELSE <<Part("RESULT", chunk[w])>>
    BY <2>1, <1>0 DEF ConnectionInv, IdleConnection, BusyConnection
  <2>3. /\ Append(<<>>, Pixels) = <<Pixels>>
        /\ Append(<<Part("RESULT", chunk[w])>>, Pixels) = <<Part("RESULT", chunk[w]), Pixels>>
    <3>1. TypeOK
      BY DEF IInv
    <3> QED BY <3>1, ConnectionParts, AppendSecond, AppendThird
  <2> QED BY <2>1, <2>2, <2>3 DEF BusyConnection
<1>29. CASE WorkerFails(w)
  BY <1>29 DEF WorkerFails, masterVars
<1>30. CASE Crash(w) \/ Hang(w)
  <2>1. /\ ~Cut(w) /\ status[w] = "up"
        /\ UNCHANGED <<pc, i, active, chunk, wpc, task, up, down>>
    BY <1>30 DEF Crash, Hang, Running, masterVars
  <2>2. CASE IdleConnection(w)
    BY <2>1, <2>2 DEF IdleConnection
  <2>3. CASE BusyConnection(w)
    BY <2>1, <2>3 DEF BusyConnection, Gone
  <2> QED BY <2>1, <2>2, <2>3, <1>0 DEF ConnectionInv
<1>31. CASE UNCHANGED vars
  BY <1>31, <1>0, UntouchedConnection DEF vars, masterVars, workerVars
<1>32. ASSUME NEW v \in Workers, Connect(v) \/ Worker(v) \/ Crash(v) \/ Hang(v)
       PROVE  (IdleConnection(w) \/ BusyConnection(w))'
  BY <1>22, <1>23, <1>24, <1>25, <1>26, <1>27, <1>28, <1>29, <1>30, <1>32 DEF Worker
<1> QED BY <1>1, <1>2, <1>3, <1>4, <1>5, <1>6, <1>7, <1>8, <1>9, <1>10, <1>11, <1>12, <1>13, <1>14, <1>15, <1>16, <1>17, <1>18, <1>19, <1>20, <1>21, <1>31, <1>32 DEF Next, Master, Stopped

-----------------------------------------------------------------------------
(* The theorems *)

\* The invariant holds in every state of the renderer.
THEOREM Invariance == SafeSpec => []IInv
<1>1. Init => IInv
  BY InitIInv
<1>2. IInv /\ [Next]_vars => IInv'
  BY TypeStep, ControlStep, ScheduleStep, ConnectionStep DEF IInv
<1> QED BY <1>1, <1>2, PTL DEF SafeSpec

\* Every variable keeps its type; in particular queue_head stays a valid index.
THEOREM TypeCorrect == SafeSpec => []TypeOK
<1>1. IInv => TypeOK
  BY DEF IInv
<1> QED BY <1>1, Invariance, PTL

\* What the invariant says of the schedule, as the partition of the chunks.
LEMMA Partition == IInv => ChunksPartitioned
<1> SUFFICES ASSUME IInv PROVE ChunksPartitioned
  OBVIOUS
<1>1. Pending \subseteq Chunks /\ InFlight \subseteq Chunks /\ Done \subseteq Chunks
  BY DEF IInv, ScheduleInv, Pending, InFlight, Done, Undispatched
<1>2. \A c \in Pending \cup InFlight : Rows(c) \cap image = {}
  BY DEF IInv, ScheduleInv, Pending, InFlight, Undispatched
<1>3. Pending \cap InFlight = {}
  BY DEF IInv, ScheduleInv, Pending, InFlight, Undispatched
<1>4. (Pending \cup InFlight) \cap Done = {}
  BY <1>1, <1>2, ChunkRows DEF Done
<1> QED BY <1>1, <1>3, <1>4 DEF IInv, ScheduleInv, ChunksPartitioned, Undispatched

\* No chunk is ever lost, duplicated, or in two places, for any interleaving of
\* the workers and any crashes and time-outs.
THEOREM NoChunkLost == SafeSpec => []ChunksPartitioned
  BY Invariance, Partition, PTL

\* The re-queueing arithmetic is exact, so the head never runs below zero.
THEOREM HeadExact == SafeSpec => []HeadCountsDispatched
<1>1. IInv => HeadCountsDispatched
  BY DEF IInv, ScheduleInv
<1> QED BY <1>1, Invariance, PTL

\* No row is counted twice by the counter that ends the render.
THEOREM RowsExact == SafeSpec => []RowsCountedOnce
<1>1. IInv => RowsCountedOnce
  BY DEF IInv, ScheduleInv
<1> QED BY <1>1, Invariance, PTL

\* When the counter reaches the height, every row of the image is there.
LEMMA AllRowsThere ==
  ASSUME IInv, completed_rows = Height
  PROVE  image = ImageRows /\ Done = Chunks
<1>1. IsFiniteSet(ImageRows) /\ Cardinality(ImageRows) = Height
  BY GeometryAssumption, FS_Interval DEF ImageRows
<1>2. image \subseteq ImageRows /\ Cardinality(image) = Height
  BY DEF IInv, TypeOK, ScheduleInv, RowsCountedOnce
<1>3. image = ImageRows
  BY <1>1, <1>2, FS_Subset
<1> QED BY <1>3, ChunkRows DEF Done

\* A saved image is a complete image.
THEOREM SavedComplete == SafeSpec => []SavedIsComplete
<1>1. IInv => SavedIsComplete
  BY AllRowsThere DEF IInv, ControlInv, SavedIsComplete
<1> QED BY <1>1, Invariance, PTL

\* Rows are only ever added to the image.
LEMMA ImageGrows == [Next]_vars => image \subseteq image'
  BY DEF Next, vars, masterVars, workerVars, Master, Worker, Stopped, Connect, SendRequest,
     RecvTask, RecvTerminate, SendHeader, SendPixels, WorkerFails, Crash, Hang,
     Accept, AcceptFails, ScanSkip, RecvRequest, RequestFails, SendTerminate, Dispatch,
     DispatchFails, SigPipe, ArmSelect, SelectReady, SelectTimeout, SelectFails,
     TimeoutWorker, TimeoutSkip, CollectSkip, RecvHeader, RecvPixels, RecvResultFails,
     LoopTest, Finish

\* A received chunk never comes back to the queue or to a worker.
THEOREM ReceivedForGood == SafeSpec => ReceivedStaysReceived
<1>1. IInv /\ IInv' /\ [Next]_vars
        => [\A c \in Done : c \notin Pending' /\ c \notin InFlight']_vars
  <2> SUFFICES ASSUME IInv', [Next]_vars, NEW c \in Done
               PROVE  c \notin Pending' /\ c \notin InFlight'
    OBVIOUS
  <2>1. c \in Done'
    BY ImageGrows DEF Done
  <2>2. ChunksPartitioned'
    BY Partition, PTL
  <2> QED BY <2>1, <2>2 DEF ChunksPartitioned
<1> QED BY <1>1, Invariance, PTL DEF SafeSpec, ReceivedStaysReceived

-----------------------------------------------------------------------------
(* The renderer implements the pool *)

HeldMap == [w \in Workers |-> IF active[w] THEN {chunk[w]} ELSE {}]

LEMMA InitMaps == Init => Pool!Init
<1> SUFFICES ASSUME Init PROVE Pool!Init
  OBVIOUS
<1>1. Pending = Chunks
  BY DEF Init, Pending, Chunks, Slots
<1>2. Done = {}
  BY ChunkRows DEF Init, Done
<1> QED BY <1>1, <1>2 DEF Init, Pool!Init

\* Dispatching is taking.
LEMMA DispatchMaps == IInv /\ Dispatch => \E c \in Chunks, w \in Workers : Pool!Take(c, w)
<1> SUFFICES ASSUME IInv, Dispatch 
             PROVE  \E d \in Chunks, w \in Workers : Pool!Take(d, w)
  OBVIOUS
<1> DEFINE c == queue[queue_head]
<1>1. /\ i \in Workers /\ ~active[i]
      /\ active \in [Workers -> BOOLEAN] /\ chunk \in [Workers -> ChunkType]
      /\ queue_head \in Nat /\ TotalChunks \in Nat /\ queue_head < TotalChunks
      /\ queue_head \in Undispatched
  BY Ceiling DEF Dispatch, IInv, ControlInv, Idle, TypeOK, Undispatched
<1>2. /\ active' = [active EXCEPT ![i] = TRUE]
      /\ chunk' = [chunk EXCEPT ![i] = c]
      /\ queue_head' = queue_head + 1
      /\ UNCHANGED <<queue, image, outcome>>
  BY DEF Dispatch
<1>3. c \in Chunks /\ c \in Pending
  BY <1>1 DEF IInv, ScheduleInv, Pending, Undispatched
<1>4. Pending' = Pending \ {c}
  <2>1. \A k \in Undispatched : queue[k] = c <=> k = queue_head
    BY <1>1 DEF IInv, ScheduleInv
  <2>2. Undispatched' = Undispatched \ {queue_head}
    BY <1>1, <1>2 DEF Undispatched
  <2> QED BY <1>2, <2>1, <2>2 DEF Pending, Undispatched
<1>5. HeldMap' = [HeldMap EXCEPT ![i] = {c}] /\ HeldMap[i] = {}
  BY <1>1, <1>2 DEF HeldMap
<1>6. Done' = Done
  BY <1>2 DEF Done
<1>7. PICK d \in Chunks, w \in Workers : d = c /\ w = i
  BY <1>1, <1>3
<1>8. Pool!Take(d, w)
  BY <1>1, <1>2, <1>3, <1>4, <1>5, <1>6, <1>7 DEF Pool!Take, HeldMap
<1> QED BY <1>8

\* Re-queueing is giving back.
LEMMA RequeueMaps ==
  ASSUME IInv, i \in Assigned, Requeue, UNCHANGED <<image, chunk, outcome>>
  PROVE  \E c \in Chunks, w \in Workers : Pool!GiveBack(c, w)
<1> DEFINE h == queue_head - 1
<1>1. /\ i \in Workers /\ active[i] /\ chunk[i] \in Chunks
      /\ active \in [Workers -> BOOLEAN] /\ queue \in [Slots -> ChunkType]
      /\ queue_head \in Nat /\ TotalChunks \in Nat /\ queue_head <= TotalChunks
  BY Ceiling DEF IInv, Assigned, TypeOK, ScheduleInv
<1>2. h \in Slots
  BY <1>1, HeadPositive DEF IInv, ScheduleInv, Slots
<1>3. /\ active' = [active EXCEPT ![i] = FALSE]
      /\ queue' = [queue EXCEPT ![h] = chunk[i]]
      /\ queue_head' = h
  BY DEF Requeue
<1>4. /\ Undispatched' = Undispatched \cup {h} /\ h \notin Undispatched
      /\ Undispatched \subseteq Slots
  BY <1>1, <1>2, <1>3 DEF Undispatched, Slots
<1>5. queue'[h] = chunk[i] /\ \A k \in Undispatched : queue'[k] = queue[k]
  BY <1>1, <1>2, <1>3, <1>4
<1>6. Pending' = Pending \cup {chunk[i]}
  <2>1. Pending = {queue[k] : k \in Undispatched}
    BY DEF Pending, Undispatched
  <2>2. Pending' = {queue'[k] : k \in Undispatched'}
    BY DEF Pending, Undispatched
  <2> QED BY <1>4, <1>5, <2>1, <2>2
<1>7. HeldMap' = [HeldMap EXCEPT ![i] = {}] /\ HeldMap[i] = {chunk[i]}
  BY <1>1, <1>3 DEF HeldMap
<1>8. Done' = Done
  BY DEF Done
<1>9. PICK d \in Chunks, w \in Workers : d = chunk[i] /\ w = i
  BY <1>1
<1>10. Pool!GiveBack(d, w)
  BY <1>6, <1>7, <1>8, <1>9 DEF Pool!GiveBack, HeldMap
<1> QED BY <1>10

\* Receiving the pixels is completing.
LEMMA PixelsMap == IInv /\ RecvPixels => \E c \in Chunks, w \in Workers : Pool!Complete(c, w)
<1> SUFFICES ASSUME IInv, RecvPixels 
             PROVE  \E d \in Chunks, w \in Workers : Pool!Complete(d, w)
  OBVIOUS
<1> DEFINE c == chunk[i]
<1>1. /\ i \in Assigned /\ i \in Workers /\ result = c /\ active[i]
      /\ active \in [Workers -> BOOLEAN]
  BY DEF RecvPixels, IInv, ControlInv, ResultIsForAssignedChunk, Assigned, TypeOK
<1>2. /\ active' = [active EXCEPT ![i] = FALSE]
      /\ image' = image \cup Rows(c)
      /\ UNCHANGED <<queue, queue_head, chunk, outcome>>
  BY <1>1 DEF RecvPixels
<1>3. c \in Chunks
  BY <1>1 DEF IInv, ScheduleInv
<1>4. \A d \in Chunks : d # c => Rows(d) \cap Rows(c) = {}
  BY <1>3, ChunksDisjoint
<1>5. Done' = Done \cup {c}
  BY <1>2, <1>3, <1>4 DEF Done
<1>6. HeldMap' = [HeldMap EXCEPT ![i] = {}] /\ HeldMap[i] = {c}
  BY <1>1, <1>2 DEF HeldMap
<1>7. Pending' = Pending
  BY <1>2 DEF Pending
<1>8. PICK d \in Chunks, w \in Workers : d = c /\ w = i
  BY <1>1, <1>3
<1>9. Pool!Complete(d, w)
  BY <1>1, <1>2, <1>3, <1>5, <1>6, <1>7, <1>8 DEF Pool!Complete, HeldMap
<1> QED BY <1>9

\* Every step of the renderer is a step of the pool, or leaves it as it is.
LEMMA StepMaps == IInv /\ [Next]_vars => [Pool!Next]_(Pool!poolVars)
<1> SUFFICES ASSUME IInv, [Next]_vars PROVE Pool!Next \/ UNCHANGED Pool!poolVars
  OBVIOUS
<1>1. ASSUME UNCHANGED <<queue, queue_head, image, active, chunk>>,
             (outcome = "saved") = (outcome' = "saved")
      PROVE  UNCHANGED Pool!poolVars
  BY <1>1 DEF Pool!poolVars, Pending, Done
<1>2. CASE Dispatch
  BY <1>2, DispatchMaps DEF Pool!Next
<1>3. CASE TimeoutWorker
  <2>1. i \in Assigned /\ Requeue /\ UNCHANGED <<image, chunk, outcome>>
    BY <1>3 DEF TimeoutWorker, Active, Assigned
  <2> QED BY <2>1, RequeueMaps DEF Pool!Next
<1>4. CASE RecvResultFails
  <2>1. i \in Assigned /\ Requeue /\ UNCHANGED <<image, chunk, outcome>>
    BY <1>4 DEF RecvResultFails, Active, Assigned, IInv, ControlInv, ResultIsForAssignedChunk
  <2> QED BY <2>1, RequeueMaps DEF Pool!Next
<1>5. CASE RecvPixels
  BY <1>5, PixelsMap DEF Pool!Next
<1>6. CASE Finish
  <2>1. pc = "finish" /\ outcome # "saved"
        /\ UNCHANGED <<queue, queue_head, image, active, chunk>>
    BY <1>6 DEF Finish, IInv, ControlInv
  <2>2. CASE completed_rows = Height
    <3>1. outcome' = "saved"
      BY <1>6, <2>2 DEF Finish
    <3>2. Done = Chunks
      BY <2>2, AllRowsThere
    <3>3. Pool!Publish
      BY <2>1, <3>1, <3>2 DEF Pool!Publish, Pending, Done
    <3> QED BY <3>3 DEF Pool!Next
  <2>3. CASE completed_rows # Height
    BY <1>1, <1>6, <2>1, <2>3 DEF Finish
  <2> QED BY <2>2, <2>3
<1>7. CASE ArmSelect
  <2>1. outcome # "saved" /\ outcome' # "saved"
    BY <1>7 DEF ArmSelect, IInv, ControlInv
  <2> QED BY <1>1, <1>7, <2>1 DEF ArmSelect
<1>8. CASE \/ Accept \/ AcceptFails \/ ScanSkip \/ RecvRequest \/ RequestFails
           \/ SendTerminate \/ DispatchFails \/ SigPipe \/ SelectReady
           \/ SelectTimeout \/ SelectFails \/ TimeoutSkip \/ CollectSkip
           \/ RecvHeader \/ LoopTest
  BY <1>1, <1>8 DEF Accept, AcceptFails, ScanSkip, RecvRequest, RequestFails, SendTerminate,
     DispatchFails, SigPipe, SelectReady, SelectTimeout, SelectFails, TimeoutSkip,
     CollectSkip, RecvHeader, LoopTest
<1>9. ASSUME NEW w \in Workers, Connect(w) \/ Worker(w) \/ Crash(w) \/ Hang(w)
      PROVE  UNCHANGED Pool!poolVars
  BY <1>1, <1>9 DEF masterVars, Connect, Worker, SendRequest, RecvTask, RecvTerminate,
     SendHeader, SendPixels, WorkerFails, Crash, Hang
<1>10. CASE UNCHANGED vars
  BY <1>1, <1>10 DEF vars, masterVars
<1> QED BY <1>2, <1>3, <1>4, <1>5, <1>6, <1>7, <1>8, <1>9, <1>10 DEF Next, Master, Stopped

\* The renderer with its connections, rewinds and faults implements the pool of
\* chunks: whatever it does, it only takes, completes, gives back and publishes.
THEOREM ImplementsPool == SafeSpec => PoolSpec
<1>1. Init => Pool!Init
  BY InitMaps
<1>2. IInv /\ [Next]_vars => [Pool!Next]_(Pool!poolVars)
  BY StepMaps
<1> QED BY <1>1, <1>2, Invariance, PTL DEF SafeSpec, PoolSpec, Pool!Spec
=============================================================================
