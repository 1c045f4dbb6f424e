--------------------------- MODULE DynamicRender ---------------------------
(***************************************************************************)
(* The fault-tolerant Mandelbrot renderer of src/Lab5/task5: one master    *)
(* (master.c), MaxWorkers worker processes (worker.c) and one TCP          *)
(* connection per worker (protocol.c).  The master is a single thread; its *)
(* program counter pc stops at every call that can block, and the loops    *)
(* over the worker table advance the index i one worker at a time, so      *)
(* workers compute, send, crash and hang between any two of its steps.     *)
(*                                                                         *)
(* A connection is a pair of FIFO byte streams, cut at the points where    *)
(* one recv_all ends and the next begins.  Pixel values are left out: a    *)
(* PIXELS part stands for the num_rows * width bytes after its header.     *)
(***************************************************************************)
EXTENDS RowChunks, Sequences, FiniteSets

CONSTANTS MaxWorkers,   \* MAX_WORKERS, 3 in the code
          Faults        \* the kinds of fault the environment may produce

FaultKinds == {"accept",  \* accept() returns an error for a connection
               "crash",   \* a worker process dies, its kernel closes the socket
               "hang",    \* a worker stops for good, its socket stays open
               "slow",    \* a running worker needs more than WORKER_TIMEOUT
               "select"}  \* select() returns an error

ASSUME RenderAssumption == MaxWorkers \in Nat \ {0} /\ Faults \subseteq FaultKinds

Workers == 1 .. MaxWorkers

\* chunk_start = chunk_rows = 0, as the worker table is initialised.
NoChunk == [start |-> 0, num_rows |-> 0]

VARIABLES
  pc,             \* where the master is
  i,              \* the index of its current loop over the worker table
  queue,          \* Chunk *queue
  queue_head,     \* next chunk to dispatch
  completed_rows, \* rows received so far
  image,          \* the rows of the image buffer that a result was copied to
  result,         \* struct result r, between its header and its pixels
  read_fds,       \* workers whose socket select() reported readable
  sock,           \* workers[i].sock: not accepted yet, open, or closed (-1)
  active,         \* workers[i].active
  chunk,          \* workers[i].chunk_start and chunk_rows
  outcome,        \* what main() ended with
  wpc,            \* where each worker is
  task,           \* the task each worker received last
  status,         \* "up", "hung", or "gone" once its socket is closed
  up, down        \* bytes in flight from and to each worker

masterVars == <<pc, i, queue, queue_head, completed_rows, image, result,
                read_fds, sock, active, chunk, outcome>>
workerVars == <<wpc, task, status>>
vars == <<masterVars, workerVars, up, down>>

Part(o, c) == [op |-> o, chunk |-> c]
Request   == Part("REQUEST", NoChunk)
Terminate == Part("TERMINATE", NoChunk)
Pixels    == Part("PIXELS", NoChunk)

Idle(w)     == sock[w] = "open" /\ ~active[w]
Active      == {w \in Workers : sock[w] = "open" /\ active[w]}
Gone(w)     == status[w] = "gone"
\* recv() on the master's side returns 0 or an error: the peer is closed and
\* everything it had sent has been read.
AtEof(w)    == up[w] = <<>> /\ Gone(w)
Readable(w) == up[w] # <<>> \/ Gone(w)

Init ==
  /\ pc = "accept" /\ i = 1
  /\ queue = [k \in Slots |-> ChunkAt(k)]
  /\ queue_head = 0
  /\ completed_rows = 0
  /\ image = {}
  /\ result = NoChunk
  /\ read_fds = {}
  /\ sock   = [w \in Workers |-> "none"]
  /\ active = [w \in Workers |-> FALSE]
  /\ chunk  = [w \in Workers |-> NoChunk]
  /\ outcome = "none"
  /\ wpc    = [w \in Workers |-> "connect"]
  /\ task   = [w \in Workers |-> NoChunk]
  /\ status = [w \in Workers |-> "up"]
  /\ up     = [w \in Workers |-> <<>>]
  /\ down   = [w \in Workers |-> <<>>]

-----------------------------------------------------------------------------
(* The master: accepting the workers *)

\* The for loop's i++, leaving for the main loop after the last slot.
NextAccept == IF i = MaxWorkers THEN pc' = "scan" /\ i' = 1
                                ELSE pc' = pc /\ i' = i + 1

\* Worker i is the process whose connection the i-th accept() hands out.
Accept ==
  /\ pc = "accept" /\ wpc[i] # "connect"
  /\ sock' = [sock EXCEPT ![i] = "open"]
  /\ NextAccept
  /\ UNCHANGED <<queue, queue_head, completed_rows, image, result, read_fds,
                 active, chunk, outcome, workerVars, up, down>>

\* accept() fails for that connection: the slot keeps sock = -1.
AcceptFails ==
  /\ "accept" \in Faults
  /\ pc = "accept" /\ wpc[i] # "connect"
  /\ sock' = [sock EXCEPT ![i] = "closed"]
  /\ NextAccept
  /\ UNCHANGED <<queue, queue_head, completed_rows, image, result, read_fds,
                 active, chunk, outcome, workerVars, up, down>>

-----------------------------------------------------------------------------
(* Step 1 of the main loop: one worker after the other *)

ScanSkip ==
  /\ pc = "scan" /\ i \in Workers /\ ~Idle(i)
  /\ i' = i + 1
  /\ UNCHANGED <<pc, queue, queue_head, completed_rows, image, result, read_fds,
                 sock, active, chunk, outcome, workerVars, up, down>>

\* recv_work_request succeeds.
RecvRequest ==
  /\ pc = "scan" /\ i \in Workers /\ Idle(i)
  /\ up[i] # <<>> /\ Head(up[i]).op = "REQUEST"
  /\ up' = [up EXCEPT ![i] = Tail(@)]
  /\ pc' = "serve"
  /\ UNCHANGED <<i, queue, queue_head, completed_rows, image, result, read_fds,
                 sock, active, chunk, outcome, workerVars, down>>

\* recv_work_request fails: end of stream, or another opcode.
RequestFails ==
  /\ pc = "scan" /\ i \in Workers /\ Idle(i)
  /\ AtEof(i) \/ (up[i] # <<>> /\ Head(up[i]).op # "REQUEST")
  /\ sock' = [sock EXCEPT ![i] = "closed"]
  /\ i' = i + 1
  /\ UNCHANGED <<pc, queue, queue_head, completed_rows, image, result, read_fds,
                 active, chunk, outcome, workerVars, up, down>>

\* The queue is empty: TERMINATE, whose result is ignored, then close.
SendTerminate ==
  /\ pc = "serve" /\ queue_head >= TotalChunks
  /\ down' = [down EXCEPT ![i] = IF Gone(i) THEN @ ELSE Append(@, Terminate)]
  /\ sock' = [sock EXCEPT ![i] = "closed"]
  /\ pc' = "scan" /\ i' = i + 1
  /\ UNCHANGED <<queue, queue_head, completed_rows, image, result, read_fds,
                 active, chunk, outcome, workerVars, up>>

\* The kernel takes the whole task, even when the worker has just closed.
Dispatch ==
  /\ pc = "serve" /\ queue_head < TotalChunks
  /\ down' = [down EXCEPT ![i] = IF Gone(i) THEN @
                                 ELSE Append(@, Part("WORK", queue[queue_head]))]
  /\ queue_head' = queue_head + 1
  /\ active' = [active EXCEPT ![i] = TRUE]
  /\ chunk' = [chunk EXCEPT ![i] = queue[queue_head]]
  /\ pc' = "scan" /\ i' = i + 1
  /\ UNCHANGED <<queue, completed_rows, image, result, read_fds, sock, outcome,
                 workerVars, up>>

\* send_task returns -1 (ECONNRESET): queue_head++ is undone, the slot closed.
DispatchFails ==
  /\ pc = "serve" /\ queue_head < TotalChunks /\ Gone(i)
  /\ sock' = [sock EXCEPT ![i] = "closed"]
  /\ pc' = "scan" /\ i' = i + 1
  /\ UNCHANGED <<queue, queue_head, completed_rows, image, result, read_fds,
                 active, chunk, outcome, workerVars, up, down>>

\* send() without MSG_NOSIGNAL on a connection the worker has closed may also
\* raise SIGPIPE, which nobody handles: the master dies.
SigPipe ==
  /\ pc = "serve" /\ Gone(i)
  /\ pc' = "killed"
  /\ sock' = [w \in Workers |-> "closed"]
  /\ UNCHANGED <<i, queue, queue_head, completed_rows, image, result, read_fds,
                 active, chunk, outcome, workerVars, up, down>>

-----------------------------------------------------------------------------
(* Step 2: select() *)

\* Slip to be caught: no test for an empty set of active workers.
ArmSelectAlways ==
  /\ pc = "scan" /\ i = MaxWorkers + 1
  /\ pc' = "select"
  /\ UNCHANGED <<i, queue, queue_head, completed_rows, image, result, read_fds,
                 sock, active, chunk, outcome, workerVars, up, down>>

\* The fd_set is built from the active workers; without any, main() gives up.
ArmSelect ==
  /\ pc = "scan" /\ i = MaxWorkers + 1
  /\ IF Active = {} THEN pc' = "finish" /\ outcome' = "aborted"
                    ELSE pc' = "select" /\ outcome' = outcome
  /\ UNCHANGED <<i, queue, queue_head, completed_rows, image, result, read_fds,
                 sock, active, chunk, workerVars, up, down>>

SelectReady ==
  /\ pc = "select"
  /\ read_fds' = {w \in Active : Readable(w)}
  /\ read_fds' # {}
  /\ pc' = "collect" /\ i' = 1
  /\ UNCHANGED <<queue, queue_head, completed_rows, image, result, sock, active,
                 chunk, outcome, workerVars, up, down>>

\* WORKER_TIMEOUT seconds without data: every active worker is hung or slow.
SelectTimeout ==
  /\ pc = "select"
  /\ \A w \in Active : ~Readable(w) /\ (status[w] = "hung" \/ "slow" \in Faults)
  /\ pc' = "timeout" /\ i' = 1
  /\ UNCHANGED <<queue, queue_head, completed_rows, image, result, read_fds, sock,
                 active, chunk, outcome, workerVars, up, down>>

SelectFails ==
  /\ "select" \in Faults
  /\ pc = "select"
  /\ pc' = "finish"
  /\ UNCHANGED <<i, queue, queue_head, completed_rows, image, result, read_fds,
                 sock, active, chunk, outcome, workerVars, up, down>>

\* Slip to be caught: the slot is not rewritten.
RequeueRewindOnly ==
  /\ queue_head' = queue_head - 1 /\ queue' = queue
  /\ sock' = [sock EXCEPT ![i] = "closed"] /\ active' = [active EXCEPT ![i] = FALSE]

\* Push worker i's chunk back by rewinding the head, and drop the worker.
Requeue ==
  /\ queue_head' = queue_head - 1
  /\ queue' = [queue EXCEPT ![queue_head - 1] = chunk[i]]
  /\ sock' = [sock EXCEPT ![i] = "closed"]
  /\ active' = [active EXCEPT ![i] = FALSE]

TimeoutWorker ==
  /\ pc = "timeout" /\ i \in Active
  /\ Requeue
  /\ i' = i + 1
  /\ UNCHANGED <<pc, completed_rows, image, result, read_fds, chunk, outcome,
                 workerVars, up, down>>

TimeoutSkip ==
  /\ pc = "timeout" /\ i \in Workers \ Active
  /\ i' = i + 1
  /\ UNCHANGED <<pc, queue, queue_head, completed_rows, image, result, read_fds,
                 sock, active, chunk, outcome, workerVars, up, down>>

-----------------------------------------------------------------------------
(* Step 3: collect the results *)

CollectSkip ==
  /\ pc = "collect" /\ i \in Workers \ (Active \cap read_fds)
  /\ i' = i + 1
  /\ UNCHANGED <<pc, queue, queue_head, completed_rows, image, result, read_fds,
                 sock, active, chunk, outcome, workerVars, up, down>>

RecvHeader ==
  /\ pc = "collect" /\ i \in Active \cap read_fds
  /\ up[i] # <<>> /\ Head(up[i]).op = "RESULT"
  /\ result' = Head(up[i]).chunk
  /\ up' = [up EXCEPT ![i] = Tail(@)]
  /\ pc' = "pixels"
  /\ UNCHANGED <<i, queue, queue_head, completed_rows, image, read_fds, sock,
                 active, chunk, outcome, workerVars, down>>

\* Slip to be caught: every result counts for a chunk of full size.
RecvPixelsFullChunk ==
  /\ pc = "pixels" /\ up[i] # <<>>
  /\ up' = [up EXCEPT ![i] = Tail(@)]
  /\ image' = image \cup Rows(result)
  /\ completed_rows' = completed_rows + ChunkSize
  /\ active' = [active EXCEPT ![i] = FALSE]
  /\ pc' = "collect" /\ i' = i + 1
  /\ UNCHANGED <<queue, queue_head, result, read_fds, sock, chunk, outcome,
                 workerVars, down>>

\* The rest of recv_result, and the copy into the image buffer.
RecvPixels ==
  /\ pc = "pixels" /\ up[i] # <<>>
  /\ up' = [up EXCEPT ![i] = Tail(@)]
  /\ image' = image \cup Rows(result)
  /\ completed_rows' = completed_rows + result.num_rows
  /\ active' = [active EXCEPT ![i] = FALSE]
  /\ pc' = "collect" /\ i' = i + 1
  /\ UNCHANGED <<queue, queue_head, result, read_fds, sock, chunk, outcome,
                 workerVars, down>>

\* recv_result fails in its header or in its pixels.
RecvResultFails ==
  /\ \/ pc = "pixels" /\ AtEof(i)
     \/ /\ pc = "collect" /\ i \in Active \cap read_fds
        /\ AtEof(i) \/ (up[i] # <<>> /\ Head(up[i]).op # "RESULT")
  /\ Requeue
  /\ pc' = "collect" /\ i' = i + 1
  /\ UNCHANGED <<completed_rows, image, result, read_fds, chunk, outcome,
                 workerVars, up, down>>

\* The test of the while loop, after a timeout's continue or a collection.
LoopTest ==
  /\ pc \in {"timeout", "collect"} /\ i = MaxWorkers + 1
  /\ IF completed_rows < Height THEN pc' = "scan" /\ i' = 1
                                ELSE pc' = "finish" /\ i' = i
  /\ UNCHANGED <<queue, queue_head, completed_rows, image, result, read_fds,
                 sock, active, chunk, outcome, workerVars, up, down>>

\* Slip to be caught: what there is of the image is written.
FinishUnchecked ==
  /\ pc = "finish"
  /\ outcome' = IF outcome = "aborted" THEN "aborted" ELSE "saved"
  /\ sock' = [w \in Workers |-> "closed"]
  /\ pc' = "done"
  /\ UNCHANGED <<i, queue, queue_head, completed_rows, image, result, read_fds,
                 active, chunk, workerVars, up, down>>

\* write_ppm only for a complete image; then every socket is closed.
Finish ==
  /\ pc = "finish"
  /\ outcome' = IF completed_rows = Height THEN "saved"
                ELSE IF outcome = "aborted" THEN "aborted" ELSE "incomplete"
  /\ sock' = [w \in Workers |-> "closed"]
  /\ pc' = "done"
  /\ UNCHANGED <<i, queue, queue_head, completed_rows, image, result, read_fds,
                 active, chunk, workerVars, up, down>>

Master ==
  \/ Accept \/ AcceptFails \/ ScanSkip \/ RecvRequest \/ RequestFails
  \/ SendTerminate \/ Dispatch \/ DispatchFails \/ SigPipe
  \/ ArmSelect \/ SelectReady \/ SelectTimeout \/ SelectFails
  \/ TimeoutWorker \/ TimeoutSkip \/ CollectSkip \/ RecvHeader \/ RecvPixels
  \/ RecvResultFails \/ LoopTest \/ Finish

-----------------------------------------------------------------------------
(* A worker process *)

Running(w) == status[w] = "up"
Cut(w)     == sock[w] = "closed"    \* the master's end of the connection

\* send_all into an open connection; what the master has closed is lost.
Deliver(w, p) == up' = [up EXCEPT ![w] = IF Cut(w) THEN @ ELSE Append(@, p)]

\* Connections are established in slot order.
Connect(w) ==
  /\ Running(w) /\ wpc[w] = "connect"
  /\ \A v \in Workers : v < w => wpc[v] # "connect"
  /\ wpc' = [wpc EXCEPT ![w] = "request"]
  /\ UNCHANGED <<masterVars, task, status, up, down>>

SendRequest(w) ==
  /\ Running(w) /\ wpc[w] = "request"
  /\ Deliver(w, Request)
  /\ wpc' = [wpc EXCEPT ![w] = "receive"]
  /\ UNCHANGED <<masterVars, task, status, down>>

\* recv_task returns 0; the rows are computed before anything is sent.
RecvTask(w) ==
  /\ Running(w) /\ wpc[w] = "receive"
  /\ down[w] # <<>> /\ Head(down[w]).op = "WORK"
  /\ down' = [down EXCEPT ![w] = Tail(@)]
  /\ task' = [task EXCEPT ![w] = Head(down[w]).chunk]
  /\ wpc' = [wpc EXCEPT ![w] = "header"]
  /\ UNCHANGED <<masterVars, status, up>>

\* main() returns: the socket is closed.
Exit(w, how) ==
  /\ wpc' = [wpc EXCEPT ![w] = how]
  /\ status' = [status EXCEPT ![w] = "gone"]

\* recv_task returns 1.
RecvTerminate(w) ==
  /\ Running(w) /\ wpc[w] = "receive"
  /\ down[w] # <<>> /\ Head(down[w]).op = "TERMINATE"
  /\ down' = [down EXCEPT ![w] = Tail(@)]
  /\ Exit(w, "terminated")
  /\ UNCHANGED <<masterVars, task, up>>

SendHeader(w) ==
  /\ Running(w) /\ wpc[w] = "header"
  /\ Deliver(w, Part("RESULT", task[w]))
  /\ wpc' = [wpc EXCEPT ![w] = "pixels"]
  /\ UNCHANGED <<masterVars, task, status, down>>

SendPixels(w) ==
  /\ Running(w) /\ wpc[w] = "pixels"
  /\ Deliver(w, Pixels)
  /\ wpc' = [wpc EXCEPT ![w] = "request"]
  /\ UNCHANGED <<masterVars, task, status, down>>

\* A send fails, or recv_task meets the end of the stream: the worker exits.
WorkerFails(w) ==
  /\ Running(w) /\ Cut(w)
  /\ \/ wpc[w] \in {"request", "header", "pixels"}
     \/ wpc[w] = "receive" /\ down[w] = <<>>
  /\ Exit(w, "failed")
  /\ UNCHANGED <<masterVars, task, up, down>>

\* The process is killed, or runs out of memory: its kernel closes the socket.
Crash(w) ==
  /\ "crash" \in Faults
  /\ Running(w) /\ wpc[w] # "connect"
  /\ status' = [status EXCEPT ![w] = "gone"]
  /\ UNCHANGED <<masterVars, wpc, task, up, down>>

\* The host is lost or the process stopped: nothing tells the master.
Hang(w) ==
  /\ "hang" \in Faults
  /\ Running(w) /\ wpc[w] # "connect"
  /\ status' = [status EXCEPT ![w] = "hung"]
  /\ UNCHANGED <<masterVars, wpc, task, up, down>>

\* The steps a running worker takes by itself.
Worker(w) ==
  \/ SendRequest(w) \/ RecvTask(w) \/ RecvTerminate(w)
  \/ SendHeader(w) \/ SendPixels(w) \/ WorkerFails(w)

Hung(w) == status[w] = "hung"

\* Everything has stopped, or may have to wait for a lost host for ever.
Stopped ==
  /\ \/ pc \in {"done", "killed"} /\ \A w \in Workers : ~Running(w)
     \/ \E w \in Workers : Hung(w)
  /\ UNCHANGED vars

Next ==
  \/ Master
  \/ \E w \in Workers : Connect(w) \/ Worker(w) \/ Crash(w) \/ Hang(w)
  \/ Stopped

\* Every worker is started, and every process that can run is scheduled.  No
\* fault is ever required to happen.
Fairness ==
  /\ WF_vars(Master)
  /\ \A w \in Workers : WF_vars(Worker(w)) /\ WF_vars(Connect(w))

SafeSpec == Init /\ [][Next]_vars
Spec     == SafeSpec /\ Fairness

-----------------------------------------------------------------------------
(* Properties *)

ChunkType == [start : Nat, num_rows : Nat]
PartType  == [op : {"REQUEST", "RESULT", "PIXELS", "WORK", "TERMINATE"},
              chunk : ChunkType]

\* Every variable keeps the type its declaration gives it.
TypeOK ==
  /\ pc \in {"accept", "scan", "serve", "select", "timeout", "collect",
             "pixels", "finish", "done", "killed"}
  /\ i \in 1 .. MaxWorkers + 1
  /\ queue \in [Slots -> ChunkType]
  /\ queue_head \in 0 .. TotalChunks
  /\ completed_rows \in Nat
  /\ image \subseteq ImageRows
  /\ result \in ChunkType
  /\ read_fds \subseteq Workers
  /\ sock \in [Workers -> {"none", "open", "closed"}]
  /\ active \in [Workers -> BOOLEAN]
  /\ chunk \in [Workers -> ChunkType]
  /\ outcome \in {"none", "aborted", "saved", "incomplete"}
  /\ wpc \in [Workers -> {"connect", "request", "receive", "header", "pixels",
                          "terminated", "failed"}]
  /\ task \in [Workers -> ChunkType]
  /\ status \in [Workers -> {"up", "hung", "gone"}]
  /\ up \in [Workers -> Seq(PartType)]
  /\ down \in [Workers -> Seq(PartType)]

\* The chunks still in the queue, with a worker, and received.
Pending  == {queue[k] : k \in queue_head .. TotalChunks - 1}
Assigned == {w \in Workers : active[w]}
InFlight == {chunk[w] : w \in Assigned}
Done     == {c \in Chunks : Rows(c) \subseteq image}

\* No chunk is lost and none is scheduled twice: however often the head was
\* rewound over slots that held other chunks, the queue's live part, the
\* chunks in flight and the received ones are all the chunks, without overlap,
\* and no two slots or workers hold the same chunk.
ChunksPartitioned ==
  /\ Pending \cup InFlight \cup Done = Chunks
  /\ Pending \cap InFlight = {} /\ (Pending \cup InFlight) \cap Done = {}
  /\ \A j, k \in queue_head .. TotalChunks - 1 : queue[j] = queue[k] => j = k
  /\ \A v, w \in Assigned : chunk[v] = chunk[w] => v = w

\* The head has advanced once for every chunk in flight or received, so the
\* queue_head-- of a re-queue never runs below slot 0 of the malloc'ed array.
HeadCountsDispatched ==
  queue_head = Cardinality(Assigned) + Cardinality(Done)

\* completed_rows, which ends the loop, counts distinct image rows: no result
\* is added twice, even when a chunk was given to several workers in turn.
RowsCountedOnce == completed_rows = Cardinality(image)

\* A result that is being received is for the chunk its sender was assigned,
\* the one that would be re-queued if the rest of it never came.
ResultIsForAssignedChunk ==
  pc = "pixels" => active[i] /\ result = chunk[i]

\* The image file is written only when every row of it was computed.
SavedIsComplete == outcome = "saved" => image = ImageRows

\* A received chunk leaves the schedule for good: it is never put back in the
\* queue nor handed out again by a rewind of the head.
ReceivedStaysReceived ==
  [][\A c \in Done : c \notin Pending' /\ c \notin InFlight']_vars

\* The strengthening that makes the properties above inductive.  First, what
\* the master's program counter says about its tables.
ControlInv ==
  /\ pc \in {"accept", "serve", "pixels"} => i \in Workers
  /\ pc = "serve" => Idle(i)
  /\ ResultIsForAssignedChunk
  /\ pc \notin {"done", "killed"} => \A w \in Assigned : sock[w] = "open"
  /\ pc = "accept" => Assigned = {} /\ \A w \in i .. MaxWorkers : sock[w] = "none"
  /\ outcome = "saved" => pc = "done" /\ completed_rows = Height

\* The partition again, with disjointness stated on the rows of the image.
Undispatched == queue_head .. TotalChunks - 1
ScheduleInv ==
  /\ \A k \in Undispatched : queue[k] \in Chunks /\ Rows(queue[k]) \cap image = {}
  /\ \A j, k \in Undispatched : queue[j] = queue[k] => j = k
  /\ \A w \in Assigned :
       /\ chunk[w] \in Chunks /\ Rows(chunk[w]) \cap image = {}
       /\ \A k \in Undispatched : queue[k] # chunk[w]
  /\ \A v, w \in Assigned : chunk[v] = chunk[w] => v = w
  /\ \A c \in Chunks : c \in Pending \cup InFlight \cup Done
  /\ HeadCountsDispatched
  /\ RowsCountedOnce

\* What is in flight on a connection the master still has open, from where its
\* two ends are.  The master may be between request and reply, or between the
\* header and the pixels of a result.
Serving(w)   == pc = "serve" /\ i = w
Receiving(w) == pc = "pixels" /\ i = w

IdleConnection(w) ==
  /\ ~active[w] /\ down[w] = <<>>
  /\ \/ wpc[w] \in {"connect", "request"} /\ up[w] = <<>> /\ ~Serving(w)
     \/ wpc[w] = "receive" /\ up[w] = IF Serving(w) THEN <<>> ELSE <<Request>>

BusyConnection(w) ==
  /\ active[w]
  /\ \/ /\ wpc[w] = "receive" /\ up[w] = <<>> /\ ~Receiving(w)
        /\ down[w] = <<Part("WORK", chunk[w])>> \/ (down[w] = <<>> /\ Gone(w))
     \/ /\ down[w] = <<>> /\ task[w] = chunk[w]
        /\ \/ wpc[w] = "header" /\ up[w] = <<>> /\ ~Receiving(w)
           \/ /\ wpc[w] = "pixels"
              /\ up[w] = IF Receiving(w) THEN <<>> ELSE <<Part("RESULT", chunk[w])>>
           \/ /\ wpc[w] = "request"
              /\ up[w] = IF Receiving(w) THEN <<Pixels>>
                         ELSE <<Part("RESULT", chunk[w]), Pixels>>
           \/ /\ wpc[w] = "receive"
              /\ up[w] = IF Receiving(w) THEN <<Pixels, Request>>
                         ELSE <<Part("RESULT", chunk[w]), Pixels, Request>>

ConnectionInv ==
  \A w \in Workers : ~Cut(w) => IdleConnection(w) \/ BusyConnection(w)

\* The inductive invariant: together with the types, the four parts imply each
\* other's preservation by every step.
IInv == TypeOK /\ ControlInv /\ ScheduleInv /\ ConnectionInv

LostHost == \E w \in Workers : Hung(w)

\* What a fault leaves behind: a lost host or a crash, a time-out, the end of the
\* loop that a select() error causes, or a connection that is closed before a
\* chunk was handed out.
Faulted ==
  \/ \E w \in Workers : Hung(w) \/ (Gone(w) /\ wpc[w] \notin {"terminated", "failed"})
  \/ pc = "timeout"
  \/ pc = "finish" /\ outcome = "none" /\ completed_rows < Height
  \/ queue_head = 0 /\ \E w \in Workers : sock[w] = "closed"

\* Unless a host is lost, master and workers all end, whatever crashes, time-outs
\* and errors of accept() and select() happen: workers are told to or see their
\* socket close.  A render in which nothing of that happens saves the image.
RenderEnds ==
  /\ <>(LostHost \/ (pc \in {"done", "killed"} /\ \A w \in Workers : ~Running(w)))
  /\ <>(outcome = "saved" \/ Faulted)

\* The promise of the master, with each chunk's place read off its state.
Pool == INSTANCE ChunkPool WITH
  waiting   <- Pending,
  held      <- [w \in Workers |-> IF active[w] THEN {chunk[w]} ELSE {}],
  done      <- Done,
  published <- outcome = "saved"
PoolSpec == Pool!Spec
=============================================================================
