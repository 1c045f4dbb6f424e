----------------------------- MODULE LogServer -----------------------------
(***************************************************************************)
(* The log servers of src/Lab2 and their clients.  The servers of task1    *)
(* (and its copy task2) and task3, "epoll", are here: one thread reads log *)
(* messages from FIFOs with an edge-triggered epoll.  Whatever is in a     *)
(* FIFO comes with one read(), of which only the first message is logged.  *)
(* A FIFO that has lost its last writer is closed; in task3 a control FIFO *)
(* asks for more FIFOs to be opened.  The server of task4, "eventfd", is   *)
(* in LogEventfd.  What a FIFO holds is taken to fit into a buffer.        *)
(***************************************************************************)
EXTENDS Integers, SequencesExt

CONSTANTS
  Servers,    \* the servers that may run: "epoll", "eventfd"
  Opens,      \* the FIFOs each of them opens when it starts, in order
  Clients,    \* the programs that write log messages
  FifoOf,     \* the FIFO each of them writes to, for each server
  Critical,   \* those whose messages are CRITICAL
  Messages,   \* how many messages each sends, 1 or 5 in the code
  MaxAdds,    \* bound: the requests made through the control FIFO of task3,
              \* 0 for task1 and task2, which have none
  AlertCap,   \* alerts that fit into the alert FIFO
  MayStop     \* whether there is a SIGINT

ASSUME LogAssumption ==
  /\ Servers # {} /\ Servers \subseteq {"epoll", "eventfd"}
  /\ DOMAIN Opens = Servers
  /\ \A s \in Servers :
       /\ Opens[s] \in Seq(Range(Opens[s])) /\ IsInjective(Opens[s])
       /\ "closed" \notin Range(Opens[s]) /\ FifoOf[s] \in [Clients -> Range(Opens[s])]
  /\ "eventfd" \in Servers => Len(Opens["eventfd"]) <= 3
  /\ Critical \subseteq Clients
  /\ Messages \in Nat \ {0} /\ MaxAdds \in Nat /\ AlertCap \in Nat \ {0}
  /\ MayStop \in BOOLEAN

VARIABLES
  server,       \* which one runs, chosen when it starts
  running, pc,  \* "wait" in epoll_wait, "next" event, "read", "eof", "stopped"
  cur,          \* the descriptor that is drained
  batch,        \* the other events epoll_wait has returned
  ready,        \* the descriptors with an edge that has not been returned
  file,         \* the FIFO a descriptor stands for, Closed if for none
  pipe,         \* what is in each FIFO
  asked,        \* what is in the control FIFO
  adds,         \* requests made so far
  client,       \* "new", "open", "done" or "killed"
  sent,         \* messages each client has written
  logged,       \* history: the messages of each client printed, in order
  alerts        \* how many alerts nobody has read

wires == <<ready, file, pipe, asked>>
clientVars == <<adds, client, sent>>
vars == <<server, running, pc, cur, batch, wires, clientVars, logged, alerts>>

Closed == "closed"
Control == 0   \* the descriptor of the control FIFO
Fifos == UNION {Range(Opens[s]) : s \in Servers}
Fds == 1 .. Len(Opens[server]) + MaxAdds
Readers(f) == {d \in Fds : file[d] = f}
\* Edges at these descriptors, which only the server with epoll watches.
Edge(ds) == IF server = "epoll" THEN ready \cup ds ELSE ready
Writers(f) == {c \in Clients : client[c] = "open" /\ FifoOf[server][c] = f}

Init ==
  /\ running = TRUE /\ pc = "wait" /\ cur = Control /\ batch = {} /\ ready = {}
  /\ server \in Servers
  /\ file = [d \in Fds |-> IF d \in DOMAIN Opens[server] THEN Opens[server][d] ELSE Closed]
  /\ pipe = [f \in Fifos |-> <<>>] /\ asked = <<>> /\ adds = 0
  /\ client = [c \in Clients |-> "new"] /\ sent = [c \in Clients |-> 0]
  /\ logged = [c \in Clients |-> <<>>] /\ alerts = 0

-----------------------------------------------------------------------------
(* The clients, with one FIFO each, and whoever writes to the control FIFO *)

\* open(O_WRONLY) waits for a reader.
ClientOpen(c) ==
  /\ client[c] = "new" /\ pc # "stopped" /\ Readers(FifoOf[server][c]) # {}
  /\ client' = [client EXCEPT ![c] = "open"]
  /\ UNCHANGED <<running, pc, cur, batch, wires, adds, sent, logged, alerts>>

ClientWrite(c) == LET f == FifoOf[server][c] IN
  /\ client[c] = "open" /\ sent[c] < Messages /\ Readers(f) # {}
  /\ sent' = [sent EXCEPT ![c] = @ + 1]
  /\ pipe' = [pipe EXCEPT ![f] = Append(@, <<c, sent'[c]>>)]
  /\ ready' = Edge(Readers(f))
  /\ UNCHANGED <<running, pc, cur, batch, file, asked, adds, client, logged, alerts>>

\* The last writer that goes makes an edge at the readers' descriptors; where
\* there is none, the FIFO forgets what it holds.
ClientGoes(c, how) == LET f == FifoOf[server][c] IN
  /\ client[c] = "open"
  /\ client' = [client EXCEPT ![c] = how]
  /\ ready' = IF Writers(f) = {c} THEN Edge(Readers(f)) ELSE ready
  /\ pipe' = IF Writers(f) = {c} /\ Readers(f) = {} THEN [pipe EXCEPT ![f] = <<>>] ELSE pipe
  /\ UNCHANGED <<running, pc, cur, batch, file, asked, adds, sent, logged, alerts>>

ClientDone(c) == sent[c] = Messages /\ ClientGoes(c, "done")
Sigpipe(c) == sent[c] < Messages /\ Readers(FifoOf[server][c]) = {} /\ ClientGoes(c, "killed")

\* "ADD <path>"
AskFor(f) ==
  /\ server = "epoll" /\ f \in Range(Opens[server]) /\ adds < MaxAdds /\ pc # "stopped"
  /\ adds' = adds + 1 /\ asked' = Append(asked, f) /\ ready' = ready \cup {Control}
  /\ UNCHANGED <<running, pc, cur, batch, file, pipe, client, sent, logged, alerts>>

ReadAlert ==
  /\ alerts > 0 /\ alerts' = alerts - 1
  /\ UNCHANGED <<running, pc, cur, batch, wires, clientVars, logged>>

\* handle_sigint
Sigint ==
  /\ MayStop /\ running /\ running' = FALSE
  /\ UNCHANGED <<pc, cur, batch, wires, clientVars, logged, alerts>>

-----------------------------------------------------------------------------
(* The server *)

EpollWait ==
  /\ pc = "wait" /\ running /\ ready # {}
  /\ batch' = ready /\ ready' = {} /\ pc' = "next"
  /\ UNCHANGED <<running, cur, file, pipe, asked, clientVars, logged, alerts>>

NextEvent ==
  /\ pc = "next"
  /\ IF batch = {}
       THEN pc' = "wait" /\ UNCHANGED <<cur, batch>>
       ELSE pc' = "read" /\ cur' \in batch /\ batch' = batch \ {cur'}
  /\ UNCHANGED <<running, wires, clientVars, logged, alerts>>

\* The line is printed; an alert that does not fit is dropped.
Log(message) == LET c == message[1] IN
  /\ logged' = [logged EXCEPT ![c] = Append(@, message[2])]
  /\ alerts' = IF c \in Critical /\ alerts < AlertCap THEN alerts + 1 ELSE alerts

\* Slip to be caught: one message is read for each event.
ReadOne(f) ==
  /\ pc = "read" /\ cur # Control /\ file[cur] = f /\ pipe[f] # <<>>
  /\ Log(Head(pipe[f])) /\ pipe' = [pipe EXCEPT ![f] = Tail(@)] /\ pc' = "next"
  /\ UNCHANGED <<running, cur, batch, ready, file, asked, clientVars>>

\* Slip to be caught: the last message of a read is logged.
ReadNewest(f) ==
  /\ pc = "read" /\ cur # Control /\ file[cur] = f /\ pipe[f] # <<>>
  /\ Log(Last(pipe[f])) /\ pipe' = [pipe EXCEPT ![f] = Front(@)]
  /\ UNCHANGED <<running, pc, cur, batch, ready, file, asked, clientVars>>

\* Everything is read, and the first message of it is logged.
Read(f) ==
  /\ pc = "read" /\ cur # Control /\ file[cur] = f /\ pipe[f] # <<>>
  /\ Log(Head(pipe[f]))
  /\ pipe' = [pipe EXCEPT ![f] = <<>>]
  /\ UNCHANGED <<running, pc, cur, batch, ready, file, asked, clientVars>>

\* EAGAIN while somebody may still write, 0 when nobody can.
ReadEmpty(f) ==
  /\ pc = "read" /\ cur # Control /\ file[cur] = f /\ pipe[f] = <<>>
  /\ pc' = IF Writers(f) = {} THEN "eof" ELSE "next"
  /\ UNCHANGED <<running, cur, batch, wires, clientVars, logged, alerts>>

\* A writer that has come since read() returned 0 is not noticed.
CloseFifo(f) ==
  /\ pc = "eof" /\ file[cur] = f
  /\ file' = [file EXCEPT ![cur] = Closed]
  /\ ready' = ready \ {cur}
  /\ pipe' = IF Readers(f) = {cur} /\ Writers(f) = {} THEN [pipe EXCEPT ![f] = <<>>] ELSE pipe
  /\ pc' = "next"
  /\ UNCHANGED <<running, cur, batch, asked, clientVars, logged, alerts>>

\* Slip to be caught: what a FIFO holds already makes no edge.
AddUnseen ==
  /\ pc = "read" /\ cur = Control /\ asked # <<>> /\ asked' = <<>>
  /\ LET d == CHOOSE d \in Fds : file[d] = Closed /\ \A e \in Fds : file[e] = Closed => d <= e
     IN file' = [file EXCEPT ![d] = Head(asked)]
  /\ UNCHANGED <<running, pc, cur, batch, ready, pipe, clientVars, logged, alerts>>

\* Of several requests in one read the first is met: the lowest number that is
\* free becomes a descriptor of the FIFO.
Add ==
  /\ pc = "read" /\ cur = Control /\ asked # <<>>
  /\ asked' = <<>>
  /\ LET d == CHOOSE d \in Fds : file[d] = Closed /\ \A e \in Fds : file[e] = Closed => d <= e
     IN /\ file' = [file EXCEPT ![d] = Head(asked)]
        /\ ready' = IF pipe[Head(asked)] = <<>> THEN ready ELSE ready \cup {d}
  /\ UNCHANGED <<running, pc, cur, batch, pipe, clientVars, logged, alerts>>

NothingAsked ==
  /\ pc = "read" /\ cur = Control /\ asked = <<>>
  /\ pc' = "next"
  /\ UNCHANGED <<running, cur, batch, wires, clientVars, logged, alerts>>

\* Slip to be caught: the flag is looked at only when there is an event.
StopAtEvent ==
  /\ pc = "wait" /\ ~running /\ ready # {} /\ pc' = "stopped"
  /\ file' = [d \in Fds |-> Closed]
  /\ pipe' = [f \in Fifos |-> IF Writers(f) = {} THEN <<>> ELSE pipe[f]]
  /\ UNCHANGED <<running, cur, batch, ready, asked, clientVars, logged, alerts>>

\* epoll_wait returns within a second; the names are removed.
Stop ==
  /\ pc = "wait" /\ ~running /\ pc' = "stopped"
  /\ file' = [d \in Fds |-> Closed]
  /\ pipe' = [f \in Fifos |-> IF Writers(f) = {} THEN <<>> ELSE pipe[f]]
  /\ UNCHANGED <<running, cur, batch, ready, asked, clientVars, logged, alerts>>

Client(c) == UNCHANGED server /\ (ClientOpen(c) \/ ClientWrite(c) \/ ClientDone(c) \/ Sigpipe(c))
Environment == UNCHANGED server /\ (ReadAlert \/ Sigint \/ \E f \in Fifos : AskFor(f))
EpollServer == server = "epoll" /\ UNCHANGED server /\
  (\/ EpollWait \/ NextEvent \/ Add \/ NothingAsked \/ Stop
   \/ \E f \in Fifos : Read(f) \/ ReadEmpty(f) \/ CloseFifo(f))

-----------------------------------------------------------------------------
(* Properties *)

\* Types; the descriptors that have an edge are open ones, and so is the one
\* that is being read.
TypeOK ==
  /\ running \in BOOLEAN /\ pc \in {"wait", "next", "read", "eof", "event", "stopped"}
  /\ cur \in Fds \cup {Control} /\ batch \subseteq Fds \cup {Control}
  /\ file \in [Fds -> Fifos \cup {Closed}] /\ adds \in 0 .. MaxAdds
  /\ client \in [Clients -> {"new", "open", "done", "killed"}]
  /\ sent \in [Clients -> 0 .. Messages] /\ alerts \in 0 .. AlertCap
  /\ pc # "stopped" => \A d \in (ready \cup batch) \ {Control} : file[d] # Closed
  /\ pc \in {"read", "eof"} /\ cur # Control => file[cur] # Closed

\* An edge comes once: what is in a FIFO that the server has open is announced
\* by an edge it has yet to see or is in the middle of seeing.  This is what
\* the "edge-triggered rule" of log_server_task1.c, to read until EAGAIN, is
\* there for.
Announced ==
  server = "epoll" /\ pc # "stopped" => \A f \in Fifos :
    pipe[f] # <<>> /\ Readers(f) # {}
      => \E d \in Readers(f) : d \in ready \cup batch \/ (pc \in {"read", "eof"} /\ cur = d)
NothingForgotten == TypeOK /\ Announced

\* However reads, clients and descriptors of one FIFO mix, the log has the
\* messages of each client in the order they were sent, and none twice.
LogInOrder == \A c \in Clients : \A i, j \in 1 .. Len(logged[c]) :
  i < j => logged[c][i] < logged[c][j]

\* The strengthening that makes these inductive.  A descriptor is free for every
\* request; nobody watches, no edge; and once read() has returned 0 whatever
\* comes makes edges at all descriptors of the FIFO.
DescriptorInv ==
  /\ server \in Servers
  /\ pipe \in [Fifos -> Seq(Clients \X (1 .. Messages))] /\ asked \in Seq(Fifos)
  /\ ready \subseteq Fds \cup {Control} /\ Len(asked) <= adds
  /\ \A d \in Fds : file[d] # Closed => d <= Len(Opens[server]) + adds - Len(asked)
EdgeInv ==
  /\ pc = "wait" => batch = {}
  /\ pc \in {"read", "eof"} => cur \notin batch
  /\ pc = "eof" => cur # Control /\ (pipe[file[cur]] # <<>> => Readers(file[cur]) \subseteq ready)
  /\ IF server = "epoll"
       THEN pc # "event"
       ELSE ready = {} /\ batch = {} /\ cur = Control /\ pc \notin {"next", "eof"}

\* What is in a FIFO was written by its clients, and is later than what is
\* logged of them.
SentInv ==
  /\ logged \in [Clients -> Seq(1 .. Messages)]
  /\ \A f \in Fifos : \A i \in 1 .. Len(pipe[f]) : LET c == pipe[f][i][1] n == pipe[f][i][2] IN
       /\ FifoOf[server][c] = f /\ n <= sent[c]
       /\ \A j \in 1 .. Len(logged[c]) : logged[c][j] < n
  /\ \A c \in Clients : \A j \in 1 .. Len(logged[c]) : logged[c][j] <= sent[c]

\* No message stays in a FIFO: it is taken out by the server, with what came
\* together with it, or it is lost with the FIFO that the server has closed - even
\* when that FIFO is opened again through the control FIFO and holds it already.
NoMessageStays == \A c \in Clients : LET f == FifoOf[server][c] IN
  pipe[f] # <<>> ~> (pipe[f] = <<>> \/ ~running)

\* SIGINT ends the server, however many messages come.
ServerStops == ~running ~> pc = "stopped"
=============================================================================
