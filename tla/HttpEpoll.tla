----------------------------- MODULE HttpEpoll -----------------------------
(***************************************************************************)
(* The web server of src/Lab4/task4: one thread, non-blocking sockets and  *)
(* an edge-triggered epoll for the listening socket and the connections.   *)
(* A connection is served in one go when its first edge comes, and closed. *)
(* What it does not send at once, because the socket is full, is skipped,  *)
(* and the page is cut.                                                    *)
(***************************************************************************)
EXTENDS Integers, Sequences, FiniteSets

CONSTANTS
  Clients,     \* the browsers, of which each connects once
  MaxFds,      \* descriptors for connections and the file that is sent
  MayHangUp    \* a browser may close its connection at any time

ASSUME EpollAssumption ==
  /\ IsFiniteSet(Clients) /\ {"server", "nobody"} \cap Clients = {}
  /\ MaxFds \in Nat \ {0} /\ MayHangUp \in BOOLEAN

VARIABLES
  up,      \* no SIGPIPE has ended the server
  loop,    \* "wait", "next", "accept" or "handle"
  cur,     \* the connection that is served
  batch,   \* the events epoll_wait has returned that are to be handled
  edge,    \* the sockets with an edge that has not been returned
  queue,   \* the connections to be accepted
  conn,    \* "none", "queued", "open" or "closed", for a client
  asked,   \* the clients that have sent their request
  gone,    \* the clients that have hung up
  answer,  \* "none", "404", "page" or a "cut" page
  full     \* history: accept() has failed for want of a descriptor since the
           \* last connection came

clientVars == <<asked, gone>>
epollVars == <<up, loop, cur, batch, edge, queue, conn, clientVars, answer, full>>

Server == "server"
NoClient == "nobody"
Opened == {c \in Clients : conn[c] = "open"}

EpollInit ==
  /\ up = TRUE /\ loop = "wait" /\ cur = NoClient /\ batch = {} /\ edge = {}
  /\ queue = <<>> /\ conn = [c \in Clients |-> "none"] /\ asked = {} /\ gone = {}
  /\ answer = [c \in Clients |-> "none"] /\ full = FALSE

-----------------------------------------------------------------------------
(* The browsers *)

Connect(c) ==
  /\ conn[c] = "none" /\ up
  /\ conn' = [conn EXCEPT ![c] = "queued"] /\ queue' = Append(queue, c)
  /\ edge' = edge \cup {Server} /\ full' = FALSE
  /\ UNCHANGED <<up, loop, cur, batch, clientVars, answer>>

EdgeAt(c) == edge' = IF conn[c] = "open" THEN edge \cup {c} ELSE edge

Ask(c) ==
  /\ conn[c] \in {"queued", "open"} /\ c \notin asked \cup gone
  /\ asked' = asked \cup {c} /\ EdgeAt(c)
  /\ UNCHANGED <<up, loop, cur, batch, queue, conn, gone, answer, full>>

HangUp(c) ==
  /\ MayHangUp /\ conn[c] \in {"queued", "open"} /\ c \notin gone
  /\ gone' = gone \cup {c} /\ EdgeAt(c)
  /\ UNCHANGED <<up, loop, cur, batch, queue, conn, asked, answer, full>>

-----------------------------------------------------------------------------
(* The server *)

EpollWait ==
  /\ up /\ loop = "wait" /\ edge # {}
  /\ batch' = edge /\ edge' = {} /\ loop' = "next"
  /\ UNCHANGED <<up, cur, queue, conn, clientVars, answer, full>>

NextEvent ==
  /\ up /\ loop = "next"
  /\ \/ batch = {} /\ loop' = "wait" /\ UNCHANGED <<cur, batch>>
     \/ Server \in batch /\ loop' = "accept" /\ batch' = batch \ {Server} /\ cur' = cur
     \/ \E c \in batch \ {Server} : loop' = "handle" /\ cur' = c /\ batch' = batch \ {c}
  /\ UNCHANGED <<up, edge, queue, conn, clientVars, answer, full>>

\* Slip to be caught: one connection is accepted for each edge.
AcceptOne ==
  /\ up /\ loop = "accept" /\ queue # <<>> /\ Cardinality(Opened) < MaxFds
  /\ LET c == Head(queue) IN
       /\ conn' = [conn EXCEPT ![c] = "open"] /\ queue' = Tail(queue)
       /\ edge' = IF c \in asked \cup gone THEN edge \cup {c} ELSE edge
  /\ loop' = "next"
  /\ UNCHANGED <<up, cur, batch, clientVars, answer, full>>

\* Slip to be caught: what has come before the connection was added to the
\* epoll makes no edge.
AcceptUnseen ==
  /\ up /\ loop = "accept" /\ queue # <<>> /\ Cardinality(Opened) < MaxFds
  /\ conn' = [conn EXCEPT ![Head(queue)] = "open"] /\ queue' = Tail(queue)
  /\ UNCHANGED <<up, loop, cur, batch, edge, clientVars, answer, full>>

Accept ==
  /\ up /\ loop = "accept" /\ queue # <<>> /\ Cardinality(Opened) < MaxFds
  /\ LET c == Head(queue) IN
       /\ conn' = [conn EXCEPT ![c] = "open"] /\ queue' = Tail(queue)
       /\ edge' = IF c \in asked \cup gone THEN edge \cup {c} ELSE edge
  /\ UNCHANGED <<up, loop, cur, batch, clientVars, answer, full>>

\* EAGAIN, and EMFILE, which leaves connections in the queue
AcceptFails ==
  /\ up /\ loop = "accept" /\ (queue = <<>> \/ Cardinality(Opened) >= MaxFds)
  /\ loop' = "next" /\ full' = (full \/ queue # <<>>)
  /\ UNCHANGED <<up, cur, batch, edge, queue, conn, clientVars, answer>>

\* EPOLL_CTL_DEL and close()
Close(c) == conn' = [conn EXCEPT ![c] = "closed"] /\ edge' = edge \ {c}

\* No request, no answer.  No free descriptor, no file.
Handle ==
  /\ up /\ loop = "handle" /\ cur \in Opened
  /\ \E a \in IF cur \notin asked THEN {"none"}
             ELSE IF Cardinality(Opened) >= MaxFds THEN {"404"} ELSE {"page", "cut"} :
       answer' = [answer EXCEPT ![cur] = a]
  /\ Close(cur) /\ loop' = "next"
  /\ UNCHANGED <<up, cur, batch, queue, clientVars, full>>

\* SIGPIPE, at the second piece that is sent to a browser that has gone
HandleKills ==
  /\ up /\ loop = "handle" /\ cur \in asked \cap gone
  /\ up' = FALSE /\ conn' = [c \in Clients |-> "closed"] /\ queue' = <<>> /\ edge' = {}
  /\ UNCHANGED <<loop, cur, batch, clientVars, answer, full>>

Main == EpollWait \/ NextEvent \/ Accept \/ AcceptFails \/ Handle \/ HandleKills
EpollNext ==
  \/ \E c \in Clients : Connect(c) \/ Ask(c) \/ HangUp(c)
  \/ Main

\* The server runs.  No browser has to do anything, not even to ask.
EpollSpec == EpollInit /\ [][EpollNext]_epollVars /\ WF_epollVars(Main)

-----------------------------------------------------------------------------
(* Properties *)

\* Types; only connections that are open have an edge, so that no edge is ever
\* taken for one of a connection that came later and has the same number.
EpollTypeOK ==
  /\ up \in BOOLEAN /\ loop \in {"wait", "next", "accept", "handle"}
  /\ conn \in [Clients -> {"none", "queued", "open", "closed"}]
  /\ answer \in [Clients -> {"none", "404", "page", "cut"}]
  /\ asked \subseteq Clients /\ gone \subseteq Clients /\ full \in BOOLEAN
  /\ Cardinality(Opened) <= MaxFds
  /\ up => (edge \cup batch) \ {Server} \subseteq Opened
  /\ up /\ loop = "handle" => cur \in Opened

\* An edge comes once: a connection in the queue, and a request or a hang-up at
\* a connection, is announced by an edge that is still to be handled; but for
\* the connections that found no free descriptor.
NothingForgotten ==
  /\ EpollTypeOK
  /\ up /\ queue # <<>> => Server \in edge \cup batch \/ loop = "accept" \/ full
  /\ up => \A c \in Opened \cap (asked \cup gone) :
       c \in edge \cup batch \/ (loop = "handle" /\ cur = c)

\* The strengthening of NothingForgotten that every step preserves: sockets have
\* the edges, epoll_wait is called when all events are handled, and the event
\* that is handled is no longer in the batch.
EpollInv ==
  /\ NothingForgotten
  /\ queue \in Seq(Clients) /\ edge \cup batch \subseteq Clients \cup {Server}
  /\ loop = "wait" => batch = {}
  /\ loop = "handle" => cur \notin batch

\* Whoever asks and stays is answered, however many others are connected and
\* say nothing; but for the lack of a descriptor, and until a SIGPIPE.
EveryoneAnswered ==
  \A c \in Clients : c \in asked ~> (answer[c] # "none" \/ c \in gone \/ full \/ ~up)
=============================================================================
