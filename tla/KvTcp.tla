------------------------------- MODULE KvTcp -------------------------------
(***************************************************************************)
(* The key-value service over TCP: the edge-triggered epoll loop of        *)
(* kv_server_tcp.c, one request handled per event, with clients that send  *)
(* a request as two pieces, header and payload, and wait for the answer:   *)
(* kv_client sends one request on a connection, kv_bench one after another.*)
(* A connection goes by its client; the server knows it by its descriptor. *)
(***************************************************************************)
EXTENDS KvStore, Sequences

CONSTANTS
  Clients,
  Requests,     \* the requests clients make, a set of [op, key, value]
  MaxRequests,  \* requests on one connection: 1 of kv_client, 1000 of kv_bench
  Faults,       \* when a client may die: "idle", "half" a request, "waiting"
  FdLimits      \* how many descriptors a server may have for connections

ASSUME TcpAssumption ==
  /\ Requests \subseteq [op : {"SET", "GET", "DEL"}, key : Keys, value : Values]
  /\ MaxRequests \in Nat \ {0}
  /\ "listen" \notin Clients /\ "none" \notin Clients
  /\ Faults \subseteq {"idle", "half", "waiting"}
  /\ FdLimits \subseteq Nat

VARIABLES
  pc,       \* clients: "new", "idle", "half" sent, "waiting", "closed"
  request,  \* the client's latest request
  sent,     \* the number of it
  inbox,    \* answers in the client's socket: <<request number, piece>>
  wire,     \* unread pieces in the server's socket
  peer,     \* the other end as the server's kernel sees it: "up", "fin",
            \* "rst_due" once something was sent to a closed end, "reset"
  conn,     \* "none", "backlog", "open", "closed"
  fd,       \* the descriptor of an open connection
  edge,     \* connections, or Listen, with an edge that epoll has not reported
  batch,    \* reported events that are not yet handled: [conn, fd, err]
  spc,      \* the server: "wait", "batch", "accept", "payload", "value", "gone"
  serving,  \* the connection handle_client_request is busy with
  fds,      \* the descriptors the server may have for connections
  full      \* history: accept() has failed for want of one since a client connected

clients == <<pc, request, sent>>
server == <<db, call, batch, spc, serving>>
table == <<fds, full>>
vars == <<clients, server, inbox, wire, peer, conn, fd, edge, table>>

Listen == "listen"
None == "none"
NoRequest == [op |-> None, key |-> NoValue, value |-> NoValue]
Open == {c \in Clients : conn[c] = "open"}
Backlog == {c \in Clients : conn[c] = "backlog"}
FreeFds == fds \ {fd[c] : c \in Open}

TcpInit ==
  /\ kv_store_init
  /\ pc = [c \in Clients |-> "new"]
  /\ request = [c \in Clients |-> NoRequest] /\ sent = [c \in Clients |-> 0]
  /\ inbox = [c \in Clients |-> <<>>] /\ wire = [c \in Clients |-> <<>>]
  /\ peer = [c \in Clients |-> "up"] /\ conn = [c \in Clients |-> "none"]
  /\ fd = [c \in Clients |-> 0]
  /\ edge = {} /\ batch = {} /\ spc = "wait" /\ serving = None
  /\ fds \in {1 .. limit : limit \in FdLimits} /\ full = FALSE

-----------------------------------------------------------------------------
(* The kernel *)

\* Something arrives for c: an edge, once c is registered with epoll.
Raise(c) == edge' = IF c \in Open THEN edge \cup {c} ELSE edge
Readable(c) == wire[c] # <<>> \/ peer[c] \in {"fin", "rst_due", "reset"}

\* What is sent to an end that is closed comes back as a reset.
Arrives(c, pieces) ==
  IF peer[c] = "up" THEN inbox' = [inbox EXCEPT ![c] = @ \o pieces] /\ peer' = peer
                    ELSE peer' = [peer EXCEPT ![c] = "rst_due"] /\ inbox' = inbox

ResetArrives(c) ==
  /\ peer[c] = "rst_due"
  /\ peer' = [peer EXCEPT ![c] = "reset"]
  /\ Raise(c)
  /\ UNCHANGED <<clients, server, inbox, wire, conn, fd, table>>

\* A socket closed with unread data sends a reset, otherwise the end of file.
Leave(c) ==
  /\ pc' = [pc EXCEPT ![c] = "closed"]
  /\ peer' = [peer EXCEPT ![c] = IF inbox[c] = <<>> THEN "fin" ELSE "reset"]
  /\ inbox' = [inbox EXCEPT ![c] = <<>>]
  /\ Raise(c)
  /\ UNCHANGED <<server, request, sent, wire, conn, fd, table>>

-----------------------------------------------------------------------------
(* The clients: send_tcp of kv_client and main of kv_bench *)

Connect(c) ==
  /\ pc[c] = "new"
  /\ pc' = [pc EXCEPT ![c] = "idle"]
  /\ conn' = [conn EXCEPT ![c] = "backlog"]
  /\ edge' = edge \cup {Listen} /\ full' = FALSE
  /\ UNCHANGED <<server, request, sent, inbox, wire, peer, fd, fds>>

SendHeader(c) ==
  /\ pc[c] = "idle" /\ sent[c] < MaxRequests
  /\ \E q \in Requests : request' = [request EXCEPT ![c] = q]
  /\ pc' = [pc EXCEPT ![c] = "half"]
  /\ sent' = [sent EXCEPT ![c] = @ + 1]
  /\ wire' = [wire EXCEPT ![c] = Append(@, "header")]
  /\ Raise(c)
  /\ UNCHANGED <<server, inbox, peer, conn, fd, table>>

SendPayload(c) ==
  /\ pc[c] = "half"
  /\ pc' = [pc EXCEPT ![c] = "waiting"]
  /\ wire' = [wire EXCEPT ![c] = Append(@, "payload")]
  /\ Raise(c)
  /\ UNCHANGED <<server, request, sent, inbox, peer, conn, fd, table>>

\* The header of an answer, and the value when the header announces one.
Whole(c) ==
  inbox[c] # <<>> /\ (Head(inbox[c])[2] = "value_follows" => Len(inbox[c]) > 1)

\* Slip to be caught: the value is left in the socket.
ReceiveHeaderOnly(c) ==
  /\ pc[c] = "waiting" /\ Whole(c)
  /\ pc' = [pc EXCEPT ![c] = "idle"]
  /\ inbox' = [inbox EXCEPT ![c] = Tail(@)]
  /\ UNCHANGED <<server, request, sent, wire, peer, conn, fd, edge, table>>

Receive(c) ==
  /\ pc[c] = "waiting" /\ Whole(c)
  /\ pc' = [pc EXCEPT ![c] = "idle"]
  /\ inbox' = [inbox EXCEPT ![c] =
       IF Head(@)[2] = "value_follows" THEN Tail(Tail(@)) ELSE Tail(@)]
  /\ UNCHANGED <<server, request, sent, wire, peer, conn, fd, edge, table>>

Close(c) == pc[c] = "idle" /\ sent[c] > 0 /\ Leave(c)
Die(c)   == pc[c] \in Faults /\ Leave(c)
Client(c) == Connect(c) \/ SendHeader(c) \/ SendPayload(c) \/ Receive(c) \/ Close(c) \/ Die(c)

-----------------------------------------------------------------------------
(* The server *)

\* epoll_wait() reports the edges whose condition still holds.
EpollWait ==
  LET live == {c \in edge \cap Open : Readable(c)} IN
  /\ spc = "wait" /\ edge # {}
  /\ edge' = {}
  /\ batch' = {[conn |-> c, fd |-> fd[c], err |-> peer[c] = "reset"] : c \in live}
       \cup IF Listen \in edge /\ Backlog # {} THEN {[conn |-> Listen, fd |-> 0, err |-> FALSE]}
                                               ELSE {}
  /\ spc' = IF batch' = {} THEN "wait" ELSE "batch"
  /\ UNCHANGED <<clients, db, call, serving, inbox, wire, peer, conn, fd, table>>

\* The event is done with.
Handled(e) == batch' = batch \ {e} /\ spc' = IF batch = {e} THEN "wait" ELSE "batch"
\* The connection that has the descriptor of an event now.
Owner(e) == CHOOSE c \in Open : fd[c] = e.fd

\* Slip to be caught: every connection whose other end is gone is closed.
CloseAllDead(c) ==
  /\ conn' = [x \in Clients |-> IF x \in Open /\ peer[x] # "up" THEN "closed" ELSE conn[x]]
  /\ fd' = [x \in Clients |-> IF x \in Open /\ peer[x] # "up" THEN 0 ELSE fd[x]]
  /\ edge' = edge \ {x \in Open : peer[x] # "up"}

CloseFd(c) ==
  /\ conn' = [conn EXCEPT ![c] = "closed"]
  /\ fd' = [fd EXCEPT ![c] = 0]
  /\ edge' = edge \ {c}

\* EPOLLERR or EPOLLHUP: close without a look at the handler.
HandleError(e) ==
  /\ spc = "batch" /\ e.err
  /\ CloseFd(Owner(e)) /\ Handled(e)
  /\ UNCHANGED <<clients, db, call, serving, inbox, wire, peer, table>>

HandleListen(e) ==
  /\ spc = "batch" /\ e.conn = Listen
  /\ batch' = batch \ {e} /\ spc' = "accept"
  /\ UNCHANGED <<clients, db, call, serving, inbox, wire, peer, conn, fd, edge, table>>

Register(c) ==
  /\ conn' = [conn EXCEPT ![c] = "open"]
  /\ fd' = [fd EXCEPT ![c] = Min(FreeFds)]
  /\ edge' = IF Readable(c) THEN edge \cup {c} ELSE edge
  /\ UNCHANGED <<clients, db, call, batch, serving, inbox, wire, peer, table>>

\* EAGAIN, or no descriptor for a connection that waits: the loop ends, and the
\* connection makes no edge again.
AcceptFails ==
  /\ Backlog = {} \/ FreeFds = {}
  /\ spc' = IF batch = {} THEN "wait" ELSE "batch"
  /\ full' = (full \/ Backlog # {})
  /\ UNCHANGED <<clients, db, call, batch, serving, inbox, wire, peer, conn, fd, edge, fds>>

\* Slip to be caught: one accept() per event, as with level triggering.
AcceptOnce ==
  /\ spc = "accept"
  /\ \/ /\ FreeFds # {} /\ \E c \in Backlog : Register(c)
        /\ spc' = IF batch = {} THEN "wait" ELSE "batch"
     \/ AcceptFails

\* One accept(): registered with epoll, which reports at once what is already
\* there; or the end of the loop.
Accept ==
  /\ spc = "accept"
  /\ \/ FreeFds # {} /\ spc' = spc /\ \E c \in Backlog : Register(c)
     \/ AcceptFails

\* Slip to be caught: the end of file is taken for EAGAIN.
ReadHeaderKeepsOpen(e) ==
  /\ spc = "batch" /\ ~e.err /\ e.conn # Listen
  /\ LET c == Owner(e) IN
     IF wire[c] # <<>>
       THEN /\ wire' = [wire EXCEPT ![c] = Tail(@)]
            /\ batch' = batch \ {e} /\ spc' = "payload" /\ serving' = c
       ELSE Handled(e) /\ UNCHANGED <<wire, serving>>
  /\ UNCHANGED <<clients, db, call, inbox, peer, conn, fd, edge, table>>

\* handle_client_request: recv() of the header.
ReadHeader(e) ==
  /\ spc = "batch" /\ ~e.err /\ e.conn # Listen
  /\ LET c == Owner(e) IN
     IF wire[c] # <<>>
       THEN /\ wire' = [wire EXCEPT ![c] = Tail(@)]
            /\ batch' = batch \ {e} /\ spc' = "payload" /\ serving' = c
            /\ UNCHANGED <<conn, fd, edge>>
       ELSE /\ IF peer[c] = "up" THEN UNCHANGED <<conn, fd, edge>> ELSE CloseFd(c)
            /\ Handled(e) /\ UNCHANGED <<wire, serving>>
  /\ UNCHANGED <<clients, db, call, inbox, peer, table>>

Done == serving' = None /\ spc' = IF batch = {} THEN "wait" ELSE "batch"

\* The payload is there.  Until it is, the handler calls recv() again and
\* again, at the end of file too: errno keeps the EAGAIN of an earlier call.
Execute(q) ==
  \/ q.op = "SET" /\ kv_store_set(q.key, q.value)
  \/ q.op = "GET" /\ kv_store_get(q.key)
  \/ q.op = "DEL" /\ kv_store_del(q.key)

Answer ==
  /\ spc = "payload" /\ wire[serving] # <<>>
  /\ wire' = [wire EXCEPT ![serving] = Tail(@)]
  /\ Execute(request[serving])
  /\ IF call'.function = "get" /\ call'.rc = 0
       THEN /\ Arrives(serving, << <<sent[serving], "value_follows">> >>)
            /\ spc' = "value" /\ serving' = serving
       ELSE Arrives(serving, << <<sent[serving], "status">> >>) /\ Done
  /\ UNCHANGED <<clients, batch, conn, fd, edge, table>>

\* The second send() of a GET.  On a connection that was reset it fails with
\* ECONNRESET, or, when the other end had closed before, with a SIGPIPE.
SendValue ==
  /\ spc = "value"
  /\ IF peer[serving] = "reset"
       THEN /\ UNCHANGED <<inbox, peer>>
            /\ \/ spc' = "gone" /\ serving' = serving
               \/ Done
       ELSE Arrives(serving, << <<sent[serving], "value">> >>) /\ Done
  /\ UNCHANGED <<clients, db, call, batch, wire, conn, fd, edge, table>>

Server ==
  \/ EpollWait \/ Accept \/ Answer \/ SendValue
  \/ \E e \in batch : HandleError(e) \/ HandleListen(e) \/ ReadHeader(e)

TcpNext == Server \/ \E c \in Clients : Client(c) \/ ResetArrives(c)

\* The server runs; a client that has begun a request goes on with it, and
\* leaves in the end; the network delivers resets.
TcpSpec ==
  /\ TcpInit /\ [][TcpNext]_vars
  /\ WF_vars(Server)
  /\ \A c \in Clients : /\ WF_vars(SendPayload(c)) /\ WF_vars(Receive(c))
                        /\ WF_vars(Close(c)) /\ WF_vars(ResetArrives(c))

-----------------------------------------------------------------------------
(* Properties *)

\* Types; and exactly the open connections have a descriptor, each its own.
TcpTypeOK ==
  /\ pc \in [Clients -> {"new", "idle", "half", "waiting", "closed"}]
  /\ request \in [Clients -> Requests \cup {NoRequest}]
  /\ sent \in [Clients -> 0 .. MaxRequests]
  /\ wire \in [Clients -> Seq({"header", "payload"})] /\ \A c \in Clients : Len(wire[c]) <= 2
  /\ inbox \in [Clients -> Seq((1 .. MaxRequests) \X {"value_follows", "value", "status"})]
  /\ peer \in [Clients -> {"up", "fin", "rst_due", "reset"}]
  /\ conn \in [Clients -> {"none", "backlog", "open", "closed"}]
  /\ fd \in [Clients -> fds \cup {0}]
  /\ \A c \in Clients : fd[c] # 0 <=> c \in Open
  /\ \A c, d \in Open : fd[c] = fd[d] => c = d
  /\ edge \subseteq Clients \cup {Listen}
  /\ batch \subseteq [conn : Clients \cup {Listen}, fd : fds \cup {0}, err : BOOLEAN]
  /\ spc \in {"wait", "batch", "accept", "payload", "value", "gone"}
  /\ serving \in Clients \cup {None}
  /\ fds \in {1 .. limit : limit \in FdLimits} /\ full \in BOOLEAN

\* No wake-up is lost although epoll reports each edge only once: input, an end
\* of file or a reset that nobody has read has an edge or an event to come or
\* is being handled, and so has a connection that waits to be accepted, but for
\* those for which accept() found no descriptor.
NoLostWakeup ==
  spc # "gone" =>
    /\ \A c \in Open : Readable(c) =>
         \/ c \in edge \/ serving = c \/ peer[c] = "rst_due"
         \/ \E e \in batch : e.conn = c
    /\ Backlog # {} =>
         Listen \in edge \/ spc = "accept" \/ (\E e \in batch : e.conn = Listen) \/ full

\* An event is handled on the connection it was raised for, although a
\* descriptor that is closed is given to the next connection at once.
EventsMatchConnections ==
  /\ TcpTypeOK
  /\ \A e \in batch : e.conn # Listen => conn[e.conn] = "open" /\ fd[e.conn] = e.fd

\* Every answer on its way is the one answer to the latest request of its
\* client: no request is answered twice and none is answered for another.
OneAnswerPerRequest ==
  \A c \in Clients :
    /\ \A i \in 1 .. Len(inbox[c]) : inbox[c][i][1] = sent[c] /\ pc[c] = "waiting"
    /\ Len(inbox[c]) <= 2
    /\ Len(inbox[c]) = 2 => inbox[c][1][2] = "value_follows" /\ inbox[c][2][2] = "value"

\* The strengthening that makes these inductive.  How far the request of c has
\* come: what is in the two sockets, and whether the server is busy with it.
Stage(c, pieces, answers, at) ==
  /\ wire[c] = pieces /\ inbox[c] = answers
  /\ IF at = "elsewhere" THEN serving # c ELSE serving = c /\ spc = at
Piece(c, kind) == <<sent[c], kind>>
InStage(c) ==
  /\ pc[c] \in {"new", "idle"} => Stage(c, <<>>, <<>>, "elsewhere")
  /\ pc[c] = "half" =>
       \/ Stage(c, <<"header">>, <<>>, "elsewhere")
       \/ Stage(c, <<>>, <<>>, "payload")
  /\ pc[c] = "waiting" =>
       \/ Stage(c, <<"header", "payload">>, <<>>, "elsewhere")
       \/ Stage(c, <<"payload">>, <<>>, "payload")
       \/ Stage(c, <<>>, <<Piece(c, "value_follows")>>, "value")
       \/ Stage(c, <<>>, <<Piece(c, "value_follows"), Piece(c, "value")>>, "elsewhere")
       \/ Stage(c, <<>>, <<Piece(c, "status")>>, "elsewhere")
  /\ pc[c] = "closed" =>
       \/ \E pieces \in {<<>>, <<"header">>, <<"header", "payload">>} :
            Stage(c, pieces, <<>>, "elsewhere")
       \/ \E pieces \in {<<>>, <<"payload">>} : Stage(c, pieces, <<>>, "payload")
       \/ \E at \in {"value", "gone"} : Stage(c, <<>>, <<>>, at)
StageInv == \A c \in Clients : InStage(c)
LinkInv == \A c \in Clients :
  /\ pc[c] = "new" <=> conn[c] = "none"
  /\ pc[c] = "closed" <=> peer[c] # "up"
  /\ conn[c] = "closed" => pc[c] = "closed"
  /\ pc[c] \in {"half", "waiting"} => sent[c] > 0
BatchInv ==
  /\ \A e, f \in batch : e.conn = f.conn => e = f
  /\ \A e \in batch : e.err => e.conn # Listen /\ peer[e.conn] # "up"
  /\ \A c \in Open : peer[c] = "reset" =>
       \/ c \in edge
       \/ \E e \in batch : e.conn = c /\ e.err
  /\ spc = "wait" => batch = {}
  /\ IF spc \in {"payload", "value", "gone"} THEN serving \in Open ELSE serving = None
TcpInv == EventsMatchConnections /\ NoLostWakeup /\ StageInv /\ LinkInv /\ BatchInv

\* What ends the service: a SIGPIPE, or the busy wait for the payload of a
\* client that has died between its two sends.
ServiceEnds ==
  spc = "gone" \/ (spc = "payload" /\ wire[serving] = <<>> /\ pc[serving] = "closed")

\* A connection that accept() left in the backlog when it found no descriptor: it is
\* looked at again when another client connects, not when a descriptor is free.
Stranded(c) == full /\ conn[c] = "backlog"

\* A client that has sent its request is answered, as long as the service lasts, or
\* its connection is stranded for good.
RequestAnswered ==
  \A c \in Clients :
    (pc[c] = "waiting") ~> (pc[c] # "waiting" \/ ServiceEnds \/ []Stranded(c))

\* So long, the server closes the connections of clients that have gone, and has
\* their descriptors for others.
ConnectionReclaimed ==
  \A c \in Clients :
    (pc[c] = "closed") ~> (conn[c] = "closed" \/ ServiceEnds \/ []Stranded(c))
=============================================================================
