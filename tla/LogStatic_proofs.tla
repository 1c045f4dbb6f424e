-------------------------- MODULE LogStatic_proofs --------------------------
(***************************************************************************)
(* Theorems about two programs that share nothing but this module.         *)
(* Of LogServer and LogEventfd, for any FIFOs, clients and requests for    *)
(* more descriptors: no edge is forgotten, the log keeps the order of each *)
(* client, and with the eventfd a sum that is the number of a FIFO comes   *)
(* from that FIFO.  The inductive invariant LogInv says in addition what   *)
(* is free and what makes edges.                                           *)
(* Of StaticRender, for any number of workers and rows: shares are whole.  *)
(***************************************************************************)
EXTENDS LogEventfd, StaticRender, FiniteSetTheorems, SequenceTheorems, WellFoundedInduction, TLAPS

-----------------------------------------------------------------------------
(* The constants *)

LEMMA Names ==
  ASSUME server \in Servers
  PROVE  /\ Closed \notin Fifos /\ Control \notin Fds /\ Fds \subseteq Nat
         /\ server \in {"epoll", "eventfd"}
         /\ \A c \in Clients : FifoOf[server][c] \in Fifos
         /\ Range(Opens[server]) \subseteq Fifos
         /\ MaxAdds \in Nat /\ Messages \in Nat \ {0} /\ AlertCap \in Nat \ {0}
<1> USE LogAssumption DEF LogAssumption
<1>1. Len(Opens[server]) \in Nat /\ MaxAdds \in Nat
  BY LenProperties
<1>2. Control \notin Fds /\ Fds \subseteq Nat
  BY <1>1 DEF Control, Fds
<1>3. Range(Opens[server]) \subseteq Fifos /\ Closed \notin Fifos
  BY DEF Fifos, Closed
<1>4. \A c \in Clients : FifoOf[server][c] \in Fifos
  BY <1>3
<1> QED BY <1>2, <1>3, <1>4

LEMMA OpenFds ==
  ASSUME server \in Servers
  PROVE  /\ Len(Opens[server]) \in Nat /\ MaxAdds \in Nat
         /\ DOMAIN Opens[server] = 1 .. Len(Opens[server]) /\ DOMAIN Opens[server] \subseteq Fds
         /\ \A d \in DOMAIN Opens[server] : Opens[server][d] \in Fifos
<1>1. Opens[server] \in Seq(Range(Opens[server])) /\ MaxAdds \in Nat
  BY LogAssumption DEF LogAssumption
<1>2. Len(Opens[server]) \in Nat /\ DOMAIN Opens[server] = 1 .. Len(Opens[server])
  BY <1>1, LenProperties
<1>3. DOMAIN Opens[server] \subseteq Fds
  BY <1>1, <1>2 DEF Fds
<1>4. \A d \in DOMAIN Opens[server] : Opens[server][d] \in Fifos
  BY Names DEF Range
<1> QED BY <1>1, <1>2, <1>3, <1>4

LEMMA Parts ==
  LogInv => /\ TypeOK /\ Announced /\ LogInOrder /\ DescriptorInv /\ EdgeInv /\ SentInv /\ EventInv
            /\ server \in Servers
BY DEF LogInv, NothingForgotten, DescriptorInv

-----------------------------------------------------------------------------
(* What does not change, conjunct by conjunct *)

\* The log and the FIFOs.
LEMMA SameMessages ==
  ASSUME LogInv, UNCHANGED <<server, sent, logged>>,
         \A f \in Fifos : pipe'[f] = pipe[f] \/ pipe'[f] = <<>>
  PROVE  LogInOrder' /\ SentInv'
<1>1. LogInOrder'
  BY Parts DEF LogInOrder
<1>2. \A f \in Fifos : \A p \in 1 .. Len(pipe'[f]) : pipe'[f] = pipe[f]
  <2>1. Len(<<>>) = 0 /\ 1 .. 0 = {}
    OBVIOUS
  <2> QED BY <2>1
<1>3. SentInv'
  BY <1>2, Parts DEF SentInv
<1> QED BY <1>1, <1>3

\* The threads of the other server.
LEMMA SameEvents ==
  ASSUME LogInv, UNCHANGED <<server, eventVars, logged>>,
         server = "epoll" \/ UNCHANGED <<pc, file>>
  PROVE  EventInv'
<1>1. CASE server = "epoll"
  BY <1>1, Parts DEF EventInv, eventVars
<1>2. CASE UNCHANGED <<pc, file>>
  BY <1>2, Parts DEF EventInv, eventVars
<1> QED BY <1>1, <1>2

\* The descriptors.
LEMMA SameDescriptors ==
  ASSUME LogInv, UNCHANGED <<server, file, asked, adds>>,
         pipe' \in [Fifos -> Seq(Clients \X (1 .. Messages))],
         ready' \subseteq Fds \cup {Control}
  PROVE  DescriptorInv'
BY Parts DEF DescriptorInv, Fds

\* The edges.
LEMMA SameEdges ==
  ASSUME LogInv, UNCHANGED <<server, pc, cur, batch, ready, file, pipe>>
  PROVE  Announced' /\ EdgeInv'
BY Parts DEF Announced, EdgeInv, Readers, Fds

LEMMA QuietSteps ==
  ASSUME LogInv, TypeOK',
         UNCHANGED <<server, pc, cur, batch, wires, adds, sent, logged, eventVars>>
  PROVE  LogInv'
<1> USE DEF wires
<1>1. LogInOrder' /\ SentInv'
  BY SameMessages
<1>2. EventInv'
  BY SameEvents
<1>3. DescriptorInv'
  BY SameDescriptors, Parts DEF DescriptorInv
<1>4. Announced' /\ EdgeInv'
  BY SameEdges
<1> QED BY <1>1, <1>2, <1>3, <1>4 DEF LogInv, NothingForgotten

-----------------------------------------------------------------------------
(* Clients and their surroundings *)

LEMMA Quiet ==
  ASSUME LogInv, UNCHANGED <<server, eventVars>>,
         ReadAlert \/ Sigint \/ \E c \in Clients : ClientOpen(c)
  PROVE  LogInv'
<1> USE Parts, Names
<1>1. CASE ReadAlert
  <2>1. TypeOK'
    BY <1>1 DEF ReadAlert, TypeOK, wires, clientVars, Fds
  <2> QED BY <1>1, <2>1, QuietSteps DEF ReadAlert, clientVars
<1>2. CASE Sigint
  <2>1. TypeOK'
    BY <1>2 DEF Sigint, TypeOK, wires, clientVars, Fds
  <2> QED BY <1>2, <2>1, QuietSteps DEF Sigint, clientVars
<1>3. ASSUME NEW c \in Clients, ClientOpen(c) PROVE LogInv'
  <2>1. TypeOK'
    BY <1>3 DEF ClientOpen, TypeOK, wires, Fds
  <2> QED BY <1>3, <2>1, QuietSteps DEF ClientOpen
<1> QED BY <1>1, <1>2, <1>3

\* Whatever makes edges at all descriptors of the FIFO it writes to, or at none
\* where nothing is written.
LEMMA MoreEdges ==
  ASSUME LogInv, UNCHANGED <<server, pc, cur, batch, file>>,
         ready \subseteq ready', server = "eventfd" => ready' = {},
         \A f \in Fifos : \/ pipe'[f] = pipe[f] \/ pipe'[f] = <<>>
                          \/ server = "epoll" => Readers(f) \subseteq ready'
  PROVE  Announced' /\ EdgeInv'
<1> USE Parts, Names
<1>1. \A f \in Fifos : Readers(f)' = Readers(f)
  BY DEF Readers, Fds
<1>2. Announced'
  BY <1>1 DEF Announced
<1>3. EdgeInv'
  <2>1. pc = "eof" => file[cur] \in Fifos /\ server = "epoll"
    BY DEF EdgeInv, TypeOK
  <2> QED BY <1>1, <2>1 DEF EdgeInv
<1> QED BY <1>2, <1>3

LEMMA ClientWriteKeeps ==
  ASSUME LogInv, UNCHANGED <<server, eventVars>>, NEW c \in Clients, ClientWrite(c)
  PROVE  LogInv'
<1> DEFINE f == FifoOf[server][c]
           m == <<c, sent[c] + 1>>
<1> USE Parts, Names
<1>1. /\ f \in Fifos /\ sent[c] \in 0 .. Messages /\ sent[c] < Messages
      /\ sent' = [sent EXCEPT ![c] = @ + 1] /\ sent'[c] = sent[c] + 1
      /\ sent' \in [Clients -> 0 .. Messages]
      /\ pipe' = [pipe EXCEPT ![f] = Append(@, m)]
      /\ ready' = Edge(Readers(f)) /\ Readers(f) \subseteq Fds
      /\ UNCHANGED <<running, pc, cur, batch, file, asked, adds, client, logged, alerts>>
  BY DEF ClientWrite, TypeOK, Readers
<1>2. /\ m \in Clients \X (1 .. Messages) /\ pipe[f] \in Seq(Clients \X (1 .. Messages))
      /\ pipe \in [Fifos -> Seq(Clients \X (1 .. Messages))]
  BY <1>1 DEF DescriptorInv
<1> HIDE DEF f, m
<1>3. /\ pipe'[f] = Append(pipe[f], m) /\ \A g \in Fifos \ {f} : pipe'[g] = pipe[g]
      /\ pipe' \in [Fifos -> Seq(Clients \X (1 .. Messages))]
  <2>1. Append(pipe[f], m) \in Seq(Clients \X (1 .. Messages))
    BY <1>2
  <2> HIDE DEF LogInv, Fifos
  <2> QED BY <1>1, <1>2, <2>1, Zenon
<1>4. TypeOK'
  BY <1>1 DEF TypeOK, Edge, Fds, Readers
<1>5. Announced' /\ EdgeInv'
  BY <1>1, <1>3, MoreEdges DEF Edge, EdgeInv
<1>6. DescriptorInv'
  BY <1>1, <1>3, SameDescriptors DEF Edge, DescriptorInv
<1>7. EventInv'
  BY <1>1, SameEvents
<1>8. LogInOrder'
  BY <1>1 DEF LogInOrder
<1>9. SentInv'
  <2>1. \A g \in Fifos : \A p \in 1 .. Len(pipe'[g]) :
          \/ p \in 1 .. Len(pipe[g]) /\ pipe'[g][p] = pipe[g][p]
          \/ g = f /\ pipe'[g][p] = m
    <3>1. \A p \in 1 .. Len(pipe'[f]) :
            (p \in 1 .. Len(pipe[f]) /\ pipe'[f][p] = pipe[f][p]) \/ pipe'[f][p] = m
      BY <1>2, <1>3
    <3> QED BY <1>3, <3>1
  <2>2. \A d \in Clients : sent[d] \in Nat /\ sent'[d] \in Nat /\ sent[d] <= sent'[d]
    BY <1>1 DEF TypeOK
  <2>3. \A j \in 1 .. Len(logged[c]) : logged[c][j] <= sent[c] /\ logged[c][j] \in Nat
    BY ElementOfSeq DEF SentInv
  <2>4. /\ m[1] = c /\ m[2] = sent[c] + 1 /\ FifoOf[server][c] = f
        /\ \A j \in 1 .. Len(logged[c]) : logged[c][j] < m[2]
    BY <2>2, <2>3 DEF f, m
  <2>5. \A g \in Fifos : \A p \in 1 .. Len(pipe[g]) :
          pipe[g][p][1] \in Clients /\ pipe[g][p][2] \in Nat
    BY ElementOfSeq DEF DescriptorInv
  <2>6. \A g \in Fifos : \A p \in 1 .. Len(pipe'[g]) :
          LET d == pipe'[g][p][1] n == pipe'[g][p][2] IN
            /\ FifoOf[server][d] = g /\ n <= sent'[d]
            /\ \A j \in 1 .. Len(logged[d]) : logged[d][j] < n
    <3> SUFFICES ASSUME NEW g \in Fifos, NEW p \in 1 .. Len(pipe'[g])
                 PROVE  LET d == pipe'[g][p][1] n == pipe'[g][p][2] IN
                          /\ FifoOf[server][d] = g /\ n <= sent'[d]
                          /\ \A j \in 1 .. Len(logged[d]) : logged[d][j] < n
      OBVIOUS
    <3>1. CASE p \in 1 .. Len(pipe[g]) /\ pipe'[g][p] = pipe[g][p]
      <4> DEFINE d == pipe[g][p][1]
                 n == pipe[g][p][2]
      <4>1. /\ FifoOf[server][d] = g /\ n <= sent[d]
            /\ \A j \in 1 .. Len(logged[d]) : logged[d][j] < n
        BY <3>1 DEF SentInv
      <4>2. d \in Clients /\ n \in Nat
        BY <3>1, <2>5
      <4> HIDE DEF d, n
      <4>3. n <= sent'[d]
        BY <4>1, <4>2, <2>2
      <4> QED BY <3>1, <4>1, <4>3 DEF d, n
    <3>2. CASE g = f /\ pipe'[g][p] = m
      BY <3>2, <2>4, <1>1
    <3> QED BY <2>1, <3>1, <3>2
  <2>7. \A d \in Clients : \A j \in 1 .. Len(logged[d]) : logged[d][j] <= sent'[d]
    <3>1. \A d \in Clients : \A j \in 1 .. Len(logged[d]) : logged[d][j] \in Nat
      BY ElementOfSeq DEF SentInv
    <3>2. \A d \in Clients : \A j \in 1 .. Len(logged[d]) : logged[d][j] <= sent[d]
      BY DEF SentInv
    <3> SUFFICES ASSUME NEW d \in Clients, NEW j \in 1 .. Len(logged[d])
                 PROVE  logged[d][j] <= sent'[d]
      OBVIOUS
    <3>3. logged[d][j] \in Nat /\ logged[d][j] <= sent[d]
      BY <3>1, <3>2
    <3> QED BY <3>3, <2>2
  <2> QED BY <1>1, <2>6, <2>7 DEF SentInv
<1> QED BY <1>4, <1>5, <1>6, <1>7, <1>8, <1>9 DEF LogInv, NothingForgotten

LEMMA ClientGoesKeeps ==
  ASSUME LogInv, UNCHANGED <<server, eventVars>>, NEW c \in Clients,
         NEW how \in {"done", "killed"}, ClientGoes(c, how)
  PROVE  LogInv'
<1> DEFINE f == FifoOf[server][c]
<1> USE Parts, Names
<1>1. /\ f \in Fifos /\ client' = [client EXCEPT ![c] = how]
      /\ ready' \in {ready, Edge(Readers(f))} /\ Readers(f) \subseteq Fds
      /\ pipe' \in {pipe, [pipe EXCEPT ![f] = <<>>]}
      /\ UNCHANGED <<running, pc, cur, batch, file, asked, adds, sent, logged, alerts>>
  BY DEF ClientGoes, Readers
<1>2. /\ pipe' \in [Fifos -> Seq(Clients \X (1 .. Messages))]
      /\ \A g \in Fifos : pipe'[g] = pipe[g] \/ pipe'[g] = <<>>
  <2>1. <<>> \in Seq(Clients \X (1 .. Messages))
    BY EmptySeq
  <2> QED BY <1>1, <2>1 DEF DescriptorInv
<1> HIDE DEF f
<1>3. TypeOK'
  BY <1>1 DEF TypeOK, Edge, Fds, Readers
<1>4. Announced' /\ EdgeInv'
  BY <1>1, <1>2, MoreEdges DEF Edge, EdgeInv
<1>5. DescriptorInv'
  BY <1>1, <1>2, SameDescriptors DEF Edge, DescriptorInv
<1>6. EventInv'
  BY <1>1, SameEvents
<1>7. LogInOrder' /\ SentInv'
  BY <1>1, <1>2, SameMessages
<1> QED BY <1>3, <1>4, <1>5, <1>6, <1>7 DEF LogInv, NothingForgotten

LEMMA AskForKeeps ==
  ASSUME LogInv, UNCHANGED <<server, eventVars>>, NEW f \in Fifos, AskFor(f)
  PROVE  LogInv'
<1> USE Parts, Names, OpenFds
<1>1. /\ adds < MaxAdds /\ adds' = adds + 1 /\ asked' = Append(asked, f)
      /\ ready' = ready \cup {Control} /\ server = "epoll"
      /\ UNCHANGED <<running, pc, cur, batch, file, pipe, client, sent, logged, alerts>>
  BY DEF AskFor
<1>2. /\ asked' \in Seq(Fifos) /\ Len(asked') = Len(asked) + 1 /\ Len(asked) \in Nat
      /\ adds \in Nat /\ adds + 1 <= MaxAdds /\ Len(Opens[server]) \in Nat
  BY <1>1 DEF DescriptorInv, TypeOK
<1>3. TypeOK'
  BY <1>1, <1>2 DEF TypeOK, Fds
<1>4. Announced' /\ EdgeInv'
  BY <1>1, MoreEdges
<1>5. DescriptorInv'
  <2> DEFINE l == Len(Opens[server])
             a == Len(asked)
  <2>1. l \in Nat /\ a \in Nat /\ adds \in Nat /\ adds' = adds + 1 /\ Len(asked') = a + 1
    BY <1>1, <1>2
  <2>2. Len(asked') <= adds' /\ l + adds' - Len(asked') = l + adds - a
    <3>1. a <= adds
      BY DEF DescriptorInv
    <3> HIDE DEF l, a
    <3> QED BY <2>1, <3>1
  <2>3. \A d \in Fds : file[d] # Closed => d <= l + adds' - Len(asked')
    BY <2>2 DEF DescriptorInv
  <2>4. ready' \subseteq Fds \cup {Control}
    BY <1>1 DEF DescriptorInv
  <2> QED BY <1>1, <1>2, <2>2, <2>3, <2>4 DEF DescriptorInv, Fds
<1>6. EventInv'
  BY <1>1, SameEvents
<1>7. LogInOrder' /\ SentInv'
  BY <1>1, SameMessages
<1> QED BY <1>3, <1>4, <1>5, <1>6, <1>7 DEF LogInv, NothingForgotten

-----------------------------------------------------------------------------
(* The server with epoll *)

LEMMA EpollWaitKeeps ==
  ASSUME LogInv, UNCHANGED <<server, eventVars>>, server = "epoll", EpollWait
  PROVE  LogInv'
<1> USE Parts, Names DEF EpollWait, clientVars
<1>1. batch = {} /\ Control \in {Control} /\ ready \subseteq Fds \cup {Control}
  BY DEF EdgeInv, DescriptorInv
<1>2. TypeOK'
  BY <1>1 DEF TypeOK, Fds
<1>3. Announced'
  BY <1>1 DEF Announced, Readers, Fds
<1>4. EdgeInv'
  BY DEF EdgeInv
<1>5. DescriptorInv'
  BY SameDescriptors DEF DescriptorInv
<1>6. EventInv' /\ LogInOrder' /\ SentInv'
  BY SameEvents, SameMessages
<1> QED BY <1>2, <1>3, <1>4, <1>5, <1>6 DEF LogInv, NothingForgotten

LEMMA NextEventKeeps ==
  ASSUME LogInv, UNCHANGED <<server, eventVars>>, server = "epoll", NextEvent
  PROVE  LogInv'
<1> USE Parts, Names DEF NextEvent, clientVars, wires
<1>1. cur' \in Fds \cup {Control} /\ batch' \subseteq batch
  BY DEF TypeOK
<1>2. TypeOK'
  BY <1>1 DEF TypeOK, Fds
<1>3. Announced'
  BY DEF Announced, Readers, Fds
<1>4. EdgeInv'
  BY DEF EdgeInv
<1>5. DescriptorInv'
  BY SameDescriptors DEF DescriptorInv
<1>6. EventInv' /\ LogInOrder' /\ SentInv'
  BY SameEvents, SameMessages
<1> QED BY <1>2, <1>3, <1>4, <1>5, <1>6 DEF LogInv, NothingForgotten

LEMMA ReadEmptyKeeps ==
  ASSUME LogInv, UNCHANGED <<server, eventVars>>, server = "epoll",
         NEW f \in Fifos, ReadEmpty(f)
  PROVE  LogInv'
<1> USE Parts, Names DEF ReadEmpty, clientVars, wires
<1>1. cur \in Fds /\ file[cur] = f /\ pipe[f] = <<>> /\ pc' \in {"eof", "next"} /\ pc = "read"
  BY DEF TypeOK
<1>2. TypeOK'
  BY <1>1 DEF TypeOK, Fds
<1>3. Announced'
  BY <1>1 DEF Announced, Readers, Fds
<1>4. EdgeInv'
  BY <1>1 DEF EdgeInv
<1>5. DescriptorInv'
  BY SameDescriptors DEF DescriptorInv
<1>6. EventInv' /\ LogInOrder' /\ SentInv'
  BY SameEvents, SameMessages
<1> QED BY <1>2, <1>3, <1>4, <1>5, <1>6 DEF LogInv, NothingForgotten

LEMMA NothingAskedKeeps ==
  ASSUME LogInv, UNCHANGED <<server, eventVars>>, server = "epoll", NothingAsked
  PROVE  LogInv'
<1> USE Parts, Names DEF NothingAsked, clientVars, wires
<1>1. TypeOK'
  BY DEF TypeOK, Fds
<1>2. Announced'
  BY DEF Announced, Readers, Fds
<1>3. EdgeInv'
  BY DEF EdgeInv
<1>4. DescriptorInv'
  BY SameDescriptors DEF DescriptorInv
<1>5. EventInv' /\ LogInOrder' /\ SentInv'
  BY SameEvents, SameMessages
<1> QED BY <1>1, <1>2, <1>3, <1>4, <1>5 DEF LogInv, NothingForgotten

\* Any descriptor of the FIFO that is left has seen an edge since read()
\* returned 0, if there is anything to read.
LEMMA CloseFifoKeeps ==
  ASSUME LogInv, UNCHANGED <<server, eventVars>>, server = "epoll",
         NEW f \in Fifos, CloseFifo(f)
  PROVE  LogInv'
<1> USE Parts, Names
<1>1. /\ pc = "eof" /\ cur \in Fds /\ file[cur] = f /\ pc' = "next"
      /\ file' = [file EXCEPT ![cur] = Closed] /\ ready' = ready \ {cur}
      /\ pipe' \in {pipe, [pipe EXCEPT ![f] = <<>>]}
      /\ UNCHANGED <<running, cur, batch, asked, adds, client, sent, logged, alerts>>
  BY DEF CloseFifo, EdgeInv, TypeOK, clientVars
<1>2. /\ pipe' \in [Fifos -> Seq(Clients \X (1 .. Messages))]
      /\ \A g \in Fifos : pipe'[g] = pipe[g] \/ pipe'[g] = <<>>
  <2>1. <<>> \in Seq(Clients \X (1 .. Messages))
    BY EmptySeq
  <2> QED BY <1>1, <2>1 DEF DescriptorInv
<1>3. /\ file' \in [Fds -> Fifos \cup {Closed}] /\ Closed \notin Fifos
      /\ \A d \in Fds : file'[d] = IF d = cur THEN Closed ELSE file[d]
  BY <1>1 DEF TypeOK
<1>4. /\ \A g \in Fifos : Readers(g)' = Readers(g) \ {cur}
      /\ \A g \in Fifos \ {f} : cur \notin Readers(g)
  BY <1>1, <1>3 DEF Readers, Fds
<1>5. TypeOK'
  <2>1. cur \notin ready' \cup batch' /\ ready' \subseteq ready
    BY <1>1 DEF EdgeInv
  <2>2. ready' \subseteq Fds \cup {Control} /\ batch' \subseteq Fds \cup {Control}
    BY <1>1 DEF TypeOK, DescriptorInv
  <2>3. \A d \in (ready' \cup batch') \ {Control} : file'[d] # Closed
    BY <1>1, <1>3, <2>1, <2>2 DEF TypeOK
  <2> QED BY <1>1, <1>3, <2>3 DEF TypeOK, Fds
<1>6. Announced'
  <2> SUFFICES ASSUME NEW g \in Fifos, pipe'[g] # <<>>, Readers(g)' # {}
               PROVE  \E d \in Readers(g)' : d \in ready' \cup batch'
    BY DEF Announced
  <2>1. pipe[g] # <<>> /\ Readers(g) # {} /\ pipe'[g] = pipe[g]
    BY <1>2, <1>4
  <2>2. CASE g = f
    BY <1>1, <1>4, <2>1, <2>2 DEF EdgeInv
  <2>3. CASE g # f
    BY <1>1, <1>4, <2>1, <2>3 DEF Announced
  <2> QED BY <2>2, <2>3
<1>7. EdgeInv'
  BY <1>1 DEF EdgeInv
<1>8. DescriptorInv'
  BY <1>1, <1>2, <1>3 DEF DescriptorInv, Fds
<1>9. EventInv' /\ LogInOrder' /\ SentInv'
  BY <1>1, <1>2, SameEvents, SameMessages
<1> QED BY <1>5, <1>6, <1>7, <1>8, <1>9 DEF LogInv, NothingForgotten

LEMMA EpollStopKeeps ==
  ASSUME LogInv, UNCHANGED <<server, eventVars>>, server = "epoll", Stop
  PROVE  LogInv'
<1> USE Parts, Names
<1>1. /\ pc = "wait" /\ pc' = "stopped" /\ file' = [d \in Fds |-> Closed]
      /\ pipe' = [f \in Fifos |-> IF Writers(f) = {} THEN <<>> ELSE pipe[f]]
      /\ UNCHANGED <<running, cur, batch, ready, asked, adds, client, sent, logged, alerts>>
  BY DEF Stop, clientVars
<1>2. /\ pipe' \in [Fifos -> Seq(Clients \X (1 .. Messages))]
      /\ \A g \in Fifos : pipe'[g] = pipe[g] \/ pipe'[g] = <<>>
  <2>1. <<>> \in Seq(Clients \X (1 .. Messages))
    BY EmptySeq
  <2> QED BY <1>1, <2>1 DEF DescriptorInv
<1>3. TypeOK'
  BY <1>1 DEF TypeOK, Fds
<1>4. Announced' /\ EdgeInv'
  BY <1>1 DEF Announced, EdgeInv
<1>5. DescriptorInv'
  BY <1>1, <1>2 DEF DescriptorInv, Fds
<1>6. EventInv' /\ LogInOrder' /\ SentInv'
  BY <1>1, <1>2, SameEvents, SameMessages
<1> QED BY <1>3, <1>4, <1>5, <1>6 DEF LogInv, NothingForgotten

\* There is a descriptor for the request, and the lowest one that is free is
\* not beyond those that the requests so far have needed.
LEMMA FreeFd ==
  ASSUME LogInv, asked # <<>>
  PROVE  \E d \in Fds :
           /\ d = CHOOSE x \in Fds : file[x] = Closed /\ \A e \in Fds : file[e] = Closed => x <= e
           /\ file[d] = Closed /\ d <= Len(Opens[server]) + adds
<1> USE Parts, Names, OpenFds
<1> DEFINE l == Len(Opens[server])
           e0 == l + adds - Len(asked) + 1
           Free == {d \in Fds : file[d] = Closed}
<1>1. /\ l \in Nat /\ Len(asked) \in Nat \ {0} /\ adds \in Nat /\ adds <= MaxAdds
      /\ Len(asked) <= adds /\ Fds = 1 .. l + MaxAdds
  <2>1. asked \in Seq(Fifos) /\ Len(asked) <= adds
    BY DEF DescriptorInv
  <2>2. Len(asked) \in Nat \ {0}
    BY <2>1, EmptySeq
  <2> QED BY <2>1, <2>2 DEF TypeOK, Fds
<1>2. e0 \in Fds /\ e0 <= l + adds /\ e0 > l + adds - Len(asked)
  <2> HIDE DEF l
  <2> QED BY <1>1
<1>3. file[e0] = Closed
  <2>1. file[e0] # Closed => e0 <= l + adds - Len(asked)
    BY <1>2 DEF DescriptorInv
  <2> HIDE DEF l
  <2> QED BY <1>1, <1>2, <2>1
<1> HIDE DEF e0
<1>4. e0 \in Free /\ Free \in SUBSET Nat
  BY <1>2, <1>3
<1>5. \E d \in Free : \A e \in Free : d <= e
  <2> DEFINE R == {x \in Nat \X Nat : x[1] < x[2]}
  <2>1. IsWellFoundedOn(R, Nat)
    BY NatLessThanWellFounded DEF OpToRel
  <2>2. \A d, e \in Nat : <<e, d>> \in R <=> e < d
    OBVIOUS
  <2> HIDE DEF R, Free
  <2>3. \E d \in Free : \A e \in Free : ~(<<e, d>> \in R)
    BY <1>4, <2>1, WFMin
  <2>4. PICK d \in Free : \A e \in Free : ~(<<e, d>> \in R)
    BY <2>3
  <2>5. \A e \in Free : d <= e
    <3> SUFFICES ASSUME NEW e \in Free PROVE d <= e
      OBVIOUS
    <3>1. d \in Nat /\ e \in Nat
      BY <1>4
    <3>2. ~(e < d)
      BY <2>2, <2>4, <3>1
    <3> QED BY <3>1, <3>2
  <2> QED BY <2>5
<1> DEFINE P(d) == file[d] = Closed /\ \A e \in Fds : file[e] = Closed => d <= e
           m == CHOOSE d \in Fds : P(d)
<1>6. \E d \in Fds : P(d)
  BY <1>5
<1>7. m \in Fds /\ P(m)
  <2> HIDE DEF P
  <2> QED BY <1>6
<1>8. m \in Nat /\ m <= e0 /\ m <= l + adds
  <2>1. m <= e0
    BY <1>2, <1>3, <1>7
  <2> HIDE DEF m, l
  <2> QED BY <1>1, <1>2, <1>7, <2>1
<1> QED BY <1>7, <1>8

LEMMA AddKeeps ==
  ASSUME LogInv, UNCHANGED <<server, eventVars>>, server = "epoll", Add
  PROVE  LogInv'
<1> USE Parts, Names, OpenFds
<1>1. PICK d \in Fds :
        /\ d = CHOOSE x \in Fds : file[x] = Closed /\ \A e \in Fds : file[e] = Closed => x <= e
        /\ file[d] = Closed /\ d <= Len(Opens[server]) + adds
  BY FreeFd DEF Add
<1>2. /\ pc = "read" /\ cur = Control /\ asked # <<>> /\ asked' = <<>>
      /\ file' = [file EXCEPT ![d] = Head(asked)]
      /\ ready' = IF pipe[Head(asked)] = <<>> THEN ready ELSE ready \cup {d}
      /\ UNCHANGED <<running, pc, cur, batch, pipe, adds, client, sent, logged, alerts>>
  BY <1>1 DEF Add, clientVars
<1> DEFINE f == Head(asked)
<1>3. f \in Fifos /\ asked \in Seq(Fifos) /\ Len(asked) \in Nat
  BY <1>2, HeadTailProperties DEF DescriptorInv
<1> HIDE DEF f
<1>4. /\ file' \in [Fds -> Fifos \cup {Closed}] /\ f # Closed
      /\ \A e \in Fds : file'[e] = IF e = d THEN f ELSE file[e]
  BY <1>2, <1>3 DEF TypeOK, f
<1>5. \A g \in Fifos : Readers(g)' = IF g = f THEN Readers(g) \cup {d} ELSE Readers(g)
  BY <1>1, <1>4 DEF Readers, Fds
<1>6. /\ ready' \subseteq ready \cup {d} /\ ready \subseteq ready'
      /\ ready' \subseteq Fds \cup {Control} /\ (pipe[f] # <<>> => d \in ready')
  BY <1>2 DEF f, DescriptorInv
<1>7. TypeOK'
  BY <1>2, <1>4, <1>6 DEF TypeOK, Fds
<1>8. Announced'
  <2> SUFFICES ASSUME NEW g \in Fifos, pipe'[g] # <<>>, Readers(g)' # {}
               PROVE  \E e \in Readers(g)' : e \in ready' \cup batch'
    BY DEF Announced
  <2>1. CASE g = f
    BY <1>2, <1>5, <1>6, <2>1
  <2>2. CASE g # f
    <3>1. Control \notin Readers(g)
      BY DEF Readers
    <3> QED BY <1>2, <1>5, <1>6, <2>2, <3>1 DEF Announced
  <2> QED BY <2>1, <2>2
<1>9. EdgeInv'
  BY <1>2 DEF EdgeInv
<1>10. DescriptorInv'
  <2> DEFINE l == Len(Opens[server])
  <2>1. Len(asked') = 0 /\ asked' \in Seq(Fifos) /\ l \in Nat /\ adds \in Nat
    BY <1>2, EmptySeq DEF TypeOK
  <2>2. \A e \in Fds : file[e] # Closed => e <= l + adds - Len(asked)
    BY DEF DescriptorInv
  <2>3. \A e \in Fds : file'[e] # Closed => e <= l + adds
    <3> HIDE DEF l
    <3> SUFFICES ASSUME NEW e \in Fds, file'[e] # Closed, e # d PROVE e <= l + adds
      BY <1>1 DEF l
    <3>1. file[e] # Closed /\ e \in Nat
      BY <1>4
    <3> QED BY <1>3, <2>1, <2>2, <3>1
  <2>4. l + adds - Len(asked') = l + adds
    <3> HIDE DEF l
    <3> QED BY <2>1
  <2>5. Len(asked') <= adds' /\ adds' = adds
    BY <1>2, <2>1 DEF TypeOK
  <2>6. \A e \in Fds : file'[e] # Closed => e <= Len(Opens[server]) + adds' - Len(asked')
    <3> HIDE DEF Fds
    <3> QED BY <2>3, <2>4, <2>5
  <2> HIDE DEF l
  <2> QED BY <1>2, <1>6, <2>1, <2>5, <2>6 DEF DescriptorInv, Fds
<1>11. EventInv' /\ LogInOrder' /\ SentInv'
  BY <1>2, SameEvents, SameMessages
<1> QED BY <1>7, <1>8, <1>9, <1>10, <1>11 DEF LogInv, NothingForgotten

-----------------------------------------------------------------------------
(* A line of the log *)

LEMMA Logging ==
  ASSUME LogInv, UNCHANGED <<server, sent>>, NEW f \in Fifos, pipe[f] # <<>>,
         pipe' = [pipe EXCEPT ![f] = <<>>],
         logged' = [logged EXCEPT ![Head(pipe[f])[1]] = Append(@, Head(pipe[f])[2])]
  PROVE  LogInOrder' /\ SentInv'
<1> DEFINE c == Head(pipe[f])[1]
           n == Head(pipe[f])[2]
           l == logged[c]
<1> USE Parts, Names
<1>1. /\ pipe[f] \in Seq(Clients \X (1 .. Messages)) /\ Len(pipe[f]) \in Nat \ {0}
      /\ Head(pipe[f]) = pipe[f][1] /\ Head(pipe[f]) \in Clients \X (1 .. Messages)
  <2>1. pipe[f] \in Seq(Clients \X (1 .. Messages))
    BY DEF DescriptorInv
  <2> QED BY <2>1, EmptySeq, HeadTailProperties
<1>2. /\ c \in Clients /\ n \in 1 .. Messages /\ FifoOf[server][c] = f /\ n <= sent[c]
      /\ \A j \in 1 .. Len(l) : l[j] < n
  <2>1. 1 \in 1 .. Len(pipe[f])
    BY <1>1
  <2>2. LET d == pipe[f][1][1] k == pipe[f][1][2] IN
          FifoOf[server][d] = f /\ k <= sent[d] /\ \A j \in 1 .. Len(logged[d]) : logged[d][j] < k
    BY <2>1 DEF SentInv
  <2>3. c \in Clients /\ n \in 1 .. Messages /\ c = pipe[f][1][1] /\ n = pipe[f][1][2]
    BY <1>1
  <2> HIDE DEF c, n
  <2> QED BY <2>2, <2>3
<1>3. l \in Seq(1 .. Messages) /\ Len(l) \in Nat /\ logged \in [Clients -> Seq(1 .. Messages)]
  BY <1>2 DEF SentInv
<1> HIDE DEF c, n, l
<1>4. /\ Append(l, n) \in Seq(1 .. Messages) /\ Len(Append(l, n)) = Len(l) + 1
      /\ \A j \in 1 .. Len(l) : Append(l, n)[j] = l[j]
      /\ Append(l, n)[Len(l) + 1] = n
  BY <1>2, <1>3
<1>5. logged' = [logged EXCEPT ![c] = Append(l, n)]
  BY DEF c, n, l
<1>6. /\ logged' \in [Clients -> Seq(1 .. Messages)] /\ logged'[c] = Append(l, n)
      /\ \A d \in Clients \ {c} : logged'[d] = logged[d]
  BY <1>2, <1>3, <1>4, <1>5, Zenon
<1>7. LogInOrder'
  <2>1. \A j \in 1 .. Len(l) : l[j] \in Nat /\ l[j] < n
    BY <1>2, <1>3, ElementOfSeq
  <2>2. \A p, j \in 1 .. Len(l) : p < j => l[p] < l[j]
    BY <1>2 DEF LogInOrder, l
  <2>3. \A p, j \in 1 .. Len(l) + 1 : p < j => Append(l, n)[p] < Append(l, n)[j]
    <3> SUFFICES ASSUME NEW p \in 1 .. Len(l) + 1, NEW j \in 1 .. Len(l) + 1, p < j
                 PROVE  Append(l, n)[p] < Append(l, n)[j]
      OBVIOUS
    <3>1. p \in 1 .. Len(l) /\ (j \in 1 .. Len(l) \/ j = Len(l) + 1)
      BY <1>3
    <3>2. Append(l, n)[p] = l[p] /\ l[p] < n
      BY <1>4, <2>1, <3>1
    <3> QED BY <1>4, <2>2, <3>1, <3>2
  <2> SUFFICES ASSUME NEW d \in Clients
               PROVE  \A p, j \in 1 .. Len(logged'[d]) : p < j => logged'[d][p] < logged'[d][j]
    BY DEF LogInOrder
  <2>4. CASE d = c
    <3>1. logged'[d] = Append(l, n) /\ Len(logged'[d]) = Len(l) + 1
      BY <1>4, <1>6, <2>4, Zenon
    <3> QED BY <2>3, <3>1
  <2>5. CASE d # c
    BY <1>6, <2>5 DEF LogInOrder
  <2> QED BY <2>4, <2>5
<1>8. SentInv'
  <2>1. Len(<<>>) = 0 /\ 1 .. 0 = {}
    OBVIOUS
  <2>2. \A g \in Fifos : \A p \in 1 .. Len(pipe'[g]) : g # f /\ pipe'[g] = pipe[g]
    BY <2>1 DEF DescriptorInv
  <2>3. ASSUME NEW g \in Fifos, NEW p \in 1 .. Len(pipe'[g])
        PROVE  LET d == pipe'[g][p][1] k == pipe'[g][p][2] IN
                 /\ FifoOf[server][d] = g /\ k <= sent[d]
                 /\ \A j \in 1 .. Len(logged'[d]) : logged'[d][j] < k
    <3>1. /\ g # f /\ pipe'[g] = pipe[g] /\ p \in 1 .. Len(pipe[g])
          /\ pipe[g] \in Seq(Clients \X (1 .. Messages))
      BY <2>2, <2>3 DEF DescriptorInv
    <3>2. pipe[g][p][1] \in Clients
      BY <3>1, ElementOfSeq
    <3>3. /\ FifoOf[server][pipe[g][p][1]] = g /\ pipe[g][p][2] <= sent[pipe[g][p][1]]
          /\ \A j \in 1 .. Len(logged[pipe[g][p][1]]) : logged[pipe[g][p][1]][j] < pipe[g][p][2]
      BY <3>1 DEF SentInv
    <3>4. pipe[g][p][1] # c
      BY <1>2, <3>1, <3>3
    <3> QED BY <1>6, <3>1, <3>2, <3>3, <3>4
  <2>4. ASSUME NEW d \in Clients, NEW j \in 1 .. Len(logged'[d])
        PROVE  logged'[d][j] <= sent[d]
    <3>1. CASE d # c
      BY <1>6, <3>1, <2>4 DEF SentInv
    <3>2. CASE d = c
      <4>1. j \in 1 .. Len(l) \/ j = Len(l) + 1
        <5>1. Len(logged'[d]) = Len(l) + 1 /\ j \in 1 .. Len(logged'[d])
          BY <1>4, <1>6, <2>4, <3>2, Zenon
        <5> QED BY <1>3, <5>1
      <4>2. CASE j \in 1 .. Len(l)
        <5>1. l[j] <= sent[c]
          BY <1>2, <4>2 DEF SentInv, l
        <5>2. logged'[d] = Append(l, n) /\ Append(l, n)[j] = l[j]
          BY <1>4, <1>6, <3>2, <4>2, Zenon
        <5> QED BY <3>2, <5>1, <5>2
      <4>3. CASE j = Len(l) + 1
        <5>1. logged'[d][j] = n
          BY <1>4, <1>6, <3>2, <4>3, Zenon
        <5> QED BY <1>2, <3>2, <5>1
      <4> QED BY <4>1, <4>2, <4>3
    <3> QED BY <3>1, <3>2
  <2> QED BY <1>6, <2>3, <2>4 DEF SentInv
<1> QED BY <1>7, <1>8

LEMMA ReadKeeps ==
  ASSUME LogInv, UNCHANGED <<server, eventVars>>, server = "epoll",
         NEW f \in Fifos, Read(f)
  PROVE  LogInv'
<1> USE Parts, Names
<1>1. /\ pc = "read" /\ cur \in Fds /\ file[cur] = f /\ pipe[f] # <<>>
      /\ pipe' = [pipe EXCEPT ![f] = <<>>]
      /\ logged' = [logged EXCEPT ![Head(pipe[f])[1]] = Append(@, Head(pipe[f])[2])]
      /\ alerts' \in {alerts, alerts + 1} /\ (alerts' = alerts + 1 => alerts < AlertCap)
      /\ UNCHANGED <<running, pc, cur, batch, ready, file, asked, adds, client, sent>>
  BY DEF Read, Log, TypeOK, clientVars
<1>2. /\ pipe' \in [Fifos -> Seq(Clients \X (1 .. Messages))]
      /\ \A g \in Fifos : pipe'[g] = pipe[g] \/ pipe'[g] = <<>>
  <2>1. <<>> \in Seq(Clients \X (1 .. Messages))
    BY EmptySeq
  <2> QED BY <1>1, <2>1 DEF DescriptorInv
<1>3. TypeOK'
  BY <1>1 DEF TypeOK, Fds
<1>4. Announced' /\ EdgeInv'
  BY <1>1, <1>2, MoreEdges
<1>5. DescriptorInv'
  BY <1>1, <1>2, SameDescriptors DEF DescriptorInv
<1>6. LogInOrder' /\ SentInv'
  BY <1>1, Logging
<1>7. EventInv'
  BY DEF EventInv, eventVars
<1> QED BY <1>3, <1>4, <1>5, <1>6, <1>7 DEF LogInv, NothingForgotten

-----------------------------------------------------------------------------
(* The server with the eventfd *)

\* It has neither edges nor a batch; what it can disturb is the log and the
\* eventfd.
LEMMA NoEdges ==
  ASSUME LogInv, server = "eventfd",
         UNCHANGED <<server, running, cur, batch, ready, asked, clientVars, alerts>>,
         pc' \in {"wait", "event", "read", "stopped"}, file' \in {file, [d \in Fds |-> Closed]},
         pipe' \in [Fifos -> Seq(Clients \X (1 .. Messages))]
  PROVE  TypeOK' /\ Announced' /\ EdgeInv' /\ DescriptorInv'
<1> USE Parts, Names DEF clientVars
<1>1. TypeOK'
  <2>1. file' \in [Fds -> Fifos \cup {Closed}] /\ ready' = {} /\ batch' = {} /\ cur' = Control
    BY DEF TypeOK, EdgeInv
  <2> QED BY <2>1 DEF TypeOK, Fds
<1>2. Announced' /\ EdgeInv'
  BY DEF Announced, EdgeInv
<1>3. DescriptorInv'
  BY DEF DescriptorInv, Fds
<1> QED BY <1>1, <1>2, <1>3

LEMMA Emptied ==
  ASSUME LogInv, \/ \E f \in Fifos : pipe' = [pipe EXCEPT ![f] = <<>>]
                 \/ pipe' = [f \in Fifos |-> IF Writers(f) = {} THEN <<>> ELSE pipe[f]]
                 \/ pipe' = pipe
  PROVE  /\ pipe' \in [Fifos -> Seq(Clients \X (1 .. Messages))]
         /\ \A g \in Fifos : pipe'[g] = pipe[g] \/ pipe'[g] = <<>>
<1>1. <<>> \in Seq(Clients \X (1 .. Messages))
  BY EmptySeq
<1>2. pipe \in [Fifos -> Seq(Clients \X (1 .. Messages))]
  BY Parts DEF DescriptorInv
<1> QED BY <1>1, <1>2

LEMMA ThreadSet ==
  ASSUME LogInv
  PROVE  /\ DOMAIN thread = DOMAIN Opens[server] /\ DOMAIN thread \subseteq Fds
         /\ thread \in [DOMAIN thread -> {"test", "read", "notify", "gone"}]
         /\ \A d \in DOMAIN thread : d \in Nat \ {0}
BY Parts, OpenFds DEF EventInv

\* What the eventfd holds, with one notification more.
LEMMA NotifyAdds ==
  ASSUME LogInv, server = "eventfd", NEW d \in DOMAIN thread,
         counter' = counter + Number(d), told' = told \cup {d}
  PROVE  /\ counter' \in Nat
         /\ \/ told' = {d} /\ counter' = Number(d)
            \/ counter' >= 2 * Number(1)
<1>1. /\ counter \in Nat /\ d \in Nat \ {0} /\ \A e \in DOMAIN thread : e \in Nat \ {0}
      /\ \/ told = {} /\ counter = 0
         \/ \E e \in DOMAIN thread : told = {e} /\ counter = Number(e)
         \/ counter >= 2 * Number(1)
  BY Parts, ThreadSet DEF EventInv
<1>2. Number(d) \in Nat /\ Number(d) >= Number(1) /\ Number(1) = 3
  BY <1>1 DEF Number
<1>3. CASE told = {} /\ counter = 0
  BY <1>2, <1>3
<1>4. CASE \E e \in DOMAIN thread : told = {e} /\ counter = Number(e)
  BY <1>1, <1>2, <1>4 DEF Number
<1>5. CASE counter >= 2 * Number(1)
  BY <1>1, <1>2, <1>5
<1> QED BY <1>1, <1>3, <1>4, <1>5

LEMMA ThreadKeeps ==
  ASSUME LogInv, NEW d \in DOMAIN thread, Thread(d)
  PROVE  LogInv'
<1> DEFINE f == file[d]
<1> USE Parts, Names, ThreadSet
<1>1. /\ server = "eventfd"
      /\ Test(d) \/ Swallow(d) \/ Notify(d)
      /\ UNCHANGED <<server, cur, batch, ready, asked, clientVars, alerts, file, logged>>
      /\ UNCHANGED <<running, pc, word, stray>> /\ thread[d] # "gone" /\ d \in Fds
  BY DEF Thread, Eventfd, Test, Swallow, Notify, mainVars
<1>2. f \in Fifos /\ pc # "stopped"
  BY <1>1 DEF EventInv, TypeOK
<1>3. pipe' = pipe \/ \E g \in Fifos : pipe' = [pipe EXCEPT ![g] = <<>>]
  BY <1>1, <1>2 DEF Test, Swallow, Notify
<1>4. TypeOK' /\ Announced' /\ EdgeInv' /\ DescriptorInv' /\ LogInOrder' /\ SentInv'
  <2>1. pc' \in {"wait", "event", "read", "stopped"}
    BY <1>1 DEF TypeOK, EdgeInv
  <2>2. UNCHANGED sent
    BY <1>1 DEF clientVars
  <2> QED BY <1>1, <1>3, <2>1, <2>2, Emptied, NoEdges, SameMessages
<1>5. /\ \E s \in {"test", "read", "notify", "gone"} : thread' = [thread EXCEPT ![d] = s]
      /\ \/ UNCHANGED <<counter, told>>
         \/ counter' = counter + Number(d) /\ told' = told \cup {d}
  BY <1>1 DEF Test, Swallow, Notify
<1>6. /\ thread' \in [DOMAIN Opens[server] -> {"test", "read", "notify", "gone"}]
      /\ DOMAIN thread' = DOMAIN thread
  BY <1>5
<1>7. /\ counter' \in Nat
      /\ \/ told' = {} /\ counter' = 0
         \/ \E e \in DOMAIN thread : told' = {e} /\ counter' = Number(e)
         \/ counter' >= 2 * Number(1)
  <2>1. CASE UNCHANGED <<counter, told>>
    BY <2>1 DEF EventInv
  <2>2. CASE counter' = counter + Number(d) /\ told' = told \cup {d}
    BY <1>1, <2>2, NotifyAdds
  <2> QED BY <1>5, <2>1, <2>2
<1>8. EventInv'
  <2>1. \A e \in DOMAIN thread' : file[e] # Closed
    BY <1>1, <1>2, <1>6 DEF EventInv
  <2> QED BY <1>1, <1>2, <1>6, <1>7, <2>1 DEF EventInv
<1> QED BY <1>4, <1>8 DEF LogInv, NothingForgotten

LEMMA MainKeeps == ASSUME LogInv, Main PROVE LogInv'
<1> USE Parts, Names, ThreadSet
<1>1. /\ server = "eventfd" /\ UNCHANGED <<server, cur, batch, ready, asked, clientVars, alerts>>
      /\ Return \/ ((Wake \/ TakeCounter \/ ReadOther \/ \E d \in DOMAIN thread : ReadSum(d))
                     /\ UNCHANGED file)
  BY DEF Main, Eventfd
<1>2. /\ counter \in Nat /\ word \in Nat /\ stray \in BOOLEAN /\ sent' = sent
      /\ pc # "stopped" => \A d \in DOMAIN thread : file[d] \in Fifos
  BY <1>1 DEF EventInv, clientVars, TypeOK
\* What is left to show of a step is what it does to the eventfd, and to the log.
<1>3. SUFFICES /\ UNCHANGED running /\ word' \in Nat /\ stray' \in BOOLEAN
               /\ UNCHANGED <<counter, told>> \/ (counter' = 0 /\ told' = {})
               /\ pc # "stopped"
               /\ \/ pc' \in {"wait", "event", "read"} /\ file' = file /\ thread' = thread
                  \/ pc' = "stopped" /\ file' = [d \in Fds |-> Closed]
                     /\ thread' = [d \in DOMAIN thread |-> "gone"]
               /\ pipe' \in [Fifos -> Seq(Clients \X (1 .. Messages))]
               /\ LogInOrder' /\ SentInv'
  <2>1. pc' \in {"wait", "event", "read", "stopped"} /\ file' \in {file, [d \in Fds |-> Closed]}
    BY <1>3
  <2>2. TypeOK' /\ Announced' /\ EdgeInv' /\ DescriptorInv'
    BY <1>1, <1>3, <2>1, NoEdges
  <2>3. /\ thread' \in [DOMAIN Opens[server] -> {"test", "read", "notify", "gone"}]
        /\ DOMAIN thread' = DOMAIN thread
    BY <1>3
  <2>4. EventInv'
    BY <1>1, <1>2, <1>3, <2>3 DEF EventInv
  <2> QED BY <1>3, <2>2, <2>4 DEF LogInv, NothingForgotten
<1>4. CASE (Wake \/ TakeCounter \/ ReadOther) /\ UNCHANGED file
  <2>1. /\ UNCHANGED <<running, pipe, thread, logged>> /\ pc # "stopped"
        /\ UNCHANGED <<counter, told>> \/ (counter' = 0 /\ told' = {})
        /\ word' \in {word, counter} /\ pc' \in {"wait", "event", "read"}
        /\ stray' \in {stray, stray \/ counter > 0}
    BY <1>4 DEF Wake, TakeCounter, ReadOther
  <2>2. LogInOrder' /\ SentInv'
    BY <1>1, <1>2, <2>1, SameMessages
  <2>3. pipe' \in [Fifos -> Seq(Clients \X (1 .. Messages))]
    BY <2>1, Emptied
  <2> QED BY <1>2, <1>4, <2>1, <2>2, <2>3
<1>5. ASSUME NEW d \in DOMAIN thread, ReadSum(d), UNCHANGED file
      PROVE  /\ UNCHANGED <<running, counter, word, thread, told, stray>>
             /\ pc = "read" /\ pc' = "wait"
             /\ pipe' \in [Fifos -> Seq(Clients \X (1 .. Messages))]
             /\ LogInOrder' /\ SentInv'
  <2> DEFINE f == file[d]
  <2>1. /\ pc = "read" /\ pc' = "wait" /\ pipe' = [pipe EXCEPT ![f] = <<>>]
        /\ logged' = IF pipe[f] = <<>> THEN logged
             ELSE [logged EXCEPT ![Head(pipe[f])[1]] = Append(@, Head(pipe[f])[2])]
        /\ UNCHANGED <<running, thread, counter, word, told, stray>>
    BY <1>5 DEF ReadSum
  <2>2. f \in Fifos
    BY <1>2, <2>1
  <2>3. /\ pipe' \in [Fifos -> Seq(Clients \X (1 .. Messages))]
        /\ \A g \in Fifos : pipe'[g] = pipe[g] \/ pipe'[g] = <<>>
    BY <2>1, <2>2, Emptied
  <2> HIDE DEF f
  <2>4. LogInOrder' /\ SentInv'
    <3>1. CASE pipe[f] = <<>>
      <4>1. logged' = logged
        BY <2>1, <3>1
      <4> QED BY <1>1, <1>2, <2>3, <4>1, SameMessages
    <3>2. CASE pipe[f] # <<>>
      <4>1. logged' = [logged EXCEPT ![Head(pipe[f])[1]] = Append(@, Head(pipe[f])[2])]
        BY <2>1, <3>2
      <4> QED BY <1>1, <1>2, <2>1, <2>2, <3>2, <4>1, Logging
    <3> QED BY <3>1, <3>2
  <2> QED BY <2>1, <2>3, <2>4
<1>6. CASE Return
  <2>1. /\ UNCHANGED <<running, counter, word, told, stray, logged>> /\ pc = "wait" /\ pc' = "stopped"
        /\ file' = [d \in Fds |-> Closed] /\ thread' = [d \in DOMAIN thread |-> "gone"]
        /\ pipe' = [f \in Fifos |-> IF Writers(f) = {} THEN <<>> ELSE pipe[f]]
    BY <1>6 DEF Return
  <2>2. /\ pipe' \in [Fifos -> Seq(Clients \X (1 .. Messages))]
        /\ \A g \in Fifos : pipe'[g] = pipe[g] \/ pipe'[g] = <<>>
    BY <2>1, Emptied
  <2>3. LogInOrder' /\ SentInv'
    BY <1>1, <1>2, <2>1, <2>2, SameMessages
  <2> QED BY <1>2, <2>1, <2>2, <2>3
<1> QED BY <1>1, <1>2, <1>4, <1>5, <1>6

-----------------------------------------------------------------------------
(* Theorems *)

LEMMA InitiallyLog == InitEvent => LogInv
<1> SUFFICES ASSUME InitEvent PROVE LogInv
  OBVIOUS
<1> USE DEF InitEvent, Init
<1>1. server \in Servers /\ MaxAdds \in Nat /\ Messages \in Nat \ {0} /\ AlertCap \in Nat \ {0}
  BY LogAssumption DEF LogAssumption
<1>2. <<>> \in Seq(Clients \X (1 .. Messages)) /\ <<>> \in Seq(1 .. Messages) /\ <<>> \in Seq(Fifos)
      /\ Len(<<>>) = 0 /\ DOMAIN <<>> = {} /\ 1 .. 0 = {}
  BY EmptySeq
<1>3. TypeOK
  <2>1. file \in [Fds -> Fifos \cup {Closed}]
    BY <1>1, OpenFds
  <2> QED BY <1>1, <2>1 DEF TypeOK
<1>4. Announced /\ EdgeInv
  BY <1>1, Names DEF Announced, EdgeInv
<1>5. LogInOrder /\ SentInv
  BY <1>1, <1>2 DEF LogInOrder, SentInv
<1>6. DescriptorInv
  <2> DEFINE l == Len(Opens[server])
  <2>1. l \in Nat /\ DOMAIN Opens[server] = 1 .. l
    BY <1>1, OpenFds
  <2>2. \A d \in Fds : file[d] # Closed => d \in 1 .. l
    BY <2>1
  <2>3. l + adds - Len(asked) = l /\ Len(asked) <= adds
    <3> HIDE DEF l
    <3> QED BY <1>2, <2>1
  <2>4. \A d \in Fds : file[d] # Closed => d <= l + adds - Len(asked)
    <3> HIDE DEF l, Fds
    <3> QED BY <2>1, <2>2, <2>3
  <2> QED BY <1>1, <1>2, <2>3, <2>4 DEF DescriptorInv
<1>7. EventInv
  <2>1. \A d \in DOMAIN Opens[server] : file[d] # Closed
    BY <1>1, OpenFds, Names
  <2> QED BY <2>1 DEF EventInv
<1> QED BY <1>3, <1>4, <1>5, <1>6, <1>7 DEF LogInv, NothingForgotten

LEMMA LogStep == LogInv /\ [Next]_allVars => LogInv'
<1> SUFFICES ASSUME LogInv, [Next]_allVars PROVE LogInv'
  OBVIOUS
<1>1. ASSUME Environment, UNCHANGED eventVars PROVE LogInv'
  BY <1>1, Quiet, AskForKeeps DEF Environment
<1>2. ASSUME NEW c \in Clients, Client(c), UNCHANGED eventVars PROVE LogInv'
  BY <1>2, Quiet, ClientWriteKeeps, ClientGoesKeeps DEF Client, ClientDone, Sigpipe
<1>3. ASSUME EpollServer, UNCHANGED eventVars PROVE LogInv'
  BY <1>3, EpollWaitKeeps, NextEventKeeps, AddKeeps, NothingAskedKeeps, EpollStopKeeps,
     ReadKeeps, ReadEmptyKeeps, CloseFifoKeeps DEF EpollServer
<1>4. ASSUME UNCHANGED allVars PROVE LogInv'
  <2>1. TypeOK'
    BY <1>4, Parts DEF allVars, vars, wires, clientVars, TypeOK, Fds
  <2> QED BY <1>4, <2>1, QuietSteps DEF allVars, vars, wires, clientVars
<1> QED BY <1>1, <1>2, <1>3, <1>4, MainKeeps, ThreadKeeps DEF Next, Server

\* In every reachable state the descriptors, edges, messages and notifications
\* of the log servers are accounted for.
THEOREM LogInvariance == Spec => []LogInv
BY InitiallyLog, LogStep, PTL DEF Spec

\* For any FIFOs, clients and requests for more descriptors: what is in a FIFO
\* that the server with epoll has open is announced by an edge that it has yet
\* to see, or it is reading from that FIFO - the edge-triggered loop of
\* log_server_task1.c and of task3 forgets no FIFO.
THEOREM NoFifoForgotten == Spec => []NothingForgotten
BY LogInvariance, PTL DEF LogInv

\* Both servers log the messages of each client in the order they were sent,
\* and none twice.
THEOREM LogKeepsOrder == Spec => []LogInOrder
BY LogInvariance, PTL DEF LogInv

\* With three FIFOs or less, whatever notifications of log_server.c:50-51 meet in
\* the eventfd: a sum that is the number of a FIFO is one notification, of that
\* FIFO, so that main never reads from one whose thread has not told it to.
THEOREM SumsNameTheirFifo == Spec => []SumNamesItsFifo
<1>1. LogInv => SumNamesItsFifo
  <2> SUFFICES ASSUME LogInv, NEW d \in DOMAIN thread, counter = Number(d)
               PROVE  told = {d}
    BY DEF SumNamesItsFifo
  <2>1. /\ d \in Nat \ {0} /\ \A e \in DOMAIN thread : e \in Nat \ {0}
        /\ DOMAIN thread = 1 .. Len(Opens[server]) /\ Len(Opens[server]) \in Nat
    BY Parts, ThreadSet, OpenFds
  <2>2. CASE told = {} /\ counter = 0
    BY <2>1, <2>2 DEF Number
  <2>3. CASE \E e \in DOMAIN thread : told = {e} /\ counter = Number(e)
    BY <2>1, <2>3 DEF Number
  <2>4. CASE counter >= 2 * Number(1) /\ server = "eventfd"
    <3>1. Len(Opens[server]) <= 3
      BY <2>4, Parts, LogAssumption DEF LogAssumption
    <3> QED BY <2>1, <2>4, <3>1 DEF Number
  <2> QED BY <2>2, <2>3, <2>4, Parts DEF EventInv
<1> QED BY <1>1, LogInvariance, PTL

-----------------------------------------------------------------------------
(* The renderer that gives each worker an equal share *)

LEMMA Shares ==
  /\ \A w \in Workers : Share(w) \subseteq Rows
  /\ \A w, v \in Workers : w # v => Share(w) \cap Share(v) = {}
  /\ Workers \subseteq Nat /\ None \notin Workers /\ Garbage \notin Workers
<1> DEFINE n == Height \div MAX_WORKERS
<1>1. MAX_WORKERS \in Nat \ {0} /\ Height \in Nat \ {0} /\ Height % MAX_WORKERS = 0
  BY StaticAssumption DEF StaticAssumption
<1>2. n \in Nat /\ Height = n * MAX_WORKERS
  BY <1>1
<1>3. \A w \in Workers : w \in Nat /\ w + 1 <= MAX_WORKERS
  BY <1>1 DEF Workers
<1>4. \A w \in Workers : Share(w) = w * n .. w * n + n - 1
  BY DEF Share
<1> HIDE DEF n
<1>5. \A w, v \in Nat : w + 1 <= v => w * n + n <= v * n /\ w * n \in Nat /\ v * n \in Nat
  BY <1>2
<1>6. \A w \in Workers : Share(w) \subseteq Rows
  <2> SUFFICES ASSUME NEW w \in Workers PROVE Share(w) \subseteq Rows
    OBVIOUS
  <2>1. w * n + n <= MAX_WORKERS * n /\ w * n \in Nat /\ MAX_WORKERS * n = Height
    BY <1>1, <1>2, <1>3, <1>5
  <2> QED BY <1>1, <1>2, <1>4, <2>1 DEF Rows
<1>7. ASSUME NEW w \in Workers, NEW v \in Workers, w < v
      PROVE  Share(w) \cap Share(v) = {}
  <2>1. w * n + n <= v * n /\ w * n \in Nat /\ v * n \in Nat
    BY <1>3, <1>5, <1>7
  <2> QED BY <1>2, <1>4, <2>1
<1>8. \A w, v \in Workers : w # v => w < v \/ v < w
  BY <1>3
<1>9. None \notin Workers /\ Garbage \notin Workers
  BY <1>3 DEF None, Garbage
<1> QED BY <1>3, <1>6, <1>7, <1>8, <1>9

\* The parts of SharesAreWhole, the share of a worker and the tasks.
Whole(w) ==
  \/ \A r \in Share(w) : image[r] = w
  \/ /\ \A r \in Share(w) : image[r] = Garbage
     /\ version = "task4-con" /\ master = "done" => worker[w] = "dead"
OwnTasks ==
  \/ \A w \in Workers : task[w] \in {w, None}
  \/ version = "task4" /\ \E v \in Workers : worker[v] \in {"new", "refused"}

LEMMA StaticParts ==
  /\ StaticInv <=> StaticTypeOK /\ (\A w \in Workers : Whole(w)) /\ OwnTasks /\ LoopInv /\ LeftInv
  /\ StaticInv' <=> StaticTypeOK' /\ (\A w \in Workers : Whole(w)') /\ OwnTasks' /\ LoopInv' /\ LeftInv'
BY DEF StaticInv, SharesAreWhole, Whole, OwnTasks

LEMMA StepTypes ==
  ASSUME StaticTypeOK, NEW from, NEW to, Step(from, to)
  PROVE  /\ master = from /\ master' \in {from, to} /\ version' = version /\ i' \in Workers
         /\ (i' = i + 1 /\ master' = from /\ i + 1 <= MAX_WORKERS - 1)
            \/ (i' = 0 /\ master' = to /\ i = MAX_WORKERS - 1)
         /\ i \in Workers /\ i \in Nat /\ MAX_WORKERS \in Nat
BY StaticAssumption DEF StaticAssumption, Step, StaticTypeOK, Workers

LEMMA AcceptKeepsShares == ASSUME StaticInv, Accept \/ AcceptFails PROVE StaticInv'
<1> USE StaticParts, Shares DEF Workers
<1>1. CASE Accept
  <2>1. /\ Step("accept", "send") /\ worker' = [worker EXCEPT ![i] = "connected"]
        /\ UNCHANGED <<image, task, result>>
    BY <1>1 DEF Accept
  <2>2. StaticTypeOK'
    BY <2>1, StepTypes DEF StaticTypeOK
  <2>3. ASSUME NEW w \in Workers PROVE Whole(w)'
    BY <2>1, StepTypes DEF Whole
  <2>4. OwnTasks'
    BY <2>1, StepTypes DEF LoopInv, OwnTasks
  <2>5. LoopInv'
    BY <2>1, StepTypes DEF LoopInv, StaticTypeOK
  <2>6. LeftInv'
    BY <2>1, StepTypes DEF LeftInv, StaticTypeOK, MasterGone
  <2> QED BY <2>2, <2>3, <2>4, <2>5, <2>6
<1>2. CASE AcceptFails
  <2>1. /\ \/ version = "task4" /\ Step("accept", "send")
           \/ version = "task4-con" /\ master = "accept" /\ master' = "failed" /\ UNCHANGED <<version, i>>
        /\ UNCHANGED <<image, worker, task, result>>
    BY <1>2 DEF AcceptFails
  <2>2. StaticTypeOK'
    BY <2>1, StepTypes DEF StaticTypeOK
  <2>3. ASSUME NEW w \in Workers PROVE Whole(w)'
    BY <2>1, StepTypes DEF Whole
  <2>4. OwnTasks'
    BY <2>1, StepTypes DEF OwnTasks
  <2>5. LoopInv'
    BY <2>1, StepTypes DEF LoopInv
  <2>6. LeftInv'
    BY <2>1, StepTypes DEF LeftInv, MasterGone
  <2> QED BY <2>2, <2>3, <2>4, <2>5, <2>6
<1> QED BY <1>1, <1>2

\* A task goes astray only from an entry that accept() has not filled.
LEMMA SendKeepsShares == ASSUME StaticInv, SendTask \/ SendFails \/ SendKills PROVE StaticInv'
<1> USE StaticParts, Shares
<1>1. /\ master = "send" /\ UNCHANGED <<version, image, worker, result>>
      /\ \/ Step("send", AfterSend)
         \/ master' = "killed" /\ UNCHANGED <<i, task>>
      /\ \/ task' = task
         \/ \E w \in Target : task' = [task EXCEPT ![w] = IF @ = None THEN i ELSE @]
  BY DEF SendTask, SendFails, SendKills, Step
<1>2. master' \in {"send", "killed", AfterSend} /\ i' \in Workers /\ i \in Workers
  BY <1>1, StepTypes DEF StaticTypeOK
<1>3. /\ AfterSend = IF version = "task4" THEN "sleep" ELSE "receive"
      /\ master' = "receive" => i' = 0
  <2>1. AfterSend = IF version = "task4" THEN "sleep" ELSE "receive"
    BY DEF AfterSend
  <2> QED BY <1>1, <2>1, StepTypes
<1>4. Target \subseteq Workers /\ (worker[i] # "new" => Target = {i})
  BY <1>2 DEF Target
<1>5. StaticTypeOK'
  <2>1. task' \in [Workers -> Workers \cup {None}]
    BY <1>1, <1>2, <1>4 DEF StaticTypeOK
  <2> QED BY <1>1, <1>2, <1>3, <2>1 DEF StaticTypeOK
<1>6. ASSUME NEW w \in Workers PROVE Whole(w)'
  BY <1>1, <1>2, <1>3 DEF Whole
<1>7. OwnTasks'
  <2>1. CASE worker[i] = "new"
    BY <1>1, <1>2, <2>1 DEF OwnTasks, LoopInv, StaticTypeOK
  <2>2. CASE worker[i] # "new"
    <3>1. task' = task \/ task' = [task EXCEPT ![i] = IF @ = None THEN i ELSE @]
      BY <1>1, <1>4, <2>2
    <3> QED BY <1>1, <1>2, <3>1 DEF OwnTasks, StaticTypeOK
  <2> QED BY <2>1, <2>2
<1>8. LoopInv'
  BY <1>1, <1>2, <1>3 DEF LoopInv, StaticTypeOK
<1>9. LeftInv'
  <2>1. \A w \in Workers : ~(w < 0)
    OBVIOUS
  <2> QED BY <1>1, <1>2, <1>3, <2>1 DEF LeftInv, MasterGone
<1> QED BY <1>5, <1>6, <1>7, <1>8, <1>9

\* A part that is skipped was to come from a worker that has gone: one that has
\* ended in good order has sent it whole.
LEMMA ReceiveKeepsShares == ASSUME StaticInv, Paint \/ Skip PROVE StaticInv'
<1> USE StaticParts, Shares DEF Workers
<1>1. /\ master = "receive" /\ Step("receive", "done") /\ version = "task4-con"
      /\ UNCHANGED <<worker, task, result>>
  BY DEF Paint, Skip, Step, LoopInv
<1>2. i \in Workers /\ i \in Nat /\ version' = version
  BY <1>1, StepTypes
<1>3. image' \in [Rows -> Workers \cup {Garbage}] /\ \A w \in Workers \ {i} : \A r \in Share(w) : image'[r] = image[r]
  BY <1>2 DEF Paint, Skip, StaticTypeOK
<1>4. (\A r \in Share(i) : image'[r] = i)
      \/ ((\A r \in Share(i) : image'[r] = image[r]) /\ worker[i] = "dead")
  <2>1. CASE Paint
    BY <1>2, <2>1 DEF Paint, StaticTypeOK
  <2>2. CASE Skip
    BY <1>1, <1>2, <2>2 DEF Skip, LeftInv, MasterGone
  <2> QED BY <2>1, <2>2
<1>5. StaticTypeOK'
  BY <1>1, <1>3, StepTypes DEF StaticTypeOK
<1>6. \A w \in Workers : w < i \/ w = i => (\A r \in Share(w) : image'[r] = w) \/ worker'[w] = "dead"
  BY <1>1, <1>2, <1>3, <1>4 DEF LeftInv
<1>7. ASSUME NEW w \in Workers PROVE Whole(w)'
  <2>1. \/ \A r \in Share(w) : image'[r] = w
        \/ \A r \in Share(w) : image'[r] = Garbage
    BY <1>3, <1>4 DEF Whole
  <2>2. master' = "done" => w < i \/ w = i
    BY <1>1, <1>2, StepTypes
  <2> QED BY <1>6, <2>1, <2>2 DEF Whole
<1>8. OwnTasks' /\ LoopInv'
  BY <1>1, StepTypes DEF OwnTasks, LoopInv
<1>9. LeftInv'
  <2>1. \A w \in Workers : w < i + 1 => w < i \/ w = i
    BY <1>2
  <2> QED BY <1>1, <1>2, <1>6, <2>1, StepTypes DEF LeftInv, MasterGone
<1> QED BY <1>5, <1>7, <1>8, <1>9

LEMMA CloseKeepsShares == ASSUME StaticInv, Close \/ UNCHANGED staticVars PROVE StaticInv'
<1> USE StaticParts DEF Close, staticVars
<1>1. StaticTypeOK'
  BY DEF StaticTypeOK
<1>2. ASSUME NEW w \in Workers PROVE Whole(w)'
  BY DEF Whole, LoopInv
<1>3. OwnTasks' /\ LoopInv' /\ LeftInv'
  BY DEF OwnTasks, LoopInv, LeftInv, MasterGone
<1> QED BY <1>1, <1>2, <1>3

LEMMA WorkerKeepsShares ==
  ASSUME StaticInv, NEW w \in Workers, Worker(w) \/ Die(w) \/ Hang(w)
  PROVE  StaticInv'
<1> USE StaticParts
<1>1. UNCHANGED <<version, master, i, image, task>>
  BY DEF Worker, ReceiveTask, NoTask, SendResult, Die, Hang
<1>2. /\ worker' \in [Workers -> {"new", "connected", "computing", "ended", "refused", "hung", "dead"}]
      /\ result' \in [Workers -> {"none", "part", "whole"}]
  BY DEF Worker, ReceiveTask, NoTask, SendResult, Die, Hang, StaticTypeOK
<1>3. \A v \in Workers :
        /\ worker[v] = "dead" => worker'[v] = "dead"
        /\ worker[v] # "new" => worker'[v] # "new"
        /\ worker[v] \in {"new", "refused"} => worker'[v] \in {"new", "refused"}
        /\ worker'[v] = "new" => worker[v] = "new"
  BY DEF Worker, ReceiveTask, NoTask, SendResult, Die, Hang, StaticTypeOK
<1>4. version = "task4-con" /\ ~MasterGone =>
        \A v \in Workers : worker'[v] = "ended" => result'[v] = "whole"
  <2>1. CASE SendResult(w)
    BY <2>1 DEF SendResult, StaticTypeOK, LeftInv
  <2>2. CASE ~SendResult(w)
    BY <2>2 DEF Worker, ReceiveTask, NoTask, Die, Hang, StaticTypeOK, LeftInv
  <2> QED BY <2>1, <2>2
<1>5. StaticTypeOK'
  BY <1>1, <1>2 DEF StaticTypeOK
<1>6. ASSUME NEW v \in Workers PROVE Whole(v)'
  BY <1>1, <1>3 DEF Whole
<1>7. OwnTasks' /\ LoopInv' /\ LeftInv'
  BY <1>1, <1>3, <1>4 DEF OwnTasks, LoopInv, LeftInv, MasterGone
<1> QED BY <1>5, <1>6, <1>7

LEMMA StaticInitially == StaticInit => StaticInv
<1> SUFFICES ASSUME StaticInit PROVE StaticInv
  OBVIOUS
<1> USE StaticParts, Shares DEF StaticInit
<1>1. MAX_WORKERS \in Nat \ {0} /\ 0 \in Workers
  BY StaticAssumption DEF StaticAssumption, Workers
<1>2. \A w \in Workers : ~(w < 0)
  OBVIOUS
<1>3. StaticTypeOK
  BY <1>1 DEF StaticTypeOK
<1>4. ASSUME NEW w \in Workers PROVE Whole(w)
  BY DEF Whole
<1>5. OwnTasks /\ LoopInv /\ LeftInv
  BY <1>2 DEF OwnTasks, LoopInv, LeftInv
<1> QED BY <1>3, <1>4, <1>5

LEMMA StaticStep == StaticInv /\ [StaticNext]_staticVars => StaticInv'
BY AcceptKeepsShares, SendKeepsShares, ReceiveKeepsShares, CloseKeepsShares, WorkerKeepsShares
   DEF StaticNext, Master

\* For any number of workers and any height they divide: what the loops of the
\* master have left behind.
THEOREM StaticInvariance == StaticSpec => []StaticInv
BY StaticInitially, StaticStep, PTL DEF StaticSpec

\* A share is in the image entirely, painted by the worker it was given to, or
\* not at all, and then that worker has gone; and tasks go astray only where an
\* accept() has failed.
THEOREM SharesStayWhole == StaticSpec => []SharesAreWhole
<1>1. StaticInv => SharesAreWhole
  BY DEF StaticInv
<1> QED BY <1>1, StaticInvariance, PTL
=============================================================================
