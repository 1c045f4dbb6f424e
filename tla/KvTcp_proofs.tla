---------------------------- MODULE KvTcp_proofs ----------------------------
(***************************************************************************)
(* Theorems about KvTcp: no wake-up of the edge-triggered loop is lost, an *)
(* event is handled on the connection it was raised for, a request is      *)
(* answered once, and the service is the map that kv_store.h promises.     *)
(* The inductive invariant TcpInv follows each request through the two     *)
(* sockets (StageInv), ties clients to connections (LinkInv), and says     *)
(* what the batch of epoll_wait holds (BatchInv).                          *)
(***************************************************************************)
EXTENDS KvTcp, KvStore_proofs, SequenceTheorems

LEMMA SmallSequences ==
  ASSUME NEW a, NEW b
  PROVE  /\ <<a>> # <<>> /\ <<a, b>> # <<>> /\ Len(<<>>) = 0
         /\ Append(<<>>, a) = <<a>> /\ Append(<<a>>, b) = <<a, b>>
         /\ Tail(<<a>>) = <<>> /\ Tail(<<a, b>>) = <<b>>
         /\ <<>> \o <<a>> = <<a>> /\ <<a>> \o <<b>> = <<a, b>>
         /\ Head(<<a>>) = a /\ Head(<<a, b>>) = a 
         /\ Len(<<a>>) = 1 /\ Len(<<a, b>>) = 2
<1>1. <<a>> # <<>> /\ <<a, b>> # <<>> /\ Len(<<>>) = 0
  OBVIOUS
<1>2. Append(<<>>, a) = <<a>> 
  OBVIOUS
<1>3. Append(<<a>>, b) = <<a, b>>
  <2>1. <<a>> \in Seq({a, b}) /\ <<a, b>> \in Seq({a, b}) /\ Len(<<a>>) = 1
    OBVIOUS
  <2>2. Append(<<a>>, b) \in Seq({a, b}) /\ Len(Append(<<a>>, b)) = 2
    BY <2>1
  <2>3. Append(<<a>>, b)[1] = a /\ Append(<<a>>, b)[2] = b
    BY <2>1
  <2> DEFINE s == Append(<<a>>, b)
             t == <<a, b>>
  <2>4. Len(s) = Len(t)
    BY <2>2
  <2>5. \A i \in 1 .. Len(s) : s[i] = t[i]
    <3>1. \A i \in 1 .. Len(s) : i = 1 \/ i = 2
      BY <2>2
    <3>2. t[1] = a /\ t[2] = b
      OBVIOUS
    <3> QED BY <3>1, <3>2, <2>3
  <2>6. s \in Seq({a, b}) /\ t \in Seq({a, b})
    BY <2>1, <2>2
  <2> HIDE DEF s, t
  <2>7. s = t
    BY <2>4, <2>5, <2>6, SeqEqual
  <2> QED BY <2>7 DEF s, t
<1>4. Tail(<<a>>) = <<>> 
  OBVIOUS
<1>5. Tail(<<a, b>>) = <<b>>
  OBVIOUS
<1>6. <<>> \o <<a>> = <<a>> 
  OBVIOUS
<1>7. <<a>> \o <<b>> = <<a, b>>
  <2>1. <<a>> \in Seq({a, b}) /\ <<b>> \in Seq({a, b}) /\ <<a, b>> \in Seq({a, b})
    OBVIOUS
  <2>2. <<a>> \o <<b>> \in Seq({a, b}) /\ Len(<<a>> \o <<b>>) = 2
    BY <2>1
  <2>3. (<<a>> \o <<b>>)[1] = a /\ (<<a>> \o <<b>>)[2] = b
    BY <2>1
  <2> DEFINE s == <<a>> \o <<b>>
             t == <<a, b>>
  <2>4. Len(s) = Len(t)
    BY <2>2
  <2>5. \A i \in 1 .. Len(s) : s[i] = t[i]
    <3>1. \A i \in 1 .. Len(s) : i = 1 \/ i = 2
      BY <2>2
    <3>2. t[1] = a /\ t[2] = b
      OBVIOUS
    <3> QED BY <3>1, <3>2, <2>3
  <2>6. s \in Seq({a, b}) /\ t \in Seq({a, b})
    BY <2>1, <2>2
  <2> HIDE DEF s, t
  <2>7. s = t
    BY <2>4, <2>5, <2>6, SeqEqual
  <2> QED BY <2>7 DEF s, t
<1>8. Head(<<a>>) = a /\ Head(<<a, b>>) = a 
  OBVIOUS
<1>9. Len(<<a>>) = 1 /\ Len(<<a, b>>) = 2
  OBVIOUS
<1> QED BY <1>1, <1>2, <1>3, <1>4, <1>5, <1>6, <1>7, <1>8, <1>9

LEMMA OneElement ==
  ASSUME NEW S, NEW a \in S, NEW q, q = <<a>>
  PROVE  q \in Seq(S) /\ Len(q) = 1 /\ \A i \in 1 .. Len(q) : q[i] = a
<1>1. <<a>> \in Seq(S) /\ Len(<<a>>) = 1 /\ <<a>>[1] = a
  OBVIOUS
<1>2. \A i \in 1 .. 1 : i = 1
  OBVIOUS
<1>3. q \in Seq(S) /\ Len(q) = 1 /\ q[1] = a
  BY <1>1, Zenon
<1> QED BY <1>2, <1>3

LEMMA TwoElements ==
  ASSUME NEW S, NEW a \in S, NEW b \in S, NEW q, q = <<a, b>>
  PROVE  /\ q \in Seq(S) /\ Len(q) = 2 /\ q[1] = a /\ q[2] = b
         /\ \A i \in 1 .. Len(q) : i = 1 \/ i = 2
<1>1. <<a, b>> \in Seq(S) /\ Len(<<a, b>>) = 2 /\ <<a, b>>[1] = a /\ <<a, b>>[2] = b
  OBVIOUS
<1>2. \A i \in 1 .. 2 : i = 1 \/ i = 2
  OBVIOUS
<1>3. q \in Seq(S) /\ Len(q) = 2 /\ q[1] = a /\ q[2] = b
  BY <1>1, Zenon
<1> QED BY <1>2, <1>3

-----------------------------------------------------------------------------
(* Types *)

\* What the stages do not say already.
BareTypes ==
  /\ pc \in [Clients -> {"new", "idle", "half", "waiting", "closed"}]
  /\ request \in [Clients -> Requests \cup {NoRequest}]
  /\ sent \in [Clients -> 0 .. MaxRequests]
  /\ wire = [c \in Clients |-> wire[c]] /\ inbox = [c \in Clients |-> inbox[c]]
  /\ peer \in [Clients -> {"up", "fin", "rst_due", "reset"}]
  /\ conn \in [Clients -> {"none", "backlog", "open", "closed"}]
  /\ fd \in [Clients -> fds \cup {0}]
  /\ \A c \in Clients : fd[c] # 0 <=> c \in Open
  /\ \A c, d \in Open : fd[c] = fd[d] => c = d
  /\ edge \subseteq Clients \cup {Listen}
  /\ batch \subseteq [conn : Clients \cup {Listen}, fd : fds \cup {0}, err : BOOLEAN]
  /\ spc \in {"wait", "batch", "accept", "payload", "value", "gone"}
  /\ serving \in Clients \cup {None}
  /\ fds \in {1 .. limit : limit \in FdLimits} /\ full \in BOOLEAN

LEMMA TypesAreBare == TcpTypeOK => BareTypes
BY DEF TcpTypeOK, BareTypes

LEMMA Names == Listen \notin Clients /\ None \notin Clients /\ MaxRequests \in Nat \ {0}
BY TcpAssumption DEF TcpAssumption, Listen, None

\* The stages bound what is in the sockets.
LEMMA SocketsInStage ==
  ASSUME BareTypes, LinkInv, NEW c \in Clients, InStage(c)
  PROVE  /\ wire[c] \in Seq({"header", "payload"}) /\ Len(wire[c]) <= 2
         /\ inbox[c] \in Seq((1 .. MaxRequests) \X {"value_follows", "value", "status"})
         /\ \A i \in 1 .. Len(inbox[c]) : inbox[c][i][1] = sent[c] /\ pc[c] = "waiting"
         /\ Len(inbox[c]) <= 2
         /\ Len(inbox[c]) = 2 => inbox[c][1][2] = "value_follows" /\ inbox[c][2][2] = "value"
<1> DEFINE Pieces == (1 .. MaxRequests) \X {"value_follows", "value", "status"}
<1>1. pc[c] \in {"new", "idle", "half", "waiting", "closed"}
  BY DEF BareTypes
<1>2. wire[c] \in {<<>>, <<"header">>, <<"payload">>, <<"header", "payload">>}
  BY <1>1 DEF InStage, Stage
<1>3. wire[c] \in Seq({"header", "payload"}) /\ Len(wire[c]) <= 2
  <2> DEFINE q == wire[c]
  <2>1. q = <<>> \/ q = <<"header">> \/ q = <<"payload">> \/ q = <<"header", "payload">>
    BY <1>2
  <2> HIDE DEF q
  <2>2. q \in Seq({"header", "payload"}) /\ Len(q) <= 2
    <3>1. CASE q = <<>>
      BY <3>1
    <3>2. CASE q = <<"header">> \/ q = <<"payload">>
      BY <3>2, OneElement
    <3>3. CASE q = <<"header", "payload">>
      BY <3>3, TwoElements
    <3> QED BY <2>1, <3>1, <3>2, <3>3
  <2> QED BY <2>2 DEF q
<1>4. CASE inbox[c] = <<>>
  BY <1>3, <1>4
<1>5. CASE inbox[c] # <<>>
  <2>1. pc[c] = "waiting"
    BY <1>1, <1>5 DEF InStage, Stage
  <2>2. sent[c] \in 1 .. MaxRequests
    <3>1. sent[c] \in 0 .. MaxRequests
      BY DEF BareTypes
    <3>2. sent[c] > 0
      BY <2>1 DEF LinkInv
    <3> QED BY <3>1, <3>2, Names
  <2>3. \A k \in {"value_follows", "value", "status"} : Piece(c, k) \in Pieces /\ Piece(c, k)[1] = sent[c] /\ Piece(c, k)[2] = k
    BY <2>2 DEF Piece
  <2>4. \/ inbox[c] = <<Piece(c, "value_follows"), Piece(c, "value")>>
        \/ \E k \in {"value_follows", "value", "status"} : inbox[c] = <<Piece(c, k)>>
    BY <2>1, <1>5 DEF InStage, Stage
  <2> DEFINE q == inbox[c]
             first == Piece(c, "value_follows")
             second == Piece(c, "value")
  <2>5. q = <<first, second>> \/ \E k \in {"value_follows", "value", "status"} : q = <<Piece(c, k)>>
    BY <2>4
  <2>6. /\ first \in Pieces /\ first[1] = sent[c] /\ first[2] = "value_follows"
        /\ second \in Pieces /\ second[1] = sent[c] /\ second[2] = "value"
    BY <2>3
  <2> HIDE DEF Pieces, q, first, second
  <2>7. /\ q \in Seq(Pieces) /\ Len(q) <= 2
        /\ \A i \in 1 .. Len(q) : q[i][1] = sent[c]
        /\ Len(q) = 2 => q[1][2] = "value_follows" /\ q[2][2] = "value"
    <3>1. CASE q = <<first, second>>
      <4>1. /\ q \in Seq(Pieces) /\ Len(q) = 2 /\ q[1] = first /\ q[2] = second
            /\ \A i \in 1 .. Len(q) : i = 1 \/ i = 2
        BY <2>6, <3>1, TwoElements
      <4>2. \A i \in 1 .. Len(q) : q[i] = first \/ q[i] = second
        BY <4>1, Zenon
      <4>3. q[1][2] = "value_follows" /\ q[2][2] = "value"
        BY <4>1, <2>6, Zenon
      <4>4. \A i \in 1 .. Len(q) : q[i][1] = sent[c]
        BY <4>2, <2>6, Zenon
      <4>5. Len(q) <= 2
        BY <4>1
      <4> QED BY <4>1, <4>3, <4>4, <4>5
    <3>2. ASSUME NEW k \in {"value_follows", "value", "status"}, q = <<Piece(c, k)>>
          PROVE  q \in Seq(Pieces) /\ Len(q) = 1 /\ \A i \in 1 .. Len(q) : q[i][1] = sent[c]
      <4> DEFINE p == Piece(c, k)
      <4>1. p \in Pieces /\ p[1] = sent[c] /\ q = <<p>>
        BY <2>3, <3>2 DEF Pieces
      <4> HIDE DEF p
      <4>2. q \in Seq(Pieces) /\ Len(q) = 1 /\ \A i \in 1 .. Len(q) : q[i] = p
        BY <4>1, OneElement
      <4> QED BY <4>1, <4>2
    <3>3. q = <<first, second>> => Len(q) = 2 
      BY <3>1
    <3> QED BY <2>5, <3>1, <3>2, 1 <= 2, 1 # 2
  <2> QED BY <1>3, <2>1, <2>7 DEF Pieces, q
<1> QED BY <1>4, <1>5

LEMMA BareIsEnough == BareTypes /\ LinkInv /\ StageInv => TcpTypeOK /\ OneAnswerPerRequest
<1> SUFFICES ASSUME BareTypes, LinkInv, StageInv PROVE TcpTypeOK /\ OneAnswerPerRequest
  OBVIOUS
<1>1. \A c \in Clients : InStage(c)
  BY DEF StageInv
<1>2. OneAnswerPerRequest
  BY <1>1, SocketsInStage DEF OneAnswerPerRequest
<1>3. wire \in [Clients -> Seq({"header", "payload"})] /\ \A c \in Clients : Len(wire[c]) <= 2
  BY <1>1, SocketsInStage DEF BareTypes
<1>4. inbox \in [Clients -> Seq((1 .. MaxRequests) \X {"value_follows", "value", "status"})]
  BY <1>1, SocketsInStage DEF BareTypes
<1> QED BY <1>2, <1>3, <1>4 DEF BareTypes, TcpTypeOK

LEMMA BareIsEnoughNext == BareTypes' /\ LinkInv' /\ StageInv' => TcpTypeOK' /\ OneAnswerPerRequest'
BY BareIsEnough, PTL

\* accept() returns the least free descriptor, which is a positive number.
LEMMA FreshFd ==
  ASSUME BareTypes, FreeFds # {}
  PROVE  Min(FreeFds) \in fds /\ Min(FreeFds) # 0 /\ \A c \in Open : fd[c] # Min(FreeFds)
<1>1. FreeFds # {}
  OBVIOUS
<1>2. FreeFds \in SUBSET Nat /\ \A m \in fds : m # 0
  BY TcpAssumption DEF FreeFds, BareTypes
<1>3. \E f \in FreeFds : \A g \in FreeFds : f <= g
  <2> DEFINE R == {p \in Nat \X Nat : p[1] < p[2]}
  <2>1. IsWellFoundedOn(R, Nat)
    BY NatLessThanWellFounded DEF OpToRel
  <2>2. \E f \in FreeFds : \A g \in FreeFds : ~(<<g, f>> \in R)
    <3> HIDE DEF R
    <3> QED BY <1>1, <1>2, <2>1, WFMin
  <2>3. \A f, g \in Nat : <<g, f>> \in R <=> g < f
    OBVIOUS
  <2> HIDE DEF R
  <2>4. PICK f \in FreeFds : \A g \in FreeFds : ~(<<g, f>> \in R)
    BY <2>2
  <2>5. ASSUME NEW g \in FreeFds PROVE f <= g
    <3>1. f \in Nat /\ g \in Nat
      BY <1>2
    <3>2. ~(g < f)
      BY <2>3, <2>4, <3>1, Zenon
    <3> QED BY <3>1, <3>2
  <2> QED BY <2>5
<1>4. Min(FreeFds) \in FreeFds
  BY <1>1, <1>3 DEF Min
<1> HIDE DEF Min
<1> QED BY <1>2, <1>4 DEF FreeFds

\* What TcpInv consists of, and what is to be shown of a step.
LEMMA Parts ==
  TcpInv => /\ BareTypes /\ TcpTypeOK /\ EventsMatchConnections /\ NoLostWakeup
            /\ StageInv /\ LinkInv /\ BatchInv
BY TypesAreBare DEF TcpInv, EventsMatchConnections

LEMMA Whole1 ==
  ASSUME BareTypes', LinkInv', StageInv', BatchInv', NoLostWakeup',
         \A e \in batch' : e.conn # Listen => conn'[e.conn] = "open" /\ fd'[e.conn] = e.fd
  PROVE  TcpInv'
BY BareIsEnoughNext DEF TcpInv, EventsMatchConnections

\* A step elsewhere leaves a connection where it is.
LEMMA SameStage ==
  ASSUME NEW d \in Clients, InStage(d), pc'[d] = pc[d], wire'[d] = wire[d],
         inbox'[d] = inbox[d], sent'[d] = sent[d],
         serving' = d <=> serving = d, serving = d => spc' = spc
  PROVE  InStage(d)'
BY DEF InStage, Stage, Piece

-----------------------------------------------------------------------------
(* The clients *)

LEMMA ConnectKeeps == ASSUME TcpInv, NEW c \in Clients, Connect(c) PROVE TcpInv'
<1> USE Parts, Names DEF Connect, clients, table, server
<1>1. BareTypes'
  <2>1. Open' = Open
    BY DEF LinkInv, BareTypes, Open
  <2> QED BY <2>1 DEF BareTypes
<1>2. LinkInv' /\ BatchInv'
  BY DEF LinkInv, BatchInv, BareTypes, Open
<1>3. StageInv'
  <2>1. ASSUME NEW d \in Clients, d # c PROVE InStage(d)'
    BY <2>1, SameStage DEF StageInv, BareTypes
  <2>2. InStage(c)'
    BY DEF StageInv, InStage, Stage, BareTypes
  <2> QED BY <2>1, <2>2 DEF StageInv
<1>4. NoLostWakeup'
  BY DEF NoLostWakeup, Open, Readable, Backlog, BareTypes
<1>5. \A e \in batch' : e.conn # Listen => conn'[e.conn] = "open" /\ fd'[e.conn] = e.fd
  <2>1. \A e \in batch : e.conn \in Clients \cup {Listen}
    BY DEF BareTypes
  <2> QED BY <2>1 DEF EventsMatchConnections, BareTypes, LinkInv
<1> QED BY <1>1, <1>2, <1>3, <1>4, <1>5, Whole1

LEMMA SendHeaderKeeps == ASSUME TcpInv, NEW c \in Clients, SendHeader(c) PROVE TcpInv'
<1> USE Parts, Names DEF SendHeader, Raise, clients, table, server
<1>1. BareTypes'
  <2>1. sent' \in [Clients -> 0 .. MaxRequests]
    <3>1. sent[c] \in 0 .. MaxRequests /\ sent[c] + 1 \in 0 .. MaxRequests
      BY DEF BareTypes
    <3> QED BY <3>1 DEF BareTypes
  <2>2. request' \in [Clients -> Requests \cup {NoRequest}]
    BY DEF BareTypes
  <2>3. wire' = [x \in Clients |-> wire'[x]]
    BY DEF BareTypes
  <2> QED BY <2>1, <2>2, <2>3 DEF BareTypes, Open
<1>2. LinkInv' /\ BatchInv'
  BY DEF LinkInv, BatchInv, BareTypes, Open
<1>3. StageInv'
  <2>1. ASSUME NEW d \in Clients, d # c PROVE InStage(d)'
    BY <2>1, SameStage DEF StageInv, BareTypes
  <2>2. InStage(c)'
    <3>1. wire[c] = <<>> /\ inbox[c] = <<>> /\ serving # c
      BY DEF StageInv, InStage, Stage
    <3>2. wire'[c] = <<"header">> /\ inbox'[c] = <<>> /\ serving' # c /\ pc'[c] = "half"
      BY <3>1, SmallSequences DEF BareTypes
    <3> QED BY <3>2 DEF InStage, Stage
  <2> QED BY <2>1, <2>2 DEF StageInv
<1>4. NoLostWakeup'
  BY DEF NoLostWakeup, Open, Readable, Backlog, BareTypes
<1>5. \A e \in batch' : e.conn # Listen => conn'[e.conn] = "open" /\ fd'[e.conn] = e.fd
  BY DEF EventsMatchConnections, BareTypes
<1> QED BY <1>1, <1>2, <1>3, <1>4, <1>5, Whole1

LEMMA SendPayloadKeeps == ASSUME TcpInv, NEW c \in Clients, SendPayload(c) PROVE TcpInv'
<1> USE Parts, Names DEF SendPayload, Raise, clients, table, server
<1>1. BareTypes'
  <2>1. wire' = [x \in Clients |-> wire'[x]]
    BY DEF BareTypes
  <2> QED BY <2>1 DEF BareTypes, Open
<1>2. LinkInv' /\ BatchInv'
  BY DEF LinkInv, BatchInv, BareTypes, Open
<1>3. StageInv'
  <2>1. ASSUME NEW d \in Clients, d # c PROVE InStage(d)'
    BY <2>1, SameStage DEF StageInv, BareTypes
  <2>2. InStage(c)'
    <3>1. \/ wire[c] = <<"header">> /\ inbox[c] = <<>> /\ serving # c
          \/ wire[c] = <<>> /\ inbox[c] = <<>> /\ serving = c /\ spc = "payload"
      BY DEF StageInv, InStage, Stage
    <3>2. pc'[c] = "waiting" /\ inbox'[c] = inbox[c] /\ wire'[c] = Append(wire[c], "payload")
      BY DEF BareTypes
    <3>3. \/ wire'[c] = <<"header", "payload">> /\ inbox'[c] = <<>> /\ serving' # c
          \/ wire'[c] = <<"payload">> /\ inbox'[c] = <<>> /\ serving' = c /\ spc' = "payload"
      BY <3>1, <3>2, SmallSequences
    <3> QED BY <3>2, <3>3 DEF InStage, Stage
  <2> QED BY <2>1, <2>2 DEF StageInv
<1>4. NoLostWakeup'
  BY DEF NoLostWakeup, Open, Readable, Backlog, BareTypes
<1>5. \A e \in batch' : e.conn # Listen => conn'[e.conn] = "open" /\ fd'[e.conn] = e.fd
  BY DEF EventsMatchConnections, BareTypes
<1> QED BY <1>1, <1>2, <1>3, <1>4, <1>5, Whole1

LEMMA ReceiveKeeps == ASSUME TcpInv, NEW c \in Clients, Receive(c) PROVE TcpInv'
<1> USE Parts, Names DEF Receive, server, table
<1>1. BareTypes'
  <2>1. inbox' = [x \in Clients |-> inbox'[x]]
    BY DEF BareTypes
  <2> QED BY <2>1 DEF BareTypes, Open
<1>2. LinkInv' /\ BatchInv'
  BY DEF LinkInv, BatchInv, BareTypes, Open
<1>3. StageInv'
  <2>1. ASSUME NEW d \in Clients, d # c PROVE InStage(d)'
    BY <2>1, SameStage DEF StageInv, BareTypes
  <2>2. InStage(c)'
    <3> DEFINE first == Piece(c, "value_follows")
               second == Piece(c, "value")
               status == Piece(c, "status")
    <3>1. /\ wire[c] = <<>> \/ inbox[c] = <<>>
          /\ \/ inbox[c] = <<>> \/ inbox[c] = <<first>>
             \/ inbox[c] = <<first, second>> /\ serving # c
             \/ inbox[c] = <<status>> /\ serving # c
      BY DEF StageInv, InStage, Stage
    <3>2. first[2] = "value_follows" /\ status[2] = "status"
      BY DEF Piece
    <3> DEFINE q == inbox[c]
    <3>3. /\ q # <<>> /\ (Head(q)[2] = "value_follows" => Len(q) > 1)
          /\ inbox'[c] = IF Head(q)[2] = "value_follows" THEN Tail(Tail(q)) ELSE Tail(q)
          /\ pc'[c] = "idle" /\ wire' = wire /\ serving' = serving
      BY DEF Whole, BareTypes
    <3>4. /\ wire[c] = <<>> \/ q = <<>>
          /\ \/ q = <<>> \/ q = <<first>>
             \/ q = <<first, second>> /\ serving # c
             \/ q = <<status>> /\ serving # c
      BY <3>1
    <3> HIDE DEF first, second, status, q
    <3>5. CASE q = <<first>>
      <4>1. Head(q) = first /\ Len(q) = 1
        BY <3>5, SmallSequences
      <4> QED BY <4>1, <3>2, <3>3
    <3>6. CASE q = <<first, second>> /\ serving # c
      <4>1. Head(q) = first /\ Tail(q) = <<second>>
        BY <3>6, SmallSequences
      <4>2. Tail(Tail(q)) = <<>>
        BY <4>1, SmallSequences
      <4> QED BY <4>1, <4>2, <3>2, <3>3, <3>4, <3>6 DEF InStage, Stage
    <3>7. CASE q = <<status>> /\ serving # c
      <4>1. Head(q) = status /\ Tail(q) = <<>>
        BY <3>7, SmallSequences
      <4> QED BY <4>1, <3>2, <3>3, <3>4, <3>7 DEF InStage, Stage
    <3> QED BY <3>3, <3>4, <3>5, <3>6, <3>7
  <2> QED BY <2>1, <2>2 DEF StageInv
<1>4. NoLostWakeup'
  BY DEF NoLostWakeup, Open, Readable, Backlog, BareTypes
<1>5. \A e \in batch' : e.conn # Listen => conn'[e.conn] = "open" /\ fd'[e.conn] = e.fd
  BY DEF EventsMatchConnections, BareTypes
<1> QED BY <1>1, <1>2, <1>3, <1>4, <1>5, Whole1

LEMMA LeaveKeeps ==
  ASSUME TcpInv, NEW c \in Clients, pc[c] \in {"idle", "half", "waiting"}, Leave(c)
  PROVE  TcpInv'
<1> USE Parts, Names DEF Leave, Raise, server, table
<1>1. BareTypes'
  <2>1. inbox' = [x \in Clients |-> inbox'[x]]
    BY DEF BareTypes
  <2> QED BY <2>1 DEF BareTypes, Open
<1>2. LinkInv' /\ BatchInv'
  BY DEF LinkInv, BatchInv, BareTypes, Open
<1>3. StageInv'
  <2>1. ASSUME NEW d \in Clients, d # c PROVE InStage(d)'
    BY <2>1, SameStage DEF StageInv, BareTypes
  <2>2. InStage(c)'
    BY DEF StageInv, InStage, Stage, BareTypes
  <2> QED BY <2>1, <2>2 DEF StageInv
<1>4. NoLostWakeup'
  BY DEF NoLostWakeup, Open, Readable, Backlog, BareTypes
<1>5. \A e \in batch' : e.conn # Listen => conn'[e.conn] = "open" /\ fd'[e.conn] = e.fd
  BY DEF EventsMatchConnections, BareTypes
<1> QED BY <1>1, <1>2, <1>3, <1>4, <1>5, Whole1

LEMMA ClientKeeps == ASSUME TcpInv, NEW c \in Clients, Client(c) PROVE TcpInv'
<1>1. Close(c) \/ Die(c) => pc[c] \in {"idle", "half", "waiting"} /\ Leave(c)
  BY TcpAssumption DEF Close, Die, TcpAssumption
<1> QED BY <1>1, ConnectKeeps, SendHeaderKeeps, SendPayloadKeeps, ReceiveKeeps, LeaveKeeps DEF Client

LEMMA ResetArrivesKeeps == ASSUME TcpInv, NEW c \in Clients, ResetArrives(c) PROVE TcpInv'
<1> USE Parts, Names DEF ResetArrives, Raise, clients, table, server
<1>1. BareTypes'
  BY DEF BareTypes, Open
<1>2. LinkInv' /\ BatchInv'
  BY DEF LinkInv, BatchInv, BareTypes, Open
<1>3. StageInv'
  BY SameStage DEF StageInv
<1>4. NoLostWakeup'
  BY DEF NoLostWakeup, Open, Readable, Backlog, BareTypes
<1>5. \A e \in batch' : e.conn # Listen => conn'[e.conn] = "open" /\ fd'[e.conn] = e.fd
  BY DEF EventsMatchConnections, BareTypes
<1> QED BY <1>1, <1>2, <1>3, <1>4, <1>5, Whole1

-----------------------------------------------------------------------------
(* The server *)

LEMMA EpollWaitKeeps == ASSUME TcpInv, EpollWait PROVE TcpInv'
<1> USE Parts, Names DEF EpollWait, clients, table
<1>1. batch = {} /\ serving = None
  BY DEF BatchInv
<1> DEFINE At(c) == [conn |-> c, fd |-> fd[c], err |-> peer[c] = "reset"]
           Connections == [conn |-> Listen, fd |-> 0, err |-> FALSE]
           Live == {c \in edge \cap Open : Readable(c)}
<1>2. \A e \in batch' :
        \/ e = Connections /\ Listen \in edge /\ Backlog # {}
        \/ \E c \in Live : e = At(c)
  OBVIOUS
<1>3. /\ \A c \in Live : At(c) \in batch'
      /\ Listen \in edge /\ Backlog # {} => Connections \in batch'
  OBVIOUS
<1>a. \A c \in Live : c \in Clients /\ c \in edge /\ conn[c] = "open" /\ Readable(c)
  BY DEF Open
<1>b. \A c : At(c).conn = c /\ At(c).fd = fd[c] /\ (At(c).err <=> peer[c] = "reset")
  OBVIOUS
<1>c. Connections.conn = Listen /\ ~Connections.err
  OBVIOUS
<1>4. BareTypes'
  <2>1. ASSUME NEW c \in Live PROVE At(c) \in [conn : Clients \cup {Listen}, fd : fds \cup {0}, err : BOOLEAN]
    BY <1>a DEF BareTypes
  <2>2. Connections \in [conn : Clients \cup {Listen}, fd : fds \cup {0}, err : BOOLEAN]
    OBVIOUS
  <2>3. batch' \subseteq [conn : Clients \cup {Listen}, fd : fds \cup {0}, err : BOOLEAN]
    <3> HIDE DEF At, Connections, Live
    <3> QED BY <1>2, <2>1, <2>2, Zenon
  <2> QED BY <2>3 DEF BareTypes, Open
<1> HIDE DEF At, Connections, Live
<1>5. LinkInv' /\ BatchInv'
  <2>1. \A e, f \in batch' : e.conn = f.conn => e = f
    BY <1>2, <1>a, <1>b, <1>c
  <2>2. \A e \in batch' : e.err => e.conn # Listen /\ peer'[e.conn] # "up"
    <3>1. ASSUME NEW e \in batch', e.err PROVE e.conn # Listen /\ peer'[e.conn] # "up"
      <4>1. PICK c \in Live : e = At(c)
        BY <1>2, <1>c, <3>1
      <4> QED BY <1>a, <1>b, <3>1, <4>1
    <3> QED BY <3>1
  <2>3. ASSUME NEW c \in Open, peer[c] = "reset" PROVE \E e \in batch' : e.conn = c /\ e.err
    <3>1. c \in edge
      BY <1>1, <2>3 DEF BatchInv
    <3>2. c \in Live
      BY <2>3, <3>1 DEF Live, Readable
    <3> QED BY <2>3, <3>2, <1>3, <1>b
  <2>4. Open' = Open
    BY DEF Open
  <2> QED BY <1>1, <2>1, <2>2, <2>3, <2>4 DEF LinkInv, BatchInv
<1>6. StageInv'
  <2>1. ASSUME NEW d \in Clients PROVE InStage(d)'
    BY <1>1, SameStage DEF StageInv
  <2> QED BY <2>1 DEF StageInv
<1>7. NoLostWakeup'
  <2>1. ASSUME NEW c \in Open, Readable(c), c \in edge PROVE \E e \in batch' : e.conn = c
    BY <2>1, <1>3, <1>b DEF Live
  <2>2. Listen \in edge /\ Backlog # {} => \E e \in batch' : e.conn = Listen
    BY <1>3, <1>c
  <2>3. Open' = Open /\ Backlog' = Backlog /\ \A c : Readable(c)' = Readable(c)
    BY DEF Open, Backlog, Readable
  <2> QED BY <1>1, <2>1, <2>2, <2>3 DEF NoLostWakeup
<1>8. \A e \in batch' : e.conn # Listen => conn'[e.conn] = "open" /\ fd'[e.conn] = e.fd
  BY <1>2, <1>a, <1>b, <1>c
<1> QED BY <1>4, <1>5, <1>6, <1>7, <1>8, Whole1

\* An event leads to the connection it was raised for.
LEMMA OwnerOf ==
  ASSUME TcpInv, NEW e \in batch, e.conn # Listen
  PROVE  e.conn \in Open /\ Owner(e) = e.conn
<1>1. e.conn \in Open /\ fd[e.conn] = e.fd
  BY Parts DEF EventsMatchConnections, BareTypes, Open
<1>2. \A c \in Open : fd[c] = e.fd => c = e.conn
  BY <1>1, Parts DEF BareTypes
<1> QED BY <1>1, <1>2 DEF Owner

LEMMA HandleListenKeeps == ASSUME TcpInv, NEW e \in batch, HandleListen(e) PROVE TcpInv'
<1> USE Parts, Names DEF HandleListen, clients, table
<1>1. BareTypes'
  BY DEF BareTypes, Open
<1>2. LinkInv' /\ BatchInv'
  <2>1. \A c \in Open, f \in batch : f.conn = c => f \in batch'
    BY DEF Open
  <2>2. Open' = Open
    BY DEF Open
  <2> QED BY <2>1, <2>2 DEF LinkInv, BatchInv
<1>3. StageInv'
  <2>1. ASSUME NEW d \in Clients PROVE InStage(d)'
    BY SameStage DEF StageInv, BatchInv
  <2> QED BY <2>1 DEF StageInv
<1>4. NoLostWakeup'
  BY DEF NoLostWakeup, Open, Readable, Backlog, BareTypes
<1>5. \A f \in batch' : f.conn # Listen => conn'[f.conn] = "open" /\ fd'[f.conn] = f.fd
  BY DEF EventsMatchConnections, BareTypes
<1> QED BY <1>1, <1>2, <1>3, <1>4, <1>5, Whole1

\* Closing the connection of an event that has been taken out of the batch.
LEMMA CloseKeeps ==
  ASSUME TcpInv, NEW e \in batch, e.conn # Listen, spc = "batch", peer[e.conn] # "up",
         CloseFd(e.conn), Handled(e), UNCHANGED <<clients, serving, inbox, wire, peer, table>>
  PROVE  TcpInv'
<1> USE Parts, Names DEF CloseFd, Handled, clients, table
<1> DEFINE c == e.conn
<1>1. c \in Open /\ c \in Clients /\ serving = None /\ pc[c] = "closed"
  BY OwnerOf DEF Open, BatchInv, LinkInv
<1>2. batch' = batch \ {e} /\ \A f \in batch' : f.conn # c
  BY DEF BatchInv
<1>3. Open' = Open \ {c} /\ Backlog' = Backlog
  BY <1>1 DEF Open, Backlog, BareTypes
<1>4. spc' \in {"wait", "batch"} /\ (spc' = "wait" => batch' = {})
  OBVIOUS
<1> HIDE DEF c
<1>5. BareTypes'
  <2>1. /\ conn' \in [Clients -> {"none", "backlog", "open", "closed"}]
        /\ fd' \in [Clients -> fds \cup {0}] /\ fd'[c] = 0
        /\ \A d \in Clients \ {c} : fd'[d] = fd[d]
    BY <1>1 DEF BareTypes, c
  <2>2. edge' \subseteq Clients \cup {Listen}
    BY DEF BareTypes
  <2> QED BY <1>1, <1>2, <1>3, <1>4, <2>1, <2>2 DEF BareTypes
<1>6. LinkInv' /\ BatchInv'
  <2>1. \A d \in Open', f \in batch : f.conn = d => f \in batch'
    BY <1>2, <1>3 DEF c
  <2>2. \A d \in Open' : d \in Open /\ (d \in edge => d \in edge')
    BY <1>3 DEF c
  <2>3. \A d \in Open' : peer'[d] = "reset" =>
          \/ d \in edge'
          \/ \E f \in batch' : f.conn = d /\ f.err
    BY <2>1, <2>2 DEF BatchInv
  <2> QED BY <1>1, <1>2, <1>4, <2>3 DEF LinkInv, BatchInv, BareTypes, c
<1>7. StageInv'
  <2>1. ASSUME NEW d \in Clients PROVE InStage(d)'
    BY <1>1, SameStage DEF StageInv
  <2> QED BY <2>1 DEF StageInv
<1>8. NoLostWakeup'
  BY <1>1, <1>2, <1>3 DEF NoLostWakeup, Readable, c
<1>9. \A f \in batch' : f.conn # Listen => conn'[f.conn] = "open" /\ fd'[f.conn] = f.fd
  BY <1>2 DEF EventsMatchConnections, BareTypes, c
<1> QED BY <1>5, <1>6, <1>7, <1>8, <1>9, Whole1

LEMMA HandleErrorKeeps == ASSUME TcpInv, NEW e \in batch, HandleError(e) PROVE TcpInv'
<1>1. e.conn # Listen /\ peer[e.conn] # "up"
  BY Parts DEF HandleError, BatchInv
<1> QED BY <1>1, OwnerOf, CloseKeeps DEF HandleError, clients

LEMMA ReadHeaderKeeps == ASSUME TcpInv, NEW e \in batch, ReadHeader(e) PROVE TcpInv'
<1> USE Parts, Names
<1> DEFINE c == e.conn
<1>1. /\ c \in Open /\ c \in Clients /\ c # Listen /\ Owner(e) = c
      /\ serving = None /\ spc = "batch"
  BY OwnerOf DEF Open, BatchInv, ReadHeader
<1>2. CASE wire[c] = <<>> /\ peer[c] # "up"
  BY <1>1, <1>2, CloseKeeps DEF ReadHeader, clients
<1>3. CASE wire[c] = <<>> /\ peer[c] = "up"
  <2>1. /\ UNCHANGED <<clients, inbox, peer, wire, serving, conn, fd, edge, table>>
        /\ batch' = batch \ {e} /\ spc' \in {"wait", "batch"} /\ (spc' = "wait" => batch' = {})
    BY <1>1, <1>3 DEF ReadHeader, Handled
  <2> USE <2>1 DEF clients, table
  <2>2. BareTypes'
    BY DEF BareTypes, Open
  <2>3. LinkInv' /\ BatchInv'
    <3>1. Open' = Open /\ peer[c] # "reset"
      BY <1>3 DEF Open
    <3> QED BY <1>1, <3>1 DEF LinkInv, BatchInv
  <2>4. StageInv'
    <3>1. ASSUME NEW d \in Clients PROVE InStage(d)'
      BY <1>1, SameStage DEF StageInv
    <3> QED BY <3>1 DEF StageInv
  <2>5. NoLostWakeup'
    <3>1. ~Readable(c)
      BY <1>3 DEF Readable
    <3>2. Open' = Open /\ Backlog' = Backlog /\ \A d : Readable(d)' = Readable(d)
      BY DEF Open, Backlog, Readable
    <3> QED BY <1>1, <3>1, <3>2 DEF NoLostWakeup
  <2>6. \A f \in batch' : f.conn # Listen => conn'[f.conn] = "open" /\ fd'[f.conn] = f.fd
    BY DEF EventsMatchConnections
  <2> QED BY <2>2, <2>3, <2>4, <2>5, <2>6, Whole1
<1>4. CASE wire[c] # <<>>
  <2>1. /\ UNCHANGED <<clients, inbox, peer, conn, fd, edge, table>>
        /\ wire' = [wire EXCEPT ![c] = Tail(@)]
        /\ batch' = batch \ {e} /\ spc' = "payload" /\ serving' = c
    BY <1>1, <1>4 DEF ReadHeader
  <2> USE <2>1 DEF clients, table
  <2>2. BareTypes'
    <3>1. wire' = [x \in Clients |-> wire'[x]]
      BY DEF BareTypes
    <3> QED BY <1>1, <3>1 DEF BareTypes, Open
  <2>3. LinkInv' /\ BatchInv'
    <3>1. Open' = Open /\ ~e.err
      BY DEF Open, ReadHeader
    <3> QED BY <1>1, <3>1 DEF LinkInv, BatchInv
  <2>4. StageInv'
    <3>1. ASSUME NEW d \in Clients, d # c PROVE InStage(d)'
      BY <1>1, <3>1, SameStage DEF StageInv, BareTypes
    <3>2. InStage(c)'
      <4>1. /\ pc[c] \in {"half", "waiting", "closed"} /\ inbox[c] = <<>>
            /\ \/ wire[c] = <<"header">> /\ pc[c] # "waiting"
               \/ wire[c] = <<"header", "payload">> /\ pc[c] # "half"
        BY <1>1, <1>4 DEF StageInv, InStage, Stage, BareTypes
      <4>2. wire'[c] = Tail(wire[c])
        BY <1>1 DEF BareTypes
      <4>3. \/ wire'[c] = <<>> /\ pc[c] # "waiting"
            \/ wire'[c] = <<"payload">> /\ pc[c] # "half"
        <5> DEFINE q == wire[c]
        <5>1. wire'[c] = Tail(q)
          BY <4>2
        <5>2. \/ q = <<"header">> /\ pc[c] # "waiting"
              \/ q = <<"header", "payload">> /\ pc[c] # "half"
          BY <4>1
        <5> HIDE DEF q
        <5>3. CASE q = <<"header">> /\ pc[c] # "waiting"
          BY <5>1, <5>3, SmallSequences
        <5>4. CASE q = <<"header", "payload">> /\ pc[c] # "half"
          BY <5>1, <5>4, SmallSequences
        <5> QED BY <5>2, <5>3, <5>4
      <4> QED BY <4>1, <4>3 DEF InStage, Stage
    <3> QED BY <3>1, <3>2 DEF StageInv
  <2>5. NoLostWakeup'
    <3>1. Open' = Open /\ Backlog' = Backlog /\ \A d \in Clients \ {c} : Readable(d)' = Readable(d)
      BY <1>1 DEF Open, Backlog, Readable, BareTypes
    <3>2. Open \subseteq Clients
      BY DEF Open
    <3> QED BY <1>1, <3>1, <3>2 DEF NoLostWakeup
  <2>6. \A f \in batch' : f.conn # Listen => conn'[f.conn] = "open" /\ fd'[f.conn] = f.fd
    BY DEF EventsMatchConnections
  <2> QED BY <2>2, <2>3, <2>4, <2>5, <2>6, Whole1
<1> QED BY <1>2, <1>3, <1>4

LEMMA AcceptKeeps == ASSUME TcpInv, Accept PROVE TcpInv'
<1> USE Parts, Names
<1>1. spc = "accept" /\ serving = None
  BY DEF Accept, BatchInv
<1>2. CASE AcceptFails
  <2>1. /\ UNCHANGED <<clients, batch, serving, inbox, wire, peer, conn, fd, edge, fds>>
        /\ spc' \in {"wait", "batch"} /\ (spc' = "wait" => batch' = {})
        /\ full' \in BOOLEAN /\ (full' <=> (full \/ Backlog # {}))
    BY <1>2 DEF AcceptFails, BareTypes
  <2> USE <2>1 DEF clients, table
  <2>2. BareTypes'
    BY DEF BareTypes, Open
  <2>3. LinkInv' /\ BatchInv'
    BY <1>1 DEF LinkInv, BatchInv, BareTypes, Open
  <2>4. StageInv'
    <3>1. ASSUME NEW d \in Clients PROVE InStage(d)'
      BY <1>1, SameStage DEF StageInv
    <3> QED BY <3>1 DEF StageInv
  <2>5. NoLostWakeup'
    BY <1>1 DEF NoLostWakeup, Open, Backlog, Readable
  <2>6. \A f \in batch' : f.conn # Listen => conn'[f.conn] = "open" /\ fd'[f.conn] = f.fd
    BY DEF EventsMatchConnections
  <2> QED BY <2>2, <2>3, <2>4, <2>5, <2>6, Whole1
<1>3. ASSUME FreeFds # {}, NEW c \in Backlog, spc' = spc, Register(c) PROVE TcpInv'
  <2> USE <1>1, <1>3 DEF Register, clients, table
  <2> DEFINE n == Min(FreeFds)
  <2>a. n \in fds /\ n # 0 /\ \A d \in Open : fd[d] # n
    BY FreshFd
  <2> HIDE DEF n
  <2>1. /\ c \in Clients /\ conn[c] = "backlog" /\ n \in fds /\ n # 0
        /\ \A d \in Open : fd[d] # n
    BY <2>a DEF Backlog
  <2>2. Open' = Open \cup {c} /\ Backlog' = Backlog \ {c} /\ c \notin Open /\ Open \subseteq Clients
    BY <2>1 DEF Open, Backlog, BareTypes
  <2>3. BareTypes'
    <3>1. /\ conn' \in [Clients -> {"none", "backlog", "open", "closed"}]
          /\ fd' \in [Clients -> fds \cup {0}] /\ fd'[c] = n
          /\ \A d \in Clients \ {c} : fd'[d] = fd[d]
      BY <2>1 DEF BareTypes, n
    <3>2. edge' \subseteq Clients \cup {Listen}
      BY <2>1 DEF BareTypes
    <3>3. n # 0 /\ \A d \in Open : fd[d] # n
      BY <2>1 DEF n
    <3> QED BY <2>1, <2>2, <3>1, <3>2, <3>3 DEF BareTypes
  <2>4. LinkInv' /\ BatchInv'
    <3>1. LinkInv'
      BY <2>1 DEF LinkInv, BareTypes
    <3>2. \A d \in Open' : peer'[d] = "reset" =>
            \/ d \in edge'
            \/ \E e \in batch' : e.conn = d /\ e.err
      BY <2>2 DEF BatchInv, Readable
    <3> QED BY <3>1, <3>2 DEF BatchInv
  <2>5. StageInv'
    <3>1. ASSUME NEW d \in Clients PROVE InStage(d)'
      BY SameStage DEF StageInv
    <3> QED BY <3>1 DEF StageInv
  <2>6. NoLostWakeup'
    <3>1. \A d : Readable(d)' = Readable(d)
      BY DEF Readable
    <3> QED BY <2>2, <3>1 DEF NoLostWakeup
  <2>7. \A f \in batch' : f.conn # Listen => conn'[f.conn] = "open" /\ fd'[f.conn] = f.fd
    BY <2>1 DEF EventsMatchConnections, BareTypes
  <2> QED BY <2>3, <2>4, <2>5, <2>6, <2>7, Whole1
<1> QED BY <1>2, <1>3 DEF Accept

\* What the server sends reaches a client that is there and nobody else.
LEMMA ArrivesKeeps ==
  ASSUME TcpInv, NEW c \in Open, NEW pieces, Arrives(c, pieces)
  PROVE  /\ peer' \in [Clients -> {"up", "fin", "rst_due", "reset"}]
         /\ inbox' = [d \in Clients |-> inbox'[d]]
         /\ \A d \in Clients \ {c} : peer'[d] = peer[d] /\ inbox'[d] = inbox[d]
         /\ \A d \in Clients : peer[d] = "up" <=> peer'[d] = "up"
         /\ pc[c] # "closed" => inbox'[c] = inbox[c] \o pieces
         /\ pc[c] = "closed" => inbox'[c] = inbox[c]
         /\ peer'[c] \in {"up", "rst_due"}
<1> c \in Clients
  BY DEF Open
<1> QED BY Parts DEF Arrives, BareTypes, LinkInv

\* The server is done with a request.
LEMMA DoneKeeps ==
  ASSUME TcpInv, NEW c, serving = c, spc \in {"payload", "value"}, Done,
         UNCHANGED <<clients, batch, conn, fd, edge, table>>,
         peer' \in [Clients -> {"up", "fin", "rst_due", "reset"}],
         wire' = [d \in Clients |-> wire'[d]], inbox' = [d \in Clients |-> inbox'[d]],
         \A d \in Clients \ {c} :
           wire'[d] = wire[d] /\ peer'[d] = peer[d] /\ inbox'[d] = inbox[d],
         wire'[c] = <<>>, peer[c] = "up" <=> peer'[c] = "up",
         peer'[c] # "fin", peer'[c] = "reset" => peer[c] = "reset",
         InStage(c)'
  PROVE  TcpInv'
<1> USE Parts, Names DEF Done, clients, table
<1>1. c \in Open /\ c \in Clients
  BY DEF BatchInv, Open
<1>2. spc' \in {"wait", "batch"} /\ (spc' = "wait" => batch' = {}) /\ serving' = None
  OBVIOUS
<1>3. BareTypes'
  BY <1>2 DEF BareTypes, Open
<1>4. LinkInv'
  BY <1>1 DEF LinkInv
<1>5. BatchInv'
  <2>1. \A e \in batch' : e.err => e.conn # Listen /\ peer'[e.conn] # "up"
    BY <1>1 DEF BatchInv, BareTypes
  <2>2. \A d \in Clients : peer'[d] = "reset" => peer[d] = "reset"
    BY <1>1
  <2>3. Open' = Open /\ Open \subseteq Clients
    BY DEF Open
  <2> QED BY <1>2, <2>1, <2>2, <2>3 DEF BatchInv
<1>6. StageInv'
  <2>1. ASSUME NEW d \in Clients, d # c PROVE InStage(d)'
    BY <1>2, <2>1, SameStage DEF StageInv
  <2> QED BY <2>1 DEF StageInv
<1>7. NoLostWakeup'
  <2>1. \A d \in Open \ {c} : Readable(d)' = Readable(d)
    BY <1>1 DEF Readable, Open
  <2>2. Readable(c)' =>
          \/ peer'[c] = "rst_due"
          \/ peer'[c] = "reset" /\ peer[c] = "reset"
    BY <1>1 DEF Readable
  <2>3. Open' = Open /\ Backlog' = Backlog
    BY DEF Open, Backlog
  <2>4. ASSUME NEW d \in Open, Readable(d)'
        PROVE  d \in edge \/ peer'[d] = "rst_due" \/ \E e \in batch : e.conn = d
    <3>1. CASE d = c
      BY <2>2, <2>4, <3>1 DEF BatchInv
    <3>2. CASE d # c
      BY <2>1, <2>4, <3>2 DEF NoLostWakeup, Open
    <3> QED BY <3>1, <3>2
  <2>5. Backlog # {} => Listen \in edge \/ (\E e \in batch : e.conn = Listen) \/ full
    BY DEF NoLostWakeup
  <2> QED BY <2>3, <2>4, <2>5 DEF NoLostWakeup
<1>8. \A f \in batch' : f.conn # Listen => conn'[f.conn] = "open" /\ fd'[f.conn] = f.fd
  BY DEF EventsMatchConnections
<1> QED BY <1>3, <1>4, <1>5, <1>6, <1>7, <1>8, Whole1

LEMMA AnswerKeeps == ASSUME TcpInv, Answer PROVE TcpInv'
<1> USE Parts, Names
<1> DEFINE c == serving
<1>1. c \in Open /\ c \in Clients /\ spc = "payload"
  BY DEF Answer, BatchInv, Open
<1>2. /\ wire[c] = <<"payload">> /\ inbox[c] = <<>>
      /\ pc[c] = "waiting" \/ pc[c] = "closed"
  BY <1>1 DEF Answer, StageInv, InStage, Stage, BareTypes
<1>3. wire' = [wire EXCEPT ![c] = Tail(wire[c])] /\ UNCHANGED <<clients, batch, conn, fd, edge, table>>
  BY DEF Answer
<1>4. Tail(wire[c]) = <<>>
  <2> DEFINE q == wire[c]
  <2>1. q = <<"payload">>
    BY <1>2
  <2> HIDE DEF q
  <2>2. Tail(q) = <<>>
    BY <2>1, SmallSequences
  <2> QED BY <2>2 DEF q
<1>5. /\ wire' = [d \in Clients |-> wire'[d]] /\ wire'[c] = <<>>
      /\ \A d \in Clients \ {c} : wire'[d] = wire[d]
  BY <1>1, <1>3, <1>4 DEF BareTypes
<1>6. ASSUME Arrives(c, << <<sent[c], "value_follows">> >>), spc' = "value", serving' = c PROVE TcpInv'
  <2>1. /\ peer' \in [Clients -> {"up", "fin", "rst_due", "reset"}]
        /\ inbox' = [d \in Clients |-> inbox'[d]]
        /\ \A d \in Clients \ {c} : peer'[d] = peer[d] /\ inbox'[d] = inbox[d]
        /\ \A d \in Clients : peer[d] = "up" <=> peer'[d] = "up"
        /\ pc[c] # "closed" => inbox'[c] = inbox[c] \o <<Piece(c, "value_follows")>>
        /\ pc[c] = "closed" => inbox'[c] = inbox[c]
        /\ peer'[c] \in {"up", "rst_due"}
    BY <1>1, <1>6, ArrivesKeeps DEF Piece
  <2> USE <1>3, <1>6 DEF clients, table
  <2>2. BareTypes'
    BY <1>5, <2>1 DEF BareTypes, Open
  <2>3. LinkInv'
    BY <2>1 DEF LinkInv
  <2>4. BatchInv'
    <3>1. Open' = Open /\ Open \subseteq Clients
      BY DEF Open
    <3>2. \A d \in Clients : peer'[d] = "reset" => peer[d] = "reset"
      BY <2>1
    <3>3. \A e \in batch' : e.err => e.conn # Listen /\ peer'[e.conn] # "up"
      BY <2>1 DEF BatchInv, BareTypes
    <3> QED BY <1>1, <3>1, <3>2, <3>3 DEF BatchInv
  <2>5. StageInv'
    <3>1. ASSUME NEW d \in Clients, d # c PROVE InStage(d)'
      BY <1>5, <2>1, <3>1, SameStage DEF StageInv
    <3>2. <<>> \o <<Piece(c, "value_follows")>> = <<Piece(c, "value_follows")>>
      BY SmallSequences
    <3>3. ASSUME NEW d \in Clients, d = c PROVE InStage(d)'
      <4>1. /\ wire'[d] = <<>> /\ serving' = d /\ spc' = "value"
            /\ \/ pc'[d] = "waiting" /\ inbox'[d] = <<Piece(d, "value_follows")>>
               \/ pc'[d] = "closed" /\ inbox'[d] = <<>>
        BY <1>2, <1>5, <2>1, <3>2, <3>3
      <4> QED BY <4>1 DEF InStage, Stage, Piece
    <3> QED BY <3>1, <3>3 DEF StageInv
  <2>6. NoLostWakeup'
    <3>1. \A d \in Open \ {c} : Readable(d)' = Readable(d)
      BY <1>5, <2>1 DEF Readable, Open
    <3>2. Open' = Open /\ Backlog' = Backlog
      BY DEF Open, Backlog
    <3> QED BY <1>1, <2>1, <3>1, <3>2 DEF NoLostWakeup, Open
  <2>7. \A f \in batch' : f.conn # Listen => conn'[f.conn] = "open" /\ fd'[f.conn] = f.fd
    BY DEF EventsMatchConnections
  <2> QED BY <2>2, <2>3, <2>4, <2>5, <2>6, <2>7, Whole1
<1>7. ASSUME Arrives(c, << <<sent[c], "status">> >>), Done PROVE TcpInv'
  <2>1. /\ peer' \in [Clients -> {"up", "fin", "rst_due", "reset"}]
        /\ inbox' = [d \in Clients |-> inbox'[d]]
        /\ \A d \in Clients \ {c} : peer'[d] = peer[d] /\ inbox'[d] = inbox[d]
        /\ \A d \in Clients : peer[d] = "up" <=> peer'[d] = "up"
        /\ pc[c] # "closed" => inbox'[c] = inbox[c] \o <<Piece(c, "status")>>
        /\ pc[c] = "closed" => inbox'[c] = inbox[c]
        /\ peer'[c] \in {"up", "rst_due"}
    BY <1>1, <1>7, ArrivesKeeps DEF Piece
  <2>2. <<>> \o <<Piece(c, "status")>> = <<Piece(c, "status")>>
    BY SmallSequences
  <2>3. ASSUME NEW d, d = c PROVE TcpInv'
    <3>1. /\ wire'[d] = <<>> /\ serving' # d
          /\ \/ pc'[d] = "waiting" /\ inbox'[d] = <<Piece(d, "status")>>
             \/ pc'[d] = "closed" /\ inbox'[d] = <<>>
      BY <1>1, <1>2, <1>3, <1>5, <1>7, <2>1, <2>2, <2>3 DEF Done, clients
    <3>2. InStage(d)'
      BY <1>3, <3>1 DEF InStage, Stage, Piece, clients
    <3> QED BY <1>1, <1>3, <1>5, <1>7, <2>1, <2>3, <3>2, DoneKeeps
  <2> QED BY <2>3
<1> QED BY <1>6, <1>7 DEF Answer

LEMMA SendValueKeeps == ASSUME TcpInv, SendValue PROVE TcpInv'
<1> USE Parts, Names
<1> DEFINE c == serving
<1>1. /\ c \in Open /\ c \in Clients /\ spc = "value"
      /\ UNCHANGED <<clients, db, call, batch, wire, conn, fd, edge, table>>
  BY DEF SendValue, BatchInv, Open
<1>2. /\ wire[c] = <<>>
      /\ \/ pc[c] = "waiting" /\ inbox[c] = <<Piece(c, "value_follows")>>
         \/ pc[c] = "closed" /\ inbox[c] = <<>>
  BY <1>1 DEF StageInv, InStage, Stage, BareTypes
<1>3. CASE UNCHANGED <<inbox, peer>> /\ spc' = "gone" /\ serving' = serving /\ peer[c] = "reset"
  <2> USE <1>1, <1>3 DEF clients, table
  <2>1. BareTypes' /\ LinkInv'
    BY DEF BareTypes, LinkInv, Open
  <2>2. BatchInv' /\ NoLostWakeup'
    BY DEF BatchInv, NoLostWakeup, Open
  <2>3. StageInv'
    <3>1. ASSUME NEW d \in Clients, d # c PROVE InStage(d)'
      BY <3>1, SameStage DEF StageInv
    <3>2. pc[c] = "closed"
      BY DEF LinkInv
    <3>3. ASSUME NEW d \in Clients, d = c PROVE InStage(d)'
      BY <1>2, <3>2, <3>3 DEF InStage, Stage
    <3> QED BY <3>1, <3>3 DEF StageInv
  <2>4. \A f \in batch' : f.conn # Listen => conn'[f.conn] = "open" /\ fd'[f.conn] = f.fd
    BY DEF EventsMatchConnections
  <2> QED BY <2>1, <2>2, <2>3, <2>4, Whole1
<1>4. CASE UNCHANGED <<inbox, peer>> /\ Done /\ peer[c] = "reset"
  <2>1. ASSUME NEW d, d = c PROVE TcpInv'
    <3>1. pc'[d] = "closed" /\ wire'[d] = <<>> /\ inbox'[d] = <<>> /\ serving' # d
      BY <1>1, <1>2, <1>4, <2>1 DEF LinkInv, Done, clients
    <3>2. InStage(d)'
      BY <3>1 DEF InStage, Stage
    <3>3. /\ wire' = [x \in Clients |-> wire'[x]] /\ inbox' = [x \in Clients |-> inbox'[x]]
          /\ peer' \in [Clients -> {"up", "fin", "rst_due", "reset"}]
      BY <1>1, <1>4 DEF BareTypes
    <3> QED BY <1>1, <1>4, <2>1, <3>1, <3>2, <3>3, DoneKeeps
  <2> QED BY <2>1
<1>5. CASE Arrives(c, << <<sent[c], "value">> >>) /\ Done
  <2>1. /\ peer' \in [Clients -> {"up", "fin", "rst_due", "reset"}]
        /\ inbox' = [d \in Clients |-> inbox'[d]]
        /\ \A d \in Clients \ {c} : peer'[d] = peer[d] /\ inbox'[d] = inbox[d]
        /\ \A d \in Clients : peer[d] = "up" <=> peer'[d] = "up"
        /\ pc[c] # "closed" => inbox'[c] = inbox[c] \o <<Piece(c, "value")>>
        /\ pc[c] = "closed" => inbox'[c] = inbox[c]
        /\ peer'[c] \in {"up", "rst_due"}
    BY <1>1, <1>5, ArrivesKeeps DEF Piece
  <2>2. <<Piece(c, "value_follows")>> \o <<Piece(c, "value")>> = <<Piece(c, "value_follows"), Piece(c, "value")>>
    BY SmallSequences
  <2>3. ASSUME NEW d, d = c PROVE TcpInv'
    <3>1. /\ wire'[d] = <<>> /\ serving' # d
          /\ \/ pc'[d] = "waiting" /\ inbox'[d] = <<Piece(d, "value_follows"), Piece(d, "value")>>
             \/ pc'[d] = "closed" /\ inbox'[d] = <<>>
      BY <1>1, <1>2, <1>5, <2>1, <2>2, <2>3 DEF Done, clients
    <3>2. InStage(d)'
      BY <1>1, <3>1 DEF InStage, Stage, Piece, clients
    <3>3. wire' = [x \in Clients |-> wire'[x]]
      BY <1>1 DEF BareTypes
    <3> QED BY <1>1, <1>2, <1>5, <2>1, <2>3, <3>2, <3>3, DoneKeeps
  <2> QED BY <2>3
<1> QED BY <1>3, <1>4, <1>5 DEF SendValue

LEMMA StutterKeeps == ASSUME TcpInv, UNCHANGED vars PROVE TcpInv'
<1> USE Parts DEF vars, clients, server, table
<1>1. BareTypes' /\ LinkInv' /\ BatchInv' /\ NoLostWakeup'
  BY DEF BareTypes, LinkInv, BatchInv, NoLostWakeup, Open, Backlog, Readable
<1>2. StageInv'
  BY SameStage DEF StageInv
<1>3. \A f \in batch' : f.conn # Listen => conn'[f.conn] = "open" /\ fd'[f.conn] = f.fd
  BY DEF EventsMatchConnections
<1> QED BY <1>1, <1>2, <1>3, Whole1

LEMMA InitTcp == TcpInit => TcpInv
<1> SUFFICES ASSUME TcpInit PROVE TcpInv
  OBVIOUS
<1> USE Names DEF TcpInit
<1>1. BareTypes
  <2>1. fds \in {1 .. limit : limit \in FdLimits} /\ full \in BOOLEAN
    OBVIOUS
  <2>2. Open = {} /\ batch = {} /\ edge = {}
    BY DEF Open
  <2> QED BY <2>1, <2>2 DEF BareTypes
<1>2. LinkInv /\ BatchInv /\ NoLostWakeup
  BY DEF LinkInv, BatchInv, NoLostWakeup, Open, Backlog
<1>3. StageInv
  BY DEF StageInv, InStage, Stage
<1> QED BY <1>1, <1>2, <1>3, BareIsEnough DEF TcpInv, EventsMatchConnections

-----------------------------------------------------------------------------
(* Theorems *)

\* The inductive invariant: where every request is and which wake-ups are due.
THEOREM TcpInvariance == TcpSpec => []TcpInv
<1>1. TcpInv /\ [TcpNext]_vars => TcpInv'
  <2> SUFFICES ASSUME TcpInv, [TcpNext]_vars PROVE TcpInv'
    OBVIOUS
  <2>1. CASE Server
    BY <2>1, EpollWaitKeeps, AcceptKeeps, AnswerKeeps, SendValueKeeps, HandleErrorKeeps,
       HandleListenKeeps, ReadHeaderKeeps DEF Server
  <2>2. CASE \E c \in Clients : Client(c) \/ ResetArrives(c)
    BY <2>2, ClientKeeps, ResetArrivesKeeps
  <2>3. CASE UNCHANGED vars
    BY <2>3, StutterKeeps
  <2> QED BY <2>1, <2>2, <2>3 DEF TcpNext
<1> QED BY <1>1, InitTcp, PTL DEF TcpSpec

\* An edge-triggered event is reported once: no input, end of file, reset or
\* waiting connection is ever left without an edge, an event or a handler.
THEOREM WakeupsAreKept == TcpSpec => []NoLostWakeup
<1>1. TcpInv => NoLostWakeup
  BY DEF TcpInv
<1> QED BY <1>1, TcpInvariance, PTL

\* A reported event is handled on the connection it was raised for, though
\* descriptors are used again; and the types hold.
THEOREM EventsFindConnections == TcpSpec => []EventsMatchConnections
<1>1. TcpInv => EventsMatchConnections
  BY DEF TcpInv
<1> QED BY <1>1, TcpInvariance, PTL

\* At most one answer is on its way to a client, the one to its latest request.
THEOREM AnsweredOnce == TcpSpec => []OneAnswerPerRequest
<1>1. TcpInv => OneAnswerPerRequest
  BY Parts, BareIsEnough
<1> QED BY <1>1, TcpInvariance, PTL

\* Only Answer touches the store, with a request that some client has made.
LEMMA TcpStoreStep == TcpInv /\ [TcpNext]_vars => [StoreNext]_<<db, call>>
<1> SUFFICES ASSUME TcpInv, [TcpNext]_vars PROVE [StoreNext]_<<db, call>>
  OBVIOUS
<1>1. CASE Answer
  <2> DEFINE q == request[serving]
  <2>1. serving \in Clients /\ Execute(q)
    BY <1>1, Parts DEF Answer, BatchInv, Open
  <2>2. q \in Requests \cup {NoRequest}
    BY <2>1, Parts DEF BareTypes
  <2> HIDE DEF q
  <2>3. q.op \in {"SET", "GET", "DEL"}
    BY <2>1 DEF Execute
  <2>4. q # NoRequest
    BY <2>3 DEF NoRequest, None
  <2>5. q.key \in Keys /\ q.value \in Values
    BY <2>2, <2>4, TcpAssumption DEF TcpAssumption
  <2> QED BY <2>1, <2>5 DEF Execute, StoreNext
<1>2. CASE EpollWait \/ Accept \/ SendValue \/ \E e \in batch : HandleError(e) \/ HandleListen(e) \/ ReadHeader(e)
  BY <1>2 DEF EpollWait, Accept, AcceptFails, Register, SendValue, HandleError, HandleListen, ReadHeader
<1>3. CASE \E c \in Clients : Client(c) \/ ResetArrives(c)
  BY <1>3 DEF Client, Connect, SendHeader, SendPayload, Receive, Close, Die, Leave, ResetArrives, server
<1>4. CASE UNCHANGED vars
  BY <1>4 DEF vars, server
<1> QED BY <1>1, <1>2, <1>3, <1>4 DEF TcpNext, Server

\* Whatever clients send, break off and repeat, the store behind the service is
\* the map of kv_store.h, answers included.
THEOREM TcpImplementsMap == TcpSpec => MapSpec
<1>1. TcpSpec => StoreSpec
  <2>1. TcpInit => kv_store_init
    BY DEF TcpInit
  <2> QED BY <2>1, TcpInvariance, TcpStoreStep, PTL DEF TcpSpec, StoreSpec
<1> QED BY <1>1, StoreImplementsMap
=============================================================================
