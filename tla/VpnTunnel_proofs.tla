-------------------------- MODULE VpnTunnel_proofs --------------------------
(***************************************************************************)
(* Proofs about VpnTunnel, for every setting of the intervals, the bounds, *)
(* the faults and the packets.  VpnInv is inductive: its typing, loop,     *)
(* clock and wire parts are preserved by each action in a theorem of their *)
(* own, and the three properties follow from it.  With AliveAssumption and *)
(* as long as both ends run, AliveInv is inductive too: nobody is declared *)
(* dead.                                                                   *)
(***************************************************************************)
EXTENDS VpnTunnel, TLAPS

\* The other end of a tunnel with two ends.
LEMMA OtherPeer ==
  \A p \in Peers : Other(p) \in Peers /\ Other(p) # p /\ Other(Other(p)) = p
<1> TAKE p \in Peers
<1>1. PICK a, b \in Peers : a # b /\ Peers = {a, b}
  BY PeersAssumption
<1>2. \A q \in Peers : \E r \in Peers : r # q
  BY <1>1
<1>3. \A q \in Peers : Other(q) \in Peers /\ Other(q) # q
  BY <1>2 DEF Other
<1> QED BY <1>1, <1>3

\* The elements of a sequence one was appended to, or taken from.
LEMMA AppendElements ==
  ASSUME NEW S, NEW s \in Seq(S), NEW e \in S
  PROVE  /\ Append(s, e) \in Seq(S) /\ Append(s, e) # <<>>
         /\ Range(Append(s, e)) \subseteq Range(s) \cup {e}
<1>1. Append(s, e) \in Seq(S) /\ Len(Append(s, e)) = Len(s) + 1
  OBVIOUS
<1>2. \A k \in 1 .. Len(s) + 1 : Append(s, e)[k] = IF k = Len(s) + 1 THEN e ELSE s[k]
  OBVIOUS
<1>3. DOMAIN Append(s, e) = 1 .. Len(s) + 1 /\ DOMAIN s = 1 .. Len(s) /\ Len(s) \in Nat
  BY <1>1
<1>4. Append(s, e) # <<>>
  BY <1>1, <1>3
<1>5. ASSUME NEW k \in DOMAIN Append(s, e), Append(s, e)[k] # e
      PROVE  Append(s, e)[k] \in Range(s)
  <2>1. k \in DOMAIN s
    BY <1>2, <1>3, <1>5
  <2> QED BY <1>2, <1>3, <1>5, <2>1 DEF Range
<1> QED BY <1>1, <1>4, <1>5 DEF Range

LEMMA TailElements ==
  ASSUME NEW S, NEW s \in Seq(S), s # <<>>
  PROVE  /\ Head(s) \in S /\ Tail(s) \in Seq(S)
         /\ Head(s) \in Range(s) /\ Range(Tail(s)) \subseteq Range(s)
<1>1. /\ Head(s) \in S /\ Tail(s) \in Seq(S) /\ Len(Tail(s)) = Len(s) - 1
      /\ Len(s) \in Nat /\ Len(s) > 0 /\ Head(s) = s[1]
  OBVIOUS
<1>2. \A k \in 1 .. Len(s) - 1 : Tail(s)[k] = s[k + 1]
  OBVIOUS
<1>3. DOMAIN Tail(s) = 1 .. Len(s) - 1 /\ DOMAIN s = 1 .. Len(s)
  BY <1>1
<1>4. \A k \in DOMAIN Tail(s) : k + 1 \in DOMAIN s /\ Tail(s)[k] = s[k + 1]
  BY <1>1, <1>2, <1>3
<1>5. 1 \in DOMAIN s
  BY <1>1, <1>3
<1> QED BY <1>1, <1>4, <1>5 DEF Range

LEMMA SwapElements ==
  ASSUME NEW S, NEW s \in Seq(S), NEW k \in 1 .. Len(s) - 1
  PROVE  LET t == [s EXCEPT ![k] = s[k + 1], ![k + 1] = s[k]]
         IN  t \in Seq(S) /\ Range(t) \subseteq Range(s)
<1> DEFINE t == [s EXCEPT ![k] = s[k + 1], ![k + 1] = s[k]]
<1>1. Len(s) \in Nat /\ DOMAIN s = 1 .. Len(s) /\ k \in DOMAIN s /\ k + 1 \in DOMAIN s
  OBVIOUS
<1>2. \A j \in 1 .. Len(s) : s[j] \in S
  OBVIOUS
<1>3. t \in [1 .. Len(s) -> S]
  BY <1>1, <1>2
<1>4. DOMAIN t = 1 .. Len(s) /\ \A j \in DOMAIN t : t[j] \in {s[i] : i \in DOMAIN s}
  BY <1>1
<1>5. t \in Seq(S)
  BY <1>1, <1>3
<1> QED BY <1>4, <1>5 DEF Range

\* The datagrams the program and send_test make.
LEMMA DatagramTypes ==
  /\ Keepalive \in Datagram /\ \A token \in BOOLEAN : TestMessage(token) \in Datagram
  /\ \A d \in Packets : xor_crypt(Data(d)) \in Datagram
BY DEF Keepalive, TestMessage, Texts, Data, xor_crypt, Datagram, None

\* The bounds of the ages, from the assumptions on the constants.
LEMMA Caps ==
  NowCap \in Nat /\ NowCap > 0 /\ SentCap \in Nat /\ ReceivedCap \in Nat /\ HeardCap \in Nat
BY VpnAssumption DEF NowCap, SentCap, ReceivedCap, HeardCap, Round

\* What a packet with the token does to the clock of the peer that hears it.
LEMMA HeardClock ==
  ASSUME TypeOK, NEW p \in Peers, Heard(p)
  PROVE  /\ received' \in [Peers -> 0 .. ReceivedCap]
         /\ \A q \in Peers : q # p => received'[q] = received[q]
         /\ now[p] <= Round => received'[p] <= PeerTimeout + now[p]
         /\ peer_alive' = [peer_alive EXCEPT ![p] = TRUE]
<1>1. PICK age \in HeardAt(p) : received' = [received EXCEPT ![p] = age]
  BY DEF Heard
<1>2. now[p] \in 0 .. NowCap /\ received \in [Peers -> 0 .. ReceivedCap]
  BY DEF TypeOK
<1>3. age \in 0 .. ReceivedCap /\ (now[p] <= Round => age <= PeerTimeout + now[p])
  BY <1>2, VpnAssumption DEF HeardAt, NowCap, ReceivedCap, Round
<1> QED BY <1>1, <1>2, <1>3 DEF Heard

THEOREM InitVpnInv == Init => VpnInv
<1> SUFFICES ASSUME Init PROVE VpnInv
  OBVIOUS
<1> USE VpnAssumption, Caps DEF Init
<1>1. TypeOK
  BY DEF TypeOK
<1>2. LoopInv
  BY DEF LoopInv
<1>3. ClockInv
  BY DEF ClockInv, Round
<1>4. NotedInv
  BY DEF NotedInv
<1>5. WireInv
  <2>1. Range(<<>>) = {}
    BY DEF Range
  <2> QED BY <2>1 DEF WireInv
<1> QED BY <1>1, <1>2, <1>3, <1>4, <1>5 DEF VpnInv

LEMMA StepStays == [Next]_vars => UNCHANGED step
BY DEF Next, Tick, Peer, Select, ReadClock, ForwardTun, ReceiveUnauthorized, ReceiveKeepalive,
       ReceiveData, Arrive, Environment, HostSends, Lose, Overtake, Duplicate, SendTest,
       DropBadChecksum, ReceiveFails, Crash, Restart, vars, loopVars


\* Every step keeps the types.
THEOREM TypeStep == VpnInv /\ [Next]_vars => TypeOK'
<1> SUFFICES ASSUME VpnInv, [Next]_vars PROVE TypeOK'
  OBVIOUS
<1> USE VpnAssumption, Caps
<1>1. CASE Tick
  <2> USE <1>1 DEF VpnInv, TypeOK
  <2>1. now' \in [Peers -> 0 .. NowCap]
    BY DEF Tick, Older
  <2>2. sent' \in [Peers -> 0 .. SentCap]
    BY DEF Tick, Older
  <2>3. received' \in [Peers -> 0 .. ReceivedCap]
    BY DEF Tick, Older
  <2>4. heard' \in [Peers -> 0 .. HeardCap]
    BY DEF Tick, Older
  <2> QED BY <2>1, <2>2, <2>3, <2>4 DEF Tick, Older, Send, loopVars, clockVars, tunVars, netVars
<1>2. ASSUME NEW p \in Peers, Select(p) PROVE TypeOK'
  <2> USE <1>2 DEF VpnInv, TypeOK
  <2>1. ready' \in [Peers -> SUBSET {"tun", "udp"}]
    BY DEF Select, At
  <2>2. pc' \in [Peers -> {"select", "clock", "tun", "udp"}]
    BY DEF Select, At
  <2> QED BY <2>1, <2>2 DEF Select, At, Send, loopVars, clockVars, tunVars, netVars
<1>3. ASSUME NEW p \in Peers, ReadClock(p) PROVE TypeOK'
  <2> USE <1>3 DEF VpnInv, TypeOK
  <2>1. ready' \in [Peers -> SUBSET {"tun", "udp"}]
    BY DEF ReadClock, At, Serve, KeepaliveDue, CheckTimeout
  <2>2. pc' \in [Peers -> {"select", "clock", "tun", "udp"}]
    BY DEF ReadClock, At, Serve, KeepaliveDue, CheckTimeout
  <2>3. now' \in [Peers -> 0 .. NowCap]
    BY DEF ReadClock, At, Serve, KeepaliveDue, CheckTimeout
  <2>4. sent' \in [Peers -> 0 .. SentCap]
    <3>1. sent' = sent \/ sent' = [sent EXCEPT ![p] = 0]
      BY DEF ReadClock
    <3>2. 0 \in 0 .. SentCap
      OBVIOUS
    <3> HIDE DEF TypeOK, VpnInv
    <3>3. sent \in [Peers -> 0 .. SentCap]
      BY DEF VpnInv, TypeOK
    <3> QED BY ONLY <3>1, <3>2, <3>3
  <2>5. net' \in [Peers -> Seq(Datagram)]
    <3>1. CASE UNCHANGED net
      BY <3>1
    <3>2. CASE Send(p, Keepalive)
      <4>1. Append(net[Other(p)], Keepalive) \in Seq(Datagram)
        BY DatagramTypes, OtherPeer, AppendElements
      <4> QED BY <3>2, <4>1, OtherPeer DEF Send
    <3> QED BY <3>1, <3>2 DEF ReadClock
  <2>6. peer_alive' \in [Peers -> BOOLEAN]
    BY DEF ReadClock, At, Serve, KeepaliveDue, CheckTimeout
  <2> QED BY <2>1, <2>2, <2>3, <2>4, <2>5, <2>6 DEF ReadClock, At, Serve, KeepaliveDue, CheckTimeout, Send, loopVars, clockVars, tunVars, netVars
<1>4. ASSUME NEW p \in Peers, ForwardTun(p) PROVE TypeOK'
  <2> USE <1>4 DEF VpnInv, TypeOK
  <2>1. ready' \in [Peers -> SUBSET {"tun", "udp"}]
    BY DEF ForwardTun, At, Serve
  <2>2. pc' \in [Peers -> {"select", "clock", "tun", "udp"}]
    BY DEF ForwardTun, At, Serve
  <2>3. net' \in [Peers -> Seq(Datagram)]
    <3> DEFINE m == xor_crypt(Data(Head(tun_in[p])))
    <3>1. tun_in[p] # <<>>
      BY DEF ForwardTun, At, LoopInv
    <3>2. m \in Datagram
      BY <3>1, DatagramTypes, TailElements
    <3> HIDE DEF m
    <3>3. Append(net[Other(p)], m) \in Seq(Datagram)
      BY <3>2, OtherPeer, AppendElements
    <3>4. Send(p, m)
      BY DEF ForwardTun, m
    <3> QED BY <3>3, <3>4, OtherPeer DEF Send
  <2>4. tun_in' \in [Peers -> Seq(Packets)]
    BY DatagramTypes, OtherPeer, AppendElements, TailElements DEF ForwardTun, At, Serve, LoopInv
  <2> QED BY <2>1, <2>2, <2>3, <2>4 DEF ForwardTun, At, Serve, Send, loopVars, clockVars, tunVars, netVars
<1>5. ASSUME NEW p \in Peers, ReceiveUnauthorized(p) PROVE TypeOK'
  <2> USE <1>5 DEF VpnInv, TypeOK
  <2>1. ready' \in [Peers -> SUBSET {"tun", "udp"}]
    BY DEF ReceiveUnauthorized, Recvfrom, At, Serve
  <2>2. pc' \in [Peers -> {"select", "clock", "tun", "udp"}]
    BY DEF ReceiveUnauthorized, Recvfrom, At, Serve
  <2>3. socket' \in [Peers -> Seq(Datagram)]
    BY DatagramTypes, OtherPeer, AppendElements, TailElements DEF ReceiveUnauthorized, Recvfrom, At, Serve
  <2> QED BY <2>1, <2>2, <2>3 DEF ReceiveUnauthorized, Recvfrom, At, Serve, Send, loopVars, clockVars, tunVars, netVars
<1>6. ASSUME NEW p \in Peers, ReceiveKeepalive(p) PROVE TypeOK'
  <2> USE <1>6 DEF VpnInv, TypeOK
  <2>1. ready' \in [Peers -> SUBSET {"tun", "udp"}]
    BY DEF ReceiveKeepalive, Recvfrom, At, Serve, Heard
  <2>2. pc' \in [Peers -> {"select", "clock", "tun", "udp"}]
    BY DEF ReceiveKeepalive, Recvfrom, At, Serve, Heard
  <2>3. socket' \in [Peers -> Seq(Datagram)]
    BY DatagramTypes, OtherPeer, AppendElements, TailElements DEF ReceiveKeepalive, Recvfrom, At, Serve, Heard
  <2>4. received' \in [Peers -> 0 .. ReceivedCap]
    BY HeardClock DEF ReceiveKeepalive
  <2>5. peer_alive' \in [Peers -> BOOLEAN]
    BY DEF ReceiveKeepalive, Recvfrom, At, Serve, Heard
  <2>6. heard' \in [Peers -> 0 .. HeardCap]
    BY DEF ReceiveKeepalive
  <2> QED BY <2>1, <2>2, <2>3, <2>4, <2>5, <2>6 DEF ReceiveKeepalive, Recvfrom, At, Serve, Send, loopVars, clockVars, tunVars, netVars
<1>7. ASSUME NEW p \in Peers, ReceiveData(p) PROVE TypeOK'
  <2> USE <1>7 DEF VpnInv, TypeOK
  <2>1. ready' \in [Peers -> SUBSET {"tun", "udp"}]
    BY DEF ReceiveData, Recvfrom, At, Serve, Heard
  <2>2. pc' \in [Peers -> {"select", "clock", "tun", "udp"}]
    BY DEF ReceiveData, Recvfrom, At, Serve, Heard
  <2>3. socket' \in [Peers -> Seq(Datagram)]
    BY DatagramTypes, OtherPeer, AppendElements, TailElements DEF ReceiveData, Recvfrom, At, Serve, Heard
  <2>4. received' \in [Peers -> 0 .. ReceivedCap]
    BY HeardClock DEF ReceiveData
  <2>5. peer_alive' \in [Peers -> BOOLEAN]
    BY DEF ReceiveData, Recvfrom, At, Serve, Heard
  <2>6. tun_out' \in [Peers -> SUBSET [payload : Packets \cup Texts, xored : BOOLEAN]]
    <3> DEFINE m == Head(socket[p])
    <3>1. m \in Datagram /\ m \in Range(socket[p])
      BY TailElements DEF ReceiveData, Recvfrom
    <3>2. m.payload \in routed[Other(p)] \/ m.payload \in Admitted
      BY <3>1 DEF ReceiveData, WireInv, Genuine
    <3>3. m.payload \in Packets \cup Texts
      BY <3>2, OtherPeer DEF Admitted, Texts
    <3>4. Payload(xor_crypt(m)) \in [payload : Packets \cup Texts, xored : BOOLEAN]
      BY <3>1, <3>3 DEF Payload, xor_crypt, Datagram
    <3> HIDE DEF m
    <3>5. tun_out' = [tun_out EXCEPT ![p] = @ \cup {Payload(xor_crypt(m))}]
      BY DEF ReceiveData, m
    <3> QED BY <3>4, <3>5
  <2>7. heard' \in [Peers -> 0 .. HeardCap]
    BY DEF ReceiveData
  <2> QED BY <2>1, <2>2, <2>3, <2>4, <2>5, <2>6, <2>7 DEF ReceiveData, Recvfrom, At, Serve, Send, loopVars, clockVars, tunVars, netVars
<1>8. ASSUME NEW p \in Peers, Arrive(p) PROVE TypeOK'
  <2> USE <1>8 DEF VpnInv, TypeOK
  <2>1. net' \in [Peers -> Seq(Datagram)]
    BY DatagramTypes, OtherPeer, AppendElements, TailElements DEF Arrive, Send
  <2>2. socket' \in [Peers -> Seq(Datagram)]
    BY DatagramTypes, OtherPeer, AppendElements, TailElements DEF Arrive
  <2>3. lost' \in [Peers -> 0 .. MaxLost]
    BY DEF Arrive
  <2> QED BY <2>1, <2>2, <2>3 DEF Arrive, Send, loopVars, clockVars, tunVars, netVars
<1>9. ASSUME NEW p \in Peers, NEW d \in Packets, HostSends(p, d) PROVE TypeOK'
  <2> USE <1>9 DEF VpnInv, TypeOK
  <2>1. routed' \in [Peers -> SUBSET Packets]
    BY DEF HostSends
  <2>2. tun_in' \in [Peers -> Seq(Packets)]
    BY DatagramTypes, OtherPeer, AppendElements, TailElements DEF HostSends
  <2> QED BY <2>1, <2>2 DEF HostSends, Send, loopVars, clockVars, tunVars, netVars
<1>10. ASSUME NEW p \in Peers, Lose(p) PROVE TypeOK'
  <2> USE <1>10 DEF VpnInv, TypeOK
  <2>1. net' \in [Peers -> Seq(Datagram)]
    BY DatagramTypes, OtherPeer, AppendElements, TailElements DEF Lose, Send
  <2>2. lost' \in [Peers -> 0 .. MaxLost]
    BY DEF Lose
  <2> QED BY <2>1, <2>2 DEF Lose, Send, loopVars, clockVars, tunVars, netVars
<1>11. ASSUME NEW p \in Peers, Overtake(p) PROVE TypeOK'
  <2> USE <1>11 DEF VpnInv, TypeOK
  <2>1. net' \in [Peers -> Seq(Datagram)]
    <3>1. PICK k \in 1 .. Len(net[p]) - 1 :
            net' = [net EXCEPT ![p] = [@ EXCEPT ![k] = net[p][k + 1], ![k + 1] = net[p][k]]]
      BY DEF Overtake
    <3> DEFINE s == [net[p] EXCEPT ![k] = net[p][k + 1], ![k + 1] = net[p][k]]
    <3>2. s \in Seq(Datagram)
      BY SwapElements
    <3> HIDE DEF s
    <3>3. net' = [net EXCEPT ![p] = s]
      BY <3>1 DEF s
    <3> QED BY <3>2, <3>3
  <2> QED BY <2>1 DEF Overtake, Send, loopVars, clockVars, tunVars, netVars
<1>12. ASSUME NEW p \in Peers, Duplicate(p) PROVE TypeOK'
  <2> USE <1>12 DEF VpnInv, TypeOK
  <2>1. net' \in [Peers -> Seq(Datagram)]
    BY DatagramTypes, OtherPeer, AppendElements, TailElements DEF Duplicate, Send
  <2> QED BY <2>1 DEF Duplicate, Send, loopVars, clockVars, tunVars, netVars
<1>13. ASSUME NEW p \in Peers, SendTest(p) PROVE TypeOK'
  <2> USE <1>13 DEF VpnInv, TypeOK
  <2>1. net' \in [Peers -> Seq(Datagram)]
    <3>1. PICK token \in BOOLEAN : net' = [net EXCEPT ![p] = Append(@, TestMessage(token))]
      BY DEF SendTest
    <3>2. Append(net[p], TestMessage(token)) \in Seq(Datagram)
      BY DatagramTypes, AppendElements
    <3> QED BY <3>1, <3>2
  <2> QED BY <2>1 DEF SendTest, Send, loopVars, clockVars, tunVars, netVars
<1>14. ASSUME NEW p \in Peers, DropBadChecksum(p) PROVE TypeOK'
  <2> USE <1>14 DEF VpnInv, TypeOK
  <2>1. socket' \in [Peers -> Seq(Datagram)]
    BY DatagramTypes, OtherPeer, AppendElements, TailElements DEF DropBadChecksum, At
  <2> QED BY <2>1 DEF DropBadChecksum, At, Send, loopVars, clockVars, tunVars, netVars
<1>15. ASSUME NEW p \in Peers, ReceiveFails(p) PROVE TypeOK'
  <2> USE <1>15 DEF VpnInv, TypeOK
  <2>1. ready' \in [Peers -> SUBSET {"tun", "udp"}]
    BY DEF ReceiveFails, At, Serve, Heard
  <2>2. pc' \in [Peers -> {"select", "clock", "tun", "udp"}]
    BY DEF ReceiveFails, At, Serve, Heard
  <2>3. received' \in [Peers -> 0 .. ReceivedCap]
    <3>1. received' = received \/ Heard(p)
      BY <1>15 DEF ReceiveFails
    <3>2. received \in [Peers -> 0 .. ReceivedCap] /\ TypeOK
      OBVIOUS
    <3> HIDE DEF VpnInv, TypeOK
    <3> QED BY <3>1, <3>2, HeardClock
  <2>4. peer_alive' \in [Peers -> BOOLEAN]
    <3>1. peer_alive' = peer_alive \/ peer_alive' = [peer_alive EXCEPT ![p] = TRUE]
      BY <1>15 DEF ReceiveFails, Heard
    <3>2. peer_alive \in [Peers -> BOOLEAN]
      OBVIOUS
    <3> HIDE DEF VpnInv, TypeOK
    <3> QED BY <3>1, <3>2
  <2>5. UNCHANGED <<step, up, now, sent, heard, routed, tun_in, tun_out, net, socket, lost>>
    BY DEF ReceiveFails, tunVars, netVars
  <2> QED BY <2>1, <2>2, <2>3, <2>4, <2>5
<1>16. ASSUME NEW p \in Peers, Crash(p) PROVE TypeOK'
  <2> USE <1>16 DEF VpnInv, TypeOK
  <2>1. up' \in [Peers -> BOOLEAN]
    BY DEF Crash
  <2>2. pc' \in [Peers -> {"select", "clock", "tun", "udp"}]
    BY DEF Crash
  <2>3. ready' \in [Peers -> SUBSET {"tun", "udp"}]
    BY DEF Crash
  <2>4. now' \in [Peers -> 0 .. NowCap]
    BY DEF Crash
  <2>5. sent' \in [Peers -> 0 .. SentCap]
    BY DEF Crash
  <2>6. received' \in [Peers -> 0 .. ReceivedCap]
    BY DEF Crash
  <2>7. peer_alive' \in [Peers -> BOOLEAN]
    BY DEF Crash
  <2>8. tun_in' \in [Peers -> Seq(Packets)]
    BY DatagramTypes, OtherPeer, AppendElements, TailElements DEF Crash
  <2>9. socket' \in [Peers -> Seq(Datagram)]
    BY DatagramTypes, OtherPeer, AppendElements, TailElements DEF Crash
  <2>10. heard' \in [Peers -> 0 .. HeardCap]
    BY DEF Crash
  <2> QED BY <2>1, <2>2, <2>3, <2>4, <2>5, <2>6, <2>7, <2>8, <2>9, <2>10 DEF Crash, Send, loopVars, clockVars, tunVars, netVars
<1>17. ASSUME NEW p \in Peers, Restart(p) PROVE TypeOK'
  <2> USE <1>17 DEF VpnInv, TypeOK
  <2>1. up' \in [Peers -> BOOLEAN]
    BY DEF Restart
  <2> QED BY <2>1 DEF Restart, Send, loopVars, clockVars, tunVars, netVars
<1>18. CASE UNCHANGED vars
  BY <1>18 DEF VpnInv, TypeOK, vars, loopVars, clockVars, tunVars, netVars
<1> QED BY <1>1, <1>2, <1>3, <1>4, <1>5, <1>6, <1>7, <1>8, <1>9, <1>10, <1>11, <1>12, <1>13, <1>14, <1>15, <1>16, <1>17, <1>18 DEF Next, Peer, Environment

\* Every step keeps the loop's descriptors readable: only the loop itself takes
\* anything from them.
THEOREM LoopStep == VpnInv /\ [Next]_vars => LoopInv'
<1> SUFFICES ASSUME VpnInv, [Next]_vars PROVE LoopInv'
  OBVIOUS
<1> USE VpnAssumption
<1>1. CASE Tick
  BY <1>1, OtherPeer, AppendElements DEF VpnInv, LoopInv, TypeOK, Tick, Older, Send, loopVars, clockVars, tunVars, netVars
<1>2. ASSUME NEW p \in Peers, Select(p) PROVE LoopInv'
  BY <1>2, OtherPeer, AppendElements DEF VpnInv, LoopInv, TypeOK, Select, At, Send, loopVars, clockVars, tunVars, netVars
<1>3. ASSUME NEW p \in Peers, ReadClock(p) PROVE LoopInv'
  BY <1>3, OtherPeer, AppendElements DEF VpnInv, LoopInv, TypeOK, ReadClock, At, Serve, KeepaliveDue, CheckTimeout, Send, loopVars, clockVars, tunVars, netVars
<1>4. ASSUME NEW p \in Peers, ForwardTun(p) PROVE LoopInv'
  <2>1. ready' = [ready EXCEPT ![p] = ready[p] \ {"tun"}] /\ UNCHANGED socket
    BY <1>4 DEF ForwardTun, Serve
  <2>2. \A q \in Peers : pc'[q] \in {"tun", "udp"} => pc'[q] \in ready'[q]
    BY <1>4, <2>1 DEF VpnInv, LoopInv, TypeOK, ForwardTun, Serve
  <2>3. \A q \in Peers : q # p => tun_in'[q] = tun_in[q]
    BY <1>4 DEF ForwardTun, VpnInv, TypeOK
  <2> QED BY <2>1, <2>2, <2>3 DEF VpnInv, LoopInv, TypeOK
<1>5. ASSUME NEW p \in Peers, ReceiveUnauthorized(p) PROVE LoopInv'
  BY <1>5, OtherPeer, AppendElements DEF VpnInv, LoopInv, TypeOK, ReceiveUnauthorized, Recvfrom, At, Serve, Send, loopVars, clockVars, tunVars, netVars
<1>6. ASSUME NEW p \in Peers, ReceiveKeepalive(p) PROVE LoopInv'
  BY <1>6, OtherPeer, AppendElements DEF VpnInv, LoopInv, TypeOK, ReceiveKeepalive, Recvfrom, At, Serve, Heard, Send, loopVars, clockVars, tunVars, netVars
<1>7. ASSUME NEW p \in Peers, ReceiveData(p) PROVE LoopInv'
  BY <1>7, OtherPeer, AppendElements DEF VpnInv, LoopInv, TypeOK, ReceiveData, Recvfrom, At, Serve, Heard, Send, loopVars, clockVars, tunVars, netVars
<1>8. ASSUME NEW p \in Peers, Arrive(p) PROVE LoopInv'
  <2>a. Append(socket[p], Head(net[p])) # <<>>
    <3>1. net[p] \in Seq(Datagram) /\ net[p] # <<>> /\ socket[p] \in Seq(Datagram)
      BY <1>8 DEF VpnInv, TypeOK, Arrive
    <3>2. Head(net[p]) \in Datagram
      BY <3>1, TailElements
    <3> QED BY <3>1, <3>2, AppendElements
  <2>b. socket' = socket \/ socket' = [socket EXCEPT ![p] = Append(@, Head(net[p]))]
    BY <1>8 DEF VpnInv, TypeOK, Arrive
  <2>1. \A q \in Peers : socket[q] # <<>> => socket'[q] # <<>>
    BY <2>a, <2>b DEF VpnInv, TypeOK
  <2>2. UNCHANGED <<pc, ready, tun_in>>
    BY <1>8 DEF Arrive, loopVars, tunVars
  <2> QED BY <2>1, <2>2 DEF VpnInv, LoopInv
<1>9. ASSUME NEW p \in Peers, NEW d \in Packets, HostSends(p, d) PROVE LoopInv'
  BY <1>9, OtherPeer, AppendElements DEF VpnInv, LoopInv, TypeOK, HostSends, Send, loopVars, clockVars, tunVars, netVars
<1>10. ASSUME NEW p \in Peers, Lose(p) PROVE LoopInv'
  BY <1>10, OtherPeer, AppendElements DEF VpnInv, LoopInv, TypeOK, Lose, Send, loopVars, clockVars, tunVars, netVars
<1>11. ASSUME NEW p \in Peers, Overtake(p) PROVE LoopInv'
  BY <1>11, OtherPeer, AppendElements DEF VpnInv, LoopInv, TypeOK, Overtake, Send, loopVars, clockVars, tunVars, netVars
<1>12. ASSUME NEW p \in Peers, Duplicate(p) PROVE LoopInv'
  BY <1>12, OtherPeer, AppendElements DEF VpnInv, LoopInv, TypeOK, Duplicate, Send, loopVars, clockVars, tunVars, netVars
<1>13. ASSUME NEW p \in Peers, SendTest(p) PROVE LoopInv'
  BY <1>13, OtherPeer, AppendElements DEF VpnInv, LoopInv, TypeOK, SendTest, Send, loopVars, clockVars, tunVars, netVars
<1>14. ASSUME NEW p \in Peers, DropBadChecksum(p) PROVE LoopInv'
  BY <1>14, OtherPeer, AppendElements DEF VpnInv, LoopInv, TypeOK, DropBadChecksum, At, Send, loopVars, clockVars, tunVars, netVars
<1>15. ASSUME NEW p \in Peers, ReceiveFails(p) PROVE LoopInv'
  BY <1>15, OtherPeer, AppendElements DEF VpnInv, LoopInv, TypeOK, ReceiveFails, At, Serve, Heard, Send, loopVars, clockVars, tunVars, netVars
<1>16. ASSUME NEW p \in Peers, Crash(p) PROVE LoopInv'
  BY <1>16, OtherPeer, AppendElements DEF VpnInv, LoopInv, TypeOK, Crash, Send, loopVars, clockVars, tunVars, netVars
<1>17. ASSUME NEW p \in Peers, Restart(p) PROVE LoopInv'
  BY <1>17, OtherPeer, AppendElements DEF VpnInv, LoopInv, TypeOK, Restart, Send, loopVars, clockVars, tunVars, netVars
<1>18. CASE UNCHANGED vars
  BY <1>18 DEF VpnInv, LoopInv, vars, loopVars, clockVars, tunVars, netVars
<1> QED BY <1>1, <1>2, <1>3, <1>4, <1>5, <1>6, <1>7, <1>8, <1>9, <1>10, <1>11, <1>12, <1>13, <1>14, <1>15, <1>16, <1>17, <1>18 DEF Next, Peer, Environment

\* Every step keeps the bound on an unreported silence.
THEOREM ClockStep == VpnInv /\ [Next]_vars => ClockInv'
<1> SUFFICES ASSUME VpnInv, [Next]_vars PROVE ClockInv'
  OBVIOUS
<1> USE VpnAssumption
<1>1. CASE Tick
  <2> SUFFICES ASSUME NEW q \in Peers
      PROVE  /\ peer_alive'[q] /\ now'[q] <= Round => received'[q] <= PeerTimeout + now'[q]
             /\ ~peer_alive'[q] => received'[q] > PeerTimeout
             /\ "checksum" \notin Faults[q] => now'[q] <= Round
    BY DEF ClockInv
  <2>1. now[q] \in Nat /\ received[q] \in Nat /\ Round \in Nat /\ peer_alive' = peer_alive
    BY <1>1, Caps DEF Tick, VpnInv, TypeOK, Round
  <2>2. now'[q] = IF up[q] /\ now[q] < Round + 1 THEN now[q] + 1 ELSE now[q]
    BY <1>1 DEF Tick, Older, NowCap
  <2>3. received'[q] = IF up[q] /\ received[q] < PeerTimeout + Round + 1
                       THEN received[q] + 1 ELSE received[q]
    BY <1>1 DEF Tick, Older, ReceivedCap
  <2>4. /\ peer_alive[q] /\ now[q] <= Round => received[q] <= PeerTimeout + now[q]
        /\ ~peer_alive[q] => received[q] > PeerTimeout
        /\ "checksum" \notin Faults[q] => now[q] <= Round
    BY DEF VpnInv, ClockInv
  <2>5. "checksum" \notin Faults[q] /\ up[q] => now[q] < Round
    <3>1. "checksum" \notin Faults[q] => ~Blocked(q)
      BY DEF Blocked, At, VpnInv, LoopInv
    <3> QED BY <1>1, <3>1 DEF Tick, OnTime
  <2> QED BY <2>1, <2>2, <2>3, <2>4, <2>5
<1>2. ASSUME NEW p \in Peers, Select(p) PROVE ClockInv'
  BY <1>2 DEF VpnInv, ClockInv, Round, TypeOK, Select, At, loopVars, clockVars, tunVars, netVars
<1>3. ASSUME NEW p \in Peers, ReadClock(p) PROVE ClockInv'
  <2>1. /\ now' = [now EXCEPT ![p] = 0] /\ UNCHANGED received
         /\ peer_alive' = [peer_alive EXCEPT ![p] = @ /\ received[p] <= PeerTimeout]
    BY <1>3 DEF ReadClock, CheckTimeout
  <2>2. now \in [Peers -> Nat] /\ received \in [Peers -> Nat] /\ peer_alive \in [Peers -> BOOLEAN]
    BY DEF VpnInv, TypeOK
  <2> SUFFICES ASSUME NEW q \in Peers
      PROVE  /\ peer_alive'[q] /\ now'[q] <= Round => received'[q] <= PeerTimeout + now'[q]
             /\ ~peer_alive'[q] => received'[q] > PeerTimeout
             /\ "checksum" \notin Faults[q] => now'[q] <= Round
    BY DEF ClockInv, Round
  <2>3. CASE q = p
    <3>1. now'[p] = 0 /\ received'[p] = received[p]
      BY <2>1, <2>2
    <3>2. peer_alive'[p] <=> (peer_alive[p] /\ received[p] <= PeerTimeout)
      BY <2>1, <2>2
    <3> QED BY <2>2, <2>3, <3>1, <3>2 DEF VpnInv, ClockInv, Round
  <2>4. CASE q # p
    BY <2>1, <2>2, <2>4 DEF VpnInv, ClockInv, Round
  <2> QED BY <2>3, <2>4
<1>4. ASSUME NEW p \in Peers, ForwardTun(p) PROVE ClockInv'
  BY <1>4 DEF VpnInv, ClockInv, Round, TypeOK, ForwardTun, At, Serve, loopVars, clockVars, tunVars, netVars
<1>5. ASSUME NEW p \in Peers, ReceiveUnauthorized(p) PROVE ClockInv'
  BY <1>5 DEF VpnInv, ClockInv, Round, TypeOK, ReceiveUnauthorized, Recvfrom, At, Serve, loopVars, clockVars, tunVars, netVars
<1>6. ASSUME NEW p \in Peers, ReceiveKeepalive(p) PROVE ClockInv'
  <2>1. (Heard(p)) /\ UNCHANGED now
    BY <1>6 DEF ReceiveKeepalive
  <2>2. now \in [Peers -> Nat] /\ received \in [Peers -> Nat] /\ peer_alive \in [Peers -> BOOLEAN]
    BY DEF VpnInv, TypeOK
  <2> QED BY <2>1, <2>2, HeardClock DEF VpnInv, ClockInv, Round
<1>7. ASSUME NEW p \in Peers, ReceiveData(p) PROVE ClockInv'
  <2>1. (Heard(p)) /\ UNCHANGED now
    BY <1>7 DEF ReceiveData
  <2>2. now \in [Peers -> Nat] /\ received \in [Peers -> Nat] /\ peer_alive \in [Peers -> BOOLEAN]
    BY DEF VpnInv, TypeOK
  <2> QED BY <2>1, <2>2, HeardClock DEF VpnInv, ClockInv, Round
<1>8. ASSUME NEW p \in Peers, Arrive(p) PROVE ClockInv'
  BY <1>8 DEF VpnInv, ClockInv, Round, TypeOK, Arrive, loopVars, clockVars, tunVars, netVars
<1>9. ASSUME NEW p \in Peers, NEW d \in Packets, HostSends(p, d) PROVE ClockInv'
  BY <1>9 DEF VpnInv, ClockInv, Round, TypeOK, HostSends, loopVars, clockVars, tunVars, netVars
<1>10. ASSUME NEW p \in Peers, Lose(p) PROVE ClockInv'
  BY <1>10 DEF VpnInv, ClockInv, Round, TypeOK, Lose, loopVars, clockVars, tunVars, netVars
<1>11. ASSUME NEW p \in Peers, Overtake(p) PROVE ClockInv'
  BY <1>11 DEF VpnInv, ClockInv, Round, TypeOK, Overtake, loopVars, clockVars, tunVars, netVars
<1>12. ASSUME NEW p \in Peers, Duplicate(p) PROVE ClockInv'
  BY <1>12 DEF VpnInv, ClockInv, Round, TypeOK, Duplicate, loopVars, clockVars, tunVars, netVars
<1>13. ASSUME NEW p \in Peers, SendTest(p) PROVE ClockInv'
  BY <1>13 DEF VpnInv, ClockInv, Round, TypeOK, SendTest, loopVars, clockVars, tunVars, netVars
<1>14. ASSUME NEW p \in Peers, DropBadChecksum(p) PROVE ClockInv'
  BY <1>14 DEF VpnInv, ClockInv, Round, TypeOK, DropBadChecksum, At, loopVars, clockVars, tunVars, netVars
<1>15. ASSUME NEW p \in Peers, ReceiveFails(p) PROVE ClockInv'
  <2>1. (Heard(p) \/ UNCHANGED <<received, peer_alive>>) /\ UNCHANGED now
    BY <1>15 DEF ReceiveFails
  <2>2. now \in [Peers -> Nat] /\ received \in [Peers -> Nat] /\ peer_alive \in [Peers -> BOOLEAN]
    BY DEF VpnInv, TypeOK
  <2> QED BY <2>1, <2>2, HeardClock DEF VpnInv, ClockInv, Round
<1>16. ASSUME NEW p \in Peers, Crash(p) PROVE ClockInv'
  <2>1. /\ received'[p] = 0 /\ now'[p] = 0 /\ peer_alive'[p]
        /\ \A q \in Peers : q # p => /\ received'[q] = received[q] /\ now'[q] = now[q]
                                    /\ peer_alive'[q] = peer_alive[q]
    BY <1>16 DEF Crash, VpnInv, TypeOK
  <2>2. Round \in Nat /\ 0 <= Round /\ PeerTimeout + 0 \in Nat
    BY DEF Round
  <2> QED BY <2>1, <2>2 DEF VpnInv, ClockInv
<1>17. ASSUME NEW p \in Peers, Restart(p) PROVE ClockInv'
  BY <1>17 DEF VpnInv, ClockInv, Round, TypeOK, Restart, loopVars, clockVars, tunVars, netVars
<1>18. CASE UNCHANGED vars
  BY <1>18 DEF VpnInv, ClockInv, vars, loopVars, clockVars, tunVars, netVars
<1> QED BY <1>1, <1>2, <1>3, <1>4, <1>5, <1>6, <1>7, <1>8, <1>9, <1>10, <1>11, <1>12, <1>13, <1>14, <1>15, <1>16, <1>17, <1>18 DEF Next, Peer, Environment

\* A packet that is heard is noted, in step5b as of the time of the round.
LEMMA HeardNoted ==
  ASSUME VpnInv, NEW p \in Peers, Heard(p), UNCHANGED step,
         heard' = heard \/ heard' = [heard EXCEPT ![p] = 0]
  PROVE  NotedInv'
<1>1. PICK age \in HeardAt(p) : received' = [received EXCEPT ![p] = age]
  BY DEF Heard
<1>2. /\ now \in [Peers -> Nat] /\ heard \in [Peers -> Nat] /\ received \in [Peers -> Nat]
      /\ Round \in Nat
  BY VpnAssumption DEF VpnInv, TypeOK, Round
<1>3. /\ step = "step6b" => age = 0
      /\ step # "step6b" => age = now[p] \/ now[p] > Round
      /\ now[p] > Round => "checksum" \in Faults[p]
      /\ step = "step5b" \/ step = "step6b"
  BY <1>2, VpnAssumption DEF HeardAt, NowCap, VpnInv, ClockInv, TypeOK
<1>4. /\ received'[p] = age /\ heard'[p] \in {0, heard[p]}
      /\ \A q \in Peers : q # p => received'[q] = received[q] /\ heard'[q] = heard[q]
  BY <1>1, <1>2
<1>5. step = "step5b" /\ now[p] <= Round => received'[p] <= heard'[p] + Round
  BY <1>2, <1>3, <1>4
<1>6. step = "step6b" => received'[p] <= heard'[p]
  BY <1>2, <1>3, <1>4
<1> QED BY <1>2, <1>3, <1>4, <1>5, <1>6 DEF VpnInv, NotedInv

\* Every step keeps what the program has noted of the silence close to the silence.
THEOREM NotedStep == VpnInv /\ [Next]_vars => NotedInv'
<1> SUFFICES ASSUME VpnInv, [Next]_vars PROVE NotedInv'
  OBVIOUS
<1>0. UNCHANGED step
  BY StepStays
<1>1. CASE Tick
  <2>1. \A q \in Peers : received[q] \in Nat /\ heard[q] \in Nat /\ Round \in Nat
    BY VpnAssumption DEF VpnInv, TypeOK, Round
  <2>2. \A q \in Peers : heard'[q] = IF up[q] /\ heard[q] < PeerTimeout + 1 THEN heard[q] + 1 ELSE heard[q]
    BY <1>1 DEF Tick, Older, HeardCap
  <2>3. \A q \in Peers : received'[q] = received[q] \/ (up[q] /\ received'[q] = received[q] + 1)
    BY <1>1 DEF Tick, Older
  <2> QED BY <1>0, <2>1, <2>2, <2>3, VpnAssumption DEF VpnInv, NotedInv
<1>2. CASE UNCHANGED <<heard, received>>
  BY <1>0, <1>2 DEF VpnInv, NotedInv
<1>3. ASSUME NEW p \in Peers, Heard(p), heard' = heard \/ heard' = [heard EXCEPT ![p] = 0]
      PROVE  NotedInv'
  BY <1>0, <1>3, HeardNoted
<1>4. ASSUME NEW p \in Peers, Peer(p) PROVE NotedInv'
  BY <1>2, <1>3, <1>4 DEF Peer, Select, ReadClock, ForwardTun, ReceiveUnauthorized, ReceiveKeepalive,
     ReceiveData, clockVars
<1>5. ASSUME NEW p \in Peers, ReceiveFails(p) PROVE NotedInv'
  BY <1>2, <1>3, <1>5 DEF ReceiveFails
<1>6. ASSUME NEW p \in Peers, Crash(p) PROVE NotedInv'
  <2>1. /\ \A q \in Peers : q # p => received'[q] = received[q] /\ heard'[q] = heard[q]
        /\ received'[p] = 0 /\ heard'[p] = 0
    BY <1>6 DEF Crash, VpnInv, TypeOK
  <2> QED BY <1>0, <2>1 DEF VpnInv, NotedInv
<1>7. ASSUME NEW p \in Peers, Arrive(p) \/ Environment(p), ~ReceiveFails(p), ~Crash(p)
      PROVE  NotedInv'
  BY <1>2, <1>7 DEF Arrive, Environment, HostSends, Lose, Overtake, Duplicate, SendTest,
     DropBadChecksum, Restart, clockVars
<1>8. CASE UNCHANGED vars
  BY <1>2, <1>8 DEF vars, clockVars
<1> QED BY <1>1, <1>4, <1>5, <1>6, <1>7, <1>8 DEF Next

\* Every step keeps what is on its way genuine.
THEOREM WireStep == VpnInv /\ [Next]_vars => WireInv'
<1> SUFFICES ASSUME VpnInv, [Next]_vars PROVE WireInv'
  OBVIOUS
<1>0. step' = step
  BY StepStays
<1> USE VpnAssumption, <1>0 DEF Authorized, Admitted, Delivered
<1>1. CASE Tick
  BY <1>1, OtherPeer, AppendElements, TailElements, DatagramTypes DEF VpnInv, WireInv, Genuine, LoopInv, TypeOK, Tick, Older, Send, Keepalive, Data, TestMessage, xor_crypt, Payload, loopVars, clockVars, tunVars, netVars
<1>2. ASSUME NEW p \in Peers, Select(p) PROVE WireInv'
  BY <1>2, OtherPeer, AppendElements, TailElements, DatagramTypes DEF VpnInv, WireInv, Genuine, LoopInv, TypeOK, Select, At, Send, Keepalive, Data, TestMessage, xor_crypt, Payload, loopVars, clockVars, tunVars, netVars
<1>3. ASSUME NEW p \in Peers, ReadClock(p) PROVE WireInv'
  <2>1. CASE UNCHANGED net
    BY <1>3, <2>1 DEF VpnInv, WireInv, Genuine, ReadClock, tunVars
  <2>2. CASE Send(p, Keepalive)
    <3>e. Genuine(Keepalive, Other(p))
      BY DEF Genuine, Keepalive
    <3>1. Range(Append(net[Other(p)], Keepalive)) \subseteq Range(net[Other(p)]) \cup {Keepalive}
      BY DatagramTypes, AppendElements, OtherPeer DEF VpnInv, TypeOK
    <3>2. \A q \in Peers : Range(net'[q]) \subseteq Range(net[q]) \cup (IF q = Other(p) THEN {Keepalive} ELSE {})
      BY <2>2, <3>1, OtherPeer DEF Send, SendTest, VpnInv, TypeOK
    <3>3. UNCHANGED <<socket, routed, tun_in, tun_out>>
      BY <1>3 DEF ReadClock, tunVars
    <3> QED BY <3>e, <3>2, <3>3 DEF VpnInv, WireInv, Genuine
  <2> QED BY <1>3, <2>1, <2>2 DEF ReadClock
<1>4. ASSUME NEW p \in Peers, ForwardTun(p) PROVE WireInv'
  <2> DEFINE m == xor_crypt(Data(Head(tun_in[p])))
  <2>a. tun_in[p] # <<>>
    BY <1>4 DEF ForwardTun, At, VpnInv, LoopInv
  <2>b. Head(tun_in[p]) \in routed[p] /\ Head(tun_in[p]) \in Packets
    BY <2>a, TailElements DEF VpnInv, TypeOK, WireInv
  <2>c. m \in Datagram
    BY <2>b, DatagramTypes
  <2>d. m.xored /\ m.payload \in routed[p]
    BY <2>b DEF xor_crypt, Data
  <2>e. Genuine(m, Other(p))
    BY <2>d, OtherPeer DEF Genuine
  <2> HIDE DEF m
  <2>0. Send(p, m)
    BY <1>4 DEF ForwardTun, m
  <2>1. Range(Append(net[Other(p)], m)) \subseteq Range(net[Other(p)]) \cup {m}
    BY <2>c, AppendElements, OtherPeer DEF VpnInv, TypeOK
  <2>2. \A q \in Peers : Range(net'[q]) \subseteq Range(net[q]) \cup (IF q = Other(p) THEN {m} ELSE {})
    BY <2>0, <2>1, OtherPeer DEF Send, SendTest, VpnInv, TypeOK
  <2>3. \A q \in Peers : Range(tun_in'[q]) \subseteq Range(tun_in[q])
    <3>1. Range(Tail(tun_in[p])) \subseteq Range(tun_in[p])
      BY <2>a, TailElements DEF VpnInv, TypeOK
    <3>2. tun_in' = [tun_in EXCEPT ![p] = Tail(@)]
      BY <1>4 DEF ForwardTun
    <3> QED BY <3>1, <3>2 DEF VpnInv, TypeOK
  <2>4. UNCHANGED <<socket, routed, tun_out>>
    BY <1>4 DEF ForwardTun
  <2> QED BY <2>e, <2>2, <2>3, <2>4 DEF VpnInv, WireInv, Genuine
<1>5. ASSUME NEW p \in Peers, ReceiveUnauthorized(p) PROVE WireInv'
  BY <1>5, OtherPeer, AppendElements, TailElements, DatagramTypes DEF VpnInv, WireInv, Genuine, LoopInv, TypeOK, ReceiveUnauthorized, Recvfrom, At, Serve, Send, Keepalive, Data, TestMessage, xor_crypt, Payload, loopVars, clockVars, tunVars, netVars
<1>6. ASSUME NEW p \in Peers, ReceiveKeepalive(p) PROVE WireInv'
  BY <1>6, OtherPeer, AppendElements, TailElements, DatagramTypes DEF VpnInv, WireInv, Genuine, LoopInv, TypeOK, ReceiveKeepalive, Recvfrom, At, Serve, Send, Keepalive, Data, TestMessage, xor_crypt, Payload, loopVars, clockVars, tunVars, netVars
<1>7. ASSUME NEW p \in Peers, ReceiveData(p) PROVE WireInv'
  <2> DEFINE m == Head(socket[p])
  <2>1. m \in Datagram /\ m \in Range(socket[p])
    BY <1>7, TailElements DEF ReceiveData, Recvfrom, VpnInv, TypeOK
  <2>2. IF m.xored THEN m.payload \in routed[Other(p)] ELSE m.payload \in Admitted
    BY <1>7, <2>1 DEF ReceiveData, VpnInv, WireInv, Genuine
  <2>3. Delivered(Payload(xor_crypt(m)), p)
    BY <2>1, <2>2 DEF Payload, xor_crypt, Datagram
  <2> HIDE DEF m
  <2>4. tun_out' = [tun_out EXCEPT ![p] = @ \cup {Payload(xor_crypt(m))}]
    BY <1>7 DEF ReceiveData, m
  <2>5. \A q \in Peers : Range(socket'[q]) \subseteq Range(socket[q])
    <3>1. Range(Tail(socket[p])) \subseteq Range(socket[p])
      BY <1>7, TailElements DEF ReceiveData, Recvfrom, VpnInv, TypeOK
    <3>2. socket' = [socket EXCEPT ![p] = Tail(@)]
      BY <1>7 DEF ReceiveData, Recvfrom
    <3> QED BY <3>1, <3>2 DEF VpnInv, TypeOK
  <2>6. UNCHANGED <<net, routed, tun_in>>
    BY <1>7 DEF ReceiveData
  <2> QED BY <2>3, <2>4, <2>5, <2>6 DEF VpnInv, WireInv, Genuine, TypeOK
<1>8. ASSUME NEW p \in Peers, Arrive(p) PROVE WireInv'
  <2>1. \A q \in Peers : Range(net'[q]) \subseteq Range(net[q])
    <3>1. Range(Tail(net[p])) \subseteq Range(net[p])
      BY <1>8, TailElements DEF Arrive, VpnInv, TypeOK
    <3>2. net' = [net EXCEPT ![p] = Tail(@)]
      BY <1>8 DEF Arrive
    <3> QED BY <3>1, <3>2 DEF VpnInv, TypeOK
  <2>2. \A q \in Peers : Range(socket'[q]) \subseteq Range(socket[q]) \cup Range(net[q])
    <3>1. Range(Append(socket[p], Head(net[p]))) \subseteq Range(socket[p]) \cup Range(net[p])
      <4>1. Head(net[p]) \in Range(net[p]) /\ Head(net[p]) \in Datagram
        BY <1>8, TailElements DEF Arrive, VpnInv, TypeOK
      <4>2. Range(Append(socket[p], Head(net[p]))) \subseteq Range(socket[p]) \cup {Head(net[p])}
        BY <4>1, AppendElements DEF VpnInv, TypeOK
      <4> QED BY <4>1, <4>2
    <3>2. socket' = socket \/ socket' = [socket EXCEPT ![p] = Append(@, Head(net[p]))]
      BY <1>8 DEF Arrive, VpnInv, TypeOK
    <3> QED BY <3>1, <3>2 DEF VpnInv, TypeOK
  <2>3. UNCHANGED tunVars
    BY <1>8 DEF Arrive
  <2> QED BY <2>1, <2>2, <2>3 DEF VpnInv, WireInv, Genuine, tunVars
<1>9. ASSUME NEW p \in Peers, NEW d \in Packets, HostSends(p, d) PROVE WireInv'
  <2>1. UNCHANGED <<net, socket, tun_out>>
    BY <1>9 DEF HostSends, netVars
  <2>2. \A q \in Peers : routed[q] \subseteq routed'[q]
    BY <1>9 DEF HostSends, VpnInv, TypeOK
  <2>3. Range(Append(tun_in[p], d)) \subseteq Range(tun_in[p]) \cup {d}
    BY AppendElements DEF VpnInv, TypeOK
  <2>4. \A q \in Peers : Range(tun_in'[q]) \subseteq routed'[q]
    <3>1. Range(tun_in[p]) \cup {d} \subseteq routed'[p]
      BY <1>9 DEF HostSends, VpnInv, WireInv, TypeOK
    <3>2. tun_in' = [tun_in EXCEPT ![p] = Append(@, d)]
      BY <1>9 DEF HostSends
    <3> QED BY <2>2, <2>3, <3>1, <3>2 DEF VpnInv, WireInv, TypeOK
  <2> QED BY <2>1, <2>2, <2>4, OtherPeer DEF VpnInv, WireInv, Genuine
<1>10. ASSUME NEW p \in Peers, Lose(p) PROVE WireInv'
  <2>1. \A q \in Peers : Range(net'[q]) \subseteq Range(net[q])
    <3>1. Range(Tail(net[p])) \subseteq Range(net[p])
      BY <1>10, TailElements DEF Lose, VpnInv, TypeOK
    <3>2. net' = [net EXCEPT ![p] = Tail(@)]
      BY <1>10 DEF Lose
    <3> QED BY <3>1, <3>2 DEF VpnInv, TypeOK
  <2>2. UNCHANGED socket
    BY <1>10 DEF Lose
  <2>3. UNCHANGED tunVars
    BY <1>10 DEF Lose
  <2> QED BY <2>1, <2>2, <2>3 DEF VpnInv, WireInv, Genuine, tunVars
<1>11. ASSUME NEW p \in Peers, Overtake(p) PROVE WireInv'
  <2>1. \A q \in Peers : Range(net'[q]) \subseteq Range(net[q])
    <3>1. PICK k \in 1 .. Len(net[p]) - 1 :
            net' = [net EXCEPT ![p] = [@ EXCEPT ![k] = net[p][k + 1], ![k + 1] = net[p][k]]]
      BY <1>11 DEF Overtake
    <3> DEFINE s == [net[p] EXCEPT ![k] = net[p][k + 1], ![k + 1] = net[p][k]]
    <3>2. Range(s) \subseteq Range(net[p])
      BY SwapElements DEF VpnInv, TypeOK
    <3> HIDE DEF s
    <3>3. net' = [net EXCEPT ![p] = s]
      BY <3>1 DEF s
    <3> QED BY <3>2, <3>3 DEF VpnInv, TypeOK
  <2>2. UNCHANGED socket
    BY <1>11 DEF Overtake
  <2>3. UNCHANGED tunVars
    BY <1>11 DEF Overtake
  <2> QED BY <2>1, <2>2, <2>3 DEF VpnInv, WireInv, Genuine, tunVars
<1>12. ASSUME NEW p \in Peers, Duplicate(p) PROVE WireInv'
  <2>1. \A q \in Peers : Range(net'[q]) \subseteq Range(net[q])
    <3>1. Range(Append(net[p], Head(net[p]))) \subseteq Range(net[p])
      BY <1>12, AppendElements, TailElements DEF Duplicate, VpnInv, TypeOK
    <3> QED BY <1>12, <3>1 DEF Duplicate, VpnInv, TypeOK
  <2>2. UNCHANGED socket
    BY <1>12 DEF Duplicate
  <2>3. UNCHANGED tunVars
    BY <1>12 DEF Duplicate
  <2> QED BY <2>1, <2>2, <2>3 DEF VpnInv, WireInv, Genuine, tunVars
<1>13. ASSUME NEW p \in Peers, SendTest(p) PROVE WireInv'
  <2>0. PICK token \in IF step = "step6b" THEN BOOLEAN ELSE {FALSE} :
         net' = [net EXCEPT ![p] = Append(@, TestMessage(token))]
    BY <1>13 DEF SendTest
  <2> DEFINE m == TestMessage(token)
  <2>e. Genuine(m, p) /\ m \in Datagram
    BY DatagramTypes DEF Genuine, TestMessage, VpnInv, TypeOK
  <2> HIDE DEF m
  <2>1. Range(Append(net[p], m)) \subseteq Range(net[p]) \cup {m}
    BY <2>e, AppendElements, OtherPeer DEF VpnInv, TypeOK
  <2>2. \A q \in Peers : Range(net'[q]) \subseteq Range(net[q]) \cup (IF q = p THEN {m} ELSE {})
    BY <2>0, <2>1 DEF VpnInv, TypeOK, m
  <2>3. UNCHANGED <<socket, routed, tun_in, tun_out>>
    BY <1>13 DEF SendTest, tunVars
  <2> QED BY <2>e, <2>2, <2>3 DEF VpnInv, WireInv, Genuine
<1>14. ASSUME NEW p \in Peers, DropBadChecksum(p) PROVE WireInv'
  BY <1>14, OtherPeer, AppendElements, TailElements, DatagramTypes DEF VpnInv, WireInv, Genuine, LoopInv, TypeOK, DropBadChecksum, At, Send, Keepalive, Data, TestMessage, xor_crypt, Payload, loopVars, clockVars, tunVars, netVars
<1>15. ASSUME NEW p \in Peers, ReceiveFails(p) PROVE WireInv'
  BY <1>15, OtherPeer, AppendElements, TailElements, DatagramTypes DEF VpnInv, WireInv, Genuine, LoopInv, TypeOK, ReceiveFails, At, Serve, Heard, Send, Keepalive, Data, TestMessage, xor_crypt, Payload, loopVars, clockVars, tunVars, netVars
<1>16. ASSUME NEW p \in Peers, Crash(p) PROVE WireInv'
  <2>1. Range(<<>>) = {}
    BY DEF Range
  <2>2. \A q \in Peers : /\ Range(socket'[q]) \subseteq Range(socket[q])
                         /\ Range(tun_in'[q]) \subseteq Range(tun_in[q])
    BY <1>16, <2>1 DEF Crash, VpnInv, TypeOK
  <2>3. UNCHANGED <<net, routed, tun_out>>
    BY <1>16 DEF Crash
  <2> QED BY <2>2, <2>3 DEF VpnInv, WireInv, Genuine
<1>17. ASSUME NEW p \in Peers, Restart(p) PROVE WireInv'
  BY <1>17, OtherPeer, AppendElements, TailElements, DatagramTypes DEF VpnInv, WireInv, Genuine, LoopInv, TypeOK, Restart, Send, Keepalive, Data, TestMessage, xor_crypt, Payload, loopVars, clockVars, tunVars, netVars
<1>18. CASE UNCHANGED vars
  BY <1>18 DEF VpnInv, WireInv, Genuine, vars, loopVars, clockVars, tunVars, netVars
<1> QED BY <1>1, <1>2, <1>3, <1>4, <1>5, <1>6, <1>7, <1>8, <1>9, <1>10, <1>11, <1>12, <1>13, <1>14, <1>15, <1>16, <1>17, <1>18 DEF Next, Peer, Environment

\* The inductive invariant holds in every reachable state.
THEOREM Invariance == SafeSpec => []VpnInv
<1>1. VpnInv /\ [Next]_vars => VpnInv'
  BY TypeStep, LoopStep, ClockStep, NotedStep, WireStep DEF VpnInv
<1> QED BY InitVpnInv, <1>1, PTL DEF SafeSpec

\* Type correctness.
THEOREM TypeCorrect == SafeSpec => []TypeOK
<1>1. VpnInv => TypeOK
  BY DEF VpnInv
<1> QED BY Invariance, <1>1, PTL

\* A peer is declared dead only after PEER_TIMEOUT seconds of real silence, less a
\* round in step5b, where what the program notes of a packet may be that old.
THEOREM DeadMeansSilent == SafeSpec => []DeadOnlyAfterSilence
<1>1. ASSUME VpnInv PROVE DeadOnlyAfterSilence
  <2> SUFFICES ASSUME NEW p \in Peers, ~peer_alive[p], heard[p] <= PeerTimeout
               PROVE  /\ step = "step5b"
                      /\ heard[p] + Round > PeerTimeout \/ "checksum" \in Faults[p]
    BY <1>1, VpnAssumption DEF DeadOnlyAfterSilence, VpnInv, TypeOK
  <2>1. received[p] > PeerTimeout
    BY <1>1 DEF VpnInv, ClockInv
  <2>2. received[p] \in Nat /\ heard[p] \in Nat /\ PeerTimeout \in Nat /\ Round \in Nat
    BY <1>1, VpnAssumption DEF VpnInv, TypeOK, Round
  <2> QED BY <1>1, <2>1, <2>2 DEF VpnInv, NotedInv
<1> QED BY Invariance, <1>1, PTL

\* A silence is reported at most one round of the loop after PEER_TIMEOUT.
THEOREM SilenceReported == SafeSpec => []SilenceReportedInTime
<1>1. VpnInv => SilenceReportedInTime
  BY VpnAssumption DEF VpnInv, TypeOK, ClockInv, SilenceReportedInTime, Round
<1> QED BY Invariance, <1>1, PTL

\* What comes out of the tunnel was routed into its other end.
THEOREM DeliveredGenuine == SafeSpec => []DeliveredWasSent
<1>1. VpnInv => DeliveredWasSent
  BY DEF VpnInv, WireInv, DeliveredWasSent
<1> QED BY Invariance, <1>1, PTL
-----------------------------------------------------------------------------
(* No peer that runs is declared dead *)

\* Silence grows with the losses, by one period each.
LEMMA SilenceGrows ==
  ASSUME AliveAssumption
  PROVE  /\ Period \in Nat /\ Round \in Nat /\ Round > 0
         /\ \A n \in Nat : /\ Silence(n) \in Nat /\ Silence(n) >= Round
                         /\ Silence(n + 1) = Silence(n) + Period
         /\ \A n \in 0 .. MaxLost : Silence(n) <= Silence(MaxLost + 1)
                                  /\ Silence(n + 1) <= Silence(MaxLost + 1)
<1>1. Period \in Nat /\ Round \in Nat /\ Round > 0 /\ MaxLost \in Nat
  BY VpnAssumption DEF Period, Round
<1>2. \A n \in Nat : n * Period \in Nat /\ (n + 1) * Period = n * Period + Period
  BY <1>1
<1>3. \A n \in Nat : /\ Silence(n) \in Nat /\ Silence(n) >= Round
                   /\ Silence(n + 1) = Silence(n) + Period
  BY <1>1, <1>2 DEF Silence
<1>4. ASSUME NEW n \in 0 .. MaxLost
      PROVE  Silence(n) <= Silence(MaxLost + 1) /\ Silence(n + 1) <= Silence(MaxLost + 1)
  <2> DEFINE d == MaxLost - n
  <2>1. d \in Nat /\ MaxLost = n + d /\ n \in Nat
    BY <1>1
  <2>2. d * Period \in Nat
    BY <1>2, <2>1
  <2>3. (n + d) * Period = n * Period + d * Period
    BY <1>1, <2>1
  <2>4. n * Period \in Nat /\ (MaxLost + 1) * Period = MaxLost * Period + Period
        /\ (n + 1) * Period = n * Period + Period
    BY <1>1, <1>2, <2>1
  <2> HIDE DEF d
  <2> QED BY <1>1, <2>1, <2>2, <2>3, <2>4 DEF Silence
<1> QED BY <1>1, <1>3, <1>4

\* What the invariant says of a peer while both run.
LEMMA PeerFacts ==
  ASSUME VpnInv, AliveAssumption, NEW p \in Peers
  PROVE  /\ now[p] \in 0 .. Round /\ sent[p] \in 0 .. SentCap /\ received[p] \in 0 .. ReceivedCap
         /\ SentCap \in Nat /\ SentCap > 0 /\ KeepaliveInterval = SentCap
         /\ lost[p] \in 0 .. MaxLost /\ lost[p] \in Nat /\ MaxLost \in Nat
         /\ Since(p) \in 0 .. Period
         /\ net[p] \in Seq(Datagram) /\ socket[p] \in Seq(Datagram)
         /\ pc[p] \in {"select", "clock", "tun", "udp"}
         /\ pc[p] = "udp" => "udp" \in ready[p]
         /\ "udp" \in ready[p] => socket[p] # <<>>
<1>1. "checksum" \notin Faults[p]
  BY DEF AliveAssumption
<1>2. now[p] \in 0 .. Round
  BY <1>1, VpnAssumption DEF VpnInv, TypeOK, ClockInv, NowCap, Round
<1>3. SentCap \in Nat /\ SentCap > 0 /\ KeepaliveInterval = SentCap /\ MaxLost \in Nat
  BY VpnAssumption DEF AliveAssumption, SentCap
<1>4. sent[p] \in 0 .. SentCap /\ lost[p] \in 0 .. MaxLost /\ received[p] \in 0 .. ReceivedCap
  BY DEF VpnInv, TypeOK
<1>5. Since(p) \in 0 .. Period
  BY <1>2, <1>3, <1>4, VpnAssumption DEF Since, Period, Round
<1>6. /\ net[p] \in Seq(Datagram) /\ socket[p] \in Seq(Datagram)
      /\ pc[p] \in {"select", "clock", "tun", "udp"}
  BY DEF VpnInv, TypeOK
<1>7. (pc[p] = "udp" => "udp" \in ready[p]) /\ ("udp" \in ready[p] => socket[p] # <<>>)
  BY <1>1 DEF VpnInv, LoopInv
<1> QED BY <1>2, <1>3, <1>4, <1>5, <1>6, <1>7

\* The same, of the numbers only.
LEMMA PeerNumbers ==
  ASSUME VpnInv, AliveAssumption
  PROVE  /\ Round \in Nat /\ Round > 0 /\ NowCap = Round + 1 /\ Period \in Nat /\ MaxLost + 1 \in Nat
         /\ SentCap \in Nat /\ SentCap > 0 /\ ReceivedCap \in Nat
         /\ \A p \in Peers : /\ now[p] \in Nat /\ now[p] <= Round /\ sent[p] \in Nat /\ received[p] \in Nat
                             /\ lost[p] \in Nat /\ Since(p) \in Nat
         /\ Silence(MaxLost + 1) \in Nat
         /\ \A p \in Peers : Silence(lost[p]) \in Nat /\ Silence(lost[p] + 1) \in Nat
<1>1. /\ Round \in Nat /\ Round > 0 /\ NowCap = Round + 1 /\ Period \in Nat /\ MaxLost + 1 \in Nat
  BY SilenceGrows, VpnAssumption DEF NowCap
<1>2. SentCap \in Nat /\ SentCap > 0 /\ ReceivedCap \in Nat
  BY Caps, VpnAssumption DEF SentCap, AliveAssumption
<1>3. ASSUME NEW p \in Peers
      PROVE  /\ now[p] \in Nat /\ now[p] <= Round /\ sent[p] \in Nat /\ received[p] \in Nat
             /\ lost[p] \in Nat /\ Since(p) \in Nat
  <2>1. /\ now[p] \in 0 .. Round /\ sent[p] \in 0 .. SentCap /\ received[p] \in 0 .. ReceivedCap
        /\ lost[p] \in Nat /\ Since(p) \in 0 .. Period
    BY PeerFacts
  <2> QED BY <1>1, <1>2, <2>1
<1>4. \A n \in Nat : n + 1 \in Nat /\ Silence(n) \in Nat
  BY SilenceGrows
<1> QED BY <1>1, <1>2, <1>3, <1>4

\* A step that leaves alone what HeardOf looks at.
LEMMA HeardFrame ==
  ASSUME NEW p \in Peers, HeardOf(p),
         received'[p] = received[p], now'[p] = now[p], lost'[p] = lost[p],
         pc'[p] = pc[p], ready'[p] = ready[p],
         socket'[p] = <<>> <=> socket[p] = <<>>, net'[p] = <<>> <=> net[p] = <<>>,
         Since(Other(p))' = Since(Other(p))
  PROVE  HeardOf(p)'
BY DEF HeardOf, Reading

\* A second passes: datagrams under way arrive within it, and the loop is no more
\* than a round late.
LEMMA TickHears ==
  ASSUME VpnInv, AliveAssumption, AliveInv, AllUp, Tick
  PROVE  AliveInv'
<1>1. UNCHANGED <<up, pc, ready, peer_alive, net, socket, lost>>
  BY DEF Tick, loopVars, netVars
<1>2. ASSUME NEW p \in Peers
      PROVE  /\ now[p] < Round /\ net[p] = <<>> /\ now'[p] = now[p] + 1
             /\ sent'[p] = IF sent[p] < SentCap THEN sent[p] + 1 ELSE sent[p]
             /\ received'[p] \in 0 .. received[p] + 1
  <2>1. up[p] /\ ~Blocked(p) /\ "late" \notin Faults[p]
    BY PeerFacts DEF AllUp, Blocked, At, AliveAssumption
  <2>2. now[p] < Round /\ net[p] = <<>>
    BY <2>1 DEF Tick, OnTime
  <2>3. now[p] < NowCap
    BY <2>2, PeerNumbers
  <2>4. /\ now' = Older(now, NowCap) /\ sent' = Older(sent, SentCap)
        /\ received' = Older(received, ReceivedCap)
    BY DEF Tick
  <2>5. /\ now'[p] = now[p] + 1
        /\ sent'[p] = IF sent[p] < SentCap THEN sent[p] + 1 ELSE sent[p]
        /\ received'[p] = IF received[p] < ReceivedCap THEN received[p] + 1 ELSE received[p]
    BY <2>1, <2>3, <2>4 DEF Older
  <2>6. received'[p] \in 0 .. received[p] + 1
    BY <2>5, PeerFacts, Caps
  <2> QED BY <2>2, <2>5, <2>6
<1>3. ASSUME NEW p \in Peers PROVE Since(p)' \in Nat /\ Since(p)' >= Since(p) + 1
  <2>1. sent[p] \in Nat /\ sent[p] <= SentCap
    <3>1. sent[p] \in 0 .. SentCap
      BY PeerFacts
    <3> QED BY <3>1, PeerNumbers
  <2>2. SentCap \in Nat /\ SentCap > 0 /\ now[p] \in Nat
    BY PeerNumbers
  <2>3. /\ now'[p] = now[p] + 1
        /\ sent'[p] = IF sent[p] < SentCap THEN sent[p] + 1 ELSE sent[p]
    BY <1>2
  <2>4. Since(p)' = IF sent'[p] < SentCap THEN sent'[p] ELSE SentCap - 1 + now'[p]
    BY DEF Since
  <2> HIDE DEF AliveInv, VpnInv
  <2> QED BY <2>1, <2>2, <2>3, <2>4 DEF Since
<1>4. ASSUME NEW p \in Peers PROVE HeardOf(p)'
  <2>1. HeardOf(p) /\ Other(p) \in Peers
    BY OtherPeer DEF AliveInv
  <2>2. Since(Other(p))' >= Since(Other(p)) + 1 /\ Since(Other(p))' \in Nat
        /\ Since(Other(p)) \in Nat
    BY <1>3, <2>1, PeerFacts
  <2>3. Silence(lost[p]) \in Nat /\ Silence(MaxLost + 1) \in Nat /\ Round \in Nat
    BY PeerNumbers
  <2>4. received[p] \in Nat /\ received'[p] \in Nat /\ received'[p] <= received[p] + 1
        /\ now[p] \in Nat /\ now'[p] = now[p] + 1 /\ net'[p] = <<>> /\ net[p] = <<>>
    BY <1>1, <1>2, PeerNumbers
  <2>5. /\ UNCHANGED <<pc[p], ready[p], socket[p], lost[p]>>
        /\ Silence(lost[p])' = Silence(lost[p]) /\ Reading(p)' = Reading(p)
    BY <1>1 DEF Silence, Reading
  <2>6. socket'[p] = <<>> => received'[p] <= Silence(lost'[p]) + Since(Other(p))'
    BY <2>1, <2>2, <2>3, <2>4, <2>5 DEF HeardOf
  <2>7. socket'[p] # <<>> /\ pc'[p] = "clock" /\ "udp" \notin ready'[p]
         => received'[p] <= Silence(MaxLost + 1) + now'[p]
    BY <2>1, <2>3, <2>4, <2>5 DEF HeardOf
  <2>8. socket'[p] # <<>> /\ ~Reading(p)'
         => received'[p] <= Silence(MaxLost + 1) + Round + now'[p]
    BY <2>1, <2>3, <2>4, <2>5 DEF HeardOf
  <2> QED BY <2>4, <2>6, <2>7, <2>8 DEF HeardOf
<1>5. AllAlive' /\ AllGenuine'
  BY <1>1 DEF AliveInv, AllAlive, AllGenuine
<1> QED BY <1>4, <1>5 DEF AliveInv

\* select() sees what has arrived.
LEMMA SelectHears ==
  ASSUME VpnInv, AliveAssumption, AliveInv, NEW p \in Peers, Select(p)
  PROVE  AliveInv'
<1>1. UNCHANGED <<up, now, sent, received, peer_alive, net, socket, lost>>
  BY DEF Select, clockVars, netVars
<1>2. /\ pc[p] = "select" /\ pc'[p] = "clock" /\ (socket[p] # <<>> => "udp" \in ready'[p])
      /\ \A q \in Peers : q # p => pc'[q] = pc[q] /\ ready'[q] = ready[q]
  BY DEF Select, At, VpnInv, TypeOK
<1>3. \A q \in Peers : Since(q)' = Since(q)
  BY <1>1 DEF Since
<1>4. ASSUME NEW q \in Peers PROVE HeardOf(q)'
  <2>1. HeardOf(q) /\ Since(Other(q))' = Since(Other(q))
    BY <1>3, OtherPeer DEF AliveInv
  <2>2. CASE q = p
    BY <1>1, <1>2, <2>1, <2>2 DEF HeardOf, Reading
  <2>3. CASE q # p
    BY <1>1, <1>2, <2>1, <2>3, HeardFrame
  <2> QED BY <2>2, <2>3
<1>5. AllAlive' /\ AllGenuine'
  BY <1>1 DEF AliveInv, AllAlive, AllGenuine
<1> QED BY <1>4, <1>5 DEF AliveInv

\* A datagram that a peer sends comes no later than a period after its last
\* keepalive, and is genuine.
LEMMA SendHears ==
  ASSUME VpnInv, AliveAssumption, AliveInv, NEW p \in Peers, NEW m \in Datagram, m.auth, Send(p, m),
         UNCHANGED <<socket, lost, received>>,
         now'[Other(p)] = now[Other(p)], pc'[Other(p)] = pc[Other(p)], ready'[Other(p)] = ready[Other(p)]
  PROVE  HeardOf(Other(p))' /\ AllGenuine' /\ net'[p] = net[p]
<1> DEFINE q == Other(p)
<1>1. q \in Peers /\ q # p /\ Other(q) = p
  BY OtherPeer
<1>2. net' = [net EXCEPT ![q] = Append(net[q], m)] /\ net \in [Peers -> Seq(Datagram)]
  BY DEF Send, VpnInv, TypeOK
<1> HIDE DEF q
<1>3. Append(net[q], m) # <<>> /\ Range(Append(net[q], m)) \subseteq Range(net[q]) \cup {m}
  <2>1. net[q] \in Seq(Datagram)
    BY <1>1, <1>2
  <2> HIDE DEF AliveInv, VpnInv
  <2> QED BY <2>1, AppendElements
<1>4. net'[q] = Append(net[q], m) /\ net'[p] = net[p] /\ \A r \in Peers : r # q => net'[r] = net[r]
  BY <1>1, <1>2
<1>5. AllGenuine'
  BY <1>3, <1>4 DEF AliveInv, AllGenuine
<1>6. received[q] <= Silence(lost[q] + 1) \/ socket[q] # <<>>
  <2>1. HeardOf(q) /\ Since(p) \in 0 .. Period /\ lost[q] \in Nat /\ received[q] \in 0 .. ReceivedCap
    BY <1>1, PeerFacts DEF AliveInv
  <2>2. /\ Silence(lost[q]) \in Nat /\ Silence(lost[q] + 1) = Silence(lost[q]) + Period
        /\ Period \in Nat /\ ReceivedCap \in Nat
    BY <2>1, SilenceGrows, Caps
  <2> QED BY <1>1, <2>1, <2>2 DEF HeardOf
<1>7. HeardOf(q)'
  <2>1. HeardOf(q)
    BY <1>1 DEF AliveInv
  <2>2. UNCHANGED <<socket[q], lost[q], received[q], now[q], pc[q], ready[q]>>
    BY DEF q
  <2>3. net'[q] # <<>>
    BY <1>3, <1>4
  <2> QED BY <1>6, <2>1, <2>2, <2>3 DEF HeardOf, Reading
<1> QED BY <1>4, <1>5, <1>7 DEF q

\* The time-out is checked before what has arrived is read; the bound on the
\* silence leaves time for that.
LEMMA ClockHears ==
  ASSUME VpnInv, AliveAssumption, AliveInv, NEW p \in Peers, ReadClock(p)
  PROVE  AliveInv'
<1> DEFINE q == Other(p)
<1>1. q \in Peers /\ q # p /\ Other(q) = p /\ \A r \in Peers : r = p \/ r = q
  BY OtherPeer, PeersAssumption
<1>2. /\ pc[p] = "clock" /\ now' = [now EXCEPT ![p] = 0] /\ UNCHANGED <<received, socket, lost>>
      /\ ready' = [ready EXCEPT ![p] = ready[p]] /\ pc' = [pc EXCEPT ![p] = IF "tun" \in ready[p] THEN "tun"
                             ELSE IF "udp" \in ready[p] THEN "udp" ELSE "select"]
      /\ peer_alive' = [peer_alive EXCEPT ![p] = @ /\ received[p] <= PeerTimeout]
  BY DEF ReadClock, At, Serve, CheckTimeout
<1> HIDE DEF q
<1>3. /\ now'[p] = 0 /\ now'[q] = now[q] /\ pc'[q] = pc[q] /\ ready' = ready /\ pc'[p] # "clock"
      /\ ("udp" \in ready[p] => Reading(p)')
  BY <1>1, <1>2 DEF Reading, VpnInv, TypeOK
<1>4. \A r \in Peers : HeardOf(r)
  BY DEF AliveInv
<1>5. /\ Since(p) \in 0 .. Period /\ Since(q) \in 0 .. Period /\ lost[p] \in 0 .. MaxLost /\ lost[p] \in Nat
      /\ MaxLost + 1 \in Nat /\ now[p] \in 0 .. Round /\ received[p] \in Nat
      /\ PeerTimeout \in Nat
  BY <1>1, PeerFacts, Caps, VpnAssumption
<1>6. received[p] <= PeerTimeout
  <2>1. /\ Silence(lost[p]) \in Nat /\ Silence(lost[p] + 1) = Silence(lost[p]) + Period
        /\ Period \in Nat /\ Silence(lost[p] + 1) <= Silence(MaxLost + 1) /\ Round \in Nat
        /\ Silence(MaxLost + 1) \in Nat /\ Silence(lost[p] + 1) \in Nat
    BY <1>5, SilenceGrows
  <2>2. Silence(MaxLost + 1) + 2 * Round <= PeerTimeout
    BY DEF AliveAssumption
  <2>3. ~Reading(p)
    BY <1>2 DEF Reading
  <2>4. \/ received[p] <= Silence(lost[p]) + Since(q)
        \/ received[p] <= Silence(lost[p] + 1)
        \/ received[p] <= Silence(MaxLost + 1) + Round + now[p]
    BY <1>4, <2>3 DEF HeardOf, q
  <2> QED BY <1>5, <2>1, <2>2, <2>4
<1>7. AllAlive'
  BY <1>2, <1>6 DEF AliveInv, AllAlive, VpnInv, TypeOK
<1>8. ASSUME Since(q)' = Since(q), net'[p] = net[p] PROVE HeardOf(p)'
  <2>1. CASE "udp" \in ready[p]
    BY <1>2, <1>3, <1>4, <1>8, <2>1 DEF HeardOf, q
  <2>2. CASE "udp" \notin ready[p]
    <3>1. Silence(MaxLost + 1) \in Nat /\ Round \in Nat
      BY <1>5, SilenceGrows
    <3>2. socket[p] # <<>> => received[p] <= Silence(MaxLost + 1) + Round + now'[p]
      BY <1>2, <1>3, <1>4, <1>5, <2>2, <3>1 DEF HeardOf
    <3> QED BY <1>2, <1>3, <1>4, <1>8, <3>2 DEF HeardOf, q
  <2> QED BY <2>1, <2>2
<1>9. CASE KeepaliveDue(p) /\ Send(p, Keepalive) /\ sent' = [sent EXCEPT ![p] = 0]
  <2>1. HeardOf(q)' /\ AllGenuine' /\ net'[p] = net[p]
    <3>1. Keepalive \in Datagram /\ Keepalive.auth
      BY DatagramTypes DEF Keepalive
    <3> QED BY <1>2, <1>3, <1>9, <3>1, SendHears DEF q
  <2>2. Since(q)' = Since(q)
    BY <1>1, <1>3, <1>9 DEF VpnInv, TypeOK, Since
  <2> QED BY <1>1, <1>7, <1>8, <2>1, <2>2 DEF AliveInv
<1>10. CASE ~KeepaliveDue(p) /\ UNCHANGED <<net, sent>>
  <2>1. Since(q)' = Since(q) /\ Since(p)' = Since(p)
    <3>1. sent[p] < SentCap
      BY <1>10, PeerFacts DEF KeepaliveDue
    <3> QED BY <1>1, <1>3, <1>10, <3>1 DEF Since
  <2>2. HeardOf(q)'
    BY <1>1, <1>2, <1>3, <1>4, <1>10, <2>1, HeardFrame
  <2>3. AllGenuine'
    BY <1>2, <1>10 DEF AliveInv, AllGenuine
  <2> QED BY <1>1, <1>7, <1>8, <1>10, <2>1, <2>2, <2>3 DEF AliveInv
<1> QED BY <1>9, <1>10 DEF ReadClock

\* A packet from the TUN device counts as a keepalive would.
LEMMA ForwardHears ==
  ASSUME VpnInv, AliveAssumption, AliveInv, NEW p \in Peers, ForwardTun(p)
  PROVE  AliveInv'
<1> DEFINE q == Other(p)
<1>1. q \in Peers /\ q # p /\ Other(q) = p /\ \A r \in Peers : r = p \/ r = q
  BY OtherPeer, PeersAssumption
<1>2. /\ pc[p] = "tun" /\ Send(p, xor_crypt(Data(Head(tun_in[p]))))
      /\ ready' = [ready EXCEPT ![p] = ready[p] \ {"tun"}]
      /\ pc' = [pc EXCEPT ![p] = IF "udp" \in ready[p] THEN "udp" ELSE "select"]
      /\ UNCHANGED <<now, sent, received, peer_alive, socket, lost>>
  BY DEF ForwardTun, At, Serve, clockVars
<1>3. Head(tun_in[p]) \in Packets
  <2>1. tun_in[p] \in Seq(Packets) /\ tun_in[p] # <<>>
    BY <1>2 DEF VpnInv, TypeOK, LoopInv
  <2> QED BY <2>1
<1>4. xor_crypt(Data(Head(tun_in[p]))) \in Datagram /\ xor_crypt(Data(Head(tun_in[p]))).auth
  BY <1>3, DatagramTypes DEF xor_crypt, Data
<1> HIDE DEF q
<1>5. /\ pc'[q] = pc[q] /\ ready'[q] = ready[q] /\ pc'[p] # "clock"
      /\ ("udp" \in ready[p] => Reading(p)') /\ ("udp" \in ready'[p] => "udp" \in ready[p])
  BY <1>1, <1>2 DEF Reading, VpnInv, TypeOK
<1>6. HeardOf(q)' /\ AllGenuine' /\ net'[p] = net[p]
  BY <1>2, <1>4, <1>5, SendHears DEF q
<1>7. HeardOf(p)'
  <2>1. HeardOf(p) /\ Since(q)' = Since(q)
    BY <1>2 DEF AliveInv, Since
  <2> QED BY <1>2, <1>5, <1>6, <2>1 DEF HeardOf, Reading, q
<1> QED BY <1>1, <1>2, <1>6, <1>7 DEF AliveInv, AllAlive

\* What is heard is the peer, by the clock of this round at the earliest.
LEMMA ReceiveHears ==
  ASSUME VpnInv, AliveAssumption, AliveInv, NEW p \in Peers, ReceiveKeepalive(p) \/ ReceiveData(p)
  PROVE  AliveInv'
<1>1. /\ Recvfrom(p) /\ Heard(p) /\ UNCHANGED <<now, sent, net, lost>>
  BY DEF ReceiveKeepalive, ReceiveData
<1>2. /\ socket[p] # <<>> /\ socket' = [socket EXCEPT ![p] = Tail(socket[p])]
      /\ ready' = [ready EXCEPT ![p] = {}] /\ pc' = [pc EXCEPT ![p] = "select"]
  BY <1>1 DEF Recvfrom, Serve
<1>3. PICK age \in HeardAt(p) : received' = [received EXCEPT ![p] = age]
  BY <1>1 DEF Heard
<1>4. age \in 0 .. Round
  BY PeerNumbers DEF HeardAt
<1>5. /\ received'[p] = age /\ pc'[p] = "select" /\ ready'[p] = {}
      /\ \A r \in Peers : r # p => /\ received'[r] = received[r] /\ pc'[r] = pc[r]
                                  /\ ready'[r] = ready[r] /\ socket'[r] = socket[r]
  BY <1>2, <1>3 DEF VpnInv, TypeOK
<1>6. \A r \in Peers : Since(r)' = Since(r)
  BY <1>1 DEF Since
<1>7. HeardOf(p)'
  <2>1. /\ lost'[p] \in 0 .. MaxLost /\ lost'[p] \in Nat /\ Since(Other(p))' \in Nat /\ now'[p] \in Nat
        /\ MaxLost + 1 \in Nat
    <3>1. lost[p] \in 0 .. MaxLost
      BY PeerFacts
    <3> QED BY <1>1, <1>6, <3>1, OtherPeer, PeerNumbers
  <2>2. /\ Silence(lost'[p]) \in Nat /\ Silence(lost'[p]) >= Round
        /\ Silence(lost'[p] + 1) \in Nat /\ Silence(lost'[p] + 1) >= Round
        /\ Silence(MaxLost + 1) \in Nat /\ Round \in Nat
    BY <2>1, SilenceGrows
  <2> QED BY <1>4, <1>5, <2>1, <2>2 DEF HeardOf
<1>8. ASSUME NEW r \in Peers, r # p PROVE HeardOf(r)'
  <2>1. HeardOf(r) /\ Since(Other(r))' = Since(Other(r))
    BY <1>6, OtherPeer DEF AliveInv
  <2> QED BY <1>1, <1>5, <1>8, <2>1, HeardFrame
<1>9. AllGenuine'
  <2>1. Range(Tail(socket[p])) \subseteq Range(socket[p])
    BY <1>2, PeerFacts, TailElements
  <2> QED BY <1>1, <1>2, <2>1 DEF AliveInv, AllGenuine, VpnInv, TypeOK
<1>10. AllAlive'
  BY <1>1 DEF Heard, AliveInv, AllAlive, VpnInv, TypeOK
<1> QED BY <1>7, <1>8, <1>9, <1>10 DEF AliveInv

\* What arrives ends the losses; a full socket drops it, but then there is
\* something to read already.
LEMMA ArriveHears ==
  ASSUME VpnInv, AliveAssumption, AliveInv, AllUp, NEW p \in Peers, Arrive(p)
  PROVE  AliveInv'
<1>1. /\ net[p] # <<>> /\ net' = [net EXCEPT ![p] = Tail(@)] /\ lost' = [lost EXCEPT ![p] = 0]
      /\ socket' = [socket EXCEPT ![p] =
           IF up[p] /\ Len(@) < SocketCap THEN Append(@, Head(net[p])) ELSE @]
      /\ UNCHANGED <<up, pc, ready, now, sent, received, peer_alive>>
  BY DEF Arrive, loopVars, clockVars
<1> DEFINE new == Append(socket[p], Head(net[p]))
<1>2. /\ Head(net[p]) \in Range(net[p]) /\ Range(Tail(net[p])) \subseteq Range(net[p])
      /\ Head(net[p]) \in Datagram
  BY <1>1, PeerFacts, TailElements
<1>3. new # <<>> /\ Range(new) \subseteq Range(socket[p]) \cup {Head(net[p])}
  <2>1. socket[p] \in Seq(Datagram)
    BY PeerFacts
  <2> HIDE DEF AliveInv, VpnInv
  <2> QED BY <1>2, <2>1, AppendElements
<1>4. socket'[p] \in {new, socket[p]} /\ net'[p] = Tail(net[p])
      /\ \A r \in Peers : r # p => socket'[r] = socket[r] /\ net'[r] = net[r] /\ lost'[r] = lost[r]
  BY <1>1 DEF VpnInv, TypeOK
<1>5. socket'[p] # <<>>
  <2>1. CASE socket[p] = <<>>
    <3>1. up[p] /\ Len(socket[p]) = 0 /\ SocketCap > 0
      BY <2>1 DEF AllUp, AliveAssumption
    <3>2. socket'[p] = new
      BY <1>1, <3>1 DEF VpnInv, TypeOK
    <3> QED BY <1>3, <3>2
  <2>2. CASE socket[p] # <<>>
    BY <1>3, <1>4, <2>2
  <2> QED BY <2>1, <2>2
<1> HIDE DEF new
<1>6. \A r \in Peers : Since(r)' = Since(r)
  BY <1>1 DEF Since
<1>7. HeardOf(p)'
  <2>1. socket[p] = <<>> => received[p] <= Silence(MaxLost + 1)
    <3>1. socket[p] = <<>> => received[p] <= Silence(lost[p] + 1)
      BY <1>1 DEF AliveInv, HeardOf
    <3>2. lost[p] \in 0 .. MaxLost
      BY PeerFacts
    <3>3. Silence(lost[p] + 1) <= Silence(MaxLost + 1)
      BY <3>2, SilenceGrows
    <3> QED BY <3>1, <3>3, PeerNumbers
  <2>2. HeardOf(p) /\ now[p] \in Nat /\ Round \in Nat /\ Silence(MaxLost + 1) \in Nat /\ received[p] \in Nat
    BY PeerNumbers DEF AliveInv
  <2>3. UNCHANGED <<received[p], now[p], pc[p], ready[p]>> /\ Reading(p)' = Reading(p)
    BY <1>1 DEF Reading
  <2> QED BY <1>5, <2>1, <2>2, <2>3 DEF HeardOf
<1>8. ASSUME NEW r \in Peers, r # p PROVE HeardOf(r)'
  <2>1. HeardOf(r) /\ Since(Other(r))' = Since(Other(r))
    BY <1>6, OtherPeer DEF AliveInv
  <2> QED BY <1>1, <1>4, <1>8, <2>1, HeardFrame
<1>9. AllGenuine'
  BY <1>2, <1>3, <1>4 DEF AliveInv, AllGenuine
<1> QED BY <1>1, <1>7, <1>8, <1>9 DEF AliveInv, AllAlive

\* A loss counts as a period.
LEMMA LoseHears ==
  ASSUME VpnInv, AliveAssumption, AliveInv, NEW p \in Peers, Lose(p)
  PROVE  AliveInv'
<1>1. /\ net[p] # <<>> /\ lost[p] < MaxLost /\ net' = [net EXCEPT ![p] = Tail(@)]
      /\ lost' = [lost EXCEPT ![p] = @ + 1]
      /\ UNCHANGED <<up, pc, ready, now, sent, received, peer_alive, socket>>
  BY DEF Lose, loopVars, clockVars
<1>2. /\ net'[p] = Tail(net[p]) /\ lost'[p] = lost[p] + 1
      /\ \A r \in Peers : r # p => net'[r] = net[r] /\ lost'[r] = lost[r]
  BY <1>1 DEF VpnInv, TypeOK
<1>3. Range(Tail(net[p])) \subseteq Range(net[p])
  BY <1>1, PeerFacts, TailElements
<1>4. \A r \in Peers : Since(r)' = Since(r)
  BY <1>1 DEF Since
<1>5. HeardOf(p)'
  <2>1. HeardOf(p) /\ Since(Other(p)) \in Nat /\ Since(Other(p))' = Since(Other(p))
        /\ received[p] \in Nat
    BY <1>4, OtherPeer, PeerNumbers DEF AliveInv
  <2>2. /\ Silence(lost[p] + 1) \in Nat /\ Period \in Nat /\ lost[p] + 1 \in Nat
        /\ Silence(lost[p] + 1 + 1) = Silence(lost[p] + 1) + Period
    BY PeerNumbers, SilenceGrows
  <2>3. socket[p] = <<>> => received[p] <= Silence(lost[p] + 1)
    BY <1>1, <2>1 DEF HeardOf
  <2>4. UNCHANGED <<received[p], now[p], pc[p], ready[p], socket[p]>> /\ Reading(p)' = Reading(p)
    BY <1>1 DEF Reading
  <2>5. socket'[p] = <<>> => /\ received'[p] <= Silence(lost'[p]) + Since(Other(p))'
                            /\ received'[p] <= Silence(lost'[p] + 1)
    BY <1>2, <2>1, <2>2, <2>3, <2>4
  <2> QED BY <2>1, <2>4, <2>5 DEF HeardOf
<1>6. ASSUME NEW r \in Peers, r # p PROVE HeardOf(r)'
  <2>1. HeardOf(r) /\ Since(Other(r))' = Since(Other(r))
    BY <1>4, OtherPeer DEF AliveInv
  <2> QED BY <1>1, <1>2, <1>6, <2>1, HeardFrame
<1>7. AllGenuine'
  BY <1>1, <1>2, <1>3 DEF AliveInv, AllGenuine
<1> QED BY <1>1, <1>5, <1>6, <1>7 DEF AliveInv, AllAlive

\* Steps that leave the clocks alone, and datagrams under way where there were some.
LEMMA OtherHears ==
  ASSUME VpnInv, AliveInv,
         UNCHANGED <<pc, ready, now, sent, received, peer_alive, socket, lost>>,
         \A p \in Peers : (net'[p] = <<>> <=> net[p] = <<>>) /\ Range(net'[p]) \subseteq Range(net[p])
  PROVE  AliveInv'
<1>1. \A p \in Peers : Since(p)' = Since(p)
  BY DEF Since
<1>2. ASSUME NEW p \in Peers PROVE HeardOf(p)'
  <2>1. HeardOf(p) /\ Since(Other(p))' = Since(Other(p))
    BY <1>1, OtherPeer DEF AliveInv
  <2> QED BY <2>1, HeardFrame
<1>3. AllGenuine' /\ AllAlive'
  BY DEF AliveInv, AllGenuine, AllAlive
<1> QED BY <1>2, <1>3 DEF AliveInv

LEMMA ShuffleHears ==
  ASSUME VpnInv, AliveInv, NEW p \in Peers, Overtake(p) \/ Duplicate(p)
  PROVE  AliveInv'
<1>1. UNCHANGED <<pc, ready, now, sent, received, peer_alive, socket, lost>>
  BY DEF Overtake, Duplicate, loopVars, clockVars
<1>2. net \in [Peers -> Seq(Datagram)] /\ net[p] \in Seq(Datagram)
  BY DEF VpnInv, TypeOK
<1>3. CASE Overtake(p)
  <2>1. PICK k \in 1 .. Len(net[p]) - 1 :
          net' = [net EXCEPT ![p] = [net[p] EXCEPT ![k] = net[p][k + 1], ![k + 1] = net[p][k]]]
    BY <1>3 DEF Overtake
  <2> DEFINE swapped == [net[p] EXCEPT ![k] = net[p][k + 1], ![k + 1] = net[p][k]]
  <2>2. swapped \in Seq(Datagram) /\ Range(swapped) \subseteq Range(net[p])
    BY <1>2, SwapElements
  <2>3. swapped # <<>> /\ net[p] # <<>>
    <3>1. DOMAIN swapped = DOMAIN net[p] /\ k \in DOMAIN net[p]
      BY <1>2
    <3>2. DOMAIN <<>> = {}
      OBVIOUS
    <3> QED BY <3>1, <3>2
  <2>4. net'[p] = swapped /\ \A r \in Peers : r # p => net'[r] = net[r]
    BY <1>2, <2>1
  <2> HIDE DEF swapped
  <2> QED BY <1>1, <2>2, <2>3, <2>4, OtherHears
<1>4. CASE Duplicate(p)
  <2> DEFINE more == Append(net[p], Head(net[p]))
  <2>1. net[p] # <<>> /\ net' = [net EXCEPT ![p] = more]
    BY <1>4 DEF Duplicate
  <2>2. Head(net[p]) \in Datagram /\ Head(net[p]) \in Range(net[p])
    BY <1>2, <2>1, TailElements
  <2>3. more # <<>> /\ Range(more) \subseteq Range(net[p]) \cup {Head(net[p])}
    BY <1>2, <2>2, AppendElements
  <2>4. net'[p] = more /\ \A r \in Peers : r # p => net'[r] = net[r]
    BY <1>2, <2>1
  <2> HIDE DEF more
  <2> QED BY <1>1, <2>1, <2>2, <2>3, <2>4, OtherHears
<1> QED BY <1>3, <1>4

LEMMA AliveInitially ==
  ASSUME AliveAssumption, Init
  PROVE  AliveInv
<1>1. /\ \A p \in Peers : net[p] = <<>> /\ socket[p] = <<>> /\ received[p] = 0 /\ peer_alive[p]
                       /\ lost[p] = 0 /\ now[p] = 0 /\ sent[p] = 0
      /\ Range(<<>>) = {}
  BY DEF Init, Range
<1>2. VpnInv
  BY InitVpnInv
<1>3. ASSUME NEW p \in Peers PROVE HeardOf(p)
  <2>1. Silence(lost[p]) \in Nat /\ Since(Other(p)) \in Nat
    BY <1>2, OtherPeer, PeerNumbers
  <2> QED BY <1>1, <2>1 DEF HeardOf
<1>4. AllGenuine /\ AllAlive
  BY <1>1 DEF AllGenuine, AllAlive
<1> QED BY <1>3, <1>4 DEF AliveInv

\* As long as both run, every step keeps the bound on the silence.
LEMMA AliveStep ==
  ASSUME AliveAssumption, VpnInv, AliveInv, AllUp, AllUp', [Next]_vars
  PROVE  AliveInv'
<1>1. ASSUME NEW p \in Peers
      PROVE  /\ ~ReceiveUnauthorized(p) /\ ~SendTest(p) /\ ~DropBadChecksum(p)
             /\ ~ReceiveFails(p) /\ ~Crash(p) /\ ~Restart(p)
  <2>1. Faults[p] \cap {"late", "foreign", "recvfail", "checksum"} = {} /\ up[p] /\ up'[p]
    BY DEF AliveAssumption, AllUp
  <2>2. ~SendTest(p) /\ ~DropBadChecksum(p) /\ ~ReceiveFails(p) /\ ~Restart(p)
    BY <2>1 DEF SendTest, DropBadChecksum, ReceiveFails, Restart
  <2>3. ~Crash(p)
    BY <2>1 DEF Crash, VpnInv, TypeOK
  <2>4. ~ReceiveUnauthorized(p)
    <3>1. socket[p] # <<>> => Head(socket[p]).auth
      BY PeerFacts, TailElements DEF AliveInv, AllGenuine
    <3> QED BY <3>1 DEF ReceiveUnauthorized, Recvfrom, Authorized
  <2> QED BY <2>2, <2>3, <2>4
<1>2. ASSUME NEW p \in Peers, NEW d \in Packets, HostSends(p, d) PROVE AliveInv'
  BY <1>2, OtherHears DEF HostSends, loopVars, clockVars, netVars
<1>3. CASE UNCHANGED vars
  BY <1>3, OtherHears DEF vars, loopVars, clockVars, netVars
<1> QED BY <1>1, <1>2, <1>3, TickHears, SelectHears, ClockHears, ForwardHears, ReceiveHears, ArriveHears,
           LoseHears, ShuffleHears DEF Next, Peer, Environment

\* For all intervals, lags, losses and packets under which the time-out was
\* sized for the keepalives, and however datagrams are reordered and repeated:
\* unless one of the two stops, neither is ever declared dead.
THEOREM NobodyDeclaredDead == ASSUME AliveAssumption PROVE SafeSpec => NoFalseTimeout
<1>1. Init => AliveInv
  BY AliveInitially
<1>2. AliveInv /\ VpnInv /\ AllUp /\ AllUp' /\ [Next]_vars => AliveInv'
  BY AliveStep
<1>3. AliveInv => AllAlive
  BY DEF AliveInv
<1> QED BY <1>1, <1>2, <1>3, Invariance, PTL DEF SafeSpec, NoFalseTimeout
=============================================================================
