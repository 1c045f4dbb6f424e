----------------------------- MODULE VpnTunnel -----------------------------
(***************************************************************************)
(* The VPN of "FINAL VPN-PROJECT PART2": two peers run the same main loop  *)
(* and exchange keepalives and encapsulated IP packets over UDP.  The loop *)
(* is cut after select(), after the clock's two checks and after each      *)
(* transfer, so datagrams arrive, seconds pass and peers crash between any *)
(* two of its steps.  Two steps of the project are modelled: step6b        *)
(* authentication (6a differs in how it compares the token) and step5b     *)
(* encryption and decryption, which has no token.                          *)
(*                                                                         *)
(* time(NULL) counts whole seconds; a time_t variable t is kept as its age,*)
(* clock - t, so that a difference of two of them is a difference of ages. *)
(***************************************************************************)
EXTENDS Integers, Sequences, Functions

CONSTANTS
  Steps,              \* the steps of the project: "step5b", "step6b"
  Peers,              \* the two ends of the tunnel
  KeepaliveInterval,  \* KEEPALIVE_INTERVAL, 5 seconds in the code
  PeerTimeout,        \* PEER_TIMEOUT, 15 seconds in the code
  Hosts,              \* bound: the ends whose host routes packets into the tunnel
  Packets,            \* the IP packets it routes
  Faults,             \* the kinds of fault that may befall each peer
  MaxLag,             \* bound: seconds by which a peer's loop may run late
  MaxLost,            \* bound: datagrams lost in a row in one direction
  NetCap,             \* bound: datagrams in flight in one direction
  TestCap,            \* bound: as many at most with one of send_test, when it is sent
  SocketCap           \* datagrams a socket's receive buffer holds

FaultKinds == {"crash",      \* a peer dies, and may be restarted
               "late",       \* a datagram is in flight for more than a second
               "reorder",    \* a datagram overtakes another
               "duplicate",  \* the network delivers a datagram twice
               "foreign",    \* send_test sends a datagram of its own
               "recvfail",   \* recvfrom() returns -1
               "checksum"}   \* recvfrom() drops the datagram select() announced

\* The longest a loop iteration can take: select()'s second, and the lag.
Round == 1 + MaxLag

\* Ages are not told apart beyond what the program compares them with.
NowCap      == Round + 1
SentCap     == KeepaliveInterval
ReceivedCap == PeerTimeout + Round + 1
HeardCap    == PeerTimeout + 1

ASSUME PeersAssumption == \E a, b \in Peers : a # b /\ Peers = {a, b}
ASSUME VpnAssumption ==
  /\ Steps \subseteq {"step5b", "step6b"}
  /\ KeepaliveInterval \in Nat /\ PeerTimeout \in Nat
  /\ Faults \in [Peers -> SUBSET FaultKinds]
  /\ MaxLag \in Nat /\ MaxLost \in Nat /\ NetCap \in Nat /\ TestCap \in Nat /\ SocketCap \in Nat

Other(p) == CHOOSE q \in Peers : q # p

VARIABLES
  step,       \* which step's program both ends run
  up,         \* whether the process runs
  pc,         \* where its loop is
  ready,      \* the descriptors of readfds left to serve, "tun" and "udp"
  now,        \* age of now
  sent,       \* age of last_keepalive_sent
  received,   \* age of last_packet_received
  peer_alive,
  routed,     \* packets a host has routed into its TUN device so far
  tun_in,     \* those the process has not read yet
  tun_out,    \* the payloads the process wrote to its TUN device
  net,        \* datagrams in flight to a peer
  socket,     \* datagrams in its socket's receive buffer
  lost,       \* datagrams lost in a row on their way to it
  heard       \* history: age of the last packet a peer took in, or of its start

loopVars  == <<step, up, pc, ready>>
clockVars == <<now, sent, received, heard>>
tunVars   == <<routed, tun_in, tun_out>>
netVars   == <<net, socket, lost>>
vars == <<loopVars, clockVars, peer_alive, tunVars, netVars>>

\* A datagram: command, whether its auth field holds AUTH_TOKEN, and for CMD_DATA
\* the payload and whether it has been through xor_crypt.  The sequence number is
\* left out: no peer reads it but to print it.  In step5b there is no such field,
\* and nothing is read of it.
None == "none"
Keepalive == [command |-> "KEEPALIVE", auth |-> TRUE, payload |-> None, xored |-> FALSE]
Data(d)   == [command |-> "DATA", auth |-> TRUE, payload |-> d, xored |-> FALSE]
\* What send_test sends, in clear: the text of somebody who has told it the token,
\* or of a stranger.
Texts == {"known", "stranger"}
TestMessage(token) ==
  [command |-> "DATA", auth |-> token,
   payload |-> IF token THEN "known" ELSE "stranger", xored |-> FALSE]

\* Slip to be caught: only keepalives are tested for the token.
AuthorizedData(m) == m.auth \/ step = "step5b" \/ m.command = "DATA"

\* step5b takes every datagram for a packet of the peer.
Authorized(m) == m.auth \/ step = "step5b"

\* Slip to be caught: nothing is encrypted.
xor_cryptNot(m) == m

xor_crypt(m) == [m EXCEPT !.xored = ~@]

\* What of a datagram is written to the TUN device: bytes that are an IP packet
\* when they have been through xor_crypt an even number of times.
Payload(m) == [payload |-> m.payload, xored |-> m.xored]

Init ==
  /\ step \in Steps
  /\ up = [p \in Peers |-> TRUE]
  /\ pc = [p \in Peers |-> "select"]
  /\ ready = [p \in Peers |-> {}]
  /\ now = [p \in Peers |-> 0]
  /\ sent = [p \in Peers |-> 0]
  /\ received = [p \in Peers |-> 0]
  /\ peer_alive = [p \in Peers |-> TRUE]
  /\ routed = [p \in Peers |-> {}]
  /\ tun_in = [p \in Peers |-> <<>>]
  /\ tun_out = [p \in Peers |-> {}]
  /\ net = [p \in Peers |-> <<>>]
  /\ socket = [p \in Peers |-> <<>>]
  /\ lost = [p \in Peers |-> 0]
  /\ heard = [p \in Peers |-> 0]

-----------------------------------------------------------------------------
(* The loop of a peer *)

At(p, where) == up[p] /\ pc[p] = where

\* On to the descriptors of readfds that are left to serve, or round the loop.
Serve(p, left) ==
  /\ ready' = [ready EXCEPT ![p] = left]
  /\ pc' = [pc EXCEPT ![p] = IF "tun" \in left THEN "tun"
                             ELSE IF "udp" \in left THEN "udp" ELSE "select"]

\* send_packet to the other peer.  The call never blocks; NetCap is a bound of
\* the model.
Send(p, m) ==
  /\ Len(net[Other(p)]) < NetCap
  /\ net' = [net EXCEPT ![Other(p)] = Append(@, m)]

\* select() returns what is readable, or nothing once its second is over.
Select(p) ==
  /\ At(p, "select")
  /\ ready' = [ready EXCEPT ![p] =
                 {f \in {"tun"} : tun_in[p] # <<>>} \cup {f \in {"udp"} : socket[p] # <<>>}]
  /\ ready'[p] # {} \/ now[p] >= 1
  /\ pc' = [pc EXCEPT ![p] = "clock"]
  /\ UNCHANGED <<step, up, clockVars, peer_alive, tunVars, netVars>>

\* Slip to be caught: the check uses the time of the round before.
CheckTimeoutOfLastRound(p) ==
  peer_alive' = [peer_alive EXCEPT ![p] = @ /\ received[p] - now[p] <= PeerTimeout]

\* Slip to be caught: the peer is given up after one missing keepalive.
CheckTimeoutEarly(p) ==
  peer_alive' = [peer_alive EXCEPT ![p] = @ /\ received[p] <= KeepaliveInterval]

\* Slip to be caught: the two time variables are confused.
CheckTimeoutOfSent(p) ==
  peer_alive' = [peer_alive EXCEPT ![p] = @ /\ sent[p] <= PeerTimeout]

\* A silent peer is declared dead; the clock has just been read.
CheckTimeout(p) ==
  peer_alive' = [peer_alive EXCEPT ![p] = @ /\ received[p] <= PeerTimeout]

KeepaliveDue(p) == sent[p] >= KeepaliveInterval

\* now = time(NULL), the keepalive if it is due, and the time-out.
ReadClock(p) ==
  /\ At(p, "clock")
  /\ now' = [now EXCEPT ![p] = 0]
  /\ \/ /\ KeepaliveDue(p)
        /\ Send(p, Keepalive)
        /\ sent' = [sent EXCEPT ![p] = 0]
     \/ /\ ~KeepaliveDue(p)
        /\ UNCHANGED <<net, sent>>
  /\ CheckTimeout(p)
  /\ Serve(p, ready[p])
  /\ UNCHANGED <<step, up, received, heard, tunVars, socket, lost>>

\* TUN -> UDP: a packet is read into the buffer, encrypted and sent.
ForwardTun(p) ==
  /\ At(p, "tun")
  /\ Send(p, xor_crypt(Data(Head(tun_in[p]))))
  /\ tun_in' = [tun_in EXCEPT ![p] = Tail(@)]
  /\ Serve(p, ready[p] \ {"tun"})
  /\ UNCHANGED <<step, up, clockVars, peer_alive, routed, tun_out, socket, lost>>

\* recvfrom() takes the first datagram of the socket, or waits for one.
Recvfrom(p) ==
  /\ At(p, "udp") /\ socket[p] # <<>>
  /\ socket' = [socket EXCEPT ![p] = Tail(@)]
  /\ Serve(p, {})

\* Slip to be caught: step6b stores the time of the round, too.
HeardAtRound(p) == IF now[p] < NowCap THEN {now[p]} ELSE NowCap .. ReceivedCap

\* last_packet_received takes a new time in step6b, and in step5b the one that was
\* read after select().
HeardAt(p) ==
  IF step = "step6b" THEN {0} ELSE IF now[p] < NowCap THEN {now[p]} ELSE NowCap .. ReceivedCap

\* Slip to be caught: a packet with the token leaves peer_alive alone.
HeardNotAlive(p) ==
  /\ \E age \in HeardAt(p) : received' = [received EXCEPT ![p] = age]
  /\ peer_alive' = peer_alive

\* A packet with the token: the peer is there.
Heard(p) ==
  /\ \E age \in HeardAt(p) : received' = [received EXCEPT ![p] = age]
  /\ peer_alive' = [peer_alive EXCEPT ![p] = TRUE]

\* memcmp of the token fails: dropped.
ReceiveUnauthorized(p) ==
  /\ Recvfrom(p) /\ ~Authorized(Head(socket[p]))
  /\ UNCHANGED <<step, up, clockVars, peer_alive, tunVars, net, lost>>

ReceiveKeepalive(p) ==
  /\ Recvfrom(p) /\ Authorized(Head(socket[p])) /\ Head(socket[p]).command = "KEEPALIVE"
  /\ Heard(p) /\ heard' = [heard EXCEPT ![p] = 0]
  /\ UNCHANGED <<step, up, now, sent, tunVars, net, lost>>

\* UDP -> TUN: the payload is decrypted and written.
ReceiveData(p) ==
  /\ Recvfrom(p) /\ Authorized(Head(socket[p])) /\ Head(socket[p]).command = "DATA"
  /\ Heard(p) /\ heard' = [heard EXCEPT ![p] = 0]
  /\ tun_out' = [tun_out EXCEPT ![p] = @ \cup {Payload(xor_crypt(Head(socket[p])))}]
  /\ UNCHANGED <<step, up, now, sent, routed, tun_in, net, lost>>

\* n = -1 passes the unsigned test n >= sizeof(vpn_header_t), and what an
\* earlier part of the loop left in the buffer is taken for a header, with the
\* token or without; the write to the TUN device, of a negative length, fails.
ReceiveFails(p) ==
  /\ "recvfail" \in Faults[p]
  /\ At(p, "udp")
  /\ Heard(p) \/ (step = "step6b" /\ UNCHANGED <<received, peer_alive>>)
  /\ Serve(p, {})
  /\ UNCHANGED <<step, up, now, sent, heard, tunVars, netVars>>

Peer(p) ==
  \/ Select(p) \/ ReadClock(p) \/ ForwardTun(p)
  \/ ReceiveUnauthorized(p) \/ ReceiveKeepalive(p) \/ ReceiveData(p)

-----------------------------------------------------------------------------
(* The clock, the hosts, the network and crashes *)

\* A peer that has to wait in recvfrom() is not late.
Blocked(p) == At(p, "udp") /\ socket[p] = <<>>
OnTime(p) == up[p] /\ ~Blocked(p) => now[p] < Round

Older(age, cap) ==
  [p \in Peers |-> IF up[p] /\ age[p] < cap THEN age[p] + 1 ELSE age[p]]

\* A second passes.
Tick ==
  /\ \A p \in Peers : OnTime(p) /\ (net[p] = <<>> \/ "late" \in Faults[p])
  /\ now' = Older(now, NowCap)
  /\ sent' = Older(sent, SentCap)
  /\ received' = Older(received, ReceivedCap)
  /\ heard' = Older(heard, HeardCap)
  /\ UNCHANGED <<loopVars, peer_alive, tunVars, netVars>>

\* The host of p routes a packet into the tunnel.
HostSends(p, d) ==
  /\ p \in Hosts /\ up[p] /\ d \notin routed[p]
  /\ routed' = [routed EXCEPT ![p] = @ \cup {d}]
  /\ tun_in' = [tun_in EXCEPT ![p] = Append(@, d)]
  /\ UNCHANGED <<loopVars, clockVars, peer_alive, tun_out, netVars>>

\* The next datagram reaches the socket of p; a full or closed one drops it.
Arrive(p) ==
  /\ net[p] # <<>>
  /\ net' = [net EXCEPT ![p] = Tail(@)]
  /\ socket' = [socket EXCEPT ![p] =
       IF up[p] /\ Len(@) < SocketCap THEN Append(@, Head(net[p])) ELSE @]
  /\ lost' = [lost EXCEPT ![p] = 0]
  /\ UNCHANGED <<loopVars, clockVars, peer_alive, tunVars>>

\* A datagram overtakes the one before it.
Overtake(p) ==
  /\ "reorder" \in Faults[p]
  /\ \E k \in 1 .. Len(net[p]) - 1 :
       net' = [net EXCEPT ![p] = [@ EXCEPT ![k] = net[p][k + 1], ![k + 1] = net[p][k]]]
  /\ UNCHANGED <<loopVars, clockVars, peer_alive, tunVars, socket, lost>>

Lose(p) ==
  /\ net[p] # <<>> /\ lost[p] < MaxLost
  /\ net' = [net EXCEPT ![p] = Tail(@)]
  /\ lost' = [lost EXCEPT ![p] = @ + 1]
  /\ UNCHANGED <<loopVars, clockVars, peer_alive, tunVars, socket>>

Duplicate(p) ==
  /\ "duplicate" \in Faults[p]
  /\ net[p] # <<>> /\ Len(net[p]) < NetCap
  /\ net' = [net EXCEPT ![p] = Append(@, Head(@))]
  /\ UNCHANGED <<loopVars, clockVars, peer_alive, tunVars, socket, lost>>

\* send_test: in step6b with the token or without; step5b has none to tell it.
SendTest(p) ==
  /\ "foreign" \in Faults[p]
  /\ Len(net[p]) < NetCap /\ Len(net[p]) < TestCap
  /\ \E token \in IF step = "step6b" THEN BOOLEAN ELSE {FALSE} :
       net' = [net EXCEPT ![p] = Append(@, TestMessage(token))]
  /\ UNCHANGED <<loopVars, clockVars, peer_alive, tunVars, socket, lost>>

\* select() had seen a datagram whose checksum turns out to be wrong.
DropBadChecksum(p) ==
  /\ "checksum" \in Faults[p]
  /\ At(p, "udp") /\ socket[p] # <<>>
  /\ socket' = [socket EXCEPT ![p] = Tail(@)]
  /\ UNCHANGED <<loopVars, clockVars, peer_alive, tunVars, net, lost>>

\* The process is gone, and with it its socket and its TUN device; its variables
\* are kept with the values they will start with.
Crash(p) ==
  /\ "crash" \in Faults[p] /\ up[p]
  /\ up' = [up EXCEPT ![p] = FALSE]
  /\ pc' = [pc EXCEPT ![p] = "select"]
  /\ ready' = [ready EXCEPT ![p] = {}]
  /\ now' = [now EXCEPT ![p] = 0]
  /\ sent' = [sent EXCEPT ![p] = 0]
  /\ received' = [received EXCEPT ![p] = 0]
  /\ heard' = [heard EXCEPT ![p] = 0]
  /\ peer_alive' = [peer_alive EXCEPT ![p] = TRUE]
  /\ tun_in' = [tun_in EXCEPT ![p] = <<>>]
  /\ socket' = [socket EXCEPT ![p] = <<>>]
  /\ UNCHANGED <<step, routed, tun_out, net, lost>>

\* main() starts again.
Restart(p) ==
  /\ ~up[p]
  /\ up' = [up EXCEPT ![p] = TRUE]
  /\ UNCHANGED <<step, pc, ready, clockVars, peer_alive, tunVars, netVars>>

Environment(p) ==
  \/ \E d \in Packets : HostSends(p, d)
  \/ Lose(p) \/ Overtake(p) \/ Duplicate(p) \/ SendTest(p) \/ DropBadChecksum(p)
  \/ ReceiveFails(p) \/ Crash(p) \/ Restart(p)

Next ==
  \/ Tick
  \/ \E p \in Peers : Peer(p) \/ Arrive(p) \/ Environment(p)

\* Time passes, a runnable process is scheduled, the network moves on; no
\* fault is ever required, nor a restart.
Fairness ==
  /\ WF_vars(Tick)
  /\ \A p \in Peers : WF_vars(Peer(p)) /\ WF_vars(Arrive(p))

SafeSpec == Init /\ [][Next]_vars
Spec     == SafeSpec /\ Fairness

-----------------------------------------------------------------------------
(* Properties *)

Datagram == [command : {"DATA", "KEEPALIVE"}, auth : BOOLEAN,
             payload : Packets \cup Texts \cup {None},
             xored : BOOLEAN]

\* Every variable keeps the type its declaration gives it.
TypeOK ==
  /\ step \in Steps
  /\ up \in [Peers -> BOOLEAN]
  /\ pc \in [Peers -> {"select", "clock", "tun", "udp"}]
  /\ ready \in [Peers -> SUBSET {"tun", "udp"}]
  /\ now \in [Peers -> 0 .. NowCap]
  /\ sent \in [Peers -> 0 .. SentCap]
  /\ received \in [Peers -> 0 .. ReceivedCap]
  /\ peer_alive \in [Peers -> BOOLEAN]
  /\ routed \in [Peers -> SUBSET Packets]
  /\ tun_in \in [Peers -> Seq(Packets)]
  /\ tun_out \in [Peers -> SUBSET [payload : Packets \cup Texts, xored : BOOLEAN]]
  /\ net \in [Peers -> Seq(Datagram)]
  /\ socket \in [Peers -> Seq(Datagram)]
  /\ lost \in [Peers -> 0 .. MaxLost]
  /\ heard \in [Peers -> 0 .. HeardCap]

\* A peer is dead to the other only when nothing it could take for its packet has
\* really come for more than PEER_TIMEOUT seconds, whatever the program has noted
\* of it; in step5b, which stores the time of the round and not of the packet, for
\* up to a round less, and for any time when it had to wait in recvfrom().
DeadOnlyAfterSilence ==
  \A p \in Peers : up[p] /\ ~peer_alive[p] =>
    \/ heard[p] > PeerTimeout
    \/ step = "step5b" /\ (heard[p] + Round > PeerTimeout \/ "checksum" \in Faults[p])

\* A silent peer does not stay "alive" for longer than the time-out and one
\* round of the loop: the check is made in every round, whatever else is due,
\* as long as the loop is not held up in recvfrom().
SilenceReportedInTime ==
  \A p \in Peers : up[p] /\ peer_alive[p] /\ now[p] <= Round
    => received[p] <= PeerTimeout + Round

\* What reaches a host through the tunnel is, decrypted, a packet the other
\* host routed into it, or the text of a send_test that was let in: with the token
\* in step6b, any in step5b.  It never is something left over in the buffer, nor,
\* in step6b, from somebody who has not the token.
Admitted == IF step = "step6b" THEN {"known"} ELSE {"stranger"}
Delivered(m, p) ==
  IF m.xored THEN m.payload \in Admitted ELSE m.payload \in routed[Other(p)]
DeliveredWasSent == \A p \in Peers : \A m \in tun_out[p] : Delivered(m, p)

\* The strengthening that makes the three inductive.  The loop's descriptors
\* are really readable, the last check bounds the silence, what is noted of it is
\* no older than it is by more than a round, and every payload on its way that will
\* be let in is encrypted and was routed into the other end, or is the text of a
\* send_test.
LoopInv == \A p \in Peers :
  /\ pc[p] \in {"tun", "udp"} => pc[p] \in ready[p]
  /\ "tun" \in ready[p] => tun_in[p] # <<>>
  /\ "udp" \in ready[p] /\ "checksum" \notin Faults[p] => socket[p] # <<>>

ClockInv == \A p \in Peers :
  /\ peer_alive[p] /\ now[p] <= Round => received[p] <= PeerTimeout + now[p]
  /\ ~peer_alive[p] => received[p] > PeerTimeout
  /\ "checksum" \notin Faults[p] => now[p] <= Round

NotedInv == \A p \in Peers :
  heard[p] <= PeerTimeout =>
    \/ received[p] <= heard[p]
    \/ step = "step5b" /\ (received[p] <= heard[p] + Round \/ "checksum" \in Faults[p])

Genuine(m, p) ==
  m.command = "DATA" /\ Authorized(m) =>
    IF m.xored THEN m.payload \in routed[Other(p)] ELSE m.payload \in Admitted
WireInv == \A p \in Peers :
  /\ \A m \in Range(net[p]) : Genuine(m, p)
  /\ \A m \in Range(socket[p]) : Genuine(m, p)
  /\ Range(tun_in[p]) \subseteq routed[p]
  /\ \A m \in tun_out[p] : Delivered(m, p)

VpnInv == TypeOK /\ LoopInv /\ ClockInv /\ NotedInv /\ WireInv

\* When no datagram comes late, damaged or from a stranger, keepalives are at most
\* Period apart, and MaxLost + 1 of them come within the time-out, together with
\* the two rounds until the loop reads what has arrived, and the round by which
\* the time that step5b stores may be old: 5 and 15 seconds are enough for one
\* loss in a row and a loop that does not lag.
Period == KeepaliveInterval + MaxLag
Silence(n) == n * Period + Round
AliveAssumption ==
  /\ KeepaliveInterval > 0 /\ SocketCap > 0
  /\ Silence(MaxLost + 1) + 2 * Round <= PeerTimeout
  /\ \A p \in Peers : Faults[p] \cap {"late", "foreign", "recvfail", "checksum"} = {}

\* The time since the last keepalive of p, which sent[p] no longer counts when the
\* keepalive is due.
Since(p) == IF sent[p] < SentCap THEN sent[p] ELSE SentCap - 1 + now[p]

\* How long p has heard nothing: nothing has arrived since the last keepalives, or
\* one is under way, or what has arrived will be read after the next check, or
\* the one after.
Reading(p) == pc[p] \in {"tun", "udp"} /\ "udp" \in ready[p]
HeardOf(p) ==
  /\ socket[p] = <<>> /\ net[p] = <<>> => received[p] <= Silence(lost[p]) + Since(Other(p))
  /\ socket[p] = <<>> /\ net[p] # <<>> => received[p] <= Silence(lost[p] + 1)
  /\ socket[p] # <<>> /\ pc[p] = "clock" /\ "udp" \notin ready[p]
       => received[p] <= Silence(MaxLost + 1) + now[p]
  /\ socket[p] # <<>> /\ ~Reading(p)
       => received[p] <= Silence(MaxLost + 1) + Round + now[p]

AllUp == \A p \in Peers : up[p]
AllAlive == \A p \in Peers : peer_alive[p]
AllGenuine == \A p \in Peers : \A m \in Range(net[p]) \cup Range(socket[p]) : m.auth

\* The strengthening of AllAlive that every step preserves as long as both run.
AliveInv == AllAlive /\ AllGenuine /\ \A p \in Peers : HeardOf(p)

\* Keepalives every KEEPALIVE_INTERVAL keep both ends alive through the losses
\* the time-out was sized for: unless one of them stops, neither is ever
\* declared dead.
NoFalseTimeout == []AllUp => []AllAlive

\* The death of a peer is noticed, unless it is restarted or the other dies.
DeadPeerNoticed ==
  \A p \in Peers : (up[p] /\ ~up[Other(p)])
    ~> (~peer_alive[p] \/ up[Other(p)] \/ ~up[p])

\* When both stay up, both end up seeing each other, whatever happened before.
PeersReconnect == <>[]AllUp => <>[]AllAlive
=============================================================================
