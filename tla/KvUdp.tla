------------------------------- MODULE KvUdp -------------------------------
(***************************************************************************)
(* The key-value service over UDP: runs of kv_client -u, which repeat a    *)
(* request until an answer comes (kv_client.c, send_udp), and the loop of  *)
(* kv_server_udp.c around the store.  A caller is one run of kv_client:    *)
(* one request, one socket, so an answer always comes back to the caller   *)
(* whose request it answers, but not which of its attempts.                *)
(***************************************************************************)
EXTENDS KvStore

CONSTANTS
  Callers,
  Hasty,        \* the callers whose time-outs may end an attempt that is only late
  Requests,     \* per caller, the requests it may make, each [op, key, value]
  MaxRetries    \* MAX_RETRIES, 3 in the code

ASSUME UdpAssumption ==
  /\ Requests \in [Callers -> SUBSET [op : {"SET", "GET", "DEL"}, key : Keys, value : Values]]
  /\ MaxRetries \in Nat
  /\ Hasty \subseteq Callers

VARIABLES
  pc,        \* "idle", "waiting" in recvfrom, "done" or "gave_up"
  request,   \* the caller's request
  retry,     \* its retry counter
  toServer,  \* requests in flight, as <<caller, attempt>>
  toClient,  \* answers in flight
  answer,    \* what the caller was told
  before,    \* history: the callers that had ended when this one began
  lost,      \* history: how many datagrams the network has lost for it, while
             \* it counts: until it stops waiting, or does so too early
  late       \* history: the callers that stopped waiting too early

udp == <<pc, request, retry, toServer, toClient, answer, before, lost, late>>
vars == <<db, call, udp>>

None == "none"
NoRequest == [op |-> None, key |-> NoValue, value |-> NoValue]
Ended(c) == pc[c] \in {"done", "gave_up"}

UdpInit ==
  /\ kv_store_init
  /\ pc = [c \in Callers |-> "idle"]
  /\ request = [c \in Callers |-> NoRequest]
  /\ retry = [c \in Callers |-> 0]
  /\ toServer = {} /\ toClient = {}
  /\ answer = [c \in Callers |-> [status |-> None, value |-> NoValue]]
  /\ before = [c \in Callers |-> {}]
  /\ lost = [c \in Callers |-> 0]
  /\ late = {}

-----------------------------------------------------------------------------
(* The caller: send_udp *)

Begin(c) ==
  /\ pc[c] = "idle"
  /\ pc' = [pc EXCEPT ![c] = "waiting"]
  /\ before' = [before EXCEPT ![c] = {x \in Callers : Ended(x)}]
  /\ \E q \in Requests[c] : request' = [request EXCEPT ![c] = q]
  /\ toServer' = toServer \cup {<<c, 0>>}
  /\ UNCHANGED <<db, call, retry, toClient, answer, lost, late>>

\* Answers reach sockets that are open.
Reachable(answers, open) == {r \in answers : r.caller \in open}

\* recvfrom() returns an answer, and the socket is closed.
Receive(c) ==
  /\ pc[c] = "waiting"
  /\ \E r \in toClient :
       /\ r.caller = c
       /\ toClient' = Reachable(toClient, Callers \ {c})
       /\ answer' = [answer EXCEPT ![c] = [status |-> r.status, value |-> r.value]]
  /\ pc' = [pc EXCEPT ![c] = "done"]
  /\ UNCHANGED <<db, call, request, retry, toServer, before, lost, late>>

\* The time-out of 200 ms, which doubles each time, knows nothing of the network:
\* it ends an attempt that is lost, and one that is only late.
InFlight(c) == (\E d \in toServer : d[1] = c) \/ (\E r \in toClient : r.caller = c)
Expires(c) ==
  /\ pc[c] = "waiting"
  /\ IF InFlight(c) THEN c \in Hasty /\ late' = late \cup {c} ELSE late' = late

\* Slip to be caught: one attempt less.
TimeOutEarly(c) ==
  /\ Expires(c)
  /\ retry' = [retry EXCEPT ![c] = @ + 1]
  /\ IF retry[c] + 1 < MaxRetries
       THEN toServer' = toServer \cup {<<c, retry[c] + 1>>} /\ pc' = pc
       ELSE pc' = [pc EXCEPT ![c] = "gave_up"] /\ toServer' = toServer
  /\ toClient' = Reachable(toClient, {x \in Callers : pc'[x] = "waiting"})
  /\ UNCHANGED <<db, call, request, answer, before, lost>>

\* recvfrom() reports EAGAIN: try again, or "TIMEOUT ERROR".
TimeOut(c) ==
  /\ Expires(c)
  /\ retry' = [retry EXCEPT ![c] = @ + 1]
  /\ IF retry[c] + 1 <= MaxRetries
       THEN toServer' = toServer \cup {<<c, retry[c] + 1>>} /\ pc' = pc
       ELSE pc' = [pc EXCEPT ![c] = "gave_up"] /\ toServer' = toServer
  /\ toClient' = Reachable(toClient, {x \in Callers : pc'[x] = "waiting"})
  /\ UNCHANGED <<db, call, request, answer, before, lost>>

-----------------------------------------------------------------------------
(* The server: one round of the loop, from recvfrom() to sendto() *)

Execute(q) ==
  \/ q.op = "SET" /\ kv_store_set(q.key, q.value)
  \/ q.op = "GET" /\ kv_store_get(q.key)
  \/ q.op = "DEL" /\ kv_store_del(q.key)

Status(op, rc) ==
  IF rc = 0 THEN "SUCCESS" ELSE IF op = "SET" THEN "ERROR" ELSE "NOT_FOUND"

Serve(d) ==
  LET c == d[1] op == request[c].op IN
  /\ toServer' = toServer \ {d}
  /\ Execute(request[c])
  /\ toClient' = toClient \cup Reachable(
       {[caller |-> c, attempt |-> d[2], status |-> Status(op, call'.rc),
         value |-> IF op = "GET" THEN call'.value ELSE NoValue]}, {x \in Callers : ~Ended(x)})
  /\ UNCHANGED <<pc, request, retry, answer, before, lost, late>>

-----------------------------------------------------------------------------
(* The network *)

Lose(c) ==
  /\ \/ \E d \in toServer : d[1] = c /\ toServer' = toServer \ {d} /\ toClient' = toClient
     \/ \E r \in toClient : r.caller = c /\ toClient' = toClient \ {r} /\ toServer' = toServer
  /\ lost' = IF Ended(c) \/ c \in late THEN lost ELSE [lost EXCEPT ![c] = @ + 1]
  /\ UNCHANGED <<db, call, pc, request, retry, answer, before, late>>

Caller(c) == Begin(c) \/ Receive(c) \/ TimeOut(c)
UdpNext == (\E c \in Callers : Caller(c) \/ Lose(c)) \/ (\E d \in toServer : Serve(d))

UdpSpec == UdpInit /\ [][UdpNext]_vars

-----------------------------------------------------------------------------
(* Properties *)

\* Types, and the store keeps its own invariant under requests that are repeated.
UdpTypeOK ==
  /\ StoreInv
  /\ pc \in [Callers -> {"idle", "waiting", "done", "gave_up"}]
  /\ request = [c \in Callers |-> request[c]]
  /\ \A c \in Callers :
       IF pc[c] = "idle" THEN request[c] = NoRequest ELSE request[c] \in Requests[c]
  /\ retry \in [Callers -> 0 .. MaxRetries + 1]
  /\ toServer \subseteq Callers \X (0 .. MaxRetries)
  /\ toClient \subseteq
       [caller : Callers, attempt : 0 .. MaxRetries,
        status : {"SUCCESS", "ERROR", "NOT_FOUND"}, value : Values \cup {NoValue}]
  /\ answer \in [Callers -> [status : {None, "SUCCESS", "ERROR", "NOT_FOUND"},
                             value : Values \cup {NoValue}]]
  /\ before \in [Callers -> SUBSET Callers]
  /\ lost \in [Callers -> Nat]
  /\ late \subseteq Callers

\* A call fails only if every one of its MAX_RETRIES + 1 attempts lost its
\* request or its answer, or one of them came too late.
GivesUpOnlyAfterLosses ==
  \A c \in Callers : pc[c] = "gave_up" => lost[c] > MaxRetries \/ c \in late

\* The calls that have begun and set or delete k, the ones that the store has
\* confirmed, and what they leave under k.
Writers(k) == {c \in Callers : pc[c] # "idle" /\ request[c].op # "GET" /\ request[c].key = k}
Confirmed(k) == {c \in Writers(k) : pc[c] = "done" /\ answer[c].status # "ERROR"}
Effect(c) == IF request[c].op = "SET" THEN request[c].value ELSE NoValue

Current(k) == IF k \in Stored THEN Content[k] ELSE NoValue

\* A value v under k can be explained at a time when the calls in S had ended:
\* a write left it and no confirmed write of S began after that write ended;
\* or nothing was stored yet.
Explained(k, v, S) ==
  \/ \E w \in Writers(k) :
       Effect(w) = v /\ (w \in late \/ ~\E x \in Confirmed(k) \cap S : w \in before[x])
  \/ v = NoValue /\ Confirmed(k) \cap S = {}

\* When no call that writes k is in progress, k holds what the last of them
\* wrote: a request that is repeated after a lost answer never comes back to
\* undo a write that began after its own call had ended.  Only one that was
\* repeated while an earlier attempt was still under way can.
LastWriteStands ==
  /\ UdpTypeOK
  /\ \A k \in Keys :
       (\A c \in Writers(k) : Ended(c)) => Explained(k, Current(k), Writers(k))

\* A GET is told a value that some call wrote and that no confirmed write had
\* replaced before the GET began, or NOT FOUND with the same right; that the GET
\* itself was repeated, or got a late answer, changes nothing.
ReadsAreRegular ==
  \A g \in Callers : pc[g] = "done" /\ request[g].op = "GET"
    => Explained(request[g].key, answer[g].value, before[g])

\* The strengthening that makes these inductive.  A caller that is not late has
\* one datagram on its way, or has lost every one that it has sent; once it has
\* ended nothing of it is left that could still reach the store.
Sent(c) == {d \in toServer : d[1] = c}
Due(c) == {r \in toClient : r.caller = c}
Account(c) ==
  \/ Sent(c) = {} /\ Due(c) = {} /\ lost[c] = retry[c] + 1
  \/ lost[c] = retry[c] /\ Due(c) = {} /\ \E d \in toServer : Sent(c) = {d}
  \/ lost[c] = retry[c] /\ Sent(c) = {} /\ \E r \in toClient : Due(c) = {r}
PathInv == \A c \in Callers :
  /\ pc[c] = "idle" =>
       c \notin late /\ Sent(c) = {} /\ Due(c) = {} /\ retry[c] = 0 /\ lost[c] = 0
  /\ pc[c] = "waiting" => retry[c] <= MaxRetries /\ (c \in late \/ Account(c))
  /\ Ended(c) /\ c \notin late => Sent(c) = {}
  /\ \A x \in before[c] : Ended(x)

\* What k holds was left by the last write to be carried out: it has not ended
\* before the beginning of another one that the store has carried out as well.
Stands(c) ==
  \/ pc[c] = "done" /\ answer[c].status # "ERROR"
  \/ \E r \in Due(c) : r.status # "ERROR"
CarriedOut(k) == {c \in Writers(k) : Stands(c)}
CurrentInv == \A k \in Keys :
  \/ \E w \in Writers(k) :
       Effect(w) = Current(k) /\ (w \in late \/ ~\E x \in CarriedOut(k) : w \in before[x])
  \/ Current(k) = NoValue /\ CarriedOut(k) = {}

\* The answer of a GET can be explained already on its way.
ReadInv == \A r \in toClient :
  request[r.caller].op = "GET" => Explained(request[r.caller].key, r.value, before[r.caller])

UdpInv ==
  UdpTypeOK /\ PathInv /\ CurrentInv /\ ReadInv /\ GivesUpOnlyAfterLosses /\ ReadsAreRegular
=============================================================================
