------------------------------ MODULE MCKvUdp ------------------------------
(***************************************************************************)
(* An instance of KvUdp for TLC: three keys for two slots, a value that is *)
(* refused, and every kind of request; one caller is hasty.                *)
(***************************************************************************)
EXTENDS KvUdp, TLC

CONSTANTS k1, k2, k3, v1, v2, long

Req(op, k, v) == [op |-> op, key |-> k, value |-> v]
SomeRequests ==
  [c \in Callers |->
    {Req("GET", k1, v1)} \cup
    (IF c \in Hasty
       THEN {Req("SET", k1, v1), Req("SET", k1, long)}
       ELSE {Req("SET", k1, v2), Req("SET", k2, v1), Req("SET", k3, v1), Req("DEL", k1, v1)})]

CallersAlike == Permutations(Callers \ Hasty)
=============================================================================
