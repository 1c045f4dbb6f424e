------------------------------ MODULE MCKvTcp ------------------------------
(***************************************************************************)
(* An instance of KvTcp for TLC: one key, so that a GET can find it or not.*)
(***************************************************************************)
EXTENDS KvTcp

CONSTANTS k1, v1

Req(op) == [op |-> op, key |-> k1, value |-> v1]
AllKinds == {Req("SET"), Req("GET"), Req("DEL")}
=============================================================================
