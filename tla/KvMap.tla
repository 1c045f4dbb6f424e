------------------------------- MODULE KvMap -------------------------------
(***************************************************************************)
(* What kv_store.h promises: a finite map from keys to values that holds   *)
(* at most Capacity keys.  The last call and its result are kept in call.  *)
(***************************************************************************)
EXTENDS Integers, FiniteSets

CONSTANTS Keys, Values, BadKeys, BadValues, Capacity

VARIABLES map, call

Call(f, k, v, rc) == [function |-> f, key |-> k, value |-> v, rc |-> rc]
NoValue == "no value"

Init == map = [k \in {} |-> NoValue] /\ call = Call("init", NoValue, NoValue, 0)

HasRoom(k) == k \in DOMAIN map \/ Cardinality(DOMAIN map) < Capacity

Set(k, v) ==
  IF k \notin BadKeys /\ v \notin BadValues /\ HasRoom(k)
    THEN /\ map' = [x \in DOMAIN map \cup {k} |-> IF x = k THEN v ELSE map[x]]
         /\ call' = Call("set", k, v, 0)
    ELSE map' = map /\ call' = Call("set", k, v, -1)

Get(k) ==
  /\ map' = map
  /\ call' = IF k \in DOMAIN map THEN Call("get", k, map[k], 0)
                                 ELSE Call("get", k, NoValue, -1)

Del(k) ==
  /\ map' = [x \in DOMAIN map \ {k} |-> map[x]]
  /\ call' = Call("del", k, NoValue, IF k \in DOMAIN map THEN 0 ELSE -1)

Next == \E k \in Keys : Get(k) \/ Del(k) \/ \E v \in Values : Set(k, v)

Spec == Init /\ [][Next]_<<map, call>>
=============================================================================
