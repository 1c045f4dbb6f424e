------------------------------ MODULE KvStore ------------------------------
(***************************************************************************)
(* The key-value store of src/Lab3/lab3_kv_store/src/kv_store.c: an array  *)
(* of MaxItems slots that every call searches from the start.  Keys and    *)
(* values are strings told apart only by strcmp.                           *)
(***************************************************************************)
EXTENDS Integers, FiniteSetsExt

CONSTANTS
  Keys, Values,
  BadKeys,      \* keys that are empty or do not fit MAX_KEY_SIZE
  BadValues,    \* values that do not fit MAX_VAL_SIZE
  MaxItems      \* MAX_ITEMS, 1024 in the code

ASSUME StoreAssumption == MaxItems \in Nat \ {0} /\ BadKeys \subseteq Keys /\ BadValues \subseteq Values

VARIABLES db,   \* the slots
          call  \* the last call and what it returned

Items == 0 .. MaxItems - 1
NoValue == "no value"
Entry(k, v) == [key |-> k, value |-> v, active |-> TRUE]
Cleared == [key |-> NoValue, value |-> NoValue, active |-> FALSE]
Filled == [key : Keys \ BadKeys, value : Values \ BadValues, active : {TRUE}]
Returns(f, k, v, rc) == call' = [function |-> f, key |-> k, value |-> v, rc |-> rc]

\* The slots a search for k can stop at, the free ones, and where it stops.
Holding(k) == {i \in Items : db[i].active /\ db[i].key = k}
Free       == {i \in Items : ~db[i].active}
First(S)   == Min(S)

kv_store_init ==
  /\ db = [i \in Items |-> Cleared]
  /\ call = [function |-> "init", key |-> NoValue, value |-> NoValue, rc |-> 0]

Acceptable(k, v) == k \notin BadKeys /\ v \notin BadValues

\* Slip to be caught: the key is there, so there is nothing to do.
UpdateIgnored(k, v) ==
  /\ Acceptable(k, v) /\ Holding(k) # {}
  /\ UNCHANGED db
  /\ Returns("set", k, v, 0)

\* The first loop of kv_store_set: the key is there.
Update(k, v) ==
  /\ Acceptable(k, v) /\ Holding(k) # {}
  /\ db' = [db EXCEPT ![First(Holding(k))].value = v]
  /\ Returns("set", k, v, 0)

\* Slips to be caught: the key is not searched for; a slot that is in use.
InsertAlways(k, v) ==
  /\ Acceptable(k, v) /\ Free # {}
  /\ db' = [db EXCEPT ![First(Free)] = Entry(k, v)]
  /\ Returns("set", k, v, 0)
InsertAtEnd(k, v) ==
  /\ Acceptable(k, v) /\ Holding(k) = {} /\ Free # {}
  /\ db' = [db EXCEPT ![MaxItems - 1] = Entry(k, v)]
  /\ Returns("set", k, v, 0)

\* The second loop: it is not, and there is an empty slot.
Insert(k, v) ==
  /\ Acceptable(k, v) /\ Holding(k) = {} /\ Free # {}
  /\ db' = [db EXCEPT ![First(Free)] = Entry(k, v)]
  /\ Returns("set", k, v, 0)

Refuse(k, v) ==
  /\ ~Acceptable(k, v) \/ (Holding(k) = {} /\ Free = {})
  /\ UNCHANGED db
  /\ Returns("set", k, v, -1)

kv_store_set(k, v) == Update(k, v) \/ Insert(k, v) \/ Refuse(k, v)

kv_store_del(k) ==
  IF Holding(k) # {}
    THEN db' = [db EXCEPT ![First(Holding(k))] = Cleared]
         /\ Returns("del", k, NoValue, 0)
    ELSE UNCHANGED db /\ Returns("del", k, NoValue, -1)

\* Slip to be caught: the keys are not compared.
GetFirst(k) ==
  /\ UNCHANGED db
  /\ IF Free # Items THEN Returns("get", k, db[First(Items \ Free)].value, 0)
                     ELSE Returns("get", k, NoValue, -1)

kv_store_get(k) ==
  /\ UNCHANGED db
  /\ IF Holding(k) # {} THEN Returns("get", k, db[First(Holding(k))].value, 0)
                        ELSE Returns("get", k, NoValue, -1)

StoreNext ==
  \E k \in Keys :
    \/ \E v \in Values : kv_store_set(k, v)
    \/ kv_store_get(k)
    \/ kv_store_del(k)

StoreSpec == kv_store_init /\ [][StoreNext]_<<db, call>>

-----------------------------------------------------------------------------
(* Properties *)

\* The slots and the last call keep their types, and a slot in use holds a key
\* and a value that the store accepts.
StoreTypeOK ==
  /\ db \in [Items -> Filled \cup {Cleared}]
  /\ call \in [function : {"init", "set", "get", "del"}, key : Keys \cup {NoValue},
               value : Values \cup {NoValue}, rc : {0, -1}]

\* No key is in two slots, however insertions, updates and deletions have left
\* holes: a search always meets the one current value, and a deletion leaves
\* no older copy behind.
NoDuplicateKey ==
  \A i, j \in Items : db[i].active /\ db[j].active /\ db[i].key = db[j].key => i = j

StoreInv == StoreTypeOK /\ NoDuplicateKey

\* The store behaves as a map with MaxItems places, answers included: slots
\* freed by a deletion are all used again before a call fails.
Stored == {k \in Keys : Holding(k) # {}}
Content == [k \in Stored |-> db[First(Holding(k))].value]
Map == INSTANCE KvMap WITH map <- Content, Capacity <- MaxItems
MapSpec == Map!Spec
=============================================================================
