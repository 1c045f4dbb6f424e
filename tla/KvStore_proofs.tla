--------------------------- MODULE KvStore_proofs ---------------------------
(***************************************************************************)
(* Proofs about KvStore for any number of slots, keys and values: no key   *)
(* is ever in two slots, and the array of slots implements the map.        *)
(***************************************************************************)
EXTENDS KvStore, FiniteSetTheorems, WellFoundedInduction, TLAPS

-----------------------------------------------------------------------------
(* Searching the slots *)

\* A search that can stop anywhere stops at one of the slots it looks for.
LEMMA FirstFound ==
  ASSUME NEW S, S \subseteq Items, S # {}
  PROVE  First(S) \in S
<1>1. S \subseteq Nat
  BY StoreAssumption DEF Items
<1>2. PICK x \in S : \A y \in S : ~(y < x)
  <2> DEFINE R == {p \in Nat \X Nat : p[1] < p[2]}
  <2>1. IsWellFoundedOn(R, Nat)
    BY NatLessThanWellFounded DEF OpToRel
  <2>2. \E x \in S : \A y \in S : ~(<<y, x>> \in R)
    <3> HIDE DEF R
    <3> QED BY <1>1, <2>1, WFMin
  <2>3. \A x, y \in Nat : <<y, x>> \in R <=> y < x
    OBVIOUS
  <2> QED BY <1>1, <2>2, <2>3
<1>3. \A y \in S : x <= y
  BY <1>1, <1>2
<1> QED BY <1>3 DEF First, Min

\* Clients of the store see a key in at most one slot.
LEMMA HoldingOne ==
  ASSUME StoreInv, NEW k, NEW i \in Items, db[i].active, db[i].key = k
  PROVE  Holding(k) = {i} /\ First(Holding(k)) = i
<1>1. Holding(k) = {i}
  BY DEF StoreInv, NoDuplicateKey, Holding
<1> QED BY <1>1, FirstFound DEF Items

\* What the type of db says of one slot.
LEMMA SlotType ==
  ASSUME StoreTypeOK, NEW i \in Items
  PROVE  /\ db[i].active \in BOOLEAN
         /\ db[i].active => /\ db[i] \in Filled
                            /\ db[i].key \in Keys \ BadKeys
                            /\ db[i].value \in Values \ BadValues
         /\ ~db[i].active => db[i] = Cleared
<1>1. db[i] \in Filled \/ db[i] = Cleared
  BY DEF StoreTypeOK
<1>2. CASE db[i] \in Filled
  BY <1>2 DEF Filled
<1>3. CASE db[i] = Cleared
  BY <1>3 DEF Cleared
<1> QED BY <1>1, <1>2, <1>3

-----------------------------------------------------------------------------
(* No duplicates *)

LEMMA InitStore == kv_store_init => StoreInv
<1> SUFFICES ASSUME kv_store_init PROVE StoreInv
  OBVIOUS
<1>1. \A i \in Items : db[i] = Cleared
  BY DEF kv_store_init
<1>2. StoreTypeOK
  BY DEF kv_store_init, StoreTypeOK, Cleared
<1>3. NoDuplicateKey
  BY <1>1 DEF NoDuplicateKey, Cleared
<1> QED BY <1>2, <1>3 DEF StoreInv

LEMMA UpdateKeepsInv ==
  ASSUME StoreInv, NEW k \in Keys, NEW v \in Values, Update(k, v)
  PROVE  StoreInv'
<1> DEFINE s == First(Holding(k))
<1>1. s \in Items /\ db[s].active /\ db[s].key = k
  BY FirstFound DEF Update, Holding
<1>2. db' = [db EXCEPT ![s] = [db[s] EXCEPT !.value = v]]
  BY DEF Update
<1> HIDE DEF s
<1>3. db[s] \in Filled
  BY <1>1, SlotType DEF StoreInv
<1>4. [db[s] EXCEPT !.value = v]
        \in Filled
  BY <1>3 DEF Update, Acceptable, Filled
<1>5. StoreTypeOK'
  <2>1. db' \in [Items -> Filled \cup {Cleared}]
    BY <1>2, <1>4 DEF StoreInv, StoreTypeOK
  <2>2. call' = [function |-> "set", key |-> k, value |-> v, rc |-> 0]
    BY DEF Update, Returns
  <2> QED BY <2>1, <2>2 DEF StoreTypeOK
<1>6. NoDuplicateKey'
  <2>1. \A i \in Items : db'[i].active = db[i].active /\ db'[i].key = db[i].key
    BY <1>1, <1>2, <1>3 DEF StoreInv, StoreTypeOK, Filled
  <2> QED BY <2>1 DEF NoDuplicateKey, StoreInv
<1> QED BY <1>5, <1>6 DEF StoreInv

LEMMA InsertKeepsInv ==
  ASSUME StoreInv, NEW k \in Keys, NEW v \in Values, Insert(k, v)
  PROVE  StoreInv'
<1> DEFINE s == First(Free)
<1>1. s \in Items
  BY FirstFound DEF Insert, Free
<1>2. db' = [db EXCEPT ![s] = Entry(k, v)]
  BY DEF Insert
<1> HIDE DEF s
<1>3. Entry(k, v) \in Filled
  BY DEF Insert, Acceptable, Entry, Filled
<1>4. StoreTypeOK'
  <2>1. db' \in [Items -> Filled \cup {Cleared}]
    BY <1>2, <1>3 DEF StoreInv, StoreTypeOK
  <2>2. call' = [function |-> "set", key |-> k, value |-> v, rc |-> 0]
    BY DEF Insert, Returns
  <2> QED BY <2>1, <2>2 DEF StoreTypeOK
<1>5. NoDuplicateKey'
  <2>1. \A i \in Items : IF i = s THEN db'[i].key = k ELSE db'[i] = db[i]
    BY <1>1, <1>2 DEF StoreInv, StoreTypeOK, Entry
  <2>2. \A i \in Items : db[i].active => db[i].key # k
    BY DEF Insert, Holding
  <2> QED BY <2>1, <2>2 DEF NoDuplicateKey, StoreInv
<1> QED BY <1>4, <1>5 DEF StoreInv

LEMMA DelKeepsInv ==
  ASSUME StoreInv, NEW k \in Keys, kv_store_del(k)
  PROVE  StoreInv'
<1>1. CASE Holding(k) = {}
  <2>1. db' = db /\ call' = [function |-> "del", key |-> k, value |-> NoValue, rc |-> -1]
    BY <1>1 DEF kv_store_del, Returns
  <2> QED BY <2>1 DEF StoreInv, StoreTypeOK, NoDuplicateKey
<1>2. CASE Holding(k) # {}
  <2> DEFINE s == First(Holding(k))
  <2>1. s \in Items
    BY <1>2, FirstFound DEF Holding
  <2>2. /\ db' = [db EXCEPT ![s] = Cleared]
        /\ call' = [function |-> "del", key |-> k, value |-> NoValue, rc |-> 0]
    BY <1>2 DEF kv_store_del, Returns
  <2> HIDE DEF s
  <2>3. StoreTypeOK'
    <3>1. db' \in [Items -> Filled \cup {Cleared}]
      BY <2>2 DEF StoreInv, StoreTypeOK
    <3> QED BY <3>1, <2>2 DEF StoreTypeOK
  <2>4. \A i \in Items : db'[i] = db[i] \/ ~db'[i].active
    BY <2>1, <2>2 DEF StoreInv, StoreTypeOK, Cleared
  <2>5. NoDuplicateKey'
    BY <2>4 DEF NoDuplicateKey, StoreInv
  <2> QED BY <2>3, <2>5 DEF StoreInv
<1> QED BY <1>1, <1>2

LEMMA QuietKeepsInv ==
  ASSUME StoreInv, db' = db, call' = call \/ (\E k \in Keys, v \in Values \cup {NoValue},
           f \in {"set", "get"}, rc \in {0, -1} :
             call' = [function |-> f, key |-> k, value |-> v, rc |-> rc])
  PROVE  StoreInv'
<1>1. NoDuplicateKey'
  BY DEF StoreInv, NoDuplicateKey
<1>2. call' \in [function : {"init", "set", "get", "del"}, key : Keys \cup {NoValue},
                 value : Values \cup {NoValue}, rc : {0, -1}]
  BY DEF StoreInv, StoreTypeOK
<1> QED BY <1>1, <1>2 DEF StoreInv, StoreTypeOK

LEMMA GetKeepsInv ==
  ASSUME StoreInv, NEW k \in Keys, kv_store_get(k)
  PROVE  StoreInv'
<1>1. CASE Holding(k) = {}
  <2>1. db' = db /\ call' = [function |-> "get", key |-> k, value |-> NoValue, rc |-> -1]
    BY <1>1 DEF kv_store_get, Returns
  <2> QED BY <2>1, QuietKeepsInv
<1>2. CASE Holding(k) # {}
  <2> DEFINE s == First(Holding(k))
  <2>1. s \in Items /\ db[s].active
    BY <1>2, FirstFound DEF Holding
  <2>2. db[s].value \in Values
    BY <2>1, SlotType DEF StoreInv
  <2>3. db' = db /\ call' = [function |-> "get", key |-> k, value |-> db[s].value, rc |-> 0]
    BY <1>2 DEF kv_store_get, Returns
  <2> HIDE DEF s
  <2> QED BY <2>2, <2>3, QuietKeepsInv
<1> QED BY <1>1, <1>2

LEMMA RefuseKeepsInv ==
  ASSUME StoreInv, NEW k \in Keys, NEW v \in Values, Refuse(k, v)
  PROVE  StoreInv'
<1>1. db' = db /\ call' = [function |-> "set", key |-> k, value |-> v, rc |-> -1]
  BY DEF Refuse, Returns
<1> QED BY <1>1, QuietKeepsInv

\* StoreInv is inductive.
LEMMA StoreStep == StoreInv /\ [StoreNext]_<<db, call>> => StoreInv'
<1> SUFFICES ASSUME StoreInv, [StoreNext]_<<db, call>> PROVE StoreInv'
  OBVIOUS
<1>1. CASE UNCHANGED <<db, call>>
  BY <1>1, QuietKeepsInv
<1>2. CASE StoreNext
  <2>1. PICK k \in Keys : \/ \E v \in Values : kv_store_set(k, v)
                          \/ kv_store_get(k)
                          \/ kv_store_del(k)
    BY <1>2 DEF StoreNext
  <2>2. CASE \E v \in Values : kv_store_set(k, v)
    BY <2>2, UpdateKeepsInv, InsertKeepsInv, RefuseKeepsInv DEF kv_store_set
  <2>3. CASE kv_store_get(k)
    BY <2>3, GetKeepsInv
  <2>4. CASE kv_store_del(k)
    BY <2>4, DelKeepsInv
  <2> QED BY <2>1, <2>2, <2>3, <2>4
<1> QED BY <1>1, <1>2

\* Whatever calls are made, no key is in two slots: a search always meets the
\* one current value of a key, and a deletion leaves no older copy.
THEOREM OneSlotPerKey == StoreSpec => []NoDuplicateKey
<1>1. StoreInv => NoDuplicateKey
  BY DEF StoreInv
<1> QED BY <1>1, InitStore, StoreStep, PTL DEF StoreSpec

\* The slots keep their types, and no slot holds a key or a value that the
\* store refuses.
THEOREM StoreTypeCorrect == StoreSpec => []StoreTypeOK
<1>1. StoreInv => StoreTypeOK
  BY DEF StoreInv
<1> QED BY <1>1, InitStore, StoreStep, PTL DEF StoreSpec

-----------------------------------------------------------------------------
(* The slots implement a map with MaxItems places *)

Used == Items \ Free

\* What the map says, told slot by slot.
SlotBySlot ==
  /\ Stored = {db[i].key : i \in Used}
  /\ \A i \in Used : Content[db[i].key] = db[i].value

LEMMA Lookup == StoreInv => SlotBySlot
<1> SUFFICES ASSUME StoreInv PROVE SlotBySlot
  OBVIOUS
<1>1. Used = {i \in Items : db[i].active}
  BY DEF Used, Free
<1>2. \A i \in Used : db[i].key \in Keys
  BY <1>1, SlotType DEF StoreInv
<1>3. Stored = {db[i].key : i \in Used}
  BY <1>1, <1>2 DEF Stored, Holding
<1>4. ASSUME NEW i \in Used PROVE Content[db[i].key] = db[i].value
  <2>1. First(Holding(db[i].key)) = i
    BY <1>1, HoldingOne
  <2>2. db[i].key \in Stored
    BY <1>3
  <2> QED BY <2>1, <2>2 DEF Content
<1> QED BY <1>3, <1>4 DEF SlotBySlot

LEMMA LookupNext == StoreInv' => SlotBySlot'
BY Lookup, PTL

\* The map has room exactly when a slot is free.
LEMMA RoomIffFree == StoreInv => (Free # {} <=> Cardinality(Stored) < MaxItems)
<1> SUFFICES ASSUME StoreInv PROVE Free # {} <=> Cardinality(Stored) < MaxItems
  OBVIOUS
<1>1. IsFiniteSet(Items) /\ Cardinality(Items) = MaxItems
  BY FS_Interval, StoreAssumption DEF Items
<1>2. /\ IsFiniteSet(Used) /\ Cardinality(Used) \in Nat
      /\ Cardinality(Used) <= MaxItems
      /\ Cardinality(Used) = MaxItems => Used = Items
  BY <1>1, FS_Subset, FS_CardinalityType DEF Used
<1>3. Cardinality(Stored) = Cardinality(Used)
  <2> DEFINE f == [i \in Used |-> db[i].key]
  <2>1. Stored = {f[i] : i \in Used}
    BY Lookup DEF SlotBySlot
  <2>2. \A i, j \in Used : f[i] = f[j] => i = j
    BY DEF Used, Free, StoreInv, NoDuplicateKey
  <2>3. f \in Bijection(Used, Stored)
    <3>1. f \in [Used -> Stored]
      BY <2>1
    <3> HIDE DEF f
    <3> QED BY <2>1, <2>2, <3>1 DEF Bijection, Injection, Surjection, IsInjective
  <2> HIDE DEF f
  <2>4. ExistsBijection(Used, Stored)
    BY <2>3 DEF ExistsBijection
  <2> QED BY <1>2, <2>4, FS_Bijection
<1>4. Used = Items <=> Free = {}
  BY DEF Used, Free
<1> QED BY <1>1, <1>2, <1>3, <1>4, StoreAssumption

LEMMA UpdateIsSet ==
  ASSUME StoreInv, StoreInv', NEW k \in Keys, NEW v \in Values, Update(k, v)
  PROVE  Map!Set(k, v)
<1> DEFINE s == First(Holding(k))
<1>1. s \in Used /\ db[s].key = k
  BY FirstFound DEF Update, Holding, Used, Free
<1>2. db' = [db EXCEPT ![s] = [db[s] EXCEPT !.value = v]]
  BY DEF Update
<1> HIDE DEF s
<1>3. db[s] \in Filled
  BY <1>1, SlotType DEF StoreInv, Used, Free
<1>4. \A i \in Items : /\ db'[i].key = db[i].key
                       /\ db'[i].active = db[i].active
                       /\ db'[i].value = IF i = s THEN v ELSE db[i].value
  BY <1>2, <1>3 DEF StoreInv, StoreTypeOK, Filled
<1>5. Used' = Used
  BY <1>4 DEF Used, Free
<1>6. /\ Stored' = {db'[i].key : i \in Used'}
      /\ \A i \in Used' : Content'[db'[i].key] = db'[i].value
  BY LookupNext DEF SlotBySlot
<1>7. Stored' = Stored
  BY <1>4, <1>5, <1>6, Lookup DEF Used, SlotBySlot
<1>8. ASSUME NEW x \in Stored PROVE Content'[x] = IF x = k THEN v ELSE Content[x]
  <2>1. PICK i \in Used : x = db[i].key
    BY Lookup DEF SlotBySlot
  <2>2. x = k <=> i = s
    BY <1>1, <2>1 DEF StoreInv, NoDuplicateKey, Used, Free
  <2>3. Content'[x] = db'[i].value /\ Content[x] = db[i].value
    BY <1>4, <1>5, <1>6, <2>1, Lookup DEF Used, SlotBySlot
  <2> QED BY <1>4, <2>2, <2>3 DEF Used
<1>9. k \in Stored
  BY <1>1, Lookup DEF SlotBySlot
<1>10. Content' = [x \in Stored \cup {k} |-> IF x = k THEN v ELSE Content[x]]
  BY <1>7, <1>8, <1>9 DEF Content
<1>11. DOMAIN Content = Stored
  BY DEF Content
<1> QED BY <1>9, <1>10, <1>11 DEF Map!Set, Map!HasRoom, Map!Call, Update, Acceptable, Returns

\* The instance counts as this module does.
LEMMA SameCount == ASSUME NEW S PROVE Map!Cardinality(S) = Cardinality(S)
BY DEF Cardinality, Map!Cardinality

LEMMA InsertIsSet ==
  ASSUME StoreInv, StoreInv', NEW k \in Keys, NEW v \in Values, Insert(k, v)
  PROVE  Map!Set(k, v)
<1> DEFINE s == First(Free)
<1>1. s \in Items /\ ~db[s].active
  BY FirstFound DEF Insert, Free
<1>2. db' = [db EXCEPT ![s] = Entry(k, v)]
  BY DEF Insert
<1>3. Free # {}
  BY DEF Insert
<1> HIDE DEF s
<1>4. \A i \in Items : db'[i] = IF i = s THEN Entry(k, v) ELSE db[i]
  BY <1>2 DEF StoreInv, StoreTypeOK
<1>5. Used' = Used \cup {s} /\ s \notin Used
  BY <1>1, <1>4 DEF Used, Free, Entry
<1>6. Stored' = Stored \cup {k} /\ k \notin Stored
  <2>1. \A i \in Used : db'[i].key = db[i].key
    BY <1>4, <1>5 DEF Used
  <2>2. db'[s].key = k
    BY <1>1, <1>4 DEF Entry
  <2>3. Stored' = Stored \cup {k}
    BY <1>5, <2>1, <2>2, Lookup, LookupNext DEF SlotBySlot
  <2> QED BY <2>3 DEF Insert, Stored
<1>7. ASSUME NEW x \in Stored' PROVE Content'[x] = IF x = k THEN v ELSE Content[x]
  <2>1. CASE x = k
    <3>1. s \in Used' /\ db'[s].key = k /\ db'[s].value = v
      BY <1>1, <1>4, <1>5 DEF Entry
    <3> QED BY <2>1, <3>1, LookupNext DEF SlotBySlot
  <2>2. CASE x # k
    <3>1. PICK i \in Used : x = db[i].key
      BY <1>6, <2>2, Lookup DEF SlotBySlot
    <3>2. i \in Used' /\ db'[i] = db[i]
      BY <1>4, <1>5 DEF Used
    <3> QED BY <2>2, <3>1, <3>2, Lookup, LookupNext DEF SlotBySlot
  <2> QED BY <2>1, <2>2
<1>8. Content' = [x \in Stored \cup {k} |-> IF x = k THEN v ELSE Content[x]]
  BY <1>6, <1>7 DEF Content
<1>9. DOMAIN Content = Stored
  BY DEF Content
<1>10. Cardinality(Stored) < MaxItems
  BY <1>3, RoomIffFree
<1> QED BY <1>8, <1>9, <1>10, SameCount DEF Map!Set, Map!HasRoom, Map!Call, Insert, Acceptable, Returns

\* Calls that leave the slots alone leave the map alone.
LEMMA SameContent ==
  ASSUME db' = db PROVE Content' = Content
BY DEF Content, Stored, Holding, Items

LEMMA RefuseIsSet ==
  ASSUME StoreInv, StoreInv', NEW k \in Keys, NEW v \in Values, Refuse(k, v)
  PROVE  Map!Set(k, v)
<1>1. Content' = Content /\ call' = [function |-> "set", key |-> k, value |-> v, rc |-> -1]
  BY SameContent DEF Refuse, Returns
<1>2. DOMAIN Content = Stored
  BY DEF Content
<1>3. CASE ~Acceptable(k, v)
  BY <1>1, <1>3 DEF Map!Set, Map!Call, Acceptable
<1>4. CASE Holding(k) = {} /\ Free = {}
  <2>1. k \notin Stored /\ ~(Cardinality(Stored) < MaxItems)
    BY <1>4, RoomIffFree DEF Stored
  <2> QED BY <1>1, <1>2, <2>1, SameCount DEF Map!Set, Map!HasRoom, Map!Call
<1> QED BY <1>3, <1>4 DEF Refuse

LEMMA GetIsGet ==
  ASSUME StoreInv, NEW k \in Keys, kv_store_get(k)
  PROVE  Map!Get(k)
<1>1. Content' = Content
  BY SameContent DEF kv_store_get
<1>2. DOMAIN Content = Stored
  BY DEF Content
<1>3. k \in Stored <=> Holding(k) # {}
  BY DEF Stored
<1>4. k \in Stored => Content[k] = db[First(Holding(k))].value
  BY DEF Content
<1>5. NoValue = Map!NoValue
  BY DEF NoValue, Map!NoValue
<1> QED BY <1>1, <1>2, <1>3, <1>4, <1>5 DEF Map!Get, Map!Call, kv_store_get, Returns

LEMMA DelIsDel ==
  ASSUME StoreInv, StoreInv', NEW k \in Keys, kv_store_del(k)
  PROVE  Map!Del(k)
<1>1. DOMAIN Content = Stored /\ NoValue = Map!NoValue
  BY DEF Content, NoValue, Map!NoValue
<1>2. CASE Holding(k) = {}
  <2>1. db' = db /\ call' = [function |-> "del", key |-> k, value |-> NoValue, rc |-> -1]
    BY <1>2 DEF kv_store_del, Returns
  <2>2. k \notin Stored
    BY <1>2 DEF Stored
  <2>3. Content = [x \in Stored \ {k} |-> Content[x]]
    BY <2>2 DEF Content
  <2> QED BY <1>1, <2>1, <2>2, <2>3, SameContent DEF Map!Del, Map!Call
<1>3. CASE Holding(k) # {}
  <2> DEFINE s == First(Holding(k))
  <2>1. s \in Used /\ db[s].key = k
    BY <1>3, FirstFound DEF Holding, Used, Free
  <2>2. /\ db' = [db EXCEPT ![s] = Cleared]
        /\ call' = [function |-> "del", key |-> k, value |-> NoValue, rc |-> 0]
    BY <1>3 DEF kv_store_del, Returns
  <2> HIDE DEF s
  <2>3. \A i \in Items : db'[i] = IF i = s THEN Cleared ELSE db[i]
    BY <2>2 DEF StoreInv, StoreTypeOK
  <2>4. Used' = Used \ {s}
    BY <2>1, <2>3 DEF Used, Free, Cleared
  <2>5. \A i \in Used' : db'[i] = db[i] /\ db[i].key # k
    BY <2>1, <2>3, <2>4 DEF StoreInv, NoDuplicateKey, Used, Free
  <2>6. Stored' = Stored \ {k} /\ k \in Stored
    BY <2>1, <2>4, <2>5, Lookup, LookupNext DEF SlotBySlot
  <2>7. ASSUME NEW x \in Stored' PROVE Content'[x] = Content[x]
    <3>1. PICK i \in Used' : x = db'[i].key
      BY LookupNext DEF SlotBySlot
    <3>2. i \in Used /\ db'[i] = db[i]
      BY <2>4, <2>5
    <3> QED BY <3>1, <3>2, Lookup, LookupNext DEF SlotBySlot
  <2>8. Content' = [x \in Stored \ {k} |-> Content[x]]
    BY <2>6, <2>7 DEF Content
  <2> QED BY <1>1, <2>2, <2>6, <2>8 DEF Map!Del, Map!Call
<1> QED BY <1>2, <1>3

LEMMA InitIsInit == kv_store_init => Map!Init
<1> SUFFICES ASSUME kv_store_init PROVE Map!Init
  OBVIOUS
<1>1. Stored = {}
  BY DEF kv_store_init, Stored, Holding, Cleared
<1>2. Content = [k \in {} |-> NoValue]
  BY <1>1 DEF Content
<1> QED BY <1>2 DEF Map!Init, Map!Call, Map!NoValue, NoValue, kv_store_init

LEMMA StepIsStep ==
  StoreInv /\ StoreInv' /\ [StoreNext]_<<db, call>> => [Map!Next]_<<Content, call>>
<1> SUFFICES ASSUME StoreInv, StoreInv', [StoreNext]_<<db, call>>
             PROVE  [Map!Next]_<<Content, call>>
  OBVIOUS
<1>1. CASE UNCHANGED <<db, call>>
  BY <1>1, SameContent
<1>2. CASE StoreNext
  <2>1. PICK k \in Keys : \/ \E v \in Values : kv_store_set(k, v)
                          \/ kv_store_get(k)
                          \/ kv_store_del(k)
    BY <1>2 DEF StoreNext
  <2>2. CASE \E v \in Values : kv_store_set(k, v)
    BY <2>2, UpdateIsSet, InsertIsSet, RefuseIsSet DEF kv_store_set, Map!Next
  <2>3. CASE kv_store_get(k)
    BY <2>3, GetIsGet DEF Map!Next
  <2>4. CASE kv_store_del(k)
    BY <2>4, DelIsDel DEF Map!Next
  <2> QED BY <2>1, <2>2, <2>3, <2>4
<1> QED BY <1>1, <1>2

\* The array of slots, holes included, behaves as a map with MaxItems places:
\* the same answers, and a refusal only when MaxItems keys are stored.
THEOREM StoreImplementsMap == StoreSpec => MapSpec
<1>1. Map!Spec <=> Map!Init /\ [][Map!Next]_<<Content, call>>
  BY DEF Map!Spec
<1> QED BY <1>1, InitStore, StoreStep, InitIsInit, StepIsStep, PTL DEF StoreSpec, MapSpec
=============================================================================
