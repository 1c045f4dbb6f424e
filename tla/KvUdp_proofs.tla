---------------------------- MODULE KvUdp_proofs ----------------------------
(***************************************************************************)
(* Theorems about KvUdp, for any number of callers, attempts, keys and     *)
(* slots: a call gives up only after losses, the last write stands, reads  *)
(* are regular, and the service is the map that kv_store.h promises.  The  *)
(* inductive invariant UdpInv keeps an account of the datagrams of a       *)
(* caller (PathInv) and says which write has left what a key holds         *)
(* (CurrentInv) and what an answer on its way is owed to (ReadInv).        *)
(***************************************************************************)
EXTENDS KvUdp, KvStore_proofs

-----------------------------------------------------------------------------
(* The store, seen through the value a key holds *)

LEMMA MapIsContent ==
  /\ \A k : k \in DOMAIN Content <=> k \in Stored
  /\ \A k : Current(k) = IF k \in DOMAIN Content THEN Content[k] ELSE NoValue
  /\ Map!NoValue = NoValue
BY DEF Content, Current, Map!NoValue, NoValue

LEMMA MapIsContentNext ==
  \A k : Current(k)' = IF k \in DOMAIN Content' THEN Content'[k] ELSE NoValue
<1>1. (\A k : Current(k) = IF k \in DOMAIN Content THEN Content[k] ELSE NoValue)'
  BY MapIsContent, PTL
<1> QED BY <1>1

\* A set that succeeds leaves its value, one that fails leaves everything.
LEMMA SetLeaves ==
  ASSUME StoreInv, StoreInv', NEW k \in Keys, NEW v \in Values, kv_store_set(k, v)
  PROVE  /\ call'.rc \in {0, -1}
         /\ call'.rc = 0 => Current(k)' = v /\ \A j \in Keys \ {k} : Current(j)' = Current(j)
         /\ call'.rc # 0 => \A j \in Keys : Current(j)' = Current(j)
<1>1. Map!Set(k, v)
  BY UpdateIsSet, InsertIsSet, RefuseIsSet DEF kv_store_set
<1>2. \/ /\ Content' = [x \in DOMAIN Content \cup {k} |-> IF x = k THEN v ELSE Content[x]]
         /\ call'.rc = 0
      \/ Content' = Content /\ call'.rc = -1
  BY <1>1 DEF Map!Set, Map!Call
<1>3. CASE Content' = Content /\ call'.rc = -1
  BY <1>3, MapIsContent, MapIsContentNext
<1>4. CASE /\ Content' = [x \in DOMAIN Content \cup {k} |-> IF x = k THEN v ELSE Content[x]]
           /\ call'.rc = 0
  <2>1. \A x : x \in DOMAIN Content' <=> x \in DOMAIN Content \/ x = k
    BY <1>4
  <2>2. Content'[k] = v /\ \A x \in DOMAIN Content \ {k} : Content'[x] = Content[x]
    BY <1>4
  <2> QED BY <1>4, <2>1, <2>2, MapIsContent, MapIsContentNext
<1> QED BY <1>2, <1>3, <1>4

\* A get tells what the key holds.
LEMMA GetTells ==
  ASSUME StoreInv, NEW k \in Keys, kv_store_get(k)
  PROVE  call'.value = Current(k) /\ \A j \in Keys : Current(j)' = Current(j)
<1>1. Map!Get(k)
  BY GetIsGet
<1>2. Content' = Content
  BY <1>1 DEF Map!Get
<1>3. call'.value = IF k \in DOMAIN Content THEN Content[k] ELSE NoValue
  BY <1>1, MapIsContent DEF Map!Get, Map!Call
<1> QED BY <1>2, <1>3, MapIsContent, MapIsContentNext

\* A delete leaves nothing.
LEMMA DelLeaves ==
  ASSUME StoreInv, StoreInv', NEW k \in Keys, kv_store_del(k)
  PROVE  Current(k)' = NoValue /\ \A j \in Keys \ {k} : Current(j)' = Current(j)
<1>1. Content' = [x \in DOMAIN Content \ {k} |-> Content[x]]
  BY DelIsDel DEF Map!Del
<1>2. \A x : x \in DOMAIN Content' <=> x \in DOMAIN Content /\ x # k
  BY <1>1
<1>3. \A x \in DOMAIN Content \ {k} : Content'[x] = Content[x]
  BY <1>1
<1> QED BY <1>2, <1>3, MapIsContent, MapIsContentNext

-----------------------------------------------------------------------------
(* What every step keeps *)

\* A call that has begun stays the same call, one that has ended keeps its
\* answer, and lateness is never forgiven.
History ==
  /\ late \subseteq late'
  /\ \A c \in Callers :
       /\ pc[c] # "idle" => /\ pc'[c] # "idle"
                            /\ request'[c] = request[c] /\ before'[c] = before[c]
       /\ Ended(c) => pc'[c] = pc[c] /\ answer'[c] = answer[c]

LEMMA ExplainedKept ==
  ASSUME History, NEW k, NEW v, NEW S \in SUBSET Callers, \A x \in S : Ended(x),
         Explained(k, v, S)
  PROVE  Explained(k, v, S)'
<1>1. ASSUME NEW w \in Writers(k) PROVE w \in Writers(k)' /\ Effect(w)' = Effect(w)
  BY DEF Writers, Effect, History
<1>2. ASSUME NEW x \in Confirmed(k)' \cap S PROVE x \in Confirmed(k) /\ before'[x] = before[x]
  BY DEF Confirmed, Writers, History, Ended
<1> QED BY <1>1, <1>2 DEF Explained, History

\* A step that leaves the store alone and carries nothing out.
LEMMA CurrentKept ==
  ASSUME PathInv, CurrentInv, History, db' = db,
         \A c \in Callers : Stands(c)' => Stands(c)
  PROVE  CurrentInv'
<1>1. ASSUME NEW k \in Keys PROVE Current(k)' = Current(k)
  BY SameContent DEF Current, Stored, Holding
<1>2. ASSUME NEW k \in Keys, NEW x \in CarriedOut(k)'
      PROVE  x \in CarriedOut(k) /\ before'[x] = before[x]
  <2>1. x \in Callers /\ Stands(x)
    BY DEF CarriedOut, Writers
  <2>2. pc[x] # "idle"
    BY <2>1 DEF PathInv, Stands
  <2> QED BY <2>1, <2>2 DEF CarriedOut, Writers, History
<1>3. ASSUME NEW k \in Keys, NEW w \in Writers(k) PROVE w \in Writers(k)' /\ Effect(w)' = Effect(w)
  BY DEF Writers, Effect, History
<1> QED BY <1>1, <1>2, <1>3 DEF CurrentInv, History

\* What explains the value that a call was told, or will be told, stays.
Owed(c, v) == Explained(request[c].key, v, before[c])

LEMMA OwedKept ==
  ASSUME UdpTypeOK, PathInv, History, NEW c \in Callers, pc[c] # "idle", NEW v, Owed(c, v)
  PROVE  Owed(c, v)'
<1>1. ASSUME NEW k, k = request[c].key, NEW S, S = before[c] PROVE Owed(c, v)'
  <2>1. Explained(k, v, S) /\ S \in SUBSET Callers /\ \A x \in S : Ended(x)
    BY <1>1 DEF Owed, UdpTypeOK, PathInv
  <2>2. Explained(k, v, S)'
    BY <2>1, ExplainedKept
  <2>3. request'[c].key = k /\ before'[c] = S
    BY <1>1 DEF History
  <2> QED BY <2>2, <2>3 DEF Owed, Explained, Writers, Confirmed
<1> QED BY <1>1

LEMMA ReadsKept ==
  ASSUME UdpTypeOK, PathInv, ReadInv, ReadsAreRegular, History,
         \A r \in toClient' \ toClient : pc[r.caller] # "idle" /\ r.caller \in Callers /\
            (request[r.caller].op = "GET" => Owed(r.caller, r.value)),
         \A c \in Callers : pc'[c] = "done" /\ ~Ended(c) =>
            \E r \in toClient : r.caller = c /\ r.value = answer'[c].value
  PROVE  ReadInv' /\ ReadsAreRegular'
<1>1. ASSUME NEW r \in toClient'
      PROVE  /\ r.caller \in Callers /\ pc[r.caller] # "idle"
             /\ request[r.caller].op = "GET" => Owed(r.caller, r.value)
  BY DEF UdpTypeOK, PathInv, Due, ReadInv, Owed
<1>2. ASSUME NEW r \in toClient', request'[r.caller].op = "GET" PROVE Owed(r.caller, r.value)'
  BY <1>1, <1>2, OwedKept DEF History
<1>3. ASSUME NEW c \in Callers, pc'[c] = "done", request'[c].op = "GET"
      PROVE  Owed(c, answer[c].value)'
  <2>1. CASE Ended(c)
    <3>1. pc[c] = "done" /\ request[c].op = "GET" /\ answer'[c] = answer[c]
      BY <1>3, <2>1 DEF History, Ended
    <3>2. ASSUME NEW v, v = answer[c].value PROVE Owed(c, v)'
      BY <3>1, <3>2, OwedKept DEF ReadsAreRegular, Owed
    <3> QED BY <3>1, <3>2 DEF Owed
  <2>2. CASE ~Ended(c)
    <3>1. PICK r \in toClient : r.caller = c /\ r.value = answer'[c].value
      BY <1>3, <2>2
    <3>2. pc[c] # "idle"
      BY <3>1 DEF PathInv, Due
    <3>3. Owed(c, r.value)
      BY <1>3, <3>1, <3>2 DEF ReadInv, Owed, History
    <3>4. Owed(c, r.value)'
      BY <3>2, <3>3, OwedKept
    <3> QED BY <3>1, <3>4 DEF Owed
  <2> QED BY <2>1, <2>2
<1> QED BY <1>2, <1>3 DEF ReadInv, ReadsAreRegular, Owed

-----------------------------------------------------------------------------
(* The callers *)

LEMMA UdpParts ==
  UdpInv => /\ UdpTypeOK /\ StoreInv /\ PathInv /\ CurrentInv /\ ReadInv
            /\ GivesUpOnlyAfterLosses /\ ReadsAreRegular
BY DEF UdpInv, UdpTypeOK

LEMMA Quiet == StoreInv /\ UNCHANGED <<db, call>> => StoreInv'
BY StoreStep

LEMMA BeginKeeps == ASSUME UdpInv, NEW c \in Callers, Begin(c) PROVE UdpInv'
<1> USE UdpParts, UdpAssumption DEF Begin
<1>1. Sent(c) = {} /\ Due(c) = {} /\ retry[c] = 0 /\ lost[c] = 0 /\ c \notin late
  BY DEF PathInv
<1>2. PICK q \in Requests[c] : request' = [request EXCEPT ![c] = q]
  OBVIOUS
<1>3. UdpTypeOK'
  <2>1. toServer' \subseteq Callers \X (0 .. MaxRetries)
    BY DEF UdpTypeOK, UdpAssumption
  <2>2. before' \in [Callers -> SUBSET Callers]
    BY DEF UdpTypeOK
  <2>3. /\ request' = [x \in Callers |-> request'[x]]
        /\ \A x \in Callers : IF pc'[x] = "idle" THEN request'[x] = NoRequest
                                                 ELSE request'[x] \in Requests[x]
    BY <1>2 DEF UdpTypeOK
  <2> QED BY <2>1, <2>2, <2>3, Quiet DEF UdpTypeOK
<1>4. History
  BY <1>2 DEF History, UdpTypeOK, Ended
<1>5. PathInv'
  <2>1. ASSUME NEW d \in Callers, d # c PROVE Sent(d)' = Sent(d)
    BY <2>1 DEF Sent
  <2>2. Sent(c)' = {<<c, 0>>} /\ \A d \in Callers : Due(d)' = Due(d)
    BY <1>1 DEF Sent, Due
  <2>3. Account(c)'
    <3>1. \E d \in toServer' : Sent(c)' = {d}
      BY <2>2
    <3> QED BY <1>1, <2>2, <3>1 DEF Account
  <2>4. ASSUME NEW d \in Callers, d # c, Account(d) PROVE Account(d)'
    BY <2>1, <2>2, <2>4 DEF Account
  <2>5. ASSUME NEW d \in Callers PROVE \A x \in before'[d] : Ended(x)'
    BY DEF UdpTypeOK, PathInv, Ended
  <2>6. pc'[c] = "waiting" /\ \A d \in Callers \ {c} : pc'[d] = pc[d]
    BY DEF UdpTypeOK
  <2>7. retry' = retry /\ lost' = lost /\ late' = late
    OBVIOUS
  <2> QED
    <3> USE DEF PathInv
    <3>1. ASSUME NEW d \in Callers, d # c
          PROVE  /\ pc'[d] = "idle" => d \notin late' /\ Sent(d)' = {} /\ Due(d)' = {} /\ retry'[d] = 0 /\ lost'[d] = 0
                 /\ pc'[d] = "waiting" => retry'[d] <= MaxRetries /\ (d \in late' \/ Account(d)')
                 /\ Ended(d)' /\ d \notin late' => Sent(d)' = {}
      BY <2>1, <2>2, <2>4, <2>6, <2>7, <3>1 DEF Ended
    <3>2. /\ ~Ended(c)' /\ pc'[c] = "waiting"
          /\ retry'[c] <= MaxRetries /\ Account(c)'
      BY <1>1, <2>3, <2>6, <2>7 DEF Ended, UdpAssumption
    <3> QED BY <2>5, <3>1, <3>2
<1>6. CurrentInv'
  <2>1. \A d \in Callers : Stands(d)' => Stands(d)
    BY DEF Stands, Due, UdpTypeOK
  <2> QED BY <1>4, <2>1, CurrentKept
<1>7. ReadInv' /\ ReadsAreRegular'
  BY <1>4, ReadsKept DEF UdpTypeOK, Ended
<1>8. GivesUpOnlyAfterLosses'
  BY DEF GivesUpOnlyAfterLosses, UdpTypeOK
<1> QED BY <1>3, <1>5, <1>6, <1>7, <1>8 DEF UdpInv

LEMMA ReceiveKeeps == ASSUME UdpInv, NEW c \in Callers, Receive(c) PROVE UdpInv'
<1> USE UdpParts, UdpAssumption DEF Receive
<1>1. PICK r \in toClient :
        /\ r.caller = c
        /\ toClient' = Reachable(toClient, Callers \ {c})
        /\ answer' = [answer EXCEPT ![c] = [status |-> r.status, value |-> r.value]]
  OBVIOUS
<1>2. /\ pc[c] = "waiting" /\ pc'[c] = "done" /\ \A d \in Callers \ {c} : pc'[d] = pc[d]
      /\ UNCHANGED <<db, call, request, retry, toServer, before, lost, late>>
  BY DEF UdpTypeOK
<1>3. toClient' = {s \in toClient : s.caller # c}
  BY <1>1 DEF Reachable, UdpTypeOK
<1>4. UdpTypeOK'
  <2>1. r.status \in {None, "SUCCESS", "ERROR", "NOT_FOUND"} /\ r.value \in Values \cup {NoValue}
    BY DEF UdpTypeOK
  <2>2. answer' \in [Callers -> [status : {None, "SUCCESS", "ERROR", "NOT_FOUND"},
                                 value : Values \cup {NoValue}]]
    BY <1>1, <2>1 DEF UdpTypeOK
  <2>3. pc' \in [Callers -> {"idle", "waiting", "done", "gave_up"}]
    BY DEF UdpTypeOK
  <2>4. \A d \in Callers : pc'[d] = "idle" <=> pc[d] = "idle"
    BY <1>2
  <2>5. toClient' \subseteq toClient
    BY <1>3
  <2>6. StoreInv'
    BY <1>2, Quiet
  <2>7. UNCHANGED <<request, retry, toServer, before, lost, late>>
    BY <1>2
  <2> HIDE DEF Receive
  <2> QED BY <2>2, <2>3, <2>4, <2>5, <2>6, <2>7 DEF UdpTypeOK
<1>5. History
  BY <1>1, <1>2 DEF History, UdpTypeOK, Ended
<1>6. PathInv'
  <2>1. ASSUME NEW d \in Callers, d # c PROVE Due(d)' = Due(d)
    BY <1>3, <2>1 DEF Due
  <2>2. \A d \in Callers : Sent(d)' = Sent(d)
    BY DEF Sent
  <2>3. c \in late \/ Sent(c) = {}
    BY <1>1, <1>2 DEF PathInv, Account, Due
  <2>4. ASSUME NEW d \in Callers, d # c, Account(d) PROVE Account(d)'
    <3>1. ASSUME NEW s \in toClient, Due(d) = {s} PROVE s \in toClient'
      BY <1>3, <2>4, <3>1 DEF Due
    <3> QED BY <1>2, <2>1, <2>2, <2>4, <3>1 DEF Account
  <2>5. \A x \in Callers : Ended(x) => Ended(x)'
    BY <1>2 DEF Ended
  <2>6. \A d \in Callers : \A x \in before'[d] : Ended(x)'
    BY <1>2, <2>5 DEF PathInv, UdpTypeOK
  <2>7. ASSUME NEW d \in Callers, d # c
        PROVE  /\ pc'[d] = "idle" => d \notin late' /\ Sent(d)' = {} /\ Due(d)' = {} /\ retry'[d] = 0 /\ lost'[d] = 0
               /\ pc'[d] = "waiting" => retry'[d] <= MaxRetries /\ (d \in late' \/ Account(d)')
               /\ Ended(d)' /\ d \notin late' => Sent(d)' = {}
    BY <1>2, <2>1, <2>2, <2>4, <2>7 DEF Ended, PathInv
  <2> QED BY <1>2, <2>2, <2>3, <2>6, <2>7 DEF PathInv
<1>7. CurrentInv'
  <2>1. ASSUME NEW d \in Callers, Stands(d)' PROVE Stands(d)
    <3>1. CASE d = c
      <4>1. answer'[c].status = r.status
        BY <1>1 DEF UdpTypeOK
      <4>2. r.status # "ERROR"
        BY <1>2, <1>3, <2>1, <3>1, <4>1 DEF Stands, Due
      <4> QED BY <1>1, <3>1, <4>2 DEF Stands, Due
    <3>2. CASE d # c
      <4>1. answer'[d] = answer[d]
        BY <1>1, <3>2 DEF UdpTypeOK
      <4> QED BY <1>2, <1>3, <2>1, <3>2, <4>1 DEF Stands, Due
    <3> QED BY <3>1, <3>2
  <2> QED BY <1>2, <1>5, <2>1, CurrentKept
<1>8. ReadInv' /\ ReadsAreRegular'
  <2>1. r.value = answer'[c].value
    BY <1>1 DEF UdpTypeOK
  <2>2. \A d \in Callers : pc'[d] = "done" /\ ~Ended(d) => d = c
    BY <1>2 DEF Ended
  <2>3. \A s \in toClient' : s \in toClient
    BY <1>3
  <2> QED BY <1>1, <1>5, <2>1, <2>2, <2>3, ReadsKept
<1>9. GivesUpOnlyAfterLosses'
  BY <1>2 DEF GivesUpOnlyAfterLosses
<1> QED BY <1>4, <1>6, <1>7, <1>8, <1>9 DEF UdpInv

LEMMA TimeOutKeeps == ASSUME UdpInv, NEW c \in Callers, TimeOut(c) PROVE UdpInv'
<1> USE UdpParts, UdpAssumption
<1>1. /\ pc[c] = "waiting" /\ retry[c] \in 0 .. MaxRetries
      /\ late' = IF InFlight(c) THEN late \cup {c} ELSE late
      /\ UNCHANGED <<db, call, request, answer, before, lost>>
      /\ retry' = [retry EXCEPT ![c] = retry[c] + 1]
  BY DEF TimeOut, Expires, UdpTypeOK, PathInv
<1>2. /\ \A d \in Callers \ {c} : pc'[d] = pc[d] /\ retry'[d] = retry[d]
      /\ retry'[c] = retry[c] + 1
      /\ \/ /\ retry[c] + 1 <= MaxRetries /\ pc'[c] = "waiting"
            /\ toServer' = toServer \cup {<<c, retry[c] + 1>>}
         \/ retry[c] + 1 > MaxRetries /\ pc'[c] = "gave_up" /\ toServer' = toServer
      /\ pc' \in [Callers -> {"idle", "waiting", "done", "gave_up"}]
  BY <1>1 DEF TimeOut, UdpTypeOK, UdpAssumption
<1>3. toClient' = {r \in toClient : pc'[r.caller] = "waiting"}
  BY DEF TimeOut, Reachable, UdpTypeOK
<1>4. UdpTypeOK'
  <2>1. retry' \in [Callers -> 0 .. MaxRetries + 1] /\ late' \subseteq Callers
    BY <1>1 DEF UdpTypeOK, UdpAssumption
  <2>2. toServer' \subseteq Callers \X (0 .. MaxRetries)
    BY <1>1, <1>2 DEF UdpTypeOK, UdpAssumption
  <2>3. \A d \in Callers : pc'[d] = "idle" <=> pc[d] = "idle"
    BY <1>1, <1>2
  <2>4. toClient' \subseteq toClient
    BY <1>3
  <2> QED BY <1>1, <1>2, <2>1, <2>2, <2>3, <2>4, Quiet DEF UdpTypeOK
<1>5. History
  BY <1>1, <1>2 DEF History, Ended
<1>6. \A r \in toClient : r.caller # c => (r \in toClient' <=> pc[r.caller] = "waiting")
  BY <1>2, <1>3 DEF UdpTypeOK
<1>7. \A d \in Callers \ {c} : Sent(d)' = Sent(d)
  BY <1>2 DEF Sent
<1>8. c \notin late' => Sent(c) = {} /\ Due(c) = {} /\ c \notin late /\ lost[c] = retry[c] + 1
  <2>1. c \notin late' => ~InFlight(c)
    BY <1>1
  <2>2. ~InFlight(c) => Sent(c) = {} /\ Due(c) = {}
    BY DEF InFlight, Sent, Due
  <2>3. c \notin late /\ Sent(c) = {} /\ Due(c) = {} => lost[c] = retry[c] + 1
    BY <1>1 DEF PathInv, Account
  <2> QED BY <1>1, <2>1, <2>2, <2>3
<1>9. PathInv'
  <2>1. ASSUME NEW d \in Callers, d # c, Account(d), pc[d] = "waiting" PROVE Account(d)'
    <3>1. Due(d)' = Due(d)
      BY <1>3, <1>2, <2>1 DEF Due
    <3>2. ASSUME NEW s \in toClient, Due(d) = {s} PROVE s \in toClient'
      BY <3>1, <3>2 DEF Due
    <3> QED BY <1>1, <1>2, <1>7, <2>1, <3>1, <3>2 DEF Account
  <2>2. \A x \in Callers : Ended(x) => Ended(x)'
    BY <1>1, <1>2 DEF Ended
  <2>3. \A d \in Callers : \A x \in before'[d] : Ended(x)'
    BY <1>1, <2>2 DEF PathInv, UdpTypeOK
  <2>4. ASSUME NEW d \in Callers, d # c
        PROVE  /\ pc'[d] = "idle" => d \notin late' /\ Sent(d)' = {} /\ Due(d)' = {} /\ retry'[d] = 0 /\ lost'[d] = 0
               /\ pc'[d] = "waiting" => retry'[d] <= MaxRetries /\ (d \in late' \/ Account(d)')
               /\ Ended(d)' /\ d \notin late' => Sent(d)' = {}
    <3>1. Due(d) = {} => Due(d)' = {}
      BY <1>3 DEF Due
    <3> QED BY <1>1, <1>2, <1>7, <2>1, <2>4, <3>1 DEF Ended, PathInv
  <2>5. pc'[c] = "waiting" => retry'[c] <= MaxRetries /\ (c \in late' \/ Account(c)')
    <3>1. SUFFICES ASSUME pc'[c] = "waiting", c \notin late' PROVE Account(c)'
      BY <1>2
    <3>2. toServer' = toServer \cup {<<c, retry[c] + 1>>}
      BY <1>2, <3>1
    <3>3. Sent(c)' = {<<c, retry[c] + 1>>} /\ Due(c)' = {}
      BY <1>3, <1>8, <3>1, <3>2 DEF Sent, Due
    <3>4. lost'[c] = retry'[c]
      BY <1>1, <1>2, <1>8, <3>1
    <3>5. \E d \in toServer' : Sent(c)' = {d}
      BY <3>2, <3>3
    <3> QED BY <3>3, <3>4, <3>5 DEF Account
  <2>6. Ended(c)' /\ c \notin late' => Sent(c)' = {}
    BY <1>2, <1>8 DEF Ended, Sent
  <2> QED BY <1>2, <2>3, <2>4, <2>5, <2>6 DEF PathInv
<1>10. CurrentInv'
  <2>1. ASSUME NEW d \in Callers, Stands(d)' PROVE Stands(d)
    BY <1>1, <1>2, <1>3, <2>1 DEF Stands, Due
  <2> QED BY <1>1, <1>5, <2>1, CurrentKept
<1>11. ReadInv' /\ ReadsAreRegular'
  <2>1. \A d \in Callers : ~(pc'[d] = "done" /\ ~Ended(d))
    BY <1>1, <1>2 DEF Ended
  <2>2. \A s \in toClient' : s \in toClient
    BY <1>3
  <2> QED BY <1>5, <2>1, <2>2, ReadsKept
<1>12. GivesUpOnlyAfterLosses'
  <2>1. pc'[c] = "gave_up" /\ c \notin late' => lost'[c] > MaxRetries
    BY <1>1, <1>2, <1>8
  <2>2. ASSUME NEW d \in Callers, d # c, pc'[d] = "gave_up" PROVE lost'[d] > MaxRetries \/ d \in late'
    BY <1>1, <1>2, <2>2 DEF GivesUpOnlyAfterLosses
  <2> QED BY <2>1, <2>2 DEF GivesUpOnlyAfterLosses
<1> QED BY <1>4, <1>9, <1>10, <1>11, <1>12 DEF UdpInv

-----------------------------------------------------------------------------
(* The network and the server *)

LEMMA LoseKeeps == ASSUME UdpInv, NEW c \in Callers, Lose(c) PROVE UdpInv'
<1> USE UdpParts, UdpAssumption
<1>1. /\ UNCHANGED <<db, call, pc, request, retry, answer, before, late>>
      /\ lost' = IF Ended(c) \/ c \in late THEN lost ELSE [lost EXCEPT ![c] = lost[c] + 1]
      /\ \/ \E d \in toServer : d[1] = c /\ toServer' = toServer \ {d} /\ toClient' = toClient
         \/ \E r \in toClient : r.caller = c /\ toClient' = toClient \ {r} /\ toServer' = toServer
  BY DEF Lose
<1>2. /\ lost' \in [Callers -> Nat] /\ \A d \in Callers \ {c} : lost'[d] = lost[d]
      /\ lost[c] \in Nat /\ lost'[c] \in {lost[c], lost[c] + 1}
      /\ ~Ended(c) /\ c \notin late => lost'[c] = lost[c] + 1
  BY <1>1 DEF UdpTypeOK
<1>3. toServer' \subseteq toServer /\ toClient' \subseteq toClient
  BY <1>1
<1>4. UdpTypeOK'
  BY <1>1, <1>2, <1>3, Quiet DEF UdpTypeOK
<1>5. History
  BY <1>1 DEF History
<1>6. PathInv'
  <2>1. ASSUME NEW d \in Callers, d # c PROVE Sent(d)' = Sent(d) /\ Due(d)' = Due(d)
    BY <1>1, <2>1 DEF Sent, Due
  <2>2. ASSUME NEW d \in Callers, d # c, Account(d) PROVE Account(d)'
    <3>1. /\ \A e \in toServer : Sent(d) = {e} => e \in toServer'
          /\ \A r \in toClient : Due(d) = {r} => r \in toClient'
      BY <2>1, <2>2 DEF Sent, Due
    <3> QED BY <1>1, <1>2, <2>1, <2>2, <3>1 DEF Account
  <2>3. ASSUME pc[c] = "waiting", c \notin late PROVE Account(c)'
    <3>1. Account(c) /\ retry[c] \in 0 .. MaxRetries + 1
      BY <2>3 DEF PathInv, UdpTypeOK
    <3>2. lost'[c] = lost[c] + 1 /\ retry'[c] = retry[c]
      BY <1>1, <1>2, <2>3 DEF Ended
    <3>3. CASE \E e \in toServer : e[1] = c /\ toServer' = toServer \ {e} /\ toClient' = toClient
      <4>1. PICK e \in toServer : e[1] = c /\ toServer' = toServer \ {e} /\ toClient' = toClient
        BY <3>3
      <4>2. e \in Sent(c) /\ Due(c)' = Due(c) /\ Sent(c)' = Sent(c) \ {e}
        BY <4>1 DEF Sent, Due
      <4>3. lost[c] = retry[c] /\ Due(c) = {} /\ \E f \in toServer : Sent(c) = {f}
        BY <3>1, <4>2 DEF Account
      <4>4. Sent(c)' = {} /\ Due(c)' = {}
        BY <4>2, <4>3
      <4> QED BY <3>2, <4>3, <4>4 DEF Account
    <3>4. CASE \E r \in toClient : r.caller = c /\ toClient' = toClient \ {r} /\ toServer' = toServer
      <4>1. PICK r \in toClient : r.caller = c /\ toClient' = toClient \ {r} /\ toServer' = toServer
        BY <3>4
      <4>2. r \in Due(c) /\ Sent(c)' = Sent(c) /\ Due(c)' = Due(c) \ {r}
        BY <4>1 DEF Sent, Due
      <4>3. lost[c] = retry[c] /\ Sent(c) = {} /\ \E f \in toClient : Due(c) = {f}
        BY <3>1, <4>2 DEF Account
      <4>4. Sent(c)' = {} /\ Due(c)' = {}
        BY <4>2, <4>3
      <4> QED BY <3>2, <4>3, <4>4 DEF Account
    <3> QED BY <1>1, <3>3, <3>4
  <2>4. pc[c] # "idle"
    BY <1>1 DEF PathInv, Sent, Due
  <2>5. Sent(c) = {} => Sent(c)' = {}
    BY <1>3 DEF Sent
  <2>6. ASSUME NEW d \in Callers, d # c
        PROVE  /\ pc'[d] = "idle" => d \notin late' /\ Sent(d)' = {} /\ Due(d)' = {} /\ retry'[d] = 0 /\ lost'[d] = 0
               /\ pc'[d] = "waiting" => retry'[d] <= MaxRetries /\ (d \in late' \/ Account(d)')
               /\ Ended(d)' /\ d \notin late' => Sent(d)' = {}
    BY <1>1, <1>2, <2>1, <2>2, <2>6 DEF Ended, PathInv
  <2> QED BY <1>1, <2>3, <2>4, <2>5, <2>6 DEF PathInv, Ended
<1>7. CurrentInv'
  <2>1. ASSUME NEW d \in Callers, Stands(d)' PROVE Stands(d)
    BY <1>1, <1>3, <2>1 DEF Stands, Due
  <2> QED BY <1>1, <1>5, <2>1, CurrentKept
<1>8. ReadInv' /\ ReadsAreRegular'
  <2>1. \A d \in Callers : ~(pc'[d] = "done" /\ ~Ended(d))
    BY <1>1 DEF Ended
  <2> QED BY <1>3, <1>5, <2>1, ReadsKept
<1>9. GivesUpOnlyAfterLosses'
  <2>1. \A d \in Callers : lost'[d] >= lost[d] /\ lost[d] \in Nat /\ lost'[d] \in Nat
    BY <1>2 DEF UdpTypeOK
  <2> QED BY <1>1, <2>1 DEF GivesUpOnlyAfterLosses, UdpAssumption
<1> QED BY <1>4, <1>6, <1>7, <1>8, <1>9 DEF UdpInv

\* What a key holds can be explained at any time by the calls that have ended.
LEMMA CurrentExplained ==
  ASSUME CurrentInv, NEW k \in Keys, NEW S
  PROVE  Explained(k, Current(k), S)
<1>1. Confirmed(k) \subseteq CarriedOut(k)
  BY DEF Confirmed, CarriedOut, Stands
<1> QED BY <1>1 DEF CurrentInv, Explained

\* A call that is carried out has not ended, or is late: no other began after it.
LEMMA ServeKeeps == ASSUME UdpInv, NEW d \in toServer, Serve(d) PROVE UdpInv'
<1> USE UdpParts, UdpAssumption
<1> DEFINE c == d[1]
           q == request[d[1]]
           r == [caller |-> c, attempt |-> d[2], status |-> Status(q.op, call'.rc),
                 value |-> IF q.op = "GET" THEN call'.value ELSE NoValue]
<1>1. /\ c \in Callers /\ d[2] \in 0 .. MaxRetries /\ d \in Sent(c) /\ pc[c] # "idle"
      /\ q \in Requests[c]
  BY DEF UdpTypeOK, PathInv, Sent
<1>2. /\ UNCHANGED <<pc, request, retry, answer, before, lost, late>>
      /\ toServer' = toServer \ {d} /\ Execute(q)
  BY DEF Serve
<1>3. toClient' = IF Ended(c) THEN toClient ELSE toClient \cup {r}
  BY <1>1 DEF Serve, Reachable
<1>4. q.op \in {"SET", "GET", "DEL"} /\ q.key \in Keys /\ q.value \in Values
  BY <1>1 DEF UdpAssumption
<1>5. StoreInv'
  <2> HIDE DEF q
  <2>1. StoreNext
    BY <1>2, <1>4 DEF Execute, StoreNext
  <2> QED BY <2>1, StoreStep
<1>6. /\ r.caller = c /\ r.attempt = d[2] /\ r.status = Status(q.op, call'.rc)
      /\ r.value = IF q.op = "GET" THEN call'.value ELSE NoValue
  OBVIOUS
<1>7. r \in [caller : Callers, attempt : 0 .. MaxRetries,
             status : {"SUCCESS", "ERROR", "NOT_FOUND"}, value : Values \cup {NoValue}]
  <2>1. Status(q.op, call'.rc) \in {"SUCCESS", "ERROR", "NOT_FOUND"}
    BY DEF Status
  <2>2. call'.value \in Values \cup {NoValue}
    BY <1>5 DEF StoreInv, StoreTypeOK
  <2> QED BY <1>1, <2>1, <2>2
<1> HIDE DEF c, q, r
<1>8. UdpTypeOK'
  BY <1>2, <1>3, <1>5, <1>7 DEF UdpTypeOK
<1>9. History
  BY <1>2 DEF History
<1>10. PathInv'
  <2>1. ASSUME NEW x \in Callers, x # c PROVE Sent(x)' = Sent(x) /\ Due(x)' = Due(x)
    BY <1>2, <1>3, <1>6, <2>1 DEF Sent, Due, c
  <2>2. ASSUME NEW x \in Callers, x # c, Account(x) PROVE Account(x)'
    <3>1. /\ \A e \in toServer : Sent(x) = {e} => e \in toServer'
          /\ \A s \in toClient : Due(x) = {s} => s \in toClient'
      BY <2>1, <2>2 DEF Sent, Due
    <3> QED BY <1>2, <2>1, <2>2, <3>1 DEF Account
  <2>3. ASSUME pc[c] = "waiting", c \notin late PROVE Account(c)'
    <3>1. lost[c] = retry[c] /\ Due(c) = {} /\ Sent(c) = {d}
      BY <1>1, <2>3 DEF PathInv, Account
    <3>2. toClient' = toClient \cup {r}
      BY <1>3, <2>3 DEF Ended
    <3>3. Sent(c)' = {}
      BY <1>2, <3>1 DEF Sent
    <3>4. Due(c)' = {r}
      BY <1>6, <3>1, <3>2 DEF Due
    <3> QED BY <1>2, <3>1, <3>2, <3>3, <3>4 DEF Account
  <2>5. Sent(c) # {}
    BY <1>1
  <2>6. ASSUME NEW x \in Callers, x # c
        PROVE  /\ pc'[x] = "idle" => x \notin late' /\ Sent(x)' = {} /\ Due(x)' = {} /\ retry'[x] = 0 /\ lost'[x] = 0
               /\ pc'[x] = "waiting" => retry'[x] <= MaxRetries /\ (x \in late' \/ Account(x)')
               /\ Ended(x)' /\ x \notin late' => Sent(x)' = {}
    BY <1>2, <2>1, <2>2, <2>6 DEF Ended, PathInv
  <2>7. /\ pc'[c] # "idle"
        /\ pc'[c] = "waiting" => retry'[c] <= MaxRetries /\ (c \in late' \/ Account(c)')
        /\ Ended(c)' => c \in late'
    BY <1>1, <1>2, <2>3, <2>5 DEF PathInv, Ended
  <2>8. \A x \in Callers : \A y \in before'[x] : Ended(y)'
    BY <1>2 DEF PathInv, Ended
  <2> QED BY <2>6, <2>7, <2>8 DEF PathInv
<1>11. CurrentInv'
  <2>1. \A k \in Keys : Writers(k)' = Writers(k) /\ \A x : Effect(x)' = Effect(x)
    BY <1>2 DEF Writers, Effect
  <2>2. ASSUME NEW x \in Callers, Stands(x)' PROVE Stands(x) \/ (x = c /\ r.status # "ERROR")
    BY <1>2, <1>3, <1>6, <2>2 DEF Stands, Due
  <2>3. \A k \in Keys : CarriedOut(k)' \subseteq CarriedOut(k) \cup (IF r.status # "ERROR" THEN {c} ELSE {})
    BY <2>1, <2>2 DEF CarriedOut, Writers
  <2>4. c \in late \/ \A x \in Callers : c \notin before[x]
    BY <1>1 DEF PathInv
  <2>5. ASSUME NEW k \in Keys, Current(k)' = Current(k), c \notin CarriedOut(k)' \/ c \in CarriedOut(k)
        PROVE  \/ \E w \in Writers(k)' : Effect(w)' = Current(k)' /\ (w \in late' \/ ~\E x \in CarriedOut(k)' : w \in before'[x])
               \/ Current(k)' = NoValue /\ CarriedOut(k)' = {}
    <3>1. CarriedOut(k)' \subseteq CarriedOut(k)
      BY <2>3, <2>5
    <3> QED BY <1>2, <2>1, <2>5, <3>1 DEF CurrentInv
  <2>6. ASSUME NEW k \in Keys, Current(k)' = Effect(c), c \in Writers(k)
        PROVE  \E w \in Writers(k)' : Effect(w)' = Current(k)' /\ (w \in late' \/ ~\E x \in CarriedOut(k)' : w \in before'[x])
    <3>1. CarriedOut(k)' \subseteq Callers
      BY DEF CarriedOut, Writers
    <3> QED BY <1>2, <2>1, <2>4, <2>6, <3>1
  <2>7. \A k \in Keys : c \in Writers(k) <=> q.op # "GET" /\ q.key = k
    BY <1>1 DEF Writers, c, q
  <2>8. Effect(c) = IF q.op = "SET" THEN q.value ELSE NoValue
    BY DEF Effect, c, q
  <2>9. \A k \in Keys : c \notin Writers(k) => c \notin CarriedOut(k)'
    BY <2>1 DEF CarriedOut
  <2>10. ASSUME NEW k \in Keys, k # q.key
         PROVE  Current(k)' = Current(k) /\ c \notin CarriedOut(k)'
    BY <1>2, <1>4, <1>5, <2>7, <2>9, <2>10, SetLeaves, GetTells, DelLeaves DEF Execute
  <2>11. ASSUME NEW k \in Keys, k = q.key
         PROVE  \/ Current(k)' = Effect(c) /\ c \in Writers(k)
                \/ /\ Current(k)' = Current(k)
                   /\ c \notin CarriedOut(k)' \/ c \in CarriedOut(k)
    <3>1. CASE q.op = "GET"
      BY <1>2, <1>4, <2>11, <2>7, <2>9, <3>1, GetTells DEF Execute
    <3>2. CASE q.op = "DEL"
      BY <1>2, <1>4, <2>11, <1>5, <2>7, <2>8, <3>2, DelLeaves DEF Execute
    <3>3. CASE q.op = "SET"
      <4>1. kv_store_set(k, q.value)
        BY <1>2, <2>11, <3>3 DEF Execute
      <4>2. CASE call'.rc = 0
        BY <1>4, <1>5, <2>11, <2>7, <2>8, <3>3, <4>1, <4>2, SetLeaves
      <4>3. CASE call'.rc # 0
        <5>1. r.status = "ERROR"
          BY <1>6, <3>3, <4>3 DEF Status
        <5>2. Current(k)' = Current(k)
          BY <1>4, <1>5, <2>11, <4>1, <4>3, SetLeaves
        <5> QED BY <1>4, <2>3, <5>1, <5>2
      <4> QED BY <4>2, <4>3
    <3> QED BY <1>4, <3>1, <3>2, <3>3
  <2>12. ASSUME NEW k \in Keys
         PROVE  \/ \E w \in Writers(k)' : Effect(w)' = Current(k)' /\ (w \in late' \/ ~\E x \in CarriedOut(k)' : w \in before'[x])
                \/ Current(k)' = NoValue /\ CarriedOut(k)' = {}
    <3>1. CASE k = q.key
      BY <2>5, <2>6, <2>11, <3>1
    <3>2. CASE k # q.key
      BY <2>5, <2>10, <3>2
    <3> QED BY <3>1, <3>2
  <2> QED BY <2>12 DEF CurrentInv
<1>12. ReadInv' /\ ReadsAreRegular'
  <2>1. \A x \in Callers : ~(pc'[x] = "done" /\ ~Ended(x))
    BY <1>2 DEF Ended
  <2>2. q.op = "GET" => Owed(c, r.value)
    <3>1. ASSUME q.op = "GET" PROVE r.value = Current(q.key)
      BY <1>2, <1>4, <1>6, <3>1, GetTells DEF Execute
    <3>2. Explained(q.key, Current(q.key), before[c])
      BY <1>4, CurrentExplained
    <3>3. q = request[c]
      BY DEF q, c
    <3> QED BY <3>1, <3>2, <3>3 DEF Owed
  <2>3. \A s \in toClient' \ toClient : s = r
    BY <1>3
  <2>4. q = request[c]
    BY DEF q, c
  <2> QED BY <1>1, <1>6, <1>9, <2>1, <2>2, <2>3, <2>4, ReadsKept
<1>13. GivesUpOnlyAfterLosses'
  BY <1>2 DEF GivesUpOnlyAfterLosses
<1> QED BY <1>8, <1>10, <1>11, <1>12, <1>13 DEF UdpInv

-----------------------------------------------------------------------------
(* Theorems *)

LEMMA UdpInitially == UdpInit => UdpInv
<1> SUFFICES ASSUME UdpInit PROVE UdpInv
  OBVIOUS
<1> USE UdpAssumption DEF UdpInit, UdpAssumption
<1>1. StoreInv
  BY InitStore
<1>2. UdpTypeOK
  BY <1>1 DEF UdpTypeOK
<1>3. PathInv
  BY DEF PathInv, Sent, Due, Ended
<1>4. CurrentInv
  <2>1. ASSUME NEW k \in Keys PROVE k \notin Stored
    BY DEF kv_store_init, Stored, Holding, Cleared
  <2>2. ASSUME NEW k \in Keys PROVE CarriedOut(k) = {}
    BY DEF CarriedOut, Writers
  <2> QED BY <2>1, <2>2 DEF CurrentInv, Current
<1>5. ReadInv /\ GivesUpOnlyAfterLosses /\ ReadsAreRegular
  BY DEF ReadInv, GivesUpOnlyAfterLosses, ReadsAreRegular
<1> QED BY <1>2, <1>3, <1>4, <1>5 DEF UdpInv

LEMMA UdpStutters == ASSUME UdpInv, UNCHANGED vars PROVE UdpInv'
<1> USE UdpParts DEF vars, udp
<1>1. History
  BY DEF History
<1>2. UdpTypeOK'
  BY Quiet DEF UdpTypeOK
<1>3. PathInv'
  BY DEF PathInv, Sent, Due, Account, Ended
<1>4. CurrentInv'
  BY <1>1, CurrentKept DEF Stands, Due
<1>5. ReadInv' /\ ReadsAreRegular'
  BY <1>1, ReadsKept DEF Ended
<1>6. GivesUpOnlyAfterLosses'
  BY DEF GivesUpOnlyAfterLosses
<1> QED BY <1>2, <1>3, <1>4, <1>5, <1>6 DEF UdpInv

\* The inductive invariant: the account of the datagrams, what each key holds
\* and what each answer is owed to.
THEOREM UdpInvariance == UdpSpec => []UdpInv
<1>1. UdpInv /\ [UdpNext]_vars => UdpInv'
  <2> SUFFICES ASSUME UdpInv, [UdpNext]_vars PROVE UdpInv'
    OBVIOUS
  <2>1. CASE \E c \in Callers : Caller(c) \/ Lose(c)
    BY <2>1, BeginKeeps, ReceiveKeeps, TimeOutKeeps, LoseKeeps DEF Caller
  <2>2. CASE \E d \in toServer : Serve(d)
    BY <2>2, ServeKeeps
  <2>3. CASE UNCHANGED vars
    BY <2>3, UdpStutters
  <2> QED BY <2>1, <2>2, <2>3 DEF UdpNext
<1> QED BY <1>1, UdpInitially, PTL DEF UdpSpec

\* For any MAX_RETRIES, a call that reports a time-out has lost a datagram in
\* each of its attempts, or one of them came too late.
THEOREM GaveUpForAReason == UdpSpec => []GivesUpOnlyAfterLosses
<1>1. UdpInv => GivesUpOnlyAfterLosses
  BY DEF UdpInv
<1> QED BY <1>1, UdpInvariance, PTL

\* For any number of calls, a request repeated after a lost answer never undoes
\* a write that began after its own call had ended; and the types hold.
THEOREM LastWriteHolds == UdpSpec => []LastWriteStands
<1>1. UdpInv => LastWriteStands
  BY UdpParts, CurrentExplained DEF LastWriteStands
<1> QED BY <1>1, UdpInvariance, PTL

\* A GET is told nothing that a write confirmed before it began had replaced.
THEOREM RegularReads == UdpSpec => []ReadsAreRegular
<1>1. UdpInv => ReadsAreRegular
  BY DEF UdpInv
<1> QED BY <1>1, UdpInvariance, PTL

\* Only Serve touches the store, with the request of a call that has begun.
LEMMA UdpStoreStep == UdpInv /\ [UdpNext]_vars => [StoreNext]_<<db, call>>
<1> SUFFICES ASSUME UdpInv, [UdpNext]_vars PROVE [StoreNext]_<<db, call>>
  OBVIOUS
<1>1. ASSUME NEW d \in toServer, Serve(d) PROVE StoreNext
  <2> DEFINE q == request[d[1]]
  <2>1. d[1] \in Callers /\ pc[d[1]] # "idle"
    BY UdpParts DEF UdpTypeOK, PathInv, Sent
  <2>2. q \in Requests[d[1]] /\ Execute(q)
    BY <1>1, <2>1, UdpParts DEF UdpTypeOK, Serve
  <2> HIDE DEF q
  <2>3. q.key \in Keys /\ q.value \in Values
    BY <2>1, <2>2, UdpAssumption DEF UdpAssumption
  <2> QED BY <2>2, <2>3 DEF Execute, StoreNext
<1>2. ASSUME NEW c \in Callers, Caller(c) \/ Lose(c) PROVE UNCHANGED <<db, call>>
  BY <1>2 DEF Caller, Begin, Receive, TimeOut, Lose
<1>3. CASE UNCHANGED vars
  BY <1>3 DEF vars
<1> QED BY <1>1, <1>2, <1>3 DEF UdpNext

\* Whatever datagrams are lost, repeated or late, the store behind the service
\* is the map of kv_store.h, answers included.
THEOREM UdpImplementsMap == UdpSpec => MapSpec
<1>1. UdpSpec => StoreSpec
  <2>1. UdpInit => kv_store_init
    BY DEF UdpInit
  <2> QED BY <2>1, UdpInvariance, UdpStoreStep, PTL DEF UdpSpec, StoreSpec
<1> QED BY <1>1, StoreImplementsMap
=============================================================================
