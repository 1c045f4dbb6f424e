------------------------------ MODULE WorkQueue -----------------------------
(***************************************************************************)
(* What the thread pool of HttpPool amounts to for its connections: each   *)
(* is put into a queue once, taken out in order by one worker, and         *)
(* finished by it.  A connection that is put into a full queue is lost,    *)
(* and so is everything before it.                                         *)
(***************************************************************************)
EXTENDS Integers, Sequences

CONSTANTS
  Connections, Workers,
  Capacity   \* connections the queue can hold, a natural number

VARIABLES
  put,      \* the connections that have been put into the queue
  queue,    \* those nobody has taken out
  serving   \* the one each worker serves, or None

vars == <<put, queue, serving>>

None == "none"

Init == put = {} /\ queue = <<>> /\ serving = [w \in Workers |-> None]

Put(c) ==
  /\ c \notin put /\ put' = put \cup {c}
  /\ queue' = IF Len(queue) < Capacity THEN Append(queue, c) ELSE <<>>
  /\ UNCHANGED serving

Take(w) ==
  /\ serving[w] = None /\ queue # <<>>
  /\ serving' = [serving EXCEPT ![w] = Head(queue)]
  /\ queue' = Tail(queue)
  /\ UNCHANGED put

Finish(w) ==
  /\ serving[w] # None
  /\ serving' = [serving EXCEPT ![w] = None]
  /\ UNCHANGED <<put, queue>>

Next == (\E c \in Connections : Put(c)) \/ \E w \in Workers : Take(w) \/ Finish(w)

Spec == Init /\ [][Next]_vars
=============================================================================
