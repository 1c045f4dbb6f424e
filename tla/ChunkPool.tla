----------------------------- MODULE ChunkPool -----------------------------
(***************************************************************************)
(* What the dynamic master promises, without sockets, queues or processes: *)
(* a chunk waits, is held by one worker, or is done; a worker holds at     *)
(* most one chunk; a done chunk stays done; and the image is published     *)
(* only when every chunk is done.                                          *)
(***************************************************************************)
CONSTANTS Chunks, Workers

VARIABLES waiting,    \* the chunks nobody computes
          held,       \* the chunk each worker has, as a set of at most one
          done,       \* the chunks received
          published   \* whether the image has been written

poolVars == <<waiting, held, done, published>>

Init ==
  /\ waiting = Chunks /\ done = {}
  /\ held = [w \in Workers |-> {}]
  /\ published = FALSE

\* A worker without a chunk takes a waiting one.
Take(c, w) ==
  /\ c \in waiting /\ held[w] = {}
  /\ waiting' = waiting \ {c}
  /\ held' = [held EXCEPT ![w] = {c}]
  /\ UNCHANGED <<done, published>>

\* The worker delivered the rows of its chunk.
Complete(c, w) ==
  /\ held[w] = {c}
  /\ held' = [held EXCEPT ![w] = {}]
  /\ done' = done \cup {c}
  /\ UNCHANGED <<waiting, published>>

\* The worker was given up.
GiveBack(c, w) ==
  /\ held[w] = {c}
  /\ held' = [held EXCEPT ![w] = {}]
  /\ waiting' = waiting \cup {c}
  /\ UNCHANGED <<done, published>>

Publish ==
  /\ done = Chunks
  /\ published' = TRUE
  /\ UNCHANGED <<waiting, held, done>>

Next ==
  \/ \E c \in Chunks, w \in Workers : Take(c, w) \/ Complete(c, w) \/ GiveBack(c, w)
  \/ Publish

Spec == Init /\ [][Next]_poolVars
=============================================================================
