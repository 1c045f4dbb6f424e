---------------------------- MODULE LogEventfd -----------------------------
(***************************************************************************)
(* The log server of src/Lab2/task4, beside the one of LogServer: a thread *)
(* per FIFO reads whatever comes, throws it away and adds the number of    *)
(* the descriptor to an eventfd; the main thread takes the sum out of it   *)
(* and reads from the descriptor that has this number.                     *)
(***************************************************************************)
EXTENDS LogServer

VARIABLES
  thread,     \* "test" the flag, "read", "notify" or "gone", by descriptor
  counter,    \* the eventfd
  word,       \* what the main thread has taken out of it
  told,       \* history: the descriptors whose numbers are in the eventfd
  stray       \* history: a line was printed that no client has sent

eventVars == <<thread, counter, word, told, stray>>
mainVars == <<running, pc, word>>
allVars == <<vars, eventVars>>

\* Numbers 0 to 2 are the standard streams, and the eventfd comes after the FIFOs.
Number(d) == d + 2
EventFd == Len(Opens[server]) + 3

InitEvent ==
  /\ Init
  /\ thread = [d \in DOMAIN Opens[server] |-> IF server = "eventfd" THEN "test" ELSE "gone"]
  /\ counter = 0 /\ word = 0 /\ told = {} /\ stray = FALSE

-----------------------------------------------------------------------------
(* fifo_thread *)

Test(d) ==
  /\ thread[d] = "test"
  /\ thread' = [thread EXCEPT ![d] = IF running THEN "read" ELSE "gone"]
  /\ UNCHANGED <<pipe, counter, told, stray, mainVars>>

\* Whatever is there is read, up to nothing or the end of the FIFO.
Swallow(d) == LET f == file[d] IN
  /\ thread[d] = "read"
  /\ pipe' = [pipe EXCEPT ![f] = <<>>]
  /\ thread' = [thread EXCEPT ![d] = IF pipe[f] = <<>> THEN "test" ELSE "notify"]
  /\ UNCHANGED <<counter, told, stray, mainVars>>

Notify(d) ==
  /\ thread[d] = "notify"
  /\ counter' = counter + Number(d) /\ thread' = [thread EXCEPT ![d] = "test"]
  /\ told' = told \cup {d}
  /\ UNCHANGED <<pipe, stray, mainVars>>

-----------------------------------------------------------------------------
(* main *)

Wake ==
  /\ pc = "wait" /\ running /\ counter > 0 /\ pc' = "event"
  /\ UNCHANGED <<running, thread, pipe, counter, word, logged, told, stray>>

\* Slip to be caught: with EFD_SEMAPHORE a read takes one out of the eventfd.
TakeOne ==
  /\ pc = "event" /\ word' = 1 /\ counter' = counter - 1 /\ pc' = "read"
  /\ told' = IF counter' = 0 THEN {} ELSE told
  /\ UNCHANGED <<running, thread, pipe, logged, stray>>

TakeCounter ==
  /\ pc = "event" /\ word' = counter /\ counter' = 0 /\ pc' = "read"
  /\ told' = {}
  /\ UNCHANGED <<running, thread, pipe, logged, stray>>

\* It is the number of a FIFO: the first message that this holds by now, if any,
\* is logged.
ReadSum(d) == LET f == file[d] IN
  /\ pc = "read" /\ word = Number(d) /\ pc' = "wait"
  /\ pipe' = [pipe EXCEPT ![f] = <<>>]
  /\ logged' = IF pipe[f] = <<>> THEN logged
     ELSE [logged EXCEPT ![Head(pipe[f])[1]] = Append(@, Head(pipe[f])[2])]
  /\ UNCHANGED <<running, thread, counter, word, told, stray>>

\* Several notifications make up the number of the eventfd itself: what came
\* since is lost, and its eight bytes are printed as if they were a line.  Or
\* they make up the number of nothing that can be read.
ReadOther ==
  /\ pc = "read" /\ \A d \in DOMAIN thread : word # Number(d)
  /\ pc' = "wait"
  /\ IF word = EventFd
       THEN counter' = 0 /\ told' = {} /\ stray' = (stray \/ counter > 0)
       ELSE UNCHANGED <<counter, told, stray>>
  /\ UNCHANGED <<running, thread, pipe, word, logged>>

\* main returns, and takes the threads with it.
Return ==
  /\ pc = "wait" /\ ~running /\ pc' = "stopped"
  /\ thread' = [d \in DOMAIN thread |-> "gone"]
  /\ pipe' = [f \in Fifos |-> IF Writers(f) = {} THEN <<>> ELSE pipe[f]]
  /\ file' = [d \in Fds |-> Closed]
  /\ UNCHANGED <<running, counter, word, logged, told, stray>>

\* What a server of this kind leaves alone.
Eventfd(A) ==
  /\ server = "eventfd" /\ A
  /\ UNCHANGED <<server, cur, batch, ready, asked, clientVars, alerts>>
Thread(d) == Eventfd((Test(d) \/ Swallow(d) \/ Notify(d)) /\ UNCHANGED <<file, logged>>)
Main ==
  \/ Eventfd((Wake \/ TakeCounter \/ ReadOther \/ \E d \in DOMAIN thread : ReadSum(d)) /\ UNCHANGED file)
  \/ Eventfd(Return)

Server == (EpollServer /\ UNCHANGED eventVars) \/ Main
Next ==
  \/ (Environment \/ \E c \in Clients : Client(c)) /\ UNCHANGED eventVars
  \/ Server
  \/ \E d \in DOMAIN thread : Thread(d)

\* The server and its threads run, and so does a client that need not wait.
Spec == InitEvent /\ [][Next]_allVars
  /\ WF_allVars(Server)
  /\ \A d \in 1 .. Max({Len(Opens[s]) : s \in Servers}) : WF_allVars(d \in DOMAIN thread /\ Thread(d))
  /\ \A c \in Clients : WF_allVars(Client(c) /\ UNCHANGED eventVars)

-----------------------------------------------------------------------------
(* Properties *)

\* Notifications that meet in the eventfd add up, but never to the number of a
\* FIFO: when the main thread takes such a number, the thread of that FIFO has
\* notified it, once, and no other has.  This is so for three FIFOs, with the
\* numbers 3 to 5; a fourth would have that of two notifications of the first.
SumNamesItsFifo == \A d \in DOMAIN thread : counter = Number(d) => told = {d}

\* The strengthening that makes it inductive: the eventfd is empty, holds one
\* number, or at least twice the smallest.
EventInv ==
  /\ thread \in [DOMAIN Opens[server] -> {"test", "read", "notify", "gone"}]
  /\ counter \in Nat /\ word \in Nat /\ stray \in BOOLEAN
  /\ server = "eventfd" /\ pc # "stopped" => \A d \in DOMAIN thread : file[d] # Closed
  /\ \A d \in DOMAIN thread : thread[d] # "gone" => server = "eventfd" /\ pc # "stopped"
  /\ \/ told = {} /\ counter = 0
     \/ \E d \in DOMAIN thread : told = {d} /\ counter = Number(d)
     \/ counter >= 2 * Number(1) /\ server = "eventfd"
LogInv == NothingForgotten /\ LogInOrder /\ DescriptorInv /\ EdgeInv /\ SentInv /\ EventInv
=============================================================================
