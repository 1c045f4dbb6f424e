------------------------------ MODULE HttpFork ------------------------------
(***************************************************************************)
(* Two web servers of src/Lab4.  In task2/http_fork.c, "fork", the parent  *)
(* accepts a connection and forks a child that answers it.  Both then hold *)
(* the connection, and an HTTP/1.0 browser knows that its page is complete *)
(* only when the last of them has closed it.  In task1/http_basic.c,       *)
(* "basic", the parent answers it itself before it accepts the next one.   *)
(* A browser is one connection; its child, or the call of handle_client    *)
(* that serves it, goes by its name.                                       *)
(***************************************************************************)
EXTENDS Integers, FiniteSets

CONSTANTS
  Browsers,
  MayHangUp,    \* browsers may leave early
  MayStall,     \* browsers may stop reading
  ForkMayFail

ASSUME ForkAssumption ==
  "nobody" \notin Browsers /\ MayHangUp \in BOOLEAN /\ MayStall \in BOOLEAN /\ ForkMayFail \in BOOLEAN

VARIABLES
  server,    \* "fork" or "basic"
  browser,   \* "away", "silent", "asked", "stalled", "answered", "complete", "gone"
  parent,    \* "accept", "fork", "close", "serve" or "killed"
  current,   \* the parent's client_fd
  child,     \* "none", "recv", "send", "close", "exited"
  holds      \* the connections a process has open, the parent's under Nobody

forkVars == <<server, browser, parent, current, child, holds>>

Nobody == "nobody"
Processes == Browsers \cup {Nobody}
Holders(c) == {p \in Processes : c \in holds[p]}
Accepted(c) == child[c] # "none" \/ current = c \/ browser[c] = "complete"

\* The process that runs handle_client for c.
Process(c) == IF server = "fork" THEN c ELSE Nobody

ForkInit ==
  /\ server \in {"fork", "basic"}
  /\ browser = [c \in Browsers |-> "away"]
  /\ parent = "accept" /\ current = Nobody
  /\ child = [c \in Browsers |-> "none"]
  /\ holds = [p \in Processes |-> {}]

-----------------------------------------------------------------------------
(* Browsers *)

BrowserGoes(c, from, to) ==
  browser[c] = from /\ browser' = [browser EXCEPT ![c] = to] /\ UNCHANGED <<server, parent, current, child, holds>>

Arrive(c) == BrowserGoes(c, "away", "silent")
Request(c) == BrowserGoes(c, "silent", "asked")
Leave(c) == MayHangUp /\ \E from \in {"silent", "asked", "stalled"} : BrowserGoes(c, from, "gone")
\* It does not read a page that is more than the two sockets take.
Stall(c) == MayStall /\ BrowserGoes(c, "asked", "stalled")
Resume(c) == BrowserGoes(c, "stalled", "asked")
\* The end of file arrives once nobody holds the connection any more.
SeeEnd(c) ==
  /\ Accepted(c) /\ Holders(c) = {}
  /\ BrowserGoes(c, "answered", "complete") \/ BrowserGoes(c, "asked", "complete")

-----------------------------------------------------------------------------
(* The parent *)

AcceptNext ==
  /\ parent = "accept" /\ parent' = IF server = "fork" THEN "fork" ELSE "serve"
  /\ \E c \in Browsers :
       /\ browser[c] # "away" /\ ~Accepted(c)
       /\ current' = c
       /\ holds' = [holds EXCEPT ![Nobody] = @ \cup {c}]
       /\ child' = IF server = "fork" THEN child ELSE [child EXCEPT ![c] = "recv"]
  /\ UNCHANGED <<server, browser>>

\* The child begins with all that the parent has open.
Fork ==
  /\ parent = "fork"
  /\ child' = [child EXCEPT ![current] = "recv"]
  /\ holds' = [holds EXCEPT ![current] = holds[Nobody]]
  /\ parent' = "close"
  /\ UNCHANGED <<server, browser, current>>

ForkFails ==
  /\ parent = "fork" /\ ForkMayFail
  /\ child' = [child EXCEPT ![current] = "exited"]
  /\ parent' = "close"
  /\ UNCHANGED <<server, browser, current, holds>>

\* Slip to be caught: the parent leaves the connection to the child.
KeepCopy ==
  /\ parent = "close"
  /\ parent' = "accept" /\ current' = Nobody
  /\ UNCHANGED <<server, browser, child, holds>>

CloseCopy ==
  /\ parent = "close"
  /\ holds' = [holds EXCEPT ![Nobody] = @ \ {current}]
  /\ parent' = "accept" /\ current' = Nobody
  /\ UNCHANGED <<server, browser, child>>

-----------------------------------------------------------------------------
(* handle_client, in the child or in the only process there is *)

\* recv() waits for a browser that says nothing.
Receive(c) ==
  /\ child[c] = "recv" /\ browser[c] # "silent"
  /\ child' = [child EXCEPT ![c] = "send"]
  /\ UNCHANGED <<server, browser, parent, current, holds>>

Ends(c) == child' = [child EXCEPT ![c] = "exited"] /\ holds' = [holds EXCEPT ![Process(c)] = {}]

\* The sends block while the browser does not read.  One that has gone may cause
\* a SIGPIPE; one that has gone without a word
\* leaves the path undefined, which may end the process as well.
Answer(c) ==
  /\ child[c] = "send"
  /\ \/ /\ browser[c] # "stalled"
        /\ child' = [child EXCEPT ![c] = "close"]
        /\ browser' = [browser EXCEPT ![c] = IF @ = "gone" THEN @ ELSE "answered"]
        /\ UNCHANGED <<parent, holds>>
     \/ /\ browser[c] = "gone" /\ browser' = browser /\ Ends(c)
        /\ parent' = IF server = "fork" THEN parent ELSE "killed"
  /\ UNCHANGED <<server, current>>

\* Slip to be caught: the loop goes on without close().
ExitOpen(c) ==
  /\ child[c] = "close" /\ child' = [child EXCEPT ![c] = "exited"]
  /\ holds' = IF server = "fork" THEN [holds EXCEPT ![c] = {}] ELSE holds
  /\ parent' = IF server = "fork" THEN parent ELSE "accept"
  /\ current' = IF server = "fork" THEN current ELSE Nobody
  /\ UNCHANGED <<server, browser>>

\* close(); a child exits, and the kernel closes the rest.
Exit(c) ==
  /\ child[c] = "close" /\ Ends(c)
  /\ parent' = IF server = "fork" THEN parent ELSE "accept"
  /\ current' = IF server = "fork" THEN current ELSE Nobody
  /\ UNCHANGED <<server, browser>>

Parent == AcceptNext \/ Fork \/ ForkFails \/ CloseCopy
Child(c) == Receive(c) \/ Answer(c) \/ Exit(c)
Browser(c) == Arrive(c) \/ Request(c) \/ Leave(c) \/ Stall(c) \/ Resume(c) \/ SeeEnd(c)
ForkNext == Parent \/ \E c \in Browsers : Browser(c) \/ Child(c)

\* Processes that can run do, and ends of file are delivered.  What is sent to a
\* browser gets on each time it reads, and a page has an end.
ForkSpec ==
  ForkInit /\ [][ForkNext]_forkVars /\ WF_forkVars(Parent)
    /\ \A c \in Browsers : WF_forkVars(Child(c)) /\ SF_forkVars(Answer(c)) /\ SF_forkVars(SeeEnd(c))

-----------------------------------------------------------------------------
(* Properties *)

ForkTypeOK ==
  /\ server \in {"fork", "basic"}
  /\ browser \in [Browsers -> {"away", "silent", "asked", "stalled", "answered", "complete", "gone"}]
  /\ parent \in {"accept", "fork", "close", "serve", "killed"} /\ current \in Processes
  /\ child \in [Browsers -> {"none", "recv", "send", "close", "exited"}]
  /\ holds \in [Processes -> SUBSET Browsers]

\* A child holds its own connection and no other, which would keep a stranger's
\* page open for as long as the child lives, and the parent holds one at most.
NothingInherited ==
  /\ ForkTypeOK
  /\ \A c \in Browsers : holds[c] \subseteq {c}
  /\ holds[Nobody] \subseteq {current}

\* The strengthening of NothingInherited that every step preserves: the parent
\* has let go of a connection before it accepts the next.
ForkInv ==
  /\ NothingInherited
  /\ parent = "accept" => current = Nobody
  /\ parent \in {"fork", "close", "serve"} => current \in Browsers

\* The only process is blocked, by a browser that says nothing or does not read.
Stuck ==
  server = "basic" /\ \E d \in Browsers :
    \/ child[d] = "recv" /\ browser[d] = "silent"
    \/ child[d] = "send" /\ browser[d] = "stalled"

\* Every browser that stays and reads learns that its page is complete: with a
\* child for each, whatever the others do; with one process, unless a browser
\* that says nothing or does not read holds it for ever, or one that has gone
\* brings it down.
EveryPageEnds ==
  []<>~Stuck => \A c \in Browsers :
    browser[c] = "asked" ~>
      (browser[c] \in {"complete", "gone"} \/ [](browser[c] = "stalled")
        \/ (server = "basic" /\ parent = "killed"))
=============================================================================
