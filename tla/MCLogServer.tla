---------------------------- MODULE MCLogServer ----------------------------
(* An instance of LogServer and LogEventfd for TLC.  With epoll there is    *)
(* one FIFO that two clients share and that may have two descriptors;     *)
(* with eventfd there are three FIFOs, as in the code, and two have clients *)
EXTENDS LogEventfd
CONSTANTS f1, f2, f3, a, b
BothServers == {"epoll", "eventfd"}
OpenLists == [s \in BothServers |-> IF s = "epoll" THEN <<f1>> ELSE <<f1, f2, f3>>]
Shared == [s \in BothServers |-> (a :> f1) @@ (b :> IF s = "epoll" THEN f1 ELSE f2)]
=============================================================================
