---------------------------- MODULE MCSumDaemon ----------------------------
(* An instance of SumDaemon for TLC: a pipe that fills up before the       *)
(* time-out is over.                                                       *)
EXTENDS SumDaemon
=============================================================================
