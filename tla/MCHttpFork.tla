----------------------------- MODULE MCHttpFork -----------------------------
(* An instance of HttpFork for TLC: three browsers at a time.             *)
EXTENDS HttpFork
=============================================================================
