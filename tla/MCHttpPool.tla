----------------------------- MODULE MCHttpPool -----------------------------
(* An instance of HttpPool for TLC: more clients than the ring holds.      *)
EXTENDS HttpPool
=============================================================================
