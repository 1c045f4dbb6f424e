----------------------------- MODULE MCPidLock -----------------------------
(* An instance of PidLock for TLC: five starts, two of the program that    *)
(* gives its lock away, are enough for daemons of both kinds, one that is  *)
(* stopped, one that is killed and one that is refused.  Starts of one     *)
(* program are alike.                                                      *)
EXTENDS PidLock, TLC
StartsAlike == {p \in Permutations(Starts) : \A s \in Early : p[s] \in Early}
=============================================================================
