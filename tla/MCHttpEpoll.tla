----------------------------- MODULE MCHttpEpoll -----------------------------
(* An instance of HttpEpoll for TLC: descriptors for two of the clients.    *)
EXTENDS HttpEpoll
=============================================================================
