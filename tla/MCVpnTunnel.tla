---------------------------- MODULE MCVpnTunnel ----------------------------
(***************************************************************************)
(* Instances of VpnTunnel for TLC.  Either every peer may be subject to    *)
(* the same faults, or the two ends divide them.                           *)
(***************************************************************************)
EXTENDS VpnTunnel, TLC

CONSTANTS a, b    \* the two ends

\* Peers are killed and started again.
Crashes == [p \in Peers |-> {"crash"}]

\* The network towards one end duplicates and reorders, and send_test
\* aims at it; the other end crashes and has failing and empty receptions.
Divided == (a :> {"duplicate", "reorder", "foreign"})
        @@ (b :> {"recvfail", "checksum", "crash"})
=============================================================================
