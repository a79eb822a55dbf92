------------------------------ MODULE MCTcpProbe ------------------------------
(* Small instances of one TCP call for TLC: the values are in the tcp_*        *)
(* configurations.                                                           *)
EXTENDS TcpProbe

\* What `-retries` may set, the values that make no attempt and one included.
SomeRetries == {-1, 0, 1, 2}

AllRoutes == {"direct", "connect", "socks"}
=============================================================================
