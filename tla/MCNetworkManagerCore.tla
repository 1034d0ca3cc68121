------------------------- MODULE MCNetworkManagerCore -------------------------
(* NetworkManagerCore with two listeners, two sockets, which both listeners *)
(* or one after the other may have, and two connections.                   *)
EXTENDS NetworkManagerCore
=============================================================================
