--------------------------- MODULE MCNetworkManager ---------------------------
(* NetworkManager with two clients and one listening thread; liveness is   *)
(* checked in the same run as safety, so without symmetry.                 *)
EXTENDS NetworkManager
=============================================================================
