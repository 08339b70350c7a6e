---------------------------- MODULE MCNetworkRpc ---------------------------
(* Instances of the two-machine cluster: two jobs, one worker.             *)
EXTENDS NetworkRpc

CONSTANTS j1, j2
=============================================================================
