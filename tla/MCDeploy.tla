------------------------------ MODULE MCDeploy ------------------------------
(* Two validators with the miner on the wallet's host, or one and its own.   *)
EXTENDS Deploy
=============================================================================
