----------------------------- MODULE MCBootstrap -----------------------------
(* Runner invocations of one bootstrap plan, exchangeable.                   *)
EXTENDS Bootstrap, TLC

CONSTANTS r1, r2, r3

Exchangeable == Permutations(Runners)
=============================================================================
