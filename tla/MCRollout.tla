----------------------------- MODULE MCRollout -----------------------------
(* A DKG cycle of four blocks whose last two are quiet.                      *)
EXTENDS Rollout
=============================================================================
