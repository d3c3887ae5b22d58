----------------------------- MODULE MCProvision -----------------------------
(* Three targets, with and without public addresses.                         *)
EXTENDS Provision
=============================================================================
