------------------------------ MODULE MCJournal ------------------------------
(* A provisioning runner and a release-addresses command of the same plan.   *)
EXTENDS JournalInv

CONSTANTS r1, r2, p1

MCPlanOf == [o \in Runners |-> p1]
=============================================================================
