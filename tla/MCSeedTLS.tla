------------------------------ MODULE MCSeedTLS ------------------------------
(* One seed, three certificates, two faults.                                *)
EXTENDS SeedTLS
=============================================================================
