-------------------------------- MODULE MCJoin --------------------------------
(* Two hosts, two plans for them, and the other engines.                    *)
EXTENDS Join
=============================================================================
