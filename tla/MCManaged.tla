------------------------------ MODULE MCManaged ------------------------------
(***************************************************************************)
(* Three validators, two of them enrolled and the third with half the       *)
(* power.  First an upgrade of Drive on both, which drains Tenderdash, beside*)
(* a gateway that must stay as it is; then a deploy on the first of what was*)
(* stopped there.                                                           *)
(***************************************************************************)
EXTENDS Managed

MCTargets    == 1 .. 3
MCOperated   == {1, 2}
MCPower      == <<1, 1, 2>>
MCComponents == {"drive", "tenderdash", "gateway"}
MCStrays     == {<<1, "drive">>}
MCMenu ==
  <<[kind |-> "upgrade", scope |-> {"drive", "tenderdash"},
    changed |-> {"drive"}, sel |-> {1, 2}],
   [kind |-> "deploy", scope |-> {"drive", "tenderdash"},
    changed |-> {}, sel |-> {1}]>>

=============================================================================
