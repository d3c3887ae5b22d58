---------------------------- MODULE ClaimedRecord ----------------------------
(***************************************************************************)
(* What the shared journal promises to the executors, without the network:  *)
(* one record per network, bound for ever to the plan that created it, at   *)
(* most one claim on it, and a history of checkpoints in which every        *)
(* checkpoint is written by the claim holder on top of all earlier ones.    *)
(* Nobody takes a claim from its holder: it is given up (by the holder, or  *)
(* by the operator for a stopped holder) before anybody else gets it.       *)
(***************************************************************************)
EXTENDS Naturals

CONSTANTS
  Runners,        \* invocations of the CLI, each with its own random owner ID
  PlanOf,         \* the reviewed plan each invocation was given
  NoPlan,         \* the record does not exist yet
  NoOwner         \* nobody holds the claim

VARIABLES
  bound,          \* the plan the record is bound to
  holder,         \* the claim holder
  version,        \* the revision of the last checkpoint
  history         \* the checkpoints folded into the record: <<author, revision>>

avars == <<bound, holder, version, history>>

AInit ==
  /\ bound = NoPlan
  /\ holder = NoOwner
  /\ version = 0
  /\ history = {}

\* The first runner creates the record together with its claim.
Create(o) ==
  /\ bound = NoPlan
  /\ bound' = PlanOf[o]
  /\ holder' = o
  /\ UNCHANGED <<version, history>>

Claim(o) ==
  /\ bound = PlanOf[o]
  /\ holder = NoOwner
  /\ holder' = o
  /\ UNCHANGED <<bound, version, history>>

Commit(o) ==
  /\ holder = o
  /\ version' = version + 1
  /\ history' = history \cup {<<o, version + 1>>}
  /\ UNCHANGED <<bound, holder>>

GiveUp(o) ==
  /\ holder = o
  /\ holder' = NoOwner
  /\ UNCHANGED <<bound, version, history>>

ANext == \E o \in Runners : Create(o) \/ Claim(o) \/ Commit(o) \/ GiveUp(o)

ASpec == AInit /\ [][ANext]_avars
=============================================================================
