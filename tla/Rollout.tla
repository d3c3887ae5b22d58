------------------------------- MODULE Rollout -------------------------------
(***************************************************************************)
(* A rolling Core upgrade: lifecycle.Runner.Upgrade (scope "core") on one   *)
(* side, the worker's execute_core with its write-ahead marker on every     *)
(* host on the other, and the chain between them.  The runner replaces Core *)
(* on one node at a time; around a validator it pauses the network's only   *)
(* miner in the quiet part of the DKG cycle, so that no DKG session starts  *)
(* while the validator is away.                                             *)
(*                                                                          *)
(* Sessions are serial (Journal); each reruns the same plan and starts from *)
(* the durable record.  A session may end anywhere; what it started on a    *)
(* host runs on under the host lock.                                        *)
(***************************************************************************)
EXTENDS Integers, FiniteSetsExt

CONSTANTS
  N,              \* targets in upgradeOrder; the mining node is the last
  NV,             \* the validators are the first NV of them
  Cycle,          \* blocks of a DKG cycle (24)
  QuietFrom,      \* first height of the cycle without a session (13)
  FaultKinds,     \* what may go wrong: see Kinds
  MaxFaults       \* bound: how often

\* An answer lost or late (or the context cancelled), a runner killed, a host
\* process failing, a checkpoint failing, a block mined just before the pause.
Kinds == {"lost", "crash", "broken", "save", "race"}

ASSUME RolloutAssumption ==
  /\ N \in Nat /\ NV \in 0..(N - 1)
  /\ Cycle \in Nat /\ QuietFrom \in 1..(Cycle - 1)
  /\ FaultKinds \subseteq Kinds /\ MaxFaults \in Nat

Targets    == 1..N
Validators == 1..NV
Miner      == N

VARIABLES
  record,         \* the journal: phase, CurrentNode (0: none), Completed
  pc,             \* the session
  proc,           \* the apply process on each host, holding the host lock
  step,           \* the marker upgrade.json on each host
  image,          \* the image of each Core
  core,           \* whether Core runs
  svc,            \* what depends on Core: Platform services, or the miner
  linked,         \* Core synced, READY and connected to its quorums
  height,         \* height within the DKG cycle
  missed,         \* history: validators away when a session started
  replaced,       \* history: how often Core was replaced
  faults          \* how many, and of which kinds, so far

host == <<proc, step, image, core, svc, linked>>
vars == <<record, pc, proc, step, image, core, svc, linked, height, missed,
          replaced, faults>>

Records == [phase : {"none", "open", "complete"}, current : 0..N,
            done : SUBSET Targets]
Steps == {"idle", "staging", "gating", "choosing", "pausing", "stopping",
          "rechecking", "unpausing", "calling", "applying", "settling",
          "resuming", "recovering", "checking", "closing"}
Marks == {"none", "start", "withdrawn", "replaced", "done"}

\* Types; the node in progress is not one of the completed; and what
\* validateUpgrade asks of every record: a complete rollout has completed every
\* node and has none in progress.
TypeOK ==
  /\ record \in Records
  /\ record.current \notin record.done
  /\ record.phase = "complete" => record.done = Targets /\ record.current = 0
  /\ pc \in Steps
  /\ proc \in [Targets -> {"idle", "run", "stopping", "creating"}]
  /\ step \in [Targets -> Marks]
  /\ image \in [Targets -> {"old", "new"}]
  /\ core \in [Targets -> BOOLEAN]
  /\ svc \in [Targets -> {"up", "down", "starting"}]
  /\ linked \in [Targets -> BOOLEAN]
  /\ height \in 0..(Cycle - 1)
  /\ missed \subseteq Validators
  /\ replaced \in [Targets -> Nat]
  /\ faults \in [count : 0..MaxFaults, kinds : SUBSET FaultKinds]

Init ==
  /\ record = [phase |-> "none", current |-> 0, done |-> {}]
  /\ pc = "idle"
  /\ proc = [t \in Targets |-> "idle"]
  /\ step = [t \in Targets |-> "none"]
  /\ image = [t \in Targets |-> "old"]
  /\ core = [t \in Targets |-> TRUE]
  /\ svc = [t \in Targets |-> "up"]
  /\ linked = [t \in Targets |-> TRUE]
  /\ height = 0
  /\ missed = {}
  /\ replaced = [t \in Targets |-> 0]
  /\ faults = [count |-> 0, kinds |-> {}]

Quiet(h) == h >= QuietFrom
Mining   == svc[Miner] = "up" /\ core[Miner]
Away(t)  == t \in Validators /\ (~core[t] \/ ~linked[t])
Out(t)   == ~core[t] \/ ~linked[t] \/ (t # Miner /\ svc[t] # "up")

Fault(k) ==
  /\ k \in FaultKinds /\ faults.count < MaxFaults
  /\ faults' = [count |-> faults.count + 1, kinds |-> faults.kinds \cup {k}]
NoFault  == UNCHANGED faults

-----------------------------------------------------------------------------
(* The chain.                                                               *)

\* The block that starts a cycle starts its DKG sessions.  A block that ends
\* the quiet part while the pause is on its way is counted as a fault.
Block ==
  /\ Mining
  /\ height' = (height + 1) % Cycle
  /\ missed' = IF height' = 0 THEN missed \cup {t \in Validators : Away(t)}
                              ELSE missed
  /\ IF pc = "stopping" /\ Quiet(height) /\ ~Quiet(height')
     THEN Fault("race") ELSE NoFault
  /\ UNCHANGED <<record, pc, host, replaced>>

-----------------------------------------------------------------------------
(* execute_core on a host, each step journaled in the marker.               *)

Chain == <<record, pc, height, missed>>

StopServices(t) ==
  /\ proc[t] = "run" /\ step[t] = "start" /\ svc[t] # "down"
  /\ svc' = [svc EXCEPT ![t] = "down"]
  /\ UNCHANGED <<Chain, proc, step, image, core, linked, replaced, faults>>

Mark(t, from, to) ==
  /\ proc[t] = "run" /\ step[t] = from
  /\ step' = [step EXCEPT ![t] = to]
  /\ UNCHANGED <<Chain, image, core, replaced, faults>>

Withdrawn(t) ==
  /\ svc[t] = "down"
  /\ Mark(t, "start", "withdrawn")
  /\ UNCHANGED <<proc, svc, linked>>

NeedsReplacement(t) == ~(core[t] /\ image[t] = "new")

\* A running validator Core is stopped only after a quiet height was observed.
WaitQuiet(t) ==
  /\ proc[t] = "run" /\ step[t] = "withdrawn" /\ NeedsReplacement(t)
  /\ t \in Validators /\ core[t] => Quiet(height)
  /\ proc' = [proc EXCEPT ![t] = "stopping"]
  /\ UNCHANGED <<Chain, step, image, core, svc, linked, replaced, faults>>

StopCore(t) ==
  /\ proc[t] = "stopping"
  /\ proc' = [proc EXCEPT ![t] = "creating"]
  /\ core' = [core EXCEPT ![t] = FALSE]
  /\ linked' = [linked EXCEPT ![t] = FALSE]
  /\ UNCHANGED <<Chain, step, image, svc, replaced, faults>>

CreateCore(t) ==
  /\ proc[t] = "creating"
  /\ proc' = [proc EXCEPT ![t] = "run"]
  /\ core' = [core EXCEPT ![t] = TRUE]
  /\ image' = [image EXCEPT ![t] = "new"]
  /\ replaced' = [replaced EXCEPT ![t] = @ + 1]
  /\ UNCHANGED <<Chain, step, svc, linked, faults>>

Replaced(t) ==
  /\ core[t] /\ image[t] = "new"
  /\ Mark(t, "withdrawn", "replaced")
  /\ UNCHANGED <<proc, svc, linked>>

\* wait_core (synced) and refresh_quorum_links.
Relinks(t) ==
  /\ proc[t] = "run" /\ step[t] = "replaced" /\ ~linked[t]
  /\ linked' = [linked EXCEPT ![t] = TRUE]
  /\ UNCHANGED <<Chain, proc, step, image, core, svc, replaced, faults>>

\* Then the dependants start.
Restarted(t) ==
  /\ linked[t]
  /\ svc' = [svc EXCEPT ![t] = IF t = Miner THEN "up" ELSE "starting"]
  /\ Mark(t, "replaced", "done")
  /\ UNCHANGED <<proc, linked>>

Exits(t) ==
  /\ proc[t] = "run" /\ step[t] = "done"
  /\ proc' = [proc EXCEPT ![t] = "idle"]
  /\ UNCHANGED <<Chain, step, image, core, svc, linked, replaced, faults>>

\* A timeout of docker, of the sync or of the links: the marker stays.
Breaks(t) ==
  /\ proc[t] # "idle" /\ Fault("broken")
  /\ proc' = [proc EXCEPT ![t] = "idle"]
  /\ UNCHANGED <<Chain, step, image, core, svc, linked, replaced>>

\* Platform catches up after its start.
CatchesUp(t) ==
  /\ svc[t] = "starting" /\ core[t]
  /\ svc' = [svc EXCEPT ![t] = "up"]
  /\ UNCHANGED <<Chain, proc, step, image, core, linked, replaced, faults>>

HostStep(t) ==
  \/ StopServices(t) \/ Withdrawn(t) \/ WaitQuiet(t) \/ StopCore(t)
  \/ CreateCore(t) \/ Replaced(t) \/ Relinks(t) \/ Restarted(t) \/ Exits(t)
  \/ CatchesUp(t)

-----------------------------------------------------------------------------
(* Upgrade: one action per step of a session, none of which changes a host  *)
(* but those that say so.                                                   *)

Hosts   == <<host, height, missed, replaced>>
At      == record.current
Undone  == Targets \ record.done
Goes(p) == pc' = p
Turns(from, to) == pc = from /\ Goes(to)

\* A checkpoint lands and is acknowledged, or the session ends and it may have
\* landed.
Save(r, p) ==
  /\ \/ record' = r /\ Goes(p) /\ NoFault
     \/ record' \in {record, r} /\ Goes("idle") /\ Fault("save")
  /\ UNCHANGED Hosts

Local == UNCHANGED <<record, Hosts, faults>>

\* effectiveImages: the target image from the journaled intent on.
Expected(t) == IF t \in record.done \cup {At} THEN "new" ELSE "old"

\* Doctor and upgradeEvidence: every target serves its expected image, no host
\* is busy, and Core advances.
Healthy ==
  /\ Mining
  /\ \A t \in Targets :
       core[t] /\ linked[t] /\ svc[t] = "up" /\ proc[t] = "idle"
               /\ image[t] = Expected(t)

Begin ==
  /\ pc = "idle"
  /\ \/ /\ record.phase = "none" /\ Healthy
        /\ Save([record EXCEPT !.phase = "open"], "staging")
     \/ record.phase = "open" /\ Goes("staging") /\ Local

\* Staging changes no service; it needs the lock of every host.
Stage ==
  /\ pc = "staging"
  /\ Goes(IF \E t \in Targets : proc[t] # "idle" THEN "idle"
          ELSE IF At = 0 THEN "gating" ELSE "choosing")
  /\ Local

Gate == Healthy

Gated ==
  /\ pc = "gating"
  /\ Goes(IF Gate THEN "choosing" ELSE "idle")
  /\ Local

ValidatorsOnly == Validators \ record.done    \* mutant: the last nodes forgotten
Remaining == Undone

\* "Recover the previously journaled withdrawal before scheduling any other."
SkipsPending ==                \* mutant: the withdrawal is left for later
  IF Remaining = {At} THEN At ELSE Min(Remaining \ {At})
NextTarget == IF At # 0 THEN At ELSE Min(Remaining)

\* Mining is paused around a validator, not around the other nodes.
FirstOnly(t)    == t = 1       \* mutant: the pause is for the first validator
PausesMining(t) == t \in Validators

Choose ==
  /\ pc = "choosing"
  /\ IF At = 0 /\ Remaining = {}
     THEN Goes("closing") /\ Local
     ELSE Save([record EXCEPT !.current = NextTarget],
               IF PausesMining(NextTarget) THEN "pausing" ELSE "calling")

\* pauseMiningQuietly: a quiet height, the pause, and the height once more.
Observe ==
  /\ Quiet(height)
  /\ Turns("pausing", "stopping")
  /\ Local

\* The wait lasts a whole cycle of blocks: without blocks none is found.
NoQuietWindow ==
  /\ ~Quiet(height) /\ ~Mining
  /\ Turns("pausing", "idle")
  /\ Local

SetMiner(v) ==
  /\ proc[Miner] = "idle"
  /\ svc' = [svc EXCEPT ![Miner] = v]
  /\ UNCHANGED <<record, proc, step, image, core, linked, height, missed,
                 replaced>>

MinePause == SetMiner("down") /\ Turns("stopping", "rechecking") /\ NoFault

Recheck ==
  /\ pc = "rechecking"
  /\ Goes(IF Quiet(height) THEN "calling" ELSE "unpausing")
  /\ Local

\* resumeMining, after a pause outside the window, a success or a failure.
MineStart ==
  /\ SetMiner("up")
  /\ \/ Turns("unpausing", "pausing")
     \/ Turns("resuming", "checking")
     \/ Turns("recovering", "idle")
  /\ NoFault

FirstCallOnly(t) == step[t] = "none"   \* mutant: a begun apply is not resumed
MayApply(t)      == TRUE

\* After a failed apply the miner is started again if it was paused.
AfterFailure == IF PausesMining(At) THEN "recovering" ELSE "idle"

Call ==
  /\ pc = "calling"
  /\ IF proc[At] = "idle" /\ MayApply(At)
     THEN /\ Goes("applying")
          /\ proc' = [proc EXCEPT ![At] = "run"]
          /\ step' = [step EXCEPT ![At] = IF @ = "none" THEN "start" ELSE @]
     ELSE Goes(AfterFailure) /\ UNCHANGED <<proc, step>>
  /\ UNCHANGED <<record, image, core, svc, linked, height, missed, replaced,
                 faults>>

Answer ==
  /\ pc = "applying" /\ proc[At] = "idle"
  /\ Goes(IF step[At] # "done" THEN AfterFailure
          ELSE IF PausesMining(At) THEN "settling" ELSE "checking")
  /\ Local

Settle ==
  /\ pc = "settling" /\ linked[At]
  /\ Goes("resuming")
  /\ Local

\* verifyUpgrade waits; what does not heal ends the session.
Checked ==
  /\ pc = "checking"
  /\ \/ /\ Gate
        /\ Save([record EXCEPT !.done = @ \cup {At}, !.current = 0], "choosing")
     \/ /\ ~Gate /\ \A t \in Targets : svc[t] # "starting"
        /\ Goes("idle") /\ Local

Close ==
  /\ pc = "closing"
  /\ Save([record EXCEPT !.phase = "complete"], "idle")

\* An answer does not come, or comes too late: the session takes its error
\* path.  Whether a pause or start of the miner took effect is open.
Lost ==
  /\ pc # "idle" /\ Fault("lost")
  /\ Goes(IF pc \in {"calling", "applying", "settling"} THEN AfterFailure
          ELSE IF pc = "rechecking" THEN "unpausing" ELSE "idle")
  /\ \/ svc' = svc
     \/ pc = "stopping" /\ svc' = [svc EXCEPT ![Miner] = "down"]
     \/ /\ pc \in {"unpausing", "resuming", "recovering"}
        /\ svc' = [svc EXCEPT ![Miner] = "up"]
  /\ UNCHANGED <<record, proc, step, image, core, linked, height, missed,
                 replaced>>

\* Killed; the operator releases the claim.
Crash == pc # "idle" /\ Fault("crash") /\ Goes("idle") /\ UNCHANGED <<record, Hosts>>

Session ==
  \/ Begin \/ Stage \/ Gated \/ Choose \/ Observe \/ NoQuietWindow \/ MinePause
  \/ Recheck \/ MineStart \/ Call \/ Answer \/ Settle \/ Checked \/ Close

Next ==
  \/ Block \/ Session \/ Lost \/ Crash
  \/ \E t \in Targets : HostStep(t) \/ Breaks(t)

Spec == Init /\ [][Next]_vars

\* Blocks are mined, host processes run, the command is repeated until it
\* completes; the two-second polls of a height that stands for eight seconds or
\* more see the quiet window.  No fault is ever due.
FairSpec ==
  /\ Spec
  /\ WF_vars(Block) /\ WF_vars(Session) /\ SF_vars(Observe)
  /\ \A t \in Targets : WF_vars(HostStep(t)) /\ SF_vars(WaitQuiet(t))

-----------------------------------------------------------------------------
(* What the operator relies on.                                             *)

\* At most one node is out of service through the rollout, whatever call was
\* lost and whatever session was killed: the next withdrawal waits for the whole
\* fleet.  (Upgrade: the durable current node and the gate after each.)
OneOut == \A t, u \in Targets : Out(t) /\ Out(u) => t = u

\* A node out of service, or on the new image, is the one the journal names or
\* a completed one: a resume always finds it.  (Upgrade: "The durable
\* current-node intent is written before SSH".)
OutIsJournaled ==
  \A t \in Targets :
    Out(t) \/ image[t] = "new" => t \in record.done \cup {record.current}

\* Core is replaced once on each node, however often the call is repeated and
\* wherever the host process broke off.  (execute_core: the steps of the marker
\* and the look at the running image.)
ReplacedOnce == \A t \in Targets : replaced[t] <= 1

\* A completed node serves the new image.  (Completed is set after the gate.)
DoneServes ==
  \A t \in record.done : image[t] = "new" /\ ~Out(t) /\ step[t] = "done"

\* One withdrawal at a time, named in the journal, never repeated, and over when
\* the journal says so.
OneJournaledWithdrawal ==
  OneOut /\ OutIsJournaled /\ ReplacedOnce /\ DoneServes

\* While answers come and nothing is killed, no DKG session starts while a
\* validator is away, even when blocks race the pause.  (pauseMiningQuietly: the
\* second look; wait_quiet on the host.)
NoSessionWhileAway ==
  missed # {} => faults.kinds \cap {"lost", "crash", "broken"} # {}

\* Repeated, the command completes the rollout, whatever was lost or killed, if
\* no block ends the quiet part before a pause.  (Upgrade resumes the current
\* node; execute_core resumes its marker; resumeMining after every failure.)
RerunCompletes == <>(record.phase = "complete" \/ "race" \in faults.kinds)

\* docs/upgrades.md:124: "Allow in-flight remote work to settle, then rerun the
\* same `upgrade` plan/binary".
DocumentedRerun == <>(record.phase = "complete")
=============================================================================
