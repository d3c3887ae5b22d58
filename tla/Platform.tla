------------------------------ MODULE Platform ------------------------------
(***************************************************************************)
(* A rolling Platform upgrade: lifecycle.Runner.Upgrade with scope         *)
(* "platform" or "tenderdash", and the worker's apply_platform with its    *)
(* write-ahead marker on every validator.  Compose recreates the services  *)
(* whose image or rendered configuration the release changes, all others   *)
(* stay; but Tenderdash, which exits when Drive's ABCI listener goes, is   *)
(* stopped before Drive is replaced and started after it.                  *)
(*                                                                         *)
(* Sessions are serial (Journal), start from the durable record, and may   *)
(* end anywhere; an apply runs on under the host lock.  Core, which this   *)
(* scope never touches, is taken to stay as it is, and a host renders the  *)
(* same configuration each time.                                           *)
(***************************************************************************)
EXTENDS Integers, FiniteSetsExt

CONSTANTS
  NV,             \* validators, numbered in upgradeOrder
  Releases,       \* what a release may change: changed, images, per service
  Counters,       \* what Docker may have counted of Tenderdash's restarts
  FaultKinds,     \* what may go wrong: see Kinds
  MaxFaults       \* bound: how often

\* An answer lost, a runner killed, a host process killed, a checkpoint failing,
\* a service that Docker restarts.
Kinds == {"lost", "crash", "broken", "save", "restart"}

\* The gateway stands for every service that depends on neither.
Services == {"drive", "tenderdash", "gateway"}

ASSUME PlatformAssumption ==
  /\ NV \in Nat \ {0} /\ Counters \subseteq Nat
  /\ \A r \in Releases : r.images \subseteq r.changed /\ r.changed \subseteq Services
  /\ FaultKinds \subseteq Kinds /\ MaxFaults \in Nat

Validators == 1..NV

VARIABLES
  plan,           \* the release, and the restart counters of the baseline
  record,         \* the journal: phase, CurrentNode (0: none), Completed
  pc,             \* the session
  cont,           \* the containers of each host
  marker,         \* upgrade.json of each host
  proc,           \* the apply that holds the host lock
  faults          \* how many, and of which kinds, so far

host == <<cont, marker, proc>>
vars == <<plan, record, pc, cont, marker, proc, faults>>

Container == [there : BOOLEAN, up : BOOLEAN, new : BOOLEAN, id : Nat,
              restarts : Nat]
Unmarked  == [phase |-> "none", changes |-> {}, dep |-> "none"]

Init ==
  /\ plan \in [release : Releases, count : [Validators -> Counters]]
  /\ record = [phase |-> "none", current |-> 0, done |-> {}]
  /\ pc = "idle"
  /\ cont = [t \in Validators |-> [s \in Services |->
       [there |-> TRUE, up |-> TRUE, new |-> FALSE, id |-> 0,
        restarts |-> IF s = "tenderdash" THEN plan.count[t] ELSE 0]]]
  /\ marker = [t \in Validators |-> Unmarked]
  /\ proc = [t \in Validators |-> "idle"]
  /\ faults = [count |-> 0, kinds |-> {}]

Changed == plan.release.changed
Images  == plan.release.images
Base(t, s) == IF s = "tenderdash" THEN plan.count[t] ELSE 0

Fault(k) ==
  /\ k \in FaultKinds /\ faults.count < MaxFaults
  /\ faults' = [count |-> faults.count + 1, kinds |-> faults.kinds \cup {k}]
NoFault  == UNCHANGED faults

-----------------------------------------------------------------------------
(* apply_platform on a host.                                               *)

Free(t)  == proc[t] \in {"idle", "failed"}
At(t, p) == proc[t] = p
Goes(t, p)   == proc' = [proc EXCEPT ![t] = p]
SetDep(t, d) == marker' = [marker EXCEPT ![t].dep = d]
HostStep     == NoFault /\ UNCHANGED <<plan, record, pc>>

\* The services whose container has not the fingerprint of the render.
Differ(t) == {s \in Changed : ~cont[t][s].there \/ ~cont[t][s].new}

Selected(t) == marker[t].changes
Drains(t)   == "drive" \in Selected(t)

Leaving   == {"stop-requested", "stopped", "start-requested"}
Returning == {"start-requested", "started"}

\* "Services outside this change keep their exact containers."
Untouched(t, m) ==
  \A s \in Services \ m.changes :
    LET c == cont[t][s]  td == s = "tenderdash" IN
    /\ c.there /\ c.id = 0
    /\ c.restarts = Base(t, s) \/ (td /\ m.dep \in Returning /\ c.restarts = 0)
    /\ c.up \/ (td /\ m.dep \in Leaving)

\* The session's call, on a host that is free: marker, then the first check.
Apply(t) ==
  LET m == IF marker[t].phase = "none"
           THEN [phase |-> "applying", changes |-> Differ(t), dep |-> "none"]
           ELSE marker[t]
      drains == "drive" \in m.changes
  IN /\ marker' = [marker EXCEPT ![t] = m]
     /\ Goes(t, IF m.phase = "applied" THEN "final"
                ELSE IF ~Untouched(t, m) THEN "failed"
                ELSE IF drains /\ m.dep \notin Returning THEN "stop" ELSE "up")
     /\ UNCHANGED cont

\* "Save intent first so disconnects after stop are retry-safe."
StopRequested(t) ==
  /\ At(t, "stop") /\ SetDep(t, "stop-requested") /\ Goes(t, "stopping")
  /\ HostStep /\ UNCHANGED cont

StopTenderdash(t) ==
  /\ At(t, "stopping") /\ Goes(t, "stopped")
  /\ cont' = [cont EXCEPT ![t]["tenderdash"].up = FALSE]
  /\ HostStep /\ UNCHANGED marker

Stopped(t) ==
  /\ At(t, "stopped") /\ SetDep(t, "stopped") /\ Goes(t, "up")
  /\ HostStep /\ UNCHANGED cont

Everything(t) == Selected(t)           \* mutant: Tenderdash with the others
Immediate(t)  == Selected(t) \ (IF Drains(t) THEN {"tenderdash"} ELSE {})

\* What a Compose up is to converge now.
Group(t) ==
  CASE At(t, "up")    -> Immediate(t)
    [] At(t, "again") -> Selected(t) \cap {"tenderdash"}
    [] OTHER          -> {}

Converged(t, s) == cont[t][s].there /\ cont[t][s].new /\ cont[t][s].up

\* Compose removes, creates and starts, and may be broken off in between.
Remove(t, s) ==
  /\ s \in Group(t) /\ cont[t][s].there /\ ~cont[t][s].new
  /\ cont' = [cont EXCEPT ![t][s].there = FALSE, ![t][s].up = FALSE]
  /\ HostStep /\ UNCHANGED <<marker, proc>>

Create(t, s) ==
  /\ s \in Group(t) /\ ~cont[t][s].there
  /\ cont' = [cont EXCEPT ![t][s] =
       [there |-> TRUE, up |-> FALSE, new |-> TRUE, id |-> @.id + 1,
        restarts |-> 0]]
  /\ HostStep /\ UNCHANGED <<marker, proc>>

Start(t, s) ==
  /\ s \in Group(t) /\ cont[t][s].there /\ cont[t][s].new /\ ~cont[t][s].up
  /\ cont' = [cont EXCEPT ![t][s].up = TRUE]
  /\ HostStep /\ UNCHANGED <<marker, proc>>

Up(t) ==
  /\ At(t, "up") /\ \A s \in Immediate(t) : Converged(t, s)
  /\ Goes(t, IF Drains(t) THEN "request" ELSE "final")
  /\ HostStep /\ UNCHANGED <<cont, marker>>

\* wait_abci; then Tenderdash may come back.
StartRequested(t) ==
  /\ At(t, "request") /\ cont[t]["drive"].up /\ Goes(t, "again")
  /\ SetDep(t, IF marker[t].dep = "started" THEN "started" ELSE "start-requested")
  /\ HostStep /\ UNCHANGED cont

\* docker start, which starts the count of restarts anew.
StartTenderdash(t) ==
  /\ At(t, "again") /\ "tenderdash" \notin Selected(t)
  /\ ~cont[t]["tenderdash"].up
  /\ cont' = [cont EXCEPT ![t]["tenderdash"].up = TRUE,
                          ![t]["tenderdash"].restarts = 0]
  /\ HostStep /\ UNCHANGED <<marker, proc>>

Started(t) ==
  /\ At(t, "again") /\ cont[t]["tenderdash"].up
  /\ \A s \in Group(t) : Converged(t, s)
  /\ SetDep(t, "started") /\ Goes(t, "final")
  /\ HostStep /\ UNCHANGED cont

\* Every service runs the render, and what was not selected is as it was.
Final(t) ==
  LET kept(s) ==
        /\ cont[t][s].id = 0
        /\ cont[t][s].restarts =
             IF s = "tenderdash" /\ Drains(t) THEN 0 ELSE Base(t, s)
      good ==
        \A s \in Services :
          /\ cont[t][s].there /\ cont[t][s].up
          /\ s \in Changed => cont[t][s].new
          /\ s \notin Selected(t) => kept(s)
  IN /\ At(t, "final")
     /\ IF good
        THEN marker' = [marker EXCEPT ![t].phase = "applied"] /\ Goes(t, "idle")
        ELSE Goes(t, "failed") /\ UNCHANGED marker
     /\ HostStep /\ UNCHANGED cont

Works(t) ==
  \/ StopRequested(t) \/ StopTenderdash(t) \/ Stopped(t)
  \/ \E s \in Services : Remove(t, s) \/ Create(t, s) \/ Start(t, s)
  \/ Up(t) \/ StartRequested(t) \/ StartTenderdash(t) \/ Started(t) \/ Final(t)

\* Killed, or a call of Docker that fails: the marker stays.
Breaks(t) ==
  /\ ~Free(t) /\ Fault("broken") /\ Goes(t, "failed")
  /\ UNCHANGED <<plan, record, pc, cont, marker>>

\* A service exits and Docker starts it again, during the rollout.
Restarts(t, s) ==
  /\ record.phase = "open" /\ cont[t][s].up /\ Fault("restart")
  /\ cont' = [cont EXCEPT ![t][s].restarts = @ + 1]
  /\ UNCHANGED <<plan, record, pc, marker, proc>>

-----------------------------------------------------------------------------
(* Upgrade: one action per step of a session.                              *)

Current  == record.current
Undone   == Validators \ record.done
Turns(p) == pc' = p
Local    == UNCHANGED <<plan, record, host, faults>>

\* A checkpoint lands and is acknowledged, or the session ends and it may have
\* landed.
Save(r, p) ==
  /\ \/ record' = r /\ Turns(p) /\ NoFault
     \/ record' \in {record, r} /\ Turns("idle") /\ Fault("save")
  /\ UNCHANGED <<plan, host>>

\* The images of the record: the target's from the journaled intent on.
Reached(t) == t \in record.done \cup {Current}

\* platform-status: every service runs, with the image of the record.
Observed(t) ==
  /\ Free(t)
  /\ \A s \in Services :
       /\ cont[t][s].there /\ cont[t][s].up
       /\ s \in Images => (cont[t][s].new <=> Reached(t))

NoReset(t, s) == Base(t, s)            \* mutant: the reset is not expected
\* "A planned graceful stop/start around Drive ... resets Docker's counter."
Expected(t, s) ==
  IF s = "tenderdash" /\ Reached(t) /\ "drive" \in Changed
  THEN 0 ELSE Base(t, s)

\* upgradeEvidence: a busy host is no evidence; only the pending node may lack
\* an observation; what the rollout has not changed is as in the baseline.
Evidence(pending) ==
  \A t \in Validators :
    /\ Free(t)
    /\ Observed(t) \/ t = pending
    /\ Observed(t) =>
         \A s \in Services \ (IF Reached(t) THEN Changed ELSE {}) :
           cont[t][s].id = 0 /\ cont[t][s].restarts = Expected(t, s)

Begin ==
  /\ pc = "idle"
  /\ \/ /\ record.phase = "none" /\ \A t \in Validators : Observed(t)
        /\ Save([record EXCEPT !.phase = "open"], "evidence")
     \/ record.phase = "open" /\ Turns("evidence") /\ Local

Judge ==
  /\ pc = "evidence"
  /\ Turns(IF Evidence(Current) THEN "staging" ELSE "idle")
  /\ Local

\* Every host renders the release, under its lock; nothing is installed.
Stage ==
  /\ pc = "staging"
  /\ Turns(IF \E t \in Validators : ~Free(t) THEN "idle"
           ELSE IF Current = 0 THEN "gating" ELSE "choosing")
  /\ Local

\* verifyUpgrade, with the fleet as it is: nothing here heals by itself.
Gate == Evidence(0)

Gated ==
  /\ pc = "gating"
  /\ Turns(IF Gate THEN "choosing" ELSE "idle")
  /\ Local

\* "Recover the previously journaled withdrawal before scheduling any other."
SkipsPending ==                        \* mutant: it is left for later
  IF Undone = {Current} THEN Current ELSE Min(Undone \ {Current})
NextTarget == IF Current # 0 THEN Current ELSE Min(Undone)

Choose ==
  /\ pc = "choosing"
  /\ IF Undone = {}
     THEN Turns("closing") /\ Local
     ELSE Save([record EXCEPT !.current = NextTarget], "calling")

Call ==
  /\ pc = "calling" /\ NoFault /\ UNCHANGED <<plan, record>>
  /\ IF Free(Current)
     THEN Apply(Current) /\ Turns("applying")
     ELSE Turns("idle") /\ UNCHANGED host

Answer ==
  /\ pc = "applying" /\ Free(Current)
  /\ Turns(IF At(Current, "failed") THEN "idle" ELSE "checking")
  /\ Local

\* mutant: the target stays the current one
Lingers(r)  == [r EXCEPT !.done = @ \cup {r.current}]
Finished(r) == [r EXCEPT !.done = @ \cup {r.current}, !.current = 0]

Checked ==
  /\ pc = "checking"
  /\ IF Gate
     THEN Save(Finished(record), "choosing")
     ELSE Turns("idle") /\ Local

Close ==
  /\ pc = "closing"
  /\ Save([record EXCEPT !.phase = "complete"], "idle")

\* A call fails, or its answer does not come.
Lost ==
  /\ pc # "idle" /\ Fault("lost") /\ Turns("idle")
  /\ IF pc = "calling" /\ Free(Current) THEN Apply(Current) \/ UNCHANGED host
                                        ELSE UNCHANGED host
  /\ UNCHANGED <<plan, record>>

\* Killed; the operator releases the claim.
Crash ==
  /\ pc # "idle" /\ Fault("crash") /\ Turns("idle")
  /\ UNCHANGED <<plan, record, host>>

Session ==
  \/ Begin \/ Judge \/ Stage \/ Gated \/ Choose \/ Call \/ Answer \/ Checked
  \/ Close

Next ==
  \/ Session \/ Lost \/ Crash
  \/ \E t \in Validators :
       Works(t) \/ Breaks(t) \/ \E s \in Services : Restarts(t, s)

Spec == Init /\ [][Next]_vars

\* Host processes run and the command is repeated until it completes.
FairSpec ==
  /\ Spec /\ WF_vars(Session)
  /\ \A t \in Validators : WF_vars(Works(t))

-----------------------------------------------------------------------------
(* What the operator relies on.                                            *)

Away(t, s) == ~cont[t][s].there \/ ~cont[t][s].up

\* Types, and validateUpgrade: what is complete has completed every node.
TypeOK ==
  /\ record \in [phase : {"none", "open", "complete"}, current : 0..NV,
                 done : SUBSET Validators]
  /\ record.current \notin record.done
  /\ record.phase = "complete" => record.done = Validators /\ record.current = 0
  /\ pc \in {"idle", "evidence", "staging", "gating", "choosing", "calling",
             "applying", "checking", "closing"}
  /\ cont \in [Validators -> [Services -> Container]]
  /\ marker \in [Validators -> [phase : {"none", "applying", "applied"},
       changes : SUBSET Services, dep : {"none", "started"} \cup Leaving]]

\* upgrade.py 376-397: Drive never goes away under a running Tenderdash,
\* wherever an earlier apply was broken off: it would exit on the ABCI EOF and
\* be restarted by Docker instead.
GracefulDrain ==
  \A t \in Validators : Away(t, "drive") => Away(t, "tenderdash")

\* upgrade_runner.go 447-470: at most one validator lacks a service, the journal
\* names it, and so it does any that has begun to change.
OneOut ==
  \A t \in Validators :
    /\ marker[t].phase # "none" => Reached(t)
    /\ (\E s \in Services : Away(t, s)) => t = Current

\* upgrade.py 326-341 and 398-410: a selected service is recreated once however
\* often apply is repeated, and any other never; a completed node serves it.
ReplacedOnce ==
  \A t \in Validators, s \in Services :
    /\ cont[t][s].id <= IF s \in Changed THEN 1 ELSE 0
    /\ t \in record.done /\ s \in Changed => Converged(t, s)

OneWithdrawal == OneOut /\ ReplacedOnce

\* upgrade_runner.go 395-412: repeated, the command completes the rollout, unless
\* Docker restarted a service; or a release that changes only the configuration
\* of Drive was broken off before it had stopped a Tenderdash that Docker had
\* restarted before the rollout.
Undrained ==
  /\ Images = {} /\ "drive" \in Changed /\ "tenderdash" \notin Changed
  /\ Current # 0
  /\ cont[Current]["tenderdash"].up /\ cont[Current]["tenderdash"].restarts # 0
RerunCompletes ==
  <>(record.phase = "complete" \/ "restart" \in faults.kinds) \/ <>[]Undrained

\* docs/upgrades.md:124: "Allow in-flight remote work to settle, then rerun the
\* same `upgrade` plan/binary".
DocumentedRerun == <>(record.phase = "complete")
=============================================================================
