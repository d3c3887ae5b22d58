--------------------------- MODULE RolloutProofs ---------------------------
(***************************************************************************)
(* Proofs about a rolling Core upgrade, for any number of nodes, length of  *)
(* the DKG cycle and faults: at most one node is out, named by the journal, *)
(* and replaced once; and while answers come no session starts without a    *)
(* validator.                                                              *)
(***************************************************************************)
EXTENDS Rollout, WellFoundedInduction, TLAPS

-----------------------------------------------------------------------------
(* The inductive invariant.                                                *)

\* Core was replaced where its image is new, and only there.
ReplacedIsNew(t) == replaced[t] = IF image[t] = "new" THEN 1 ELSE 0

\* What the marker says of a host: untouched before "start", its Core down or
\* unlinked only between "withdrawn" and "replaced", serving from "done" on.
MarkerOrder(t) ==
  /\ step[t] = "none" => ~Out(t) /\ proc[t] = "idle"
  /\ step[t] \in {"none", "start"} => image[t] = "old"
  /\ ~core[t] => step[t] = "withdrawn" /\ image[t] = "old"
  /\ ~linked[t] => step[t] \in {"withdrawn", "replaced"}
  /\ step[t] \in {"replaced", "done"} => image[t] = "new"

\* A Core that is being replaced is still the old one.
ReplacesOld(t) ==
  /\ proc[t] \in {"stopping", "creating"} =>
       step[t] = "withdrawn" /\ image[t] = "old"
  /\ proc[t] = "creating" => ~core[t]

\* Only the current node is at work, and only journaled nodes were.
WorkIsJournaled(t) ==
  /\ proc[t] # "idle" => t = At
  /\ step[t] # "none" => t \in record.done \cup {At}

DoneAt(t) == t \in record.done => image[t] = "new" /\ ~Out(t) /\ step[t] = "done"

HostInv(t) ==
  /\ ReplacedIsNew(t) /\ MarkerOrder(t) /\ ReplacesOld(t)
  /\ WorkIsJournaled(t) /\ DoneAt(t)

\* Where a session may be, by its current node; a node is checked only after its
\* apply has reported "done".
Paused == {"pausing", "stopping", "rechecking", "unpausing", "settling",
           "resuming", "recovering"}
SessionOrder ==
  /\ pc # "idle" => record.phase = "open"
  /\ pc \in {"gating", "closing"} => At = 0
  /\ pc = "closing" => Undone = {}
  /\ pc \in Paused => At \in Validators
  /\ pc \in {"calling", "applying", "checking"} => At # 0
  /\ pc \in {"settling", "resuming", "checking"} =>
       step[At] = "done" /\ proc[At] = "idle"

\* While answers come and nothing is killed, a marker is open only under the
\* session that waits for it, and around a validator the miner is then down.
Clean == faults.kinds \cap {"lost", "crash", "broken"} = {}
OpenUnderSession ==
  \A t \in Targets :
    step[t] \in {"start", "withdrawn", "replaced"} =>
      pc = "applying" /\ t = At /\ proc[t] # "idle"
MinerDown ==
  pc \in {"rechecking", "calling", "applying"} /\ At \in Validators =>
    svc[Miner] = "down"
WhileClean == Clean => OpenUnderSession /\ MinerDown /\ missed = {}

RolloutInvariant ==
  /\ TypeOK
  /\ \A t \in Targets : HostInv(t)
  /\ SessionOrder
  /\ WhileClean

-----------------------------------------------------------------------------
(* Lemmas: what a step leaves as it was, and what one host may change.     *)

\* A step that leaves the state of host u.
Stays(u) ==
  /\ proc'[u] = proc[u] /\ step'[u] = step[u] /\ image'[u] = image[u]
  /\ core'[u] = core[u] /\ svc'[u] = svc[u] /\ linked'[u] = linked[u]
  /\ replaced'[u] = replaced[u]

\* The next node of the plan is one that is left.
LEMMA MinIn ==
  ASSUME NEW S \in SUBSET Nat, S # {}
  PROVE  Min(S) \in S
<1> DEFINE Less == {p \in Nat \X Nat : p[1] < p[2]}
<1>1. IsWellFoundedOn(Less, Nat)
  BY NatLessThanWellFounded, Zenon DEF OpToRel
<1>2. PICK x \in S : \A y \in S : ~(<<y, x>> \in Less)
  BY <1>1, WFMin, Zenon
<1>3. ASSUME NEW y \in S PROVE x <= y
  <2>1. x \in Nat /\ y \in Nat /\ ~(<<y, x>> \in Less)
    BY <1>2, <1>3
  <2> QED
    BY <2>1, SMT
<1> QED
  BY <1>2, <1>3 DEF Min

\* The miner is a node of the rollout, and not a validator.
LEMMA MinerApart ==
  /\ Miner \in Targets \ Validators
  /\ Validators \subseteq Targets
  /\ 0 \notin Targets
  BY RolloutAssumption DEF Miner, Targets, Validators

\* A fault is counted, within its bound.
LEMMA FaultCounted ==
  ASSUME TypeOK, NEW k, Fault(k)
  PROVE  /\ faults' \in [count : 0..MaxFaults, kinds : SUBSET FaultKinds]
         /\ faults'.kinds = faults.kinds \cup {k}
  BY RolloutAssumption DEF Fault, TypeOK

\* A host whose state a step leaves, and the journal too, keeps its invariant.
LEMMA HostUnchanged ==
  ASSUME NEW u \in Targets, HostInv(u), Stays(u), record' = record
  PROVE  HostInv(u)'
  BY DEF HostInv, Stays, ReplacedIsNew, MarkerOrder, ReplacesOld, WorkIsJournaled,
         DoneAt, Out, At

\* The same holds for all of them.
LEMMA HostsUnchanged ==
  ASSUME RolloutInvariant, UNCHANGED <<record, host, replaced>>
  PROVE  \A u \in Targets : HostInv(u)'
<1> SUFFICES ASSUME NEW u \in Targets PROVE HostInv(u)'
  OBVIOUS
<1> QED
  BY HostUnchanged DEF RolloutInvariant, host, Stays

\* A step of one host at work: only what that host makes of it is left to show.
LEMMA HostStepKeeps ==
  ASSUME RolloutInvariant, NEW t \in Targets, proc[t] # "idle",
         TypeOK', HostInv(t)', WhileClean',
         \A u \in Targets \ {t} : Stays(u),
         UNCHANGED <<record, pc>>
  PROVE  RolloutInvariant'
<1>1. \A u \in Targets : HostInv(u)'
  <2> SUFFICES ASSUME NEW u \in Targets, u # t PROVE HostInv(u)'
    OBVIOUS
  <2> QED
    BY HostUnchanged DEF RolloutInvariant
<1>2. SessionOrder'
  BY DEF RolloutInvariant, HostInv, WorkIsJournaled, SessionOrder, At, Undone
<1> QED
  BY <1>1, <1>2 DEF RolloutInvariant

\* While answers come, what a host at work does is waited for, and leaves the
\* miner as it was unless it is the miner's own apply.
LEMMA WorkIsWaitedFor ==
  ASSUME RolloutInvariant, NEW t \in Targets, proc[t] # "idle",
         UNCHANGED <<record, pc, height, missed>>,
         faults' = faults,
         \A u \in Targets \ {t} : Stays(u),
         step'[t] \in {"start", "withdrawn", "replaced"} =>
           step[t] \in {"start", "withdrawn", "replaced"} /\ proc'[t] # "idle"
  PROVE  WhileClean'
<1>1. t = At
  BY DEF RolloutInvariant, HostInv, WorkIsJournaled
<1>2. Clean' => Clean
  BY DEF Clean
<1>3. WhileClean /\ At' = At
  BY DEF RolloutInvariant, At
<1>4. ASSUME Clean PROVE OpenUnderSession'
  BY <1>1, <1>3, <1>4 DEF WhileClean, OpenUnderSession, Stays
<1>5. ASSUME Clean PROVE MinerDown'
  BY <1>1, <1>3, <1>5, MinerApart DEF WhileClean, MinerDown, Stays
<1> QED
  BY <1>2, <1>3, <1>4, <1>5 DEF WhileClean

-----------------------------------------------------------------------------
(* The steps of the hosts.                                                  *)

\* execute_core on a host at work.
Works(t) ==
  \/ StopServices(t) \/ Withdrawn(t) \/ WaitQuiet(t) \/ StopCore(t)
  \/ CreateCore(t) \/ Replaced(t) \/ Relinks(t) \/ Restarted(t) \/ Exits(t)

\* Each of its steps keeps the order of the marker.
LEMMA WorksOnHost ==
  ASSUME RolloutInvariant, NEW t \in Targets, Works(t)
  PROVE  HostInv(t)'
<1>1. record' = record
  BY DEF Works, Mark, Chain, StopServices, Withdrawn, WaitQuiet, StopCore,
     CreateCore, Replaced, Relinks, Restarted, Exits
<1>2. HostInv(t) /\ TypeOK
  BY DEF RolloutInvariant
<1>3. CASE StopServices(t)
  BY <1>1, <1>2, <1>3, MinerApart DEF StopServices, TypeOK, Out, At,
     HostInv, ReplacedIsNew, MarkerOrder, ReplacesOld, WorkIsJournaled, DoneAt
<1>4. CASE Withdrawn(t)
  BY <1>1, <1>2, <1>4, MinerApart DEF Withdrawn, Mark, TypeOK, Out, At,
     HostInv, ReplacedIsNew, MarkerOrder, ReplacesOld, WorkIsJournaled, DoneAt
<1>5. CASE WaitQuiet(t)
  BY <1>1, <1>2, <1>5, MinerApart DEF WaitQuiet, NeedsReplacement, TypeOK, Out, At,
     HostInv, ReplacedIsNew, MarkerOrder, ReplacesOld, WorkIsJournaled, DoneAt
<1>6. CASE StopCore(t)
  BY <1>1, <1>2, <1>6, MinerApart DEF StopCore, TypeOK, Out, At,
     HostInv, ReplacedIsNew, MarkerOrder, ReplacesOld, WorkIsJournaled, DoneAt
<1>7. CASE CreateCore(t)
  BY <1>1, <1>2, <1>7, MinerApart DEF CreateCore, TypeOK, Out, At,
     HostInv, ReplacedIsNew, MarkerOrder, ReplacesOld, WorkIsJournaled, DoneAt
<1>8. CASE Replaced(t)
  BY <1>1, <1>2, <1>8, MinerApart DEF Replaced, Mark, TypeOK, Out, At,
     HostInv, ReplacedIsNew, MarkerOrder, ReplacesOld, WorkIsJournaled, DoneAt
<1>9. CASE Relinks(t)
  BY <1>1, <1>2, <1>9, MinerApart DEF Relinks, TypeOK, Out, At,
     HostInv, ReplacedIsNew, MarkerOrder, ReplacesOld, WorkIsJournaled, DoneAt
<1>10. CASE Restarted(t)
  BY <1>1, <1>2, <1>10, MinerApart DEF Restarted, Mark, TypeOK, Out, At,
     HostInv, ReplacedIsNew, MarkerOrder, ReplacesOld, WorkIsJournaled, DoneAt
<1>11. CASE Exits(t)
  BY <1>1, <1>2, <1>11, MinerApart DEF Exits, TypeOK, Out, At,
     HostInv, ReplacedIsNew, MarkerOrder, ReplacesOld, WorkIsJournaled, DoneAt
<1> QED
  BY <1>3, <1>4, <1>5, <1>6, <1>7, <1>8, <1>9, <1>10, <1>11 DEF Works

\* And the rest of the invariant.
LEMMA WorkStep ==
  ASSUME RolloutInvariant, NEW t \in Targets, Works(t)
  PROVE  RolloutInvariant'
<1> USE DEF Works, Mark, Chain, StopServices, Withdrawn, WaitQuiet, StopCore,
        CreateCore, Replaced, Relinks, Restarted, Exits
<1>1. proc[t] # "idle"
  OBVIOUS
<1>2. /\ \A u \in Targets \ {t} : Stays(u)
      /\ UNCHANGED <<record, pc, height, missed, faults>>
  BY DEF RolloutInvariant, TypeOK, Stays
<1>3. TypeOK'
  <2>1. /\ proc' \in [Targets -> {"idle", "run", "stopping", "creating"}]
        /\ step' \in [Targets -> Marks]
        /\ svc' \in [Targets -> {"up", "down", "starting"}]
    BY DEF RolloutInvariant, TypeOK, Marks
  <2>2. /\ image' \in [Targets -> {"old", "new"}]
        /\ replaced' \in [Targets -> Nat]
    BY DEF RolloutInvariant, TypeOK
  <2>3. core' \in [Targets -> BOOLEAN] /\ linked' \in [Targets -> BOOLEAN]
    BY DEF RolloutInvariant, TypeOK
  <2> HIDE DEF Works
  <2> QED
    BY <1>2, <2>1, <2>2, <2>3 DEF RolloutInvariant, TypeOK
<1>4. WhileClean'
  <2>1. step'[t] \in {"start", "withdrawn", "replaced"} =>
          step[t] \in {"start", "withdrawn", "replaced"} /\ proc'[t] # "idle"
    BY DEF RolloutInvariant, TypeOK
  <2> QED
    BY <1>1, <1>2, <2>1, WorkIsWaitedFor
<1> QED
  BY <1>1, <1>2, <1>3, <1>4, WorksOnHost, HostStepKeeps

\* A timeout leaves the marker; while answers come there is none.
LEMMA BreakStep ==
  ASSUME RolloutInvariant, NEW t \in Targets, Breaks(t)
  PROVE  RolloutInvariant'
<1>1. /\ \A u \in Targets \ {t} : Stays(u)
      /\ UNCHANGED <<record, pc, height, missed>>
  BY DEF Breaks, Chain, RolloutInvariant, TypeOK, Stays
<1>2. TypeOK' /\ ~Clean'
  BY <1>1, FaultCounted DEF Breaks, Chain, RolloutInvariant, TypeOK, Clean
<1>3. HostInv(t)'
  BY <1>1 DEF Breaks, RolloutInvariant, TypeOK, HostInv, ReplacedIsNew,
     MarkerOrder, ReplacesOld, WorkIsJournaled, DoneAt, Out, At
<1> QED
  BY <1>1, <1>2, <1>3, HostStepKeeps DEF Breaks, WhileClean

\* Platform catches up on any node.
LEMMA CatchUpStep ==
  ASSUME RolloutInvariant, NEW t \in Targets, CatchesUp(t)
  PROVE  RolloutInvariant'
<1>1. /\ \A u \in Targets \ {t} : Stays(u)
      /\ UNCHANGED <<record, pc, height, missed, proc, step, image, core, linked,
                    replaced, faults>>
      /\ svc[t] = "starting" /\ svc' = [svc EXCEPT ![t] = "up"]
  BY DEF CatchesUp, Chain, RolloutInvariant, TypeOK, Stays
<1>2. TypeOK'
  BY <1>1 DEF RolloutInvariant, TypeOK
<1>3. \A u \in Targets : HostInv(u)'
  <2>1. HostInv(t)'
    BY <1>1 DEF RolloutInvariant, TypeOK, HostInv, ReplacedIsNew, MarkerOrder,
       ReplacesOld, WorkIsJournaled, DoneAt, Out, At
  <2> QED
    BY <1>1, <2>1, HostUnchanged DEF RolloutInvariant
<1>4. SessionOrder'
  BY <1>1 DEF RolloutInvariant, SessionOrder, At, Undone
<1>5. WhileClean'
  BY <1>1 DEF RolloutInvariant, TypeOK, WhileClean, Clean, OpenUnderSession,
     MinerDown, At
<1> QED
  BY <1>2, <1>3, <1>4, <1>5 DEF RolloutInvariant

\* A block: while answers come, the miner is down whenever a validator is away.
LEMMA BlockStep ==
  ASSUME RolloutInvariant, Block
  PROVE  RolloutInvariant'
<1>1. /\ UNCHANGED <<record, pc, host, replaced>>
      /\ Mining /\ height' = (height + 1) % Cycle
      /\ missed' \in {missed, missed \cup {t \in Validators : Away(t)}}
      /\ NoFault \/ Fault("race")
  BY DEF Block
<1>2. /\ faults' \in [count : 0..MaxFaults, kinds : SUBSET FaultKinds]
      /\ Clean' => Clean
  BY <1>1, FaultCounted DEF NoFault, RolloutInvariant, TypeOK, Clean
<1>3. TypeOK'
  <2>1. height' \in 0..(Cycle - 1)
    BY <1>1, RolloutAssumption DEF RolloutInvariant, TypeOK
  <2> QED
    BY <1>1, <1>2, <2>1 DEF host, RolloutInvariant, TypeOK
<1>4. SessionOrder'
  BY <1>1 DEF host, RolloutInvariant, SessionOrder, At, Undone
<1>5. WhileClean'
  <2> SUFFICES ASSUME Clean PROVE WhileClean'
    BY <1>2 DEF WhileClean
  <2>1. OpenUnderSession /\ MinerDown /\ missed = {}
    BY DEF RolloutInvariant, WhileClean
  <2>2. ASSUME NEW t \in Validators, Away(t) PROVE FALSE
    <3>1. step[t] \in {"withdrawn", "replaced"}
      BY <2>2, MinerApart DEF Away, RolloutInvariant, HostInv, MarkerOrder
    <3>2. svc[Miner] = "down"
      BY <2>1, <3>1, MinerApart DEF OpenUnderSession, MinerDown
    <3> QED
      BY <1>1, <3>2 DEF Mining
  <2>3. missed' = {}
    BY <1>1, <2>1, <2>2
  <2> QED
    BY <1>1, <2>1, <2>3 DEF host, WhileClean, OpenUnderSession, MinerDown, At
<1> QED
  BY <1>1, <1>3, <1>4, <1>5, HostsUnchanged DEF RolloutInvariant

-----------------------------------------------------------------------------
(* The steps of a session.                                                 *)

\* A step that leaves the hosts and the journal: only the order of the session
\* is left to show.
LEMMA TurnStep ==
  ASSUME RolloutInvariant, UNCHANGED <<record, Hosts>>,
         pc' \in Steps, SessionOrder', WhileClean',
         faults' \in [count : 0..MaxFaults, kinds : SUBSET FaultKinds]
  PROVE  RolloutInvariant'
<1>1. TypeOK'
  BY DEF Hosts, host, RolloutInvariant, TypeOK
<1> QED
  BY <1>1, HostsUnchanged DEF Hosts, RolloutInvariant

\* Without a fault, only a session that waits for its apply, or that turns to
\* where the miner is down, has anything to show of the time while answers come.
LEMMA CleanTurn ==
  ASSUME RolloutInvariant, UNCHANGED <<host, missed>>,
         Clean' => Clean,
         pc = "applying" => proc[At] = "idle",
         pc' \in {"rechecking", "calling", "applying"} /\ At' \in Validators =>
           svc[Miner] = "down"
  PROVE  WhileClean'
<1> SUFFICES ASSUME Clean PROVE WhileClean'
  BY DEF WhileClean
<1>1. OpenUnderSession /\ missed = {}
  BY DEF RolloutInvariant, WhileClean
<1>2. \A t \in Targets : step[t] \notin {"start", "withdrawn", "replaced"}
  BY <1>1 DEF OpenUnderSession
<1> QED
  BY <1>1, <1>2 DEF host, WhileClean, OpenUnderSession, MinerDown

\* The steps that change nothing but where the session is.
LEMMA LocalStep ==
  ASSUME RolloutInvariant,
         Stage \/ Gated \/ Observe \/ NoQuietWindow \/ Recheck \/ Answer \/ Settle
  PROVE  RolloutInvariant'
<1>1. /\ UNCHANGED <<record, Hosts, faults>> /\ At' = At /\ Clean' = Clean
      /\ faults' \in [count : 0..MaxFaults, kinds : SUBSET FaultKinds]
  BY DEF Stage, Gated, Observe, NoQuietWindow, Recheck, Answer, Settle, Local, At,
     Clean, RolloutInvariant, TypeOK
<1>2. pc' \in Steps
  BY DEF Stage, Gated, Observe, NoQuietWindow, Recheck, Answer, Settle, Goes,
     Turns, AfterFailure, Steps
<1>3. SessionOrder'
  <2>1. SessionOrder /\ TypeOK
    BY DEF RolloutInvariant
  <2>2. proc' = proc /\ step' = step /\ Undone' = Undone
    BY <1>1 DEF Hosts, host, Undone
  <2>3. CASE Stage \/ Gated \/ NoQuietWindow
    BY <1>1, <2>1, <2>2, <2>3 DEF Stage, Gated, NoQuietWindow, Goes, Turns,
       SessionOrder, Paused
  <2>4. CASE Observe \/ Recheck \/ Settle
    BY <1>1, <2>1, <2>2, <2>4, MinerApart DEF Observe, Recheck, Settle, Goes, Turns,
       SessionOrder, Paused
  <2>5. CASE Answer
    BY <1>1, <2>1, <2>2, <2>5 DEF Answer, Goes, AfterFailure, PausesMining,
       SessionOrder, Paused
  <2> QED
    BY <2>3, <2>4, <2>5
<1>4. WhileClean'
  <2>1. pc = "applying" => proc[At] = "idle"
    BY DEF Stage, Gated, Observe, NoQuietWindow, Recheck, Answer, Settle, Turns
  <2>2. pc' \in {"rechecking", "calling", "applying"} =>
          pc = "rechecking" /\ pc' = "calling"
    BY DEF Stage, Gated, Observe, NoQuietWindow, Recheck, Answer, Settle, Goes,
       Turns, AfterFailure
  <2> QED
    BY <1>1, <2>1, <2>2, CleanTurn
    DEF Hosts, RolloutInvariant, WhileClean, MinerDown
<1> QED
  BY <1>1, <1>2, <1>3, <1>4, TurnStep

\* A checkpoint that may not land: what the new record says of the hosts, and
\* where the session goes with it, is left to show.
LEMMA SaveStep ==
  ASSUME RolloutInvariant, NEW r \in Records, NEW p \in Steps, Save(r, p),
         pc # "applying",
         r.current \notin r.done,
         r.phase = "complete" => r.done = Targets /\ r.current = 0,
         \A t \in Targets :
           /\ proc[t] # "idle" => t = r.current
           /\ step[t] # "none" => t \in r.done \cup {r.current}
           /\ t \in r.done => image[t] = "new" /\ ~Out(t) /\ step[t] = "done",
         record' = r /\ pc' = p => SessionOrder',
         p \in {"rechecking", "calling", "applying"} => r.current \notin Validators
  PROVE  RolloutInvariant'
<1>1. /\ UNCHANGED Hosts
      /\ \/ record' = r /\ pc' = p
         \/ record' \in {record, r} /\ pc' = "idle"
      /\ NoFault \/ Fault("save")
  BY DEF Save, Goes
<1>2. /\ faults' \in [count : 0..MaxFaults, kinds : SUBSET FaultKinds]
      /\ Clean' => Clean
  BY <1>1, FaultCounted DEF NoFault, RolloutInvariant, TypeOK, Clean
<1>3. TypeOK'
  <2>1. record' \in {record, r} /\ pc' \in Steps
    BY <1>1 DEF Steps
  <2> QED
    BY <1>1, <1>2, <2>1 DEF Hosts, host, RolloutInvariant, TypeOK
<1>4. \A t \in Targets : HostInv(t)'
  <2> SUFFICES ASSUME NEW t \in Targets, record' = r PROVE HostInv(t)'
    BY <1>1, HostsUnchanged DEF Hosts
  <2>1. HostInv(t)
    BY DEF RolloutInvariant
  <2> QED
    BY <1>1, <2>1 DEF Hosts, host, HostInv, ReplacedIsNew, MarkerOrder,
       ReplacesOld, WorkIsJournaled, DoneAt, Out, At
<1>5. SessionOrder'
  <2>1. CASE pc' = "idle"
    BY <2>1 DEF SessionOrder, Paused
  <2> QED
    BY <1>1, <2>1
<1>6. WhileClean'
  BY <1>1, <1>2, CleanTurn DEF Hosts, At
<1> QED
  BY <1>3, <1>4, <1>5, <1>6 DEF RolloutInvariant

\* What the hosts say of the journal, in the form SaveStep asks for.
LEMMA HostsAgree ==
  ASSUME RolloutInvariant, NEW t \in Targets
  PROVE  /\ proc[t] # "idle" => t = At
         /\ step[t] # "none" => t \in record.done \cup {At}
         /\ t \in record.done => image[t] = "new" /\ ~Out(t) /\ step[t] = "done"
  BY DEF RolloutInvariant, HostInv, WorkIsJournaled, DoneAt

\* A session begins, on a new journal or an open one.
LEMMA BeginStep == RolloutInvariant /\ Begin => RolloutInvariant'
<1> SUFFICES ASSUME RolloutInvariant, Begin PROVE RolloutInvariant'
  OBVIOUS
<1>1. CASE record.phase = "none" /\ Save([record EXCEPT !.phase = "open"], "staging")
  <2> DEFINE r == [record EXCEPT !.phase = "open"]
  <2>1. /\ r \in Records /\ r.phase = "open"
        /\ r.current = At /\ r.done = record.done
    BY DEF RolloutInvariant, TypeOK, Records, At
  <2>2. "staging" \in Steps /\ pc = "idle"
    BY DEF Begin, Steps
  <2>3. Save(r, "staging")
    BY <1>1
  <2> HIDE DEF r
  <2>4. record' = r /\ pc' = "staging" => SessionOrder'
    BY <2>1 DEF SessionOrder, Paused
  <2>5. At \notin record.done
    BY DEF RolloutInvariant, TypeOK, At
  <2> QED
    BY <2>1, <2>2, <2>3, <2>4, <2>5, HostsAgree, SaveStep
<1>2. CASE pc = "idle" /\ record.phase = "open" /\ Goes("staging") /\ Local
  <2>1. pc' \in Steps /\ SessionOrder' /\ faults' = faults
    BY <1>2 DEF Goes, Local, Steps, SessionOrder, Paused
  <2>2. WhileClean'
    BY <1>2, <2>1, CleanTurn DEF Goes, Local, Hosts, Clean
  <2> QED
    BY <1>2, <2>1, <2>2, TurnStep DEF Local, RolloutInvariant, TypeOK
<1> QED
  BY <1>1, <1>2 DEF Begin

\* The node in progress, or else the first that is left, becomes the current one.
LEMMA NextIsUndone ==
  ASSUME RolloutInvariant, ~(At = 0 /\ Remaining = {})
  PROVE  NextTarget \in Targets \ record.done
<1>1. CASE At # 0
  BY <1>1 DEF NextTarget, RolloutInvariant, TypeOK, Records, At, Targets
<1>2. CASE At = 0
  <2>1. Remaining \in SUBSET Nat /\ Remaining # {}
    BY <1>2, RolloutAssumption DEF Remaining, Undone, Targets
  <2>2. Min(Remaining) \in Remaining
    BY <2>1, MinIn
  <2> QED
    BY <1>2, <2>2 DEF NextTarget, Remaining, Undone
<1> QED
  BY <1>1, <1>2

LEMMA ChooseStep == RolloutInvariant /\ Choose => RolloutInvariant'
<1> SUFFICES ASSUME RolloutInvariant, Choose PROVE RolloutInvariant'
  OBVIOUS
<1>1. CASE At = 0 /\ Remaining = {}
  <2>1. pc = "choosing" /\ pc' = "closing" /\ UNCHANGED <<record, Hosts, faults>>
    BY <1>1 DEF Choose, Goes, Local
  <2>2. SessionOrder'
    BY <1>1, <2>1 DEF RolloutInvariant, SessionOrder, Paused, At, Undone, Remaining
  <2>3. WhileClean'
    BY <2>1, CleanTurn DEF Hosts, Clean
  <2> QED
    BY <2>1, <2>2, <2>3, TurnStep DEF Steps, RolloutInvariant, TypeOK
<1>2. CASE ~(At = 0 /\ Remaining = {})
  <2> DEFINE r == [record EXCEPT !.current = NextTarget]
             p == IF PausesMining(NextTarget) THEN "pausing" ELSE "calling"
  <2>1. pc = "choosing" /\ Save(r, p) /\ p \in Steps
    BY <1>2 DEF Choose, Steps
  <2>2. NextTarget \in Targets \ record.done
    BY <1>2, NextIsUndone
  <2>3. /\ r \in Records /\ r.phase = "open"
        /\ r.current = NextTarget /\ r.done = record.done
    <3>1. record \in Records /\ record.phase = "open" /\ NextTarget \in 0..N
      BY <2>1, <2>2 DEF RolloutInvariant, TypeOK, SessionOrder, Targets
    <3> QED
      BY <3>1, Zenon DEF Records
  <2>4. At # 0 => NextTarget = At
    BY DEF NextTarget
  <2>5. p # "pausing" => p = "calling" /\ NextTarget \notin Validators
    BY DEF PausesMining
  <2>6. p = "pausing" => NextTarget \in Validators
    BY DEF PausesMining
  <2> HIDE DEF r, p
  <2>7. record' = r /\ pc' = p => SessionOrder'
    BY <2>2, <2>3, <2>5, <2>6, MinerApart DEF SessionOrder, Paused, At
  <2>8. \A t \in Targets : t = At => t = NextTarget
    BY <2>4, MinerApart
  <2> QED
    BY <2>1, <2>2, <2>3, <2>5, <2>7, <2>8, HostsAgree, SaveStep
<1> QED
  BY <1>1, <1>2

\* The node is completed only when the whole fleet serves.
LEMMA CheckedStep == RolloutInvariant /\ Checked => RolloutInvariant'
<1> SUFFICES ASSUME RolloutInvariant, Checked PROVE RolloutInvariant'
  OBVIOUS
<1>1. /\ pc = "checking" /\ At \in Targets
      /\ step[At] = "done" /\ record.phase = "open"
  BY DEF Checked, RolloutInvariant, SessionOrder, TypeOK, Records, At, Targets
<1>2. CASE Gate /\ Save([record EXCEPT !.done = @ \cup {At}, !.current = 0],
                        "choosing")
  <2> DEFINE r == [record EXCEPT !.done = @ \cup {At}, !.current = 0]
  <2>1. /\ r.phase = record.phase /\ r.current = 0
        /\ r.done = record.done \cup {At}
    BY Zenon DEF RolloutInvariant, TypeOK, Records
  <2>2. r \in Records
    <3>1. /\ record \in Records /\ record.done \cup {At} \in SUBSET Targets
          /\ 0 \in 0..N
      BY <1>1, RolloutAssumption DEF RolloutInvariant, TypeOK, Records
    <3> QED
      BY <3>1, Zenon DEF Records
  <2>3. Save(r, "choosing") /\ "choosing" \in Steps
    BY <1>2 DEF Steps
  <2> HIDE DEF r
  <2>4. record' = r /\ pc' = "choosing" => SessionOrder'
    BY <1>1, <2>1 DEF SessionOrder, Paused
  <2>5. /\ proc[At] = "idle" /\ image[At] = "new" /\ ~Out(At)
        /\ \A t \in Targets : proc[t] = "idle"
    BY <1>1, <1>2 DEF Gate, Healthy, Out, Expected
  <2>6. 0 \notin r.done
    BY <1>1, <2>1, MinerApart DEF RolloutInvariant, TypeOK, Records
  <2> QED
    BY <1>1, <2>1, <2>2, <2>3, <2>4, <2>5, <2>6, HostsAgree, SaveStep
<1>3. CASE Goes("idle") /\ Local
  <2>1. pc' = "idle" /\ UNCHANGED <<record, Hosts, faults>>
    BY <1>3 DEF Goes, Local
  <2>2. SessionOrder' /\ pc' \in Steps
    BY <2>1 DEF SessionOrder, Paused, Steps
  <2>3. WhileClean'
    BY <1>1, <2>1, CleanTurn DEF Hosts, Clean
  <2> QED
    BY <2>1, <2>2, <2>3, TurnStep DEF RolloutInvariant, TypeOK
<1> QED
  BY <1>2, <1>3 DEF Checked

LEMMA CloseStep == RolloutInvariant /\ Close => RolloutInvariant'
<1> SUFFICES ASSUME RolloutInvariant, Close PROVE RolloutInvariant'
  OBVIOUS
<1> DEFINE r == [record EXCEPT !.phase = "complete"]
<1>1. /\ r \in Records /\ r.phase = "complete"
      /\ r.current = At /\ r.done = record.done
  BY DEF RolloutInvariant, TypeOK, Records, At
<1>2. pc = "closing" /\ Save(r, "idle") /\ "idle" \in Steps
  BY DEF Close, Steps
<1> HIDE DEF r
<1>3. r.current = 0 /\ r.done = Targets
  BY <1>1, <1>2 DEF RolloutInvariant, SessionOrder, Undone, TypeOK, Records
<1>4. r.current \notin r.done
  BY <1>3, MinerApart
<1>5. pc' = "idle" => SessionOrder'
  BY DEF SessionOrder, Paused
<1> QED
  BY <1>1, <1>2, <1>3, <1>4, <1>5, HostsAgree, SaveStep

\* The apply of the current node begins or is resumed.
LEMMA CallStep == RolloutInvariant /\ Call => RolloutInvariant'
<1> SUFFICES ASSUME RolloutInvariant, Call PROVE RolloutInvariant'
  OBVIOUS
<1>1. /\ pc = "calling" /\ At \in Targets /\ record.phase = "open"
      /\ UNCHANGED <<record, image, core, svc, linked, height, missed, replaced,
                    faults>>
  BY DEF Call, RolloutInvariant, SessionOrder, TypeOK, Records, At, Targets
<1>2. CASE /\ proc[At] = "idle" /\ pc' = "applying"
           /\ proc' = [proc EXCEPT ![At] = "run"]
           /\ step' = [step EXCEPT ![At] = IF @ = "none" THEN "start" ELSE @]
  <2>1. TypeOK'
    BY <1>1, <1>2 DEF RolloutInvariant, TypeOK, Marks, Steps
  <2>2. \A u \in Targets \ {At} : Stays(u)
    BY <1>1, <1>2 DEF RolloutInvariant, TypeOK, Stays
  <2>3. HostInv(At)'
    BY <1>1, <1>2 DEF RolloutInvariant, TypeOK, HostInv, ReplacedIsNew,
       MarkerOrder, ReplacesOld, WorkIsJournaled, DoneAt, Out, At
  <2>4. \A u \in Targets : HostInv(u)'
    <3>1. ASSUME NEW u \in Targets, u # At PROVE HostInv(u)'
      BY <1>1, <2>2, <3>1, HostUnchanged DEF RolloutInvariant
    <3>2. ASSUME NEW u \in Targets, u = At PROVE HostInv(u)'
      <4> DEFINE a == At
      <4>1. HostInv(a)' /\ u = a /\ a' = a
        BY <1>1, <2>3, <3>2 DEF At
      <4> QED
        BY <4>1
    <3> QED
      BY <3>1, <3>2
  <2>5. SessionOrder'
    BY <1>1, <1>2, MinerApart DEF SessionOrder, Paused, At
  <2>6. WhileClean'
    BY <1>1, <1>2, <2>2 DEF RolloutInvariant, TypeOK, WhileClean, Clean,
       OpenUnderSession, MinerDown, At, Stays
  <2> QED
    BY <2>1, <2>4, <2>5, <2>6 DEF RolloutInvariant
<1>3. CASE pc' = AfterFailure /\ UNCHANGED <<proc, step>>
  <2>1. /\ UNCHANGED <<record, Hosts>>
        /\ pc' \in {"recovering", "idle"}
        /\ pc' = "recovering" => At \in Validators
    BY <1>1, <1>3 DEF Hosts, host, AfterFailure, PausesMining
  <2>2. SessionOrder'
    BY <1>1, <2>1 DEF SessionOrder, Paused, At
  <2>3. WhileClean'
    BY <1>1, <2>1, CleanTurn DEF Hosts, Clean
  <2> QED
    BY <1>1, <2>1, <2>2, <2>3, TurnStep DEF Steps, RolloutInvariant, TypeOK
<1> QED
  BY <1>2, <1>3 DEF Call, Goes

\* What a session does to the miner is nothing to the other hosts, and of the
\* miner's own state only whether it mines.
LEMMA MinerSet ==
  ASSUME RolloutInvariant, NEW v \in {"up", "down"},
         svc' \in {svc, [svc EXCEPT ![Miner] = v]},
         UNCHANGED <<record, proc, step, image, core, linked, height, missed,
                     replaced>>,
         pc' \in Steps, SessionOrder', WhileClean',
         faults' \in [count : 0..MaxFaults, kinds : SUBSET FaultKinds]
  PROVE  RolloutInvariant'
<1>1. TypeOK'
  BY DEF RolloutInvariant, TypeOK
<1>2. ASSUME NEW u \in Targets PROVE HostInv(u)'
  <2>1. Out(u)' <=> Out(u)
    BY <1>2 DEF Out, RolloutInvariant, TypeOK
  <2> QED
    BY <1>2, <2>1 DEF RolloutInvariant, HostInv, ReplacedIsNew, MarkerOrder,
       ReplacesOld, WorkIsJournaled, DoneAt, At
<1> QED
  BY <1>1, <1>2 DEF RolloutInvariant

\* The pause and the start of the miner.
LEMMA MinerStep == RolloutInvariant /\ (MinePause \/ MineStart) => RolloutInvariant'
<1> SUFFICES ASSUME RolloutInvariant, MinePause \/ MineStart
             PROVE  RolloutInvariant'
  OBVIOUS
<1>1. /\ UNCHANGED <<record, proc, step, image, core, linked, height, missed,
                    replaced, faults>>
      /\ \/ /\ pc = "stopping" /\ pc' = "rechecking"
            /\ svc' = [svc EXCEPT ![Miner] = "down"]
         \/ /\ \/ pc = "unpausing" /\ pc' = "pausing"
               \/ pc = "resuming" /\ pc' = "checking"
               \/ pc = "recovering" /\ pc' = "idle"
            /\ svc' = [svc EXCEPT ![Miner] = "up"]
  BY DEF MinePause, MineStart, SetMiner, Turns, Goes, NoFault
<1>2. SessionOrder'
  <2>1. At \in Validators /\ 0 \notin Validators
    BY <1>1, MinerApart DEF RolloutInvariant, SessionOrder, Paused
  <2> QED
    BY <1>1, <2>1 DEF RolloutInvariant, SessionOrder, Paused, At
<1>3. WhileClean'
  <2>1. svc'[Miner] = "down" \/ pc' # "rechecking"
    BY <1>1, MinerApart DEF RolloutInvariant, TypeOK
  <2> QED
    BY <1>1, <2>1 DEF RolloutInvariant, WhileClean, Clean, OpenUnderSession,
       MinerDown, At
<1>4. pc' \in Steps /\ faults' = faults
  BY <1>1 DEF Steps
<1> QED
  BY <1>1, <1>2, <1>3, <1>4, MinerSet DEF RolloutInvariant, TypeOK

\* An answer that is lost, and a session that is killed, end what holds while
\* answers come; the journal and the markers stay.
LEMMA LostStep == RolloutInvariant /\ (Lost \/ Crash) => RolloutInvariant'
<1> SUFFICES ASSUME RolloutInvariant, Lost \/ Crash PROVE RolloutInvariant'
  OBVIOUS
<1>1. /\ UNCHANGED <<record, proc, step, image, core, linked, height, missed,
                    replaced>>
      /\ \/ svc' = svc
         \/ svc' = [svc EXCEPT ![Miner] = "down"]
         \/ svc' = [svc EXCEPT ![Miner] = "up"]
      /\ Fault("lost") \/ Fault("crash")
      /\ \/ pc' = "idle"
         \/ pc = "rechecking" /\ pc' = "unpausing"
         \/ pc # "idle" /\ pc' = "recovering" /\ At \in Validators
  BY DEF Lost, Crash, Goes, Hosts, host, AfterFailure, PausesMining
<1>2. /\ faults' \in [count : 0..MaxFaults, kinds : SUBSET FaultKinds]
      /\ WhileClean'
  BY <1>1, FaultCounted DEF RolloutInvariant, WhileClean, Clean
<1>3. pc' \in Steps /\ SessionOrder'
  BY <1>1 DEF RolloutInvariant, SessionOrder, Paused, At, Steps
<1> QED
  BY <1>1, <1>2, <1>3, MinerSet

-----------------------------------------------------------------------------
(* The theorems.                                                           *)

LEMMA RolloutInit == Init => RolloutInvariant
<1> SUFFICES ASSUME Init PROVE RolloutInvariant
  OBVIOUS
<1>1. TypeOK
  BY RolloutAssumption DEF Init, TypeOK, Records, Steps, Marks
<1>2. ASSUME NEW t \in Targets PROVE HostInv(t)
  BY <1>2 DEF Init, HostInv, ReplacedIsNew, MarkerOrder, ReplacesOld,
     WorkIsJournaled, DoneAt, Out
<1>3. SessionOrder /\ WhileClean
  BY DEF Init, SessionOrder, Paused, WhileClean, OpenUnderSession, MinerDown
<1> QED
  BY <1>1, <1>2, <1>3 DEF RolloutInvariant

\* Every step of every actor keeps the invariant.
LEMMA RolloutStep == RolloutInvariant /\ [Next]_vars => RolloutInvariant'
<1> SUFFICES ASSUME RolloutInvariant, [Next]_vars PROVE RolloutInvariant'
  OBVIOUS
<1>1. CASE Block \/ Lost \/ Crash
  BY <1>1, BlockStep, LostStep
<1>2. CASE Session
  BY <1>2, BeginStep, LocalStep, ChooseStep, MinerStep, CallStep, CheckedStep,
     CloseStep
  DEF Session
<1>3. ASSUME NEW t \in Targets, HostStep(t) \/ Breaks(t) PROVE RolloutInvariant'
  BY <1>3, WorkStep, CatchUpStep, BreakStep DEF HostStep, Works
<1>4. CASE UNCHANGED vars
  <2>1. UNCHANGED <<record, Hosts, pc, faults>> /\ SessionOrder' /\ WhileClean'
    BY <1>4 DEF vars, Hosts, host, RolloutInvariant, SessionOrder, Undone, At,
       WhileClean, Clean, OpenUnderSession, MinerDown
  <2> QED
    BY <2>1, TurnStep DEF RolloutInvariant, TypeOK
<1> QED
  BY <1>1, <1>2, <1>3, <1>4 DEF Next

\* What the journal, the markers and the nodes agree on at every point of a
\* rollout, whatever was lost, killed or broken off.
THEOREM RolloutInvariance == Spec => []RolloutInvariant
<1>1. Init => RolloutInvariant
  BY RolloutInit
<1>2. RolloutInvariant /\ [Next]_vars => RolloutInvariant'
  BY RolloutStep
<1> QED
  BY <1>1, <1>2, PTL DEF Spec

\* The types, the node in progress is not a completed one, and a journal that is
\* complete has completed every node: what validateUpgrade asks of a record.
THEOREM RolloutTypes == Spec => []TypeOK
<1>1. RolloutInvariant => TypeOK
  BY DEF RolloutInvariant
<1> QED
  BY <1>1, RolloutInvariance, PTL

\* Upgrade and execute_core: one node is out at a time, named in the journal,
\* its Core replaced once, and back in service once it is completed.
THEOREM OneWithdrawalAtATime == Spec => []OneJournaledWithdrawal
<1>1. RolloutInvariant => OneJournaledWithdrawal
  <2> SUFFICES ASSUME RolloutInvariant PROVE OneJournaledWithdrawal
    OBVIOUS
  <2>1. ASSUME NEW t \in Targets
        PROVE  /\ Out(t) => t = At
               /\ Out(t) \/ image[t] = "new" => t \in record.done \cup {At}
               /\ replaced[t] <= 1
    BY DEF RolloutInvariant, HostInv, ReplacedIsNew, MarkerOrder,
       WorkIsJournaled, DoneAt
  <2>2. OneOut /\ OutIsJournaled /\ ReplacedOnce
    BY <2>1 DEF OneOut, OutIsJournaled, ReplacedOnce, At
  <2>3. DoneServes
    BY DEF DoneServes, RolloutInvariant, HostInv, DoneAt, TypeOK, Records
  <2> QED
    BY <2>2, <2>3 DEF OneJournaledWithdrawal
<1> QED
  BY <1>1, RolloutInvariance, PTL

\* pauseMiningQuietly: while answers come and nothing is killed, no DKG session
\* starts without a validator.
THEOREM SessionsAreWhole == Spec => []NoSessionWhileAway
<1>1. RolloutInvariant => NoSessionWhileAway
  BY DEF RolloutInvariant, WhileClean, Clean, NoSessionWhileAway
<1> QED
  BY <1>1, RolloutInvariance, PTL
=============================================================================
