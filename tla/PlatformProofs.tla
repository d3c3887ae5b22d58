--------------------------- MODULE PlatformProofs ---------------------------
(***************************************************************************)
(* Proofs about a Platform rollout, for any number of validators, releases *)
(* and faults: Drive never goes away under a running Tenderdash, and at    *)
(* most one validator is out, named by the journal, and changed once.      *)
(***************************************************************************)
EXTENDS Platform, WellFoundedInduction, TLAPS

-----------------------------------------------------------------------------
(* The inductive invariant.                                                *)

Draining  == {"stop", "stopping", "stopped", "request", "again"}
Applies   == {"up"} \cup Draining
ProcSteps == {"idle", "failed", "final"} \cup Applies

\* What the plan and the host processes are; the count of faults is left open.
ProcOK ==
  /\ plan.release \in Releases /\ plan.count \in [Validators -> Nat]
  /\ proc \in [Validators -> ProcSteps]

\* A container is new when it was recreated, once, and only in the release.
RecreatedIsNew(t) ==
  \A s \in Services :
    /\ cont[t][s].id = IF cont[t][s].new THEN 1 ELSE 0
    /\ cont[t][s].new => s \in Changed /\ cont[t][s].there

\* Before its apply a host is as it was; from then on the marker selects what
\* the release changes.
MarkerSelects(t) ==
  IF marker[t].phase = "none"
  THEN \A s \in Services : cont[t][s].there /\ cont[t][s].up /\ ~cont[t][s].new
  ELSE marker[t].changes = Changed

\* What is not selected stays, but for a Tenderdash that is drained.
UnselectedStay(t) ==
  \A s \in Services \ Changed :
    /\ cont[t][s].there
    /\ cont[t][s].up \/ (s = "tenderdash" /\ "drive" \in Changed)

\* Where the drain has got to: Tenderdash is down until the new Drive runs.
DrainOrder(t) ==
  /\ proc[t] \in Draining => "drive" \in Changed
  /\ "drive" \in Changed =>
       /\ proc[t] = "stopped" => ~cont[t]["tenderdash"].up
       /\ proc[t] = "up" =>
            Converged(t, "drive") \/ ~cont[t]["tenderdash"].up
       /\ proc[t] \in {"request", "again"} => Converged(t, "drive")
       /\ marker[t].phase # "none" /\ marker[t].dep \in Returning =>
            Converged(t, "drive")

\* An apply that was recorded has converged every selected service.
AppliedConverged(t) ==
  marker[t].phase = "applied" => \A s \in Changed : Converged(t, s)

\* Only the current node is at work, on a marker that is not yet "applied".
WorkIsCurrent(t) ==
  /\ ~Free(t) => t = Current /\ marker[t].phase # "none"
  /\ proc[t] \in Applies => marker[t].phase = "applying"

\* The three properties, of one host.
DrainedAt(t) == Away(t, "drive") => Away(t, "tenderdash")
OutAt(t) ==
  /\ marker[t].phase # "none" => Reached(t)
  /\ (\E s \in Services : Away(t, s)) => t = Current
DoneAt(t) == t \in record.done => \A s \in Changed : Converged(t, s)

HostInv(t) ==
  /\ RecreatedIsNew(t) /\ MarkerSelects(t) /\ UnselectedStay(t)
  /\ DrainOrder(t) /\ AppliedConverged(t) /\ WorkIsCurrent(t)
  /\ DrainedAt(t) /\ OutAt(t) /\ DoneAt(t)

\* A session counts a node as completed only after its apply was.
SessionOrder ==
  /\ pc # "idle" => record.phase = "open"
  /\ pc \in {"calling", "applying", "checking"} => Current # 0
  /\ pc \in {"applying", "checking"} /\ proc[Current] = "idle" =>
       marker[Current].phase = "applied"
  /\ pc = "checking" => proc[Current] = "idle"
  /\ pc = "closing" => Undone = {}

PlatformInvariant ==
  /\ TypeOK /\ ProcOK
  /\ \A t \in Validators : HostInv(t)
  /\ SessionOrder

\* The marker an apply keeps on its host.
Markers == [phase : {"none", "applying", "applied"}, changes : SUBSET Services,
            dep : {"none", "started"} \cup Leaving]

-----------------------------------------------------------------------------
(* Lemmas: what a step leaves as it was, and what one host may change.     *)

\* The next validator is one that is left.
LEMMA MinIn ==
  ASSUME NEW S \in SUBSET Nat, S # {}
  PROVE  Min(S) \in S
<1> DEFINE Less == {p \in Nat \X Nat : p[1] < p[2]}
<1>1. IsWellFoundedOn(Less, Nat)
  BY NatLessThanWellFounded, Zenon DEF OpToRel
<1>2. PICK x \in S : \A y \in S : ~(<<y, x>> \in Less)
  BY <1>1, WFMin, Zenon
<1>3. ASSUME NEW y \in S PROVE x <= y
  <2>1. x \in Nat /\ y \in Nat /\ ~(<<y, x>> \in Less)
    BY <1>2, <1>3
  <2> QED
    BY <2>1, SMT
<1> QED
  BY <1>2, <1>3 DEF Min

\* A release changes services of the host.
LEMMA ReleaseChanges ==
  ASSUME ProcOK
  PROVE  /\ Changed \subseteq Services
         /\ Images \subseteq Changed
  BY PlatformAssumption DEF ProcOK, Changed, Images

\* A host whose state a step leaves, and its record too, keeps its invariant.
LEMMA HostUnchanged ==
  ASSUME NEW t \in Validators, HostInv(t),
         cont'[t] = cont[t], marker'[t] = marker[t], proc'[t] = proc[t],
         plan' = plan, record' = record
  PROVE  HostInv(t)'
  BY DEF HostInv, RecreatedIsNew, MarkerSelects, UnselectedStay, DrainOrder,
         AppliedConverged, WorkIsCurrent, DrainedAt, OutAt, DoneAt, Converged,
         Free, Away, Changed, Current, Reached

\* A step of the apply on one host: only what that host makes of it is left to
\* show.
LEMMA HostStepKeeps ==
  ASSUME PlatformInvariant, NEW t \in Validators, ~Free(t),
         NEW h \in [Services -> Container], NEW m \in Markers,
         NEW p \in ProcSteps,
         cont' = [cont EXCEPT ![t] = h],
         marker' = [marker EXCEPT ![t] = m],
         proc' = [proc EXCEPT ![t] = p],
         UNCHANGED <<plan, record, pc>>,
         p = "idle" => m.phase = "applied",
         HostInv(t)'
  PROVE  PlatformInvariant'
<1>1. TypeOK'
  BY DEF PlatformInvariant, TypeOK, Markers
<1>2. ProcOK'
  BY DEF PlatformInvariant, ProcOK
<1>3. \A u \in Validators : HostInv(u)'
  <2> SUFFICES ASSUME NEW u \in Validators, u # t PROVE HostInv(u)'
    OBVIOUS
  <2>1. /\ cont'[u] = cont[u] /\ marker'[u] = marker[u] /\ proc'[u] = proc[u]
        /\ plan' = plan /\ record' = record /\ HostInv(u)
    BY DEF PlatformInvariant, TypeOK, ProcOK
  <2> QED
    BY <2>1, HostUnchanged
<1>4. SessionOrder'
  <2>1. t = Current /\ proc[t] # "idle"
    BY DEF PlatformInvariant, HostInv, WorkIsCurrent, Free
  <2>2. proc'[t] = p /\ marker'[t] = m /\ Current' = Current
    BY DEF PlatformInvariant, TypeOK, ProcOK, Current
  <2> QED
    BY <2>1, <2>2 DEF PlatformInvariant, SessionOrder, Undone
<1> QED
  BY <1>1, <1>2, <1>3, <1>4 DEF PlatformInvariant

\* An apply at work is the current node's, on the marker of this release.
LEMMA AtWork ==
  ASSUME PlatformInvariant, NEW t \in Validators, ~Free(t)
  PROVE  /\ t = Current /\ t \notin record.done
         /\ marker[t].phase # "none" /\ Selected(t) = Changed
         /\ proc[t] \in Applies \cup {"final"}
         /\ cont[t] \in [Services -> Container] /\ marker[t] \in Markers
         /\ Changed \subseteq Services
  BY ReleaseChanges DEF PlatformInvariant, TypeOK, ProcOK, HostInv,
     WorkIsCurrent, MarkerSelects, Selected, Free, ProcSteps, Markers, Current

-----------------------------------------------------------------------------
(* The steps of an apply.                                                  *)

\* A step that only moves the apply along, and sets the dependency it is at.
LEMMA MarkStep ==
  ASSUME PlatformInvariant, NEW t \in Validators, ~Free(t),
         NEW d \in {"none", "started"} \cup Leaving, NEW p \in Applies \cup {"final"},
         SetDep(t, d), Goes(t, p), UNCHANGED <<plan, record, pc, cont>>,
         p \in Applies => proc[t] \in Applies,
         p \in Draining => "drive" \in Changed,
         p = "stopped" => ~cont[t]["tenderdash"].up,
         p = "up" => ~cont[t]["tenderdash"].up,
         p \in {"request", "again"} \/ d \in Returning =>
           Converged(t, "drive")
  PROVE  PlatformInvariant'
<1> DEFINE m == [marker[t] EXCEPT !.dep = d]
<1>1. m \in Markers /\ m.phase = marker[t].phase /\ m.changes = marker[t].changes
      /\ m.dep = d
  BY AtWork DEF Markers
<1>2. marker' = [marker EXCEPT ![t] = m] /\ marker'[t] = m
  BY <1>1 DEF SetDep, PlatformInvariant, TypeOK
<1>3. cont' = [cont EXCEPT ![t] = cont[t]] /\ cont'[t] = cont[t]
  BY DEF PlatformInvariant, TypeOK
<1>4. p \in ProcSteps /\ p # "idle" /\ proc'[t] = p
  BY DEF ProcSteps, Applies, Draining, Goes, PlatformInvariant, ProcOK
<1>5. HostInv(t)'
  <2>1. HostInv(t) /\ t = Current
    BY AtWork DEF PlatformInvariant
  <2> HIDE DEF m
  <2> QED
    BY <1>1, <1>2, <1>3, <1>4, <2>1, AtWork
    DEF HostInv, RecreatedIsNew, MarkerSelects, UnselectedStay, DrainOrder,
        AppliedConverged, WorkIsCurrent, DrainedAt, OutAt, DoneAt, Converged,
        Free, Away, Changed, Current, Reached, Draining, Applies
<1> QED
  BY <1>1, <1>2, <1>3, <1>4, <1>5, AtWork, HostStepKeeps DEF Goes

\* What becomes of the containers when one of a host is replaced by c.
LEMMA OneContainer ==
  ASSUME PlatformInvariant, NEW t \in Validators, NEW s \in Services,
         NEW c \in Container, cont' = [cont EXCEPT ![t][s] = c]
  PROVE  /\ cont'[t][s] = c
         /\ \A x \in Services \ {s} : cont'[t][x] = cont[t][x]
  BY DEF PlatformInvariant, TypeOK

\* A step of Compose on one container of the working host.
LEMMA ContainerStep ==
  ASSUME PlatformInvariant, NEW t \in Validators, ~Free(t), NEW s \in Services,
         NEW c \in Container, cont' = [cont EXCEPT ![t][s] = c],
         UNCHANGED <<plan, record, pc, marker, proc>>,
         HostInv(t)'
  PROVE  PlatformInvariant'
<1> DEFINE h == [cont[t] EXCEPT ![s] = c]
<1>1. cont' = [cont EXCEPT ![t] = h] /\ h \in [Services -> Container]
  BY DEF PlatformInvariant, TypeOK
<1>2. /\ marker' = [marker EXCEPT ![t] = marker[t]] /\ marker[t] \in Markers
      /\ proc' = [proc EXCEPT ![t] = proc[t]] /\ proc[t] \in ProcSteps
      /\ proc[t] # "idle"
  BY DEF PlatformInvariant, TypeOK, ProcOK, Markers, Free
<1> HIDE DEF h
<1> QED
  BY <1>1, <1>2, HostStepKeeps

\* Compose converges what the marker selects, and Tenderdash, when Drive is too,
\* only once the new Drive runs.
LEMMA ComposesChanged ==
  ASSUME PlatformInvariant, NEW t \in Validators, ~Free(t), NEW s \in Group(t)
  PROVE  /\ s \in Changed /\ proc[t] \in {"up", "again"}
         /\ "drive" \in Changed /\ s = "tenderdash" => proc[t] = "again"
         /\ HostInv(t) /\ t = Current /\ marker[t].phase = "applying"
         /\ s = "drive" /\ ~Converged(t, s) => ~cont[t]["tenderdash"].up
<1>1. s \in Changed /\ proc[t] \in {"up", "again"}
      /\ ("drive" \in Changed /\ s = "tenderdash" => proc[t] = "again")
  BY AtWork, Zenon DEF Group, Immediate, Drains, At
<1>2. HostInv(t) /\ t = Current /\ marker[t].phase = "applying"
  BY <1>1, AtWork DEF PlatformInvariant, HostInv, WorkIsCurrent, Applies, Draining
<1> QED
  BY <1>1, <1>2 DEF HostInv, DrainOrder

\* A container of the group moved on by Compose: what is left to show is what it
\* makes of that container.
LEMMA ComposeStep ==
  ASSUME PlatformInvariant, NEW t \in Validators, ~Free(t), NEW s \in Group(t),
         NEW c \in Container, cont' = [cont EXCEPT ![t][s] = c],
         UNCHANGED <<plan, record, pc, marker, proc>>,
         ~Converged(t, s),
         c.id = IF c.new THEN 1 ELSE 0,
         c.new => c.there,
         s = "drive" => ~cont[t]["tenderdash"].up,
         c.up => c.there
  PROVE  PlatformInvariant'
<1>1. s \in Services /\ s \in Changed
  BY ComposesChanged, AtWork
<1>2. /\ cont'[t][s] = c
      /\ \A x \in Services \ {s} : cont'[t][x] = cont[t][x]
  BY <1>1, OneContainer
<1>3. HostInv(t)'
  BY <1>1, <1>2, ComposesChanged, AtWork
  DEF HostInv, RecreatedIsNew, MarkerSelects, UnselectedStay, DrainOrder,
      AppliedConverged, WorkIsCurrent, DrainedAt, OutAt, DoneAt, Converged,
      Free, Away, Changed, Current, Reached, Draining, Applies, Services
<1> QED
  BY <1>1, <1>3, ContainerStep

\* Compose takes a service away: Drive only after Tenderdash has stopped.
LEMMA RemoveStep ==
  ASSUME PlatformInvariant, NEW t \in Validators, ~Free(t), NEW s \in Services,
         Remove(t, s)
  PROVE  PlatformInvariant'
<1> DEFINE c == [cont[t][s] EXCEPT !.there = FALSE, !.up = FALSE]
<1>1. cont[t][s] \in Container
  BY DEF PlatformInvariant, TypeOK
<1>2. /\ c \in Container /\ ~c.there /\ ~c.up
      /\ c.new = cont[t][s].new /\ c.id = cont[t][s].id
  BY <1>1, Zenon DEF Container
<1>3. cont' = [cont EXCEPT ![t][s] = c]
  BY Zenon DEF Remove
<1> HIDE DEF c
<1>4. /\ s \in Group(t) /\ ~cont[t][s].new /\ ~Converged(t, s)
      /\ UNCHANGED <<plan, record, pc, marker, proc>>
  BY DEF Remove, HostStep, Converged
<1>5. ~c.new /\ c.id = 0 /\ (s = "drive" => ~cont[t]["tenderdash"].up)
  BY <1>2, <1>4, ComposesChanged DEF HostInv, RecreatedIsNew
<1> QED
  BY <1>2, <1>3, <1>4, <1>5, ComposeStep

\* Compose creates it anew, which it does once.
LEMMA CreateStep ==
  ASSUME PlatformInvariant, NEW t \in Validators, ~Free(t), NEW s \in Services,
         Create(t, s)
  PROVE  PlatformInvariant'
<1> DEFINE c == [there |-> TRUE, up |-> FALSE, new |-> TRUE,
                 id |-> cont[t][s].id + 1, restarts |-> 0]
<1>1. /\ s \in Group(t) /\ ~cont[t][s].there /\ ~Converged(t, s)
      /\ UNCHANGED <<plan, record, pc, marker, proc>>
  BY DEF Create, HostStep, Converged
<1>2. ~cont[t][s].new /\ cont[t][s].id = 0
      /\ (s = "drive" => ~cont[t]["tenderdash"].up)
  BY <1>1, ComposesChanged DEF HostInv, RecreatedIsNew
<1>3. c \in Container /\ c.id = 1 /\ c.new /\ c.there /\ ~c.up
  BY <1>2 DEF Container
<1>4. cont' = [cont EXCEPT ![t][s] = c]
  BY Zenon DEF Create
<1> HIDE DEF c
<1> QED
  BY <1>1, <1>2, <1>3, <1>4, ComposeStep

\* Compose starts it.
LEMMA StartStep ==
  ASSUME PlatformInvariant, NEW t \in Validators, ~Free(t), NEW s \in Services,
         Start(t, s)
  PROVE  PlatformInvariant'
<1> DEFINE c == [cont[t][s] EXCEPT !.up = TRUE]
<1>1. cont[t][s] \in Container
  BY DEF PlatformInvariant, TypeOK
<1>2. /\ c \in Container /\ c.up /\ c.there = cont[t][s].there
      /\ c.new = cont[t][s].new /\ c.id = cont[t][s].id
  BY <1>1, Zenon DEF Container
<1>3. cont' = [cont EXCEPT ![t][s] = c]
  BY Zenon DEF Start
<1> HIDE DEF c
<1>4. /\ s \in Group(t) /\ cont[t][s].there /\ cont[t][s].new
      /\ ~Converged(t, s)
      /\ UNCHANGED <<plan, record, pc, marker, proc>>
  BY DEF Start, HostStep, Converged
<1>5. c.there /\ c.new /\ c.id = 1 /\ (s = "drive" => ~cont[t]["tenderdash"].up)
  BY <1>2, <1>4, ComposesChanged DEF HostInv, RecreatedIsNew
<1> QED
  BY <1>2, <1>3, <1>4, <1>5, ComposeStep

\* docker start of a Tenderdash that only the drain had stopped.
LEMMA StartTenderdashStep ==
  ASSUME PlatformInvariant, NEW t \in Validators, StartTenderdash(t)
  PROVE  PlatformInvariant'
<1> DEFINE c == [cont[t]["tenderdash"] EXCEPT !.up = TRUE, !.restarts = 0]
<1>1. cont[t]["tenderdash"] \in Container /\ "tenderdash" \in Services
  BY DEF PlatformInvariant, TypeOK, Services
<1>2. /\ c \in Container /\ c.up /\ c.there = cont[t]["tenderdash"].there
      /\ c.new = cont[t]["tenderdash"].new /\ c.id = cont[t]["tenderdash"].id
  BY <1>1, Zenon DEF Container
<1>3. cont' = [cont EXCEPT ![t]["tenderdash"] = c]
  BY Zenon DEF StartTenderdash
<1> HIDE DEF c
<1>4. /\ proc[t] = "again" /\ "tenderdash" \notin Selected(t)
      /\ UNCHANGED <<plan, record, pc, marker, proc>> /\ ~Free(t)
  BY DEF StartTenderdash, HostStep, At, Free
<1>5. "tenderdash" \notin Changed /\ HostInv(t) /\ t = Current
      /\ marker[t].phase = "applying"
  BY <1>4, AtWork DEF PlatformInvariant, HostInv, WorkIsCurrent, Applies, Draining
<1>6. /\ cont'[t]["tenderdash"] = c
      /\ \A x \in Services \ {"tenderdash"} : cont'[t][x] = cont[t][x]
  BY <1>1, <1>2, <1>3, OneContainer
<1>7. HostInv(t)'
  <2>1. /\ HostInv(t) /\ Changed' = Changed /\ Current' = Current
        /\ Reached(t)' = Reached(t) /\ UNCHANGED <<record, marker>>
    BY <1>1, <1>2, <1>4, <1>5, <1>6 DEF Changed, Current, Reached
  <2>2. RecreatedIsNew(t)' /\ MarkerSelects(t)' /\ UnselectedStay(t)'
    BY <1>1, <1>2, <1>4, <1>5, <1>6, <2>1 DEF HostInv, RecreatedIsNew, MarkerSelects, UnselectedStay, Services
  <2>3. \A x \in Services \ {"tenderdash"} :
          Converged(t, x)' = Converged(t, x) /\ Away(t, x)' = Away(t, x)
    BY <1>1, <1>2, <1>4, <1>5, <1>6 DEF Converged, Away
  <2>4. AppliedConverged(t)' /\ DoneAt(t)'
    BY <1>4, <1>5, <2>1, AtWork DEF AppliedConverged, DoneAt
  <2>5. WorkIsCurrent(t)'
    BY <1>4, <2>1 DEF HostInv, WorkIsCurrent, Free
  <2>6. DrainOrder(t)'
    BY <1>4, <2>1, <2>3 DEF HostInv, DrainOrder, Draining, Services
  <2>7. OutAt(t)'
    BY <1>5, <2>1 DEF HostInv, OutAt
  <2>8. DrainedAt(t)'
    <3>1. "drive" \in Changed /\ Converged(t, "drive")
      BY <1>4, <2>1 DEF HostInv, DrainOrder, Draining
    <3>2. ~Away(t, "drive") /\ "drive" \in Services \ {"tenderdash"}
      BY <3>1 DEF Converged, Away, Services
    <3> QED
      BY <2>3, <3>2 DEF DrainedAt
  <2> QED
    BY <2>2, <2>4, <2>5, <2>6, <2>7, <2>8 DEF HostInv
<1> QED
  BY <1>1, <1>2, <1>3, <1>4, <1>7, ContainerStep

\* The drain: Tenderdash is stopped under the marker that says so.
LEMMA StopTenderdashStep ==
  ASSUME PlatformInvariant, NEW t \in Validators, StopTenderdash(t)
  PROVE  PlatformInvariant'
<1> DEFINE c == [cont[t]["tenderdash"] EXCEPT !.up = FALSE]
           h == [cont[t] EXCEPT !["tenderdash"] = c]
<1>1. cont[t]["tenderdash"] \in Container /\ "tenderdash" \in Services
  BY DEF PlatformInvariant, TypeOK, Services
<1>2. /\ c \in Container /\ ~c.up /\ c.there = cont[t]["tenderdash"].there
      /\ c.new = cont[t]["tenderdash"].new /\ c.id = cont[t]["tenderdash"].id
  BY <1>1, Zenon DEF Container
<1>3. cont' = [cont EXCEPT ![t]["tenderdash"] = c]
  BY Zenon DEF StopTenderdash
<1> HIDE DEF c
<1>4. /\ cont' = [cont EXCEPT ![t] = h] /\ h \in [Services -> Container]
      /\ cont'[t]["tenderdash"] = c
      /\ \A x \in Services \ {"tenderdash"} : cont'[t][x] = cont[t][x]
  BY <1>1, <1>2, <1>3 DEF PlatformInvariant, TypeOK
<1> HIDE DEF h
<1>5. /\ proc[t] = "stopping" /\ proc' = [proc EXCEPT ![t] = "stopped"]
      /\ UNCHANGED <<plan, record, pc, marker>> /\ ~Free(t)
      /\ "stopped" \in ProcSteps
  BY DEF StopTenderdash, HostStep, At, Goes, Free, ProcSteps, Applies, Draining
<1>6. "drive" \in Changed /\ HostInv(t) /\ t = Current
      /\ marker[t].phase = "applying"
  BY <1>5, AtWork DEF PlatformInvariant, HostInv, WorkIsCurrent, DrainOrder,
     Applies, Draining
<1>7. marker' = [marker EXCEPT ![t] = marker[t]] /\ proc'[t] = "stopped"
  BY <1>5 DEF PlatformInvariant, TypeOK, ProcOK
<1>8. HostInv(t)'
  <2>1. /\ HostInv(t) /\ Changed' = Changed /\ Current' = Current
        /\ Reached(t)' = Reached(t) /\ UNCHANGED <<record, marker>>
    BY <1>1, <1>2, <1>4, <1>5, <1>6 DEF Changed, Current, Reached
  <2>2. RecreatedIsNew(t)' /\ MarkerSelects(t)' /\ UnselectedStay(t)'
    BY <1>1, <1>2, <1>4, <1>5, <1>6, <2>1 DEF HostInv, RecreatedIsNew, MarkerSelects, UnselectedStay, Services
  <2>3. \A x \in Services \ {"tenderdash"} :
          Converged(t, x)' = Converged(t, x) /\ Away(t, x)' = Away(t, x)
    BY <1>1, <1>2, <1>4, <1>5, <1>6 DEF Converged, Away
  <2>4. AppliedConverged(t)' /\ DoneAt(t)'
    BY <1>5, <1>6, <2>1, AtWork DEF AppliedConverged, DoneAt
  <2>5. WorkIsCurrent(t)'
    BY <1>6, <1>7, <2>1 DEF HostInv, WorkIsCurrent
  <2>6. DrainOrder(t)'
    BY <1>4, <1>5, <1>6, <1>7, <2>1, <2>3, <1>2 DEF HostInv, DrainOrder, Draining, Services
  <2>7. OutAt(t)' /\ DrainedAt(t)'
    BY <1>2, <1>4, <1>6, <2>1, <2>3 DEF HostInv, OutAt, DrainedAt, Away, Services
  <2> QED
    BY <2>2, <2>4, <2>5, <2>6, <2>7 DEF HostInv
<1> QED
  BY <1>4, <1>5, <1>7, <1>8, AtWork, HostStepKeeps

\* The steps that save where the dependency of Tenderdash on Drive has got to.
LEMMA DependencyStep ==
  ASSUME PlatformInvariant, NEW t \in Validators,
         StopRequested(t) \/ Stopped(t) \/ StartRequested(t) \/ Started(t)
  PROVE  PlatformInvariant'
<1>1. ~Free(t)
  BY DEF StopRequested, Stopped, StartRequested, Started, At, Free
<1>2. HostInv(t) /\ DrainOrder(t) /\ Selected(t) = Changed
  BY <1>1, AtWork DEF PlatformInvariant, HostInv
<1>3. CASE StopRequested(t)
  BY <1>1, <1>2, <1>3, MarkStep
  DEF StopRequested, At, HostStep, Applies, Draining, DrainOrder, Leaving, Returning
<1>4. CASE Stopped(t)
  BY <1>1, <1>2, <1>4, MarkStep
  DEF Stopped, At, HostStep, Applies, Draining, DrainOrder, Leaving, Returning
<1>5. CASE StartRequested(t)
  BY <1>1, <1>2, <1>5, MarkStep
  DEF StartRequested, At, HostStep, Applies, Draining, DrainOrder, Leaving, Returning
<1>6. CASE Started(t)
  BY <1>1, <1>2, <1>6, MarkStep
  DEF Started, At, HostStep, Applies, Draining, DrainOrder, Leaving, Returning
<1> QED
  BY <1>3, <1>4, <1>5, <1>6

\* Everything but a drained Tenderdash runs: on to its start, or to the last check.
LEMMA UpStep ==
  ASSUME PlatformInvariant, NEW t \in Validators, Up(t)
  PROVE  PlatformInvariant'
<1> DEFINE p == IF Drains(t) THEN "request" ELSE "final"
<1>1. ~Free(t) /\ Goes(t, p) /\ UNCHANGED <<plan, record, pc, cont, marker>>
      /\ proc[t] = "up"
  BY DEF Up, At, Free, HostStep
<1>2. HostInv(t) /\ Selected(t) = Changed
  BY <1>1, AtWork DEF PlatformInvariant
<1>3. p = IF "drive" \in Changed THEN "request" ELSE "final"
  BY <1>2 DEF Drains
<1>4. "drive" \in Changed => Converged(t, "drive")
  BY <1>2 DEF Up, Immediate, Drains
<1>5. p \in Applies \cup {"final"} /\ p \in ProcSteps /\ p \notin {"idle", "up", "stopped"}
  BY <1>3 DEF Applies, Draining, ProcSteps
<1>6. /\ cont' = [cont EXCEPT ![t] = cont[t]] /\ cont[t] \in [Services -> Container]
      /\ marker' = [marker EXCEPT ![t] = marker[t]] /\ marker[t] \in Markers
      /\ proc' = [proc EXCEPT ![t] = p] /\ proc'[t] = p
  BY <1>1, <1>5, AtWork DEF PlatformInvariant, TypeOK, ProcOK, Goes
<1>7. HostInv(t)'
  BY <1>1, <1>2, <1>3, <1>4, <1>5, <1>6, AtWork
  DEF HostInv, RecreatedIsNew, MarkerSelects, UnselectedStay, DrainOrder,
      AppliedConverged, WorkIsCurrent, DrainedAt, OutAt, DoneAt, Converged,
      Free, Away, Changed, Current, Reached, Draining, Applies
<1> HIDE DEF p
<1> QED
  BY <1>1, <1>5, <1>6, <1>7, HostStepKeeps

\* The last check: "applied" is written over services that all converged.
LEMMA FinalStep ==
  ASSUME PlatformInvariant, NEW t \in Validators, Final(t)
  PROVE  PlatformInvariant'
<1>1. ~Free(t) /\ proc[t] = "final" /\ UNCHANGED <<plan, record, pc, cont>>
      /\ cont' = [cont EXCEPT ![t] = cont[t]]
  BY DEF Final, At, Free, HostStep, PlatformInvariant, TypeOK
<1>2. HostInv(t) /\ t = Current
  BY <1>1, AtWork DEF PlatformInvariant
<1>3. CASE /\ \A s \in Changed : Converged(t, s)
           /\ marker' = [marker EXCEPT ![t].phase = "applied"]
           /\ Goes(t, "idle")
  <2> DEFINE m == [marker[t] EXCEPT !.phase = "applied"]
  <2>1. m \in Markers /\ m.phase = "applied" /\ m.changes = marker[t].changes
        /\ m.dep = marker[t].dep
    BY <1>1, AtWork DEF Markers
  <2>2. marker' = [marker EXCEPT ![t] = m]
    BY <1>3
  <2> HIDE DEF m
  <2>3. marker'[t] = m /\ proc'[t] = "idle" /\ proc' = [proc EXCEPT ![t] = "idle"]
        /\ "idle" \in ProcSteps /\ cont[t] \in [Services -> Container]
    BY <1>3, <2>2 DEF Goes, ProcSteps, PlatformInvariant, TypeOK, ProcOK
  <2>4. HostInv(t)'
    BY <1>1, <1>2, <1>3, <2>1, <2>3, AtWork, SMTT(30)
    DEF HostInv, RecreatedIsNew, MarkerSelects, UnselectedStay, DrainOrder,
        AppliedConverged, WorkIsCurrent, DrainedAt, OutAt, DoneAt, Converged,
        Free, Away, Changed, Current, Reached, Draining, Applies
  <2> QED
    BY <1>1, <2>1, <2>2, <2>3, <2>4, HostStepKeeps
<1>4. CASE Goes(t, "failed") /\ UNCHANGED marker
  <2>1. /\ marker' = [marker EXCEPT ![t] = marker[t]] /\ marker[t] \in Markers
        /\ proc' = [proc EXCEPT ![t] = "failed"] /\ proc'[t] = "failed"
        /\ "failed" \in ProcSteps /\ cont[t] \in [Services -> Container]
    BY <1>1, <1>4, AtWork DEF Goes, ProcSteps, PlatformInvariant, TypeOK, ProcOK
  <2>2. HostInv(t)'
    BY <1>1, <1>2, <1>4, <2>1, AtWork
    DEF HostInv, RecreatedIsNew, MarkerSelects, UnselectedStay, DrainOrder,
        AppliedConverged, WorkIsCurrent, DrainedAt, OutAt, DoneAt, Converged,
        Free, Away, Changed, Current, Reached, Draining, Applies
  <2> QED
    BY <1>1, <2>1, <2>2, HostStepKeeps
<1>5. Changed \subseteq Services
  BY <1>1, AtWork
<1> QED
  BY <1>3, <1>4, <1>5 DEF Final, Converged

\* An apply that is broken off keeps its marker and leaves the host free.
LEMMA BreakStep ==
  ASSUME PlatformInvariant, NEW t \in Validators, Breaks(t)
  PROVE  PlatformInvariant'
<1>1. ~Free(t) /\ Goes(t, "failed") /\ UNCHANGED <<plan, record, pc, cont, marker>>
  BY DEF Breaks
<1>2. HostInv(t)
  BY DEF PlatformInvariant
<1>3. /\ marker' = [marker EXCEPT ![t] = marker[t]] /\ marker[t] \in Markers
      /\ cont' = [cont EXCEPT ![t] = cont[t]] /\ cont[t] \in [Services -> Container]
      /\ proc' = [proc EXCEPT ![t] = "failed"] /\ proc'[t] = "failed"
      /\ "failed" \in ProcSteps
  BY <1>1, AtWork DEF Goes, ProcSteps, PlatformInvariant, TypeOK, ProcOK
<1>4. HostInv(t)'
  BY <1>1, <1>2, <1>3, AtWork
  DEF HostInv, RecreatedIsNew, MarkerSelects, UnselectedStay, DrainOrder,
      AppliedConverged, WorkIsCurrent, DrainedAt, OutAt, DoneAt, Converged,
      Free, Away, Changed, Current, Reached, Draining, Applies
<1> QED
  BY <1>1, <1>3, <1>4, HostStepKeeps

\* Docker restarting a service changes nothing but its count.
LEMMA RestartStep ==
  ASSUME PlatformInvariant, NEW t \in Validators, NEW s \in Services,
         Restarts(t, s)
  PROVE  PlatformInvariant'
<1> DEFINE c == [cont[t][s] EXCEPT !.restarts = @ + 1]
<1>1. cont[t][s] \in Container
  BY DEF PlatformInvariant, TypeOK
<1>2. /\ c \in Container /\ c.up = cont[t][s].up /\ c.there = cont[t][s].there
      /\ c.new = cont[t][s].new /\ c.id = cont[t][s].id
  BY <1>1 DEF Container
<1>3. cont' = [cont EXCEPT ![t][s] = c]
  BY DEF Restarts
<1> HIDE DEF c
<1>4. UNCHANGED <<plan, record, pc, marker, proc>>
  BY DEF Restarts
<1>5. /\ cont'[t][s] = c
      /\ \A x \in Services \ {s} : cont'[t][x] = cont[t][x]
  BY <1>2, <1>3, OneContainer
<1>6. HostInv(t)'
  <2>1. HostInv(t) /\ Changed \subseteq Services
    BY ReleaseChanges DEF PlatformInvariant
  <2> QED
    BY <1>2, <1>4, <1>5, <2>1, SMTT(30)
    DEF HostInv, RecreatedIsNew, MarkerSelects, UnselectedStay, DrainOrder,
        AppliedConverged, WorkIsCurrent, DrainedAt, OutAt, DoneAt, Converged,
        Free, Away, Changed, Current, Reached, Draining, Applies, Services
<1>7. \A u \in Validators : HostInv(u)'
  <2> SUFFICES ASSUME NEW u \in Validators, u # t PROVE HostInv(u)'
    BY <1>6
  <2>1. /\ cont'[u] = cont[u] /\ marker'[u] = marker[u] /\ proc'[u] = proc[u]
        /\ plan' = plan /\ record' = record /\ HostInv(u)
    BY <1>3, <1>4 DEF PlatformInvariant, TypeOK
  <2> QED
    BY <2>1, HostUnchanged
<1>8. TypeOK' /\ ProcOK' /\ SessionOrder'
  BY <1>2, <1>3, <1>4 DEF PlatformInvariant, TypeOK, ProcOK, SessionOrder,
     Current, Undone
<1> QED
  BY <1>7, <1>8 DEF PlatformInvariant

\* The call of a session: a first apply marks everything the release changes,
\* a repeated one resumes from its marker.
LEMMA ApplyStep ==
  ASSUME PlatformInvariant, Current # 0, Free(Current), record.phase = "open",
         Apply(Current), UNCHANGED <<plan, record>>, pc' \in {"applying", "idle"}
  PROVE  PlatformInvariant'
<1>0. PICK t \in Validators : t = Current
  BY DEF PlatformInvariant, TypeOK, Current, Validators
<1> DEFINE first == [phase |-> "applying", changes |-> Differ(t), dep |-> "none"]
           m == IF marker[t].phase = "none" THEN first ELSE marker[t]
           p == IF m.phase = "applied" THEN "final"
                ELSE IF ~Untouched(t, m) THEN "failed"
                ELSE IF "drive" \in m.changes /\ m.dep \notin Returning
                     THEN "stop" ELSE "up"
<1>1. HostInv(t) /\ Free(t)
  BY <1>0 DEF PlatformInvariant
<1>2. /\ marker' = [marker EXCEPT ![t] = m] /\ proc' = [proc EXCEPT ![t] = p]
      /\ UNCHANGED <<cont, plan, record>>
  BY <1>0, Zenon DEF Apply, Goes
<1>3. /\ p \in {"final", "failed", "stop", "up"}
      /\ p \in {"stop", "up"} => m.phase # "applied"
      /\ p = "stop" => "drive" \in m.changes
      /\ p = "up" => "drive" \notin m.changes \/ m.dep \in Returning
  <2> HIDE DEF m
  <2> QED
    OBVIOUS
<1>4. /\ m \in Markers /\ m.phase # "none" /\ m.changes = Changed
      /\ m.phase = "applied" => marker[t].phase = "applied"
      /\ m.dep \in Returning => marker[t] = m
  <2>1. CASE marker[t].phase = "none"
    <3>1. Differ(t) = Changed
      BY <1>1, <2>1, ReleaseChanges
      DEF PlatformInvariant, HostInv, MarkerSelects, Differ
    <3> QED
      BY <2>1, <3>1, ReleaseChanges
      DEF PlatformInvariant, Markers, Returning, Leaving
  <2>2. CASE marker[t].phase # "none"
    BY <1>1, <2>2 DEF PlatformInvariant, TypeOK, HostInv, MarkerSelects, Markers
  <2> QED
    BY <2>1, <2>2
<1> HIDE DEF m, p
<1>5. marker'[t] = m /\ proc'[t] = p
  BY <1>1, <1>2 DEF PlatformInvariant, TypeOK, ProcOK
<1>6. HostInv(t)'
  BY <1>0, <1>1, <1>2, <1>3, <1>4, <1>5
  DEF HostInv, RecreatedIsNew, MarkerSelects, UnselectedStay, DrainOrder,
      AppliedConverged, WorkIsCurrent, DrainedAt, OutAt, DoneAt, Converged,
      Free, Away, Changed, Current, Reached, Draining, Applies, Markers
<1>7. \A u \in Validators : HostInv(u)'
  <2> SUFFICES ASSUME NEW u \in Validators, u # t PROVE HostInv(u)'
    BY <1>6
  <2>1. /\ cont'[u] = cont[u] /\ marker'[u] = marker[u] /\ proc'[u] = proc[u]
        /\ plan' = plan /\ record' = record /\ HostInv(u)
    BY <1>1, <1>2 DEF PlatformInvariant, TypeOK, ProcOK
  <2> QED
    BY <2>1, HostUnchanged
<1>8. TypeOK' /\ ProcOK'
  BY <1>2, <1>3, <1>4 DEF PlatformInvariant, TypeOK, ProcOK, Markers, ProcSteps,
     Applies, Draining
<1>9. SessionOrder'
  BY <1>0, <1>1, <1>2, <1>3, <1>5 DEF SessionOrder, Current
<1> QED
  BY <1>7, <1>8, <1>9 DEF PlatformInvariant

-----------------------------------------------------------------------------
(* The steps of a session.                                                 *)

\* A step of the session alone.
LEMMA TurnStep ==
  ASSUME PlatformInvariant, UNCHANGED <<plan, record, cont, marker, proc>>,
         pc' \in {"idle", "evidence", "staging", "gating", "choosing", "calling",
                  "applying", "checking", "closing"},
         SessionOrder'
  PROVE  PlatformInvariant'
<1>1. TypeOK' /\ ProcOK'
  BY DEF PlatformInvariant, TypeOK, ProcOK
<1>2. \A t \in Validators : HostInv(t)'
  BY HostUnchanged DEF PlatformInvariant
<1> QED
  BY <1>1, <1>2 DEF PlatformInvariant

\* A checkpoint is acknowledged, or has landed, or is lost with the session.
LEMMA SaveStep ==
  ASSUME NEW r, NEW p, Save(r, p), PlatformInvariant
  PROVE  /\ UNCHANGED <<plan, cont, marker, proc>>
         /\ \/ record' = r /\ pc' \in {p, "idle"}
            \/ PlatformInvariant'
<1>1. UNCHANGED <<plan, cont, marker, proc>>
  BY DEF Save, host
<1>2. CASE record' = record /\ pc' = "idle"
  BY <1>1, <1>2, TurnStep DEF SessionOrder
<1> QED
  BY <1>1, <1>2 DEF Save, Turns

\* What a session reads, and when it ends.
LEMMA LocalStep ==
  ASSUME PlatformInvariant, Judge \/ Stage \/ Gated \/ Answer \/ Crash
  PROVE  PlatformInvariant'
<1>1. UNCHANGED <<plan, record, cont, marker, proc>>
  BY DEF Judge, Stage, Gated, Answer, Crash, Local, host
<1>2. CASE pc' = "idle"
  BY <1>1, <1>2, TurnStep DEF SessionOrder
<1>3. CASE Judge /\ pc' = "staging"
  BY <1>1, <1>3, TurnStep DEF SessionOrder, PlatformInvariant, Judge
<1>4. CASE Stage /\ pc' \in {"gating", "choosing"}
  BY <1>1, <1>4, TurnStep DEF SessionOrder, PlatformInvariant, Stage
<1>5. CASE Gated /\ pc' = "choosing"
  BY <1>1, <1>5, TurnStep DEF SessionOrder, PlatformInvariant, Gated
<1>6. CASE Answer /\ pc' = "checking"
  <2>1. proc[Current] = "idle" /\ pc = "applying"
    BY <1>6 DEF Answer, Turns, At, Free
  <2> QED
    BY <1>1, <1>6, <2>1, TurnStep
    DEF SessionOrder, PlatformInvariant, Answer, Current
<1> QED
  BY <1>2, <1>3, <1>4, <1>5, <1>6
  DEF Judge, Stage, Gated, Answer, Crash, Turns

\* The journal opens and closes around the rollout.
LEMMA PhaseStep ==
  ASSUME PlatformInvariant, Begin \/ Close
  PROVE  PlatformInvariant'
<1>1. ASSUME NEW q \in {"open", "complete"}, NEW p \in {"evidence", "idle"},
             Save([record EXCEPT !.phase = q], p),
             q = "complete" => Undone = {} /\ p = "idle"
      PROVE  PlatformInvariant'
  <2> SUFFICES ASSUME record' = [record EXCEPT !.phase = q], pc' \in {p, "idle"},
                      UNCHANGED <<plan, cont, marker, proc>>
               PROVE  PlatformInvariant'
    BY <1>1, SaveStep
  <2>1. /\ record'.current = record.current /\ record'.done = record.done
        /\ record'.phase = q
    BY DEF PlatformInvariant, TypeOK
  <2>2. TypeOK' /\ ProcOK'
    <3>1. q = "complete" => record.done = Validators /\ record.current = 0
      <4> SUFFICES ASSUME q = "complete"
                   PROVE  record.done = Validators /\ record.current = 0
        OBVIOUS
      <4>1. Undone = {} /\ record.done \subseteq Validators
        BY <1>1 DEF PlatformInvariant, TypeOK
      <4>2. record.done = Validators
        BY <4>1 DEF Undone
      <4>3. record.current \in 0..NV /\ record.current \notin 1..NV
        BY <4>2 DEF PlatformInvariant, TypeOK, Validators
      <4> QED
        BY <4>2, <4>3, PlatformAssumption
    <3>2. record' \in [phase : {"none", "open", "complete"}, current : 0..NV,
                       done : SUBSET Validators]
      BY DEF PlatformInvariant, TypeOK
    <3>3. pc' \in {"idle", "evidence"}
      OBVIOUS
    <3> QED
      BY <2>1, <3>1, <3>2, <3>3 DEF PlatformInvariant, TypeOK, ProcOK
  <2>3. \A t \in Validators : HostInv(t)'
    BY <2>1
    DEF PlatformInvariant, HostInv, RecreatedIsNew, MarkerSelects, UnselectedStay,
        DrainOrder, AppliedConverged, WorkIsCurrent, DrainedAt, OutAt, DoneAt,
        Converged, Free, Away, Changed, Current, Reached
  <2>4. SessionOrder'
    BY <1>1, <2>1 DEF SessionOrder
  <2> QED
    BY <2>2, <2>3, <2>4 DEF PlatformInvariant
<1>2. CASE Begin /\ record.phase = "none"
  BY <1>1, <1>2 DEF Begin
<1>3. CASE Begin /\ record.phase = "open"
  BY <1>3, TurnStep DEF Begin, Turns, Local, host, SessionOrder
<1>4. CASE Close
  BY <1>1, <1>4 DEF Close, PlatformInvariant, SessionOrder
<1> QED
  BY <1>2, <1>3, <1>4 DEF Begin

\* The next target is a node that is not completed, and the journaled one before
\* any other.
LEMMA TargetIsNext ==
  ASSUME PlatformInvariant, Undone # {}
  PROVE  /\ NextTarget \in Undone
         /\ Current # 0 => NextTarget = Current
<1>1. Undone \in SUBSET Nat
  BY PlatformAssumption DEF Undone, Validators
<1>2. Min(Undone) \in Undone
  BY <1>1, MinIn
<1>3. Current # 0 => Current \in Undone
  BY PlatformAssumption DEF PlatformInvariant, TypeOK, Current, Undone, Validators
<1> QED
  BY <1>2, <1>3 DEF NextTarget

\* The target is journaled before it is called.
LEMMA ChooseStep == PlatformInvariant /\ Choose => PlatformInvariant'
<1> SUFFICES ASSUME PlatformInvariant, Choose PROVE PlatformInvariant'
  OBVIOUS
<1>1. CASE Undone = {}
  BY <1>1, TurnStep DEF Choose, Turns, Local, host, SessionOrder, Undone,
     PlatformInvariant
<1>2. CASE Undone # {}
  <2>1. Save([record EXCEPT !.current = NextTarget], "calling") /\ pc = "choosing"
    BY <1>2 DEF Choose
  <2> SUFFICES ASSUME record' = [record EXCEPT !.current = NextTarget],
                      pc' \in {"calling", "idle"},
                      UNCHANGED <<plan, cont, marker, proc>>
               PROVE  PlatformInvariant'
    BY <2>1, SaveStep
  <2>2. NextTarget \in Validators \ record.done /\ NextTarget \in 0..NV
        /\ NextTarget # 0 /\ record.phase = "open"
    BY <1>2, <2>1, TargetIsNext, PlatformAssumption
    DEF Undone, Validators, PlatformInvariant, SessionOrder
  <2>3. /\ record'.current = NextTarget /\ record'.done = record.done
        /\ record'.phase = record.phase
    BY DEF PlatformInvariant, TypeOK
  <2>4. TypeOK' /\ ProcOK'
    BY <2>2, <2>3 DEF PlatformInvariant, TypeOK, ProcOK
  <2>5. \A t \in Validators : HostInv(t)'
    <3> SUFFICES ASSUME NEW t \in Validators PROVE HostInv(t)'
      OBVIOUS
    <3>1. t = Current => t = Current' /\ NextTarget = t
      BY <1>2, <2>3, TargetIsNext, PlatformAssumption DEF Validators, Current
    <3>2. HostInv(t)
      BY DEF PlatformInvariant
    <3> QED
      BY <2>3, <3>1, <3>2
      DEF HostInv, RecreatedIsNew, MarkerSelects, UnselectedStay, DrainOrder,
          AppliedConverged, WorkIsCurrent, DrainedAt, OutAt, DoneAt, Converged,
          Free, Away, Changed, Current, Reached
  <2>6. SessionOrder'
    BY <2>2, <2>3 DEF SessionOrder, Current
  <2> QED
    BY <2>4, <2>5, <2>6 DEF PlatformInvariant
<1> QED
  BY <1>1, <1>2

\* The call, answered or not.
LEMMA CallStep == PlatformInvariant /\ (Call \/ Lost) => PlatformInvariant'
<1> SUFFICES ASSUME PlatformInvariant, Call \/ Lost PROVE PlatformInvariant'
  OBVIOUS
<1>1. CASE Apply(Current) /\ Free(Current) /\ pc = "calling"
           /\ UNCHANGED <<plan, record>> /\ pc' \in {"applying", "idle"}
  BY <1>1, ApplyStep DEF PlatformInvariant, SessionOrder
<1>2. CASE UNCHANGED <<plan, record, cont, marker, proc>> /\ pc' = "idle"
  BY <1>2, TurnStep DEF SessionOrder
<1> QED
  BY <1>1, <1>2 DEF Call, Lost, Turns, host

\* A node is completed in the journal when the fleet, itself included, has passed
\* the gate: nobody is out then, and nobody at work.
LEMMA CheckedStep == PlatformInvariant /\ Checked => PlatformInvariant'
<1> SUFFICES ASSUME PlatformInvariant, Checked PROVE PlatformInvariant'
  OBVIOUS
<1>1. CASE ~Gate
  BY <1>1, TurnStep DEF Checked, Turns, Local, host, SessionOrder
<1>2. CASE Gate
  <2>1. Save(Finished(record), "choosing") /\ pc = "checking"
    BY <1>2 DEF Checked
  <2> SUFFICES ASSUME record' = Finished(record),
                      pc' \in {"choosing", "idle"},
                      UNCHANGED <<plan, cont, marker, proc>>
               PROVE  PlatformInvariant'
    BY <2>1, SaveStep
  <2>2. /\ Current \in Validators /\ record.phase = "open"
        /\ marker[Current].phase = "applied"
    BY <2>1, PlatformAssumption
    DEF PlatformInvariant, TypeOK, SessionOrder, Current, Validators
  <2>3. /\ record'.current = 0 /\ record'.done = record.done \cup {Current}
        /\ record'.phase = "open"
    BY <2>2 DEF PlatformInvariant, TypeOK, Finished, Current
  <2>4. TypeOK' /\ ProcOK'
    <3>1. record' \in [phase : {"none", "open", "complete"}, current : 0..NV,
                       done : SUBSET Validators]
      <4>1. /\ 0 \in 0..NV /\ record.done \cup {record.current} \in SUBSET Validators
            /\ record \in [phase : {"none", "open", "complete"}, current : 0..NV,
                          done : SUBSET Validators]
        BY <2>2, PlatformAssumption DEF PlatformInvariant, TypeOK, Current
      <4> QED
        BY <4>1, Zenon DEF Finished
    <3>2. 0 \notin Validators
      BY DEF Validators
    <3> QED
      BY <2>2, <2>3, <3>1, <3>2 DEF PlatformInvariant, TypeOK, ProcOK
  <2>5. \A t \in Validators : HostInv(t)'
    <3> SUFFICES ASSUME NEW t \in Validators PROVE HostInv(t)'
      OBVIOUS
    <3>1. HostInv(t) /\ (t = Current => marker[t].phase = "applied")
      BY <2>2 DEF PlatformInvariant
    <3>2. Free(t) /\ Observed(t)
      BY <1>2 DEF Gate, Evidence, Validators
    <3>3. Reached(t) => Reached(t)'
      BY <2>3 DEF Reached, Current
    <3> QED
      BY <2>3, <3>1, <3>2, <3>3
      DEF HostInv, RecreatedIsNew, MarkerSelects, UnselectedStay, DrainOrder,
          AppliedConverged, WorkIsCurrent, DrainedAt, OutAt, DoneAt, Converged,
          Free, Away, Changed, Observed, Draining, Applies
  <2>6. SessionOrder'
    BY <2>3 DEF SessionOrder
  <2> QED
    BY <2>4, <2>5, <2>6 DEF PlatformInvariant
<1> QED
  BY <1>1, <1>2

-----------------------------------------------------------------------------
(* The theorems.                                                           *)

\* Every host starts with its services up and the baseline's containers.
LEMMA PlatformInit == Init => PlatformInvariant
<1> SUFFICES ASSUME Init PROVE PlatformInvariant
  OBVIOUS
<1>1. plan.count \in [Validators -> Nat] /\ plan.release \in Releases
  BY PlatformAssumption DEF Init
<1>2. \A t \in Validators, s \in Services :
        /\ cont[t][s].there /\ cont[t][s].up /\ ~cont[t][s].new
        /\ cont[t][s].id = 0
  BY Zenon DEF Init
<1>3. cont \in [Validators -> [Services -> Container]]
  BY <1>1 DEF Init, Container
<1>4. TypeOK /\ ProcOK
  BY <1>1, <1>3, PlatformAssumption
  DEF Init, TypeOK, ProcOK, Unmarked, ProcSteps, Applies, Draining, Leaving
<1>5. \A t \in Validators : HostInv(t)
  <2> SUFFICES ASSUME NEW t \in Validators PROVE HostInv(t)
    OBVIOUS
  <2>1. marker[t] = Unmarked /\ proc[t] = "idle" /\ record.current = 0
        /\ record.done = {}
    BY DEF Init
  <2>2. Changed \subseteq Services /\ "drive" \in Services /\ "tenderdash" \in Services
    BY <1>4, ReleaseChanges DEF Services
  <2> QED
    BY <1>2, <2>1, <2>2
    DEF HostInv, RecreatedIsNew, MarkerSelects, UnselectedStay, DrainOrder,
        AppliedConverged, WorkIsCurrent, DrainedAt, OutAt, DoneAt, Unmarked,
        Free, Away, Applies, Draining
<1>6. SessionOrder
  BY DEF Init, SessionOrder
<1> QED
  BY <1>4, <1>5, <1>6 DEF PlatformInvariant

\* Every step of every actor keeps the invariant.
LEMMA PlatformStep == PlatformInvariant /\ [Next]_vars => PlatformInvariant'
<1> SUFFICES ASSUME PlatformInvariant, [Next]_vars PROVE PlatformInvariant'
  OBVIOUS
<1>1. CASE Session \/ Lost \/ Crash
  BY <1>1, LocalStep, PhaseStep, ChooseStep, CallStep, CheckedStep DEF Session
<1>2. ASSUME NEW t \in Validators, Works(t) PROVE PlatformInvariant'
  <2>1. ASSUME NEW s \in Services, Remove(t, s) \/ Create(t, s) \/ Start(t, s)
        PROVE  PlatformInvariant'
    <3>1. s \in Group(t)
      BY <2>1 DEF Remove, Create, Start
    <3>2. ~Free(t)
      BY <3>1, Zenon DEF Group, At, Free
    <3> QED
      BY <2>1, <3>2, RemoveStep, CreateStep, StartStep
  <2> QED
    BY <1>2, <2>1, StopTenderdashStep, StartTenderdashStep, DependencyStep, UpStep,
       FinalStep
    DEF Works
<1>3. ASSUME NEW t \in Validators, Breaks(t) \/ \E s \in Services : Restarts(t, s)
      PROVE  PlatformInvariant'
  BY <1>3, BreakStep, RestartStep
<1>4. CASE UNCHANGED vars
  BY <1>4, TurnStep DEF vars, PlatformInvariant, TypeOK, SessionOrder, Current,
     Undone
<1> QED
  BY <1>1, <1>2, <1>3, <1>4 DEF Next

\* What the journal, the markers and the containers of the fleet agree on at every
\* point of a rollout, whoever was killed, and wherever.
THEOREM PlatformInvariance == Spec => []PlatformInvariant
<1>1. Init => PlatformInvariant
  BY PlatformInit
<1>2. PlatformInvariant /\ [Next]_vars => PlatformInvariant'
  BY PlatformStep
<1> QED
  BY <1>1, <1>2, PTL DEF Spec

\* The types, and a journal that is complete has completed every validator.
THEOREM PlatformTypes == Spec => []TypeOK
<1>1. PlatformInvariant => TypeOK
  BY DEF PlatformInvariant
<1> QED
  BY <1>1, PlatformInvariance, PTL

\* upgrade.py 376-397: Drive never goes away under a running Tenderdash.
THEOREM DriveIsDrained == Spec => []GracefulDrain
<1>1. PlatformInvariant => GracefulDrain
  BY DEF PlatformInvariant, HostInv, DrainedAt, GracefulDrain
<1> QED
  BY <1>1, PlatformInvariance, PTL

\* upgrade_runner.go 447-470: at most one validator is out, the journaled one,
\* and no service is replaced twice.
THEOREM OnePlatformWithdrawal == Spec => []OneWithdrawal
<1>1. PlatformInvariant => OneWithdrawal
  <2> SUFFICES ASSUME PlatformInvariant PROVE OneOut /\ ReplacedOnce
    BY DEF OneWithdrawal
  <2>1. OneOut
    BY DEF PlatformInvariant, HostInv, OutAt, OneOut
  <2>2. ReplacedOnce
    BY DEF PlatformInvariant, HostInv, DoneAt, RecreatedIsNew, ReplacedOnce
  <2> QED
    BY <2>1, <2>2
<1> QED
  BY <1>1, PlatformInvariance, PTL
=============================================================================
