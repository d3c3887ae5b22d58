-------------------------- MODULE BootstrapProofs --------------------------
(***************************************************************************)
(* Proofs about host preparation, for any number of sessions, hosts and     *)
(* faults: what the record says of a host holds of it, whoever else runs,   *)
(* was killed or lost its claim; and when a host may be changed.            *)
(***************************************************************************)
EXTENDS Bootstrap, FiniteSetTheorems, WellFoundedInduction, TLAPS

-----------------------------------------------------------------------------
(* The inductive invariant.                                                *)

\* The steps of a session while its record says "preparing".
Working == {"scoping", "marking", "rescoping", "publishing"} \cup Fleets

\* Holding the claim: a session that runs holds it or has lost it for good.
ClaimOK(o) ==
  /\ Live(o) => owner = o \/ o \in lost
  /\ o \in lost => owner # o
  /\ run[o].pc = "start" => owner # o /\ o \notin lost
  /\ run[o].pc \in {"start", "claimed"} =>
       durable.runner # o /\ \A t \in Targets : lock[t] # o

\* What the work on a host can be, by the fleet it belongs to.
WorkOf(p) ==
  IF p = "preflight" THEN {"idle", "probe", "ready", "pending", "unknown"}
  ELSE IF p = "preparation"
       THEN {"idle", "apply", "running", "readback", "ready", "unknown"}
  ELSE IF p = "verification" THEN {"idle", "probe", "ready", "unknown"}
  ELSE {"idle"}

\* A host that waits for its turn has no work; the turns left have hosts.
FleetOK(o) ==
  /\ \A t \in Targets : run[o].work[t] \in WorkOf(run[o].pc)
  /\ run[o].pc \in Fleets =>
       \A t \in run[o].todo : run[o].work[t] = "idle"
  /\ run[o].slots <= Cardinality(run[o].todo)
  /\ run[o].pc \notin Fleets => run[o].slots = 0

\* A host that a preflight is done with was probed, or the preflight failed.
ProbedOK(o) ==
  /\ run[o].pc = "preflight" =>
       \A t \in Targets :
         \/ t \in run[o].todo \/ run[o].work[t] \in {"probe", "unknown"}
         \/ t \in probed[o] \/ run[o].failed
  /\ run[o].pc \in {"marking", "preparation"} => probed[o] = Targets

\* A host of the preparation is "preparing", in the journal too, until the
\* answer is taken; an apply left behind by a lost session is "unknown".
JournaledOK(o) ==
  /\ run[o].pc = "preparation" =>
       \A t \in Targets : t \in run[o].todo \/ run[o].work[t] # "idle" =>
         /\ run[o].local.node[t] = "preparing"
         /\ durable.runner = o => durable.node[t] = "preparing"
  /\ \A t \in Targets : lock[t] = o =>
       /\ run[o].pc \in {"preparation", "failed", "releasing"} \cup Stopped
       /\ run[o].pc = "preparation" =>
            \/ run[o].work[t] \in {"running", "unknown"}
            \/ run[o].work[t] = "idle" /\ run[o].failed /\ t \notin run[o].todo
       /\ Live(o) => run[o].local.node[t] \in {"preparing", "unknown"}

\* The record of a session is its own, and evidence of its own.
EvidenceOK(o) ==
  /\ run[o].pc # "start" => Prepared \subseteq held[o] /\ Prepared \subseteq good[o]
  /\ Live(o) /\ run[o].pc # "claimed" =>
       /\ run[o].local.runner = o
       /\ \A t \in Targets : run[o].local.node[t] = "ready" => t \in held[o]
  /\ run[o].pc \in Working => run[o].local.phase = "preparing"
  /\ \A t \in Targets : run[o].work[t] = "ready" => t \in held[o]

\* A host the final verification is done with: prepared since the session last
\* changed any host, and left alone by whoever has not lost its claim.
Settled(o, t) ==
  /\ t \in good[o]
  /\ owner = o => lock[t] \in {NoOwner} \cup lost
VerifiedOK(o) ==
  /\ run[o].pc = "verification" =>
       \A t \in Targets :
         /\ run[o].work[t] = "ready" => Settled(o, t)
         /\ t \notin run[o].todo /\ run[o].work[t] = "idle"
              /\ ~run[o].failed /\ ~run[o].stuck =>
            Settled(o, t) /\ run[o].local.node[t] = "ready"
  /\ run[o].pc = "publishing" =>
       \A t \in Targets : Settled(o, t) /\ run[o].local.node[t] = "ready"

\* A session that lost its claim uses up its turns and gets no more.
FenceOK(o) ==
  /\ o \notin lost => late[o] = 0
  /\ o \in lost => late[o] + run[o].slots <= Parallel
                /\ late[o] + run[o].slots <= N
  /\ o \in lost /\ run[o].pc \in {"claimed", "scoping", "marking", "rescoping"} =>
       late[o] = 0
  /\ o \in lost /\ run[o].pc \in Fleets /\ late[o] > 0 =>
       run[o].stuck \/ Active(run[o]) # {}

\* What the journal says of the session it names.
RecordedOK(o) ==
  /\ run[o].pc \in Working /\ owner = o => durable.runner = o
  /\ run[o].pc \in Working /\ durable.runner = o => durable.phase = "preparing"
  /\ run[o].pc \in {"releasing", "stopped"} /\ durable.runner = o
       /\ ~run[o].behind => durable.phase \in {"interrupted", "hosts-ready"}

SessionInv(o) ==
  /\ ClaimOK(o) /\ FleetOK(o) /\ ProbedOK(o) /\ JournaledOK(o)
  /\ EvidenceOK(o) /\ VerifiedOK(o) /\ FenceOK(o) /\ RecordedOK(o)

\* A record without a session is the blank one.
RecordInv ==
  /\ durable.runner = NoOwner =>
       durable.phase = "none" /\ \A t \in Targets : durable.node[t] = "pending"
  /\ HostsReadyIsFresh /\ ReadyIsEvidence /\ SettledWhenReady /\ JournaledMutation

BootstrapInvariant ==
  /\ TypeOK
  /\ \A o \in Runners : SessionInv(o)
  /\ RecordInv
  /\ ProbedBeforeMutation

-----------------------------------------------------------------------------
(* Lemmas: the fields of a session after each of its updates.              *)

\* What the fleet of a session is made of.
SameFleet(n, s) ==
  /\ n.todo = s.todo /\ n.slots = s.slots /\ n.work = s.work
  /\ n.failed = s.failed /\ n.stuck = s.stuck
SameRecord(n, s) == n.local = s.local /\ n.behind = s.behind

\* The next host of a fleet is one that is left.
LEMMA MinIn ==
  ASSUME NEW S \in SUBSET Nat, S # {}
  PROVE  Min(S) \in S
<1> DEFINE Less == {p \in Nat \X Nat : p[1] < p[2]}
<1>1. IsWellFoundedOn(Less, Nat)
  BY NatLessThanWellFounded, Zenon DEF OpToRel
<1>2. PICK x \in S : \A y \in S : ~(<<y, x>> \in Less)
  BY <1>1, WFMin, Zenon
<1>3. ASSUME NEW y \in S PROVE x <= y
  <2>1. x \in Nat /\ y \in Nat /\ ~(<<y, x>> \in Less)
    BY <1>2, <1>3
  <2> QED
    BY <2>1, SMT
<1> QED
  BY <1>2, <1>3 DEF Min

LEMMA GoesFields ==
  ASSUME NEW s \in Sessions, NEW p \in Steps
  PROVE  /\ Goes(s, p) \in Sessions /\ Goes(s, p).pc = p
         /\ Goes(s, p).cancelled = s.cancelled
         /\ SameFleet(Goes(s, p), s) /\ SameRecord(Goes(s, p), s)
  BY Zenon DEF Goes, Sessions, SameFleet, SameRecord

LEMMA BehindFields ==
  ASSUME NEW s \in Sessions
  PROVE  LET n == [s EXCEPT !.behind = TRUE] IN
         /\ n \in Sessions /\ n.pc = s.pc /\ n.cancelled = s.cancelled
         /\ SameFleet(n, s) /\ n.local = s.local /\ n.behind
  BY Zenon DEF Sessions, SameFleet

LEMMA CancelledFields ==
  ASSUME NEW s \in Sessions
  PROVE  LET n == [s EXCEPT !.cancelled = TRUE] IN
         /\ n \in Sessions /\ n.pc = s.pc
         /\ SameFleet(n, s) /\ SameRecord(n, s)
  BY Zenon DEF Sessions, SameFleet, SameRecord

LEMMA LocalFields ==
  ASSUME NEW s \in Sessions, NEW r \in Records
  PROVE  LET n == [s EXCEPT !.local = r] IN
         /\ n \in Sessions /\ n.pc = s.pc /\ n.cancelled = s.cancelled
         /\ SameFleet(n, s) /\ n.local = r /\ n.behind = s.behind
  BY Zenon DEF Sessions, SameFleet

LEMMA WorkFields ==
  ASSUME NEW s \in Sessions, NEW f \in [Targets -> Work]
  PROVE  LET n == [s EXCEPT !.work = f] IN
         /\ n \in Sessions /\ n.pc = s.pc /\ n.cancelled = s.cancelled
         /\ n.todo = s.todo /\ n.slots = s.slots /\ n.work = f
         /\ n.failed = s.failed /\ n.stuck = s.stuck /\ SameRecord(n, s)
  BY Zenon DEF Sessions, SameRecord

LEMMA NodeFields ==
  ASSUME NEW s \in Sessions, NEW t \in Targets, NEW p \in NodePhases
  PROVE  LET n == WithNode(s, t, p) IN
         /\ n \in Sessions /\ n.pc = s.pc /\ n.cancelled = s.cancelled
         /\ SameFleet(n, s) /\ n.behind = s.behind
         /\ n.local.phase = s.local.phase /\ n.local.runner = s.local.runner
         /\ n.local.node = [s.local.node EXCEPT ![t] = p]
  BY Zenon DEF WithNode, Sessions, SameFleet, Records

LEMMA NodesFields ==
  ASSUME NEW s \in Sessions, NEW f \in [Targets -> NodePhases]
  PROVE  LET n == [s EXCEPT !.local.node = f] IN
         /\ n \in Sessions /\ n.pc = s.pc /\ n.cancelled = s.cancelled
         /\ SameFleet(n, s) /\ n.behind = s.behind
         /\ n.local.phase = s.local.phase /\ n.local.runner = s.local.runner
         /\ n.local.node = f
  BY Zenon DEF Sessions, SameFleet, Records

LEMMA PhaseFields ==
  ASSUME NEW s \in Sessions, NEW p \in Phases
  PROVE  LET n == [s EXCEPT !.local.phase = p] IN
         /\ n \in Sessions /\ n.pc = s.pc /\ n.cancelled = s.cancelled
         /\ SameFleet(n, s) /\ n.behind = s.behind
         /\ n.local.phase = p /\ n.local.runner = s.local.runner
         /\ n.local.node = s.local.node
  BY Zenon DEF Sessions, SameFleet, Records

LEMMA SlotsFields ==
  ASSUME NEW s \in Sessions, NEW k \in 0..Parallel
  PROVE  LET n == [s EXCEPT !.slots = k] IN
         /\ n \in Sessions /\ n.pc = s.pc /\ n.cancelled = s.cancelled
         /\ n.todo = s.todo /\ n.slots = k /\ n.work = s.work
         /\ n.failed = s.failed /\ n.stuck = s.stuck /\ SameRecord(n, s)
  BY Zenon DEF Sessions, SameRecord

LEMMA StuckFields ==
  ASSUME NEW s \in Sessions
  PROVE  LET n == [s EXCEPT !.stuck = TRUE] IN
         /\ n \in Sessions /\ n.pc = s.pc /\ n.cancelled = s.cancelled
         /\ n.todo = s.todo /\ n.slots = s.slots /\ n.work = s.work
         /\ n.failed = s.failed /\ n.stuck /\ SameRecord(n, s)
  BY Zenon DEF Sessions, SameRecord

\* A fleet of some hosts has a turn for each of them, up to its limit.
LEMMA FleetFields ==
  ASSUME NEW s \in Sessions, NEW p \in Fleets, NEW S \in SUBSET Targets
  PROVE  LET n == FleetOf(s, p, S) IN
         /\ n \in Sessions /\ n.pc = p /\ n.cancelled = s.cancelled
         /\ n.todo = S /\ n.work = s.work /\ ~n.failed /\ ~n.stuck
         /\ n.slots <= Cardinality(S) /\ n.slots <= Parallel /\ n.slots <= N
         /\ SameRecord(n, s)
<1> DEFINE k == IF Cardinality(S) < Parallel THEN Cardinality(S) ELSE Parallel
           n == [s EXCEPT !.pc = p, !.todo = S, !.stuck = FALSE, !.failed = FALSE,
                          !.slots = k]
<1>1. IsFiniteSet(Targets) /\ Cardinality(Targets) = N
  BY BootstrapAssumption, FS_Interval DEF Targets
<1>2. Cardinality(S) \in Nat /\ Cardinality(S) <= N
  BY <1>1, FS_Subset, FS_CardinalityType
<1>3. k \in 0..Parallel /\ k <= Cardinality(S) /\ k <= N
  BY <1>2, BootstrapAssumption
<1>4. p \in Steps
  BY DEF Steps
<1>5. /\ n \in Sessions /\ n.pc = p /\ n.cancelled = s.cancelled
      /\ n.todo = S /\ n.work = s.work /\ ~n.failed /\ ~n.stuck
      /\ n.slots = k /\ SameRecord(n, s)
  <2> HIDE DEF k
  <2> QED
    BY <1>3, <1>4, Zenon DEF Sessions, SameRecord
<1>6. FleetOf(s, p, S) = n
  BY DEF FleetOf
<1> QED
  BY <1>3, <1>5, <1>6, BootstrapAssumption

\* A reply is taken.
LEMMA TakeFields ==
  ASSUME NEW s \in Sessions, NEW t \in Targets
  PROVE  LET n == [s EXCEPT !.work[t] = "idle",
                            !.failed = @ \/ s.work[t] = "unknown"] IN
         /\ n \in Sessions /\ n.pc = s.pc /\ n.cancelled = s.cancelled
         /\ n.todo = s.todo /\ n.slots = s.slots
         /\ n.work = [s.work EXCEPT ![t] = "idle"]
         /\ n.failed <=> s.failed \/ s.work[t] = "unknown"
         /\ n.stuck = s.stuck /\ SameRecord(n, s)
<1>1. "idle" \in Work
  BY DEF Work
<1> QED
  BY <1>1, Zenon DEF Sessions, SameRecord

\* A session turns to n and the others stay.
Turned(o, n) ==
  /\ run' \in [Runners -> Sessions] /\ run'[o] = n
  /\ \A u \in Runners \ {o} : run'[u] = run[u]

LEMMA SetTurns ==
  ASSUME TypeOK, NEW o \in Runners, NEW n \in Sessions, Set(o, n)
  PROVE  Turned(o, n)
  BY DEF Set, TypeOK, Turned

\* The work on a host changes.
LEMMA SetWorkTurns ==
  ASSUME TypeOK, NEW o \in Runners, NEW t \in Targets, NEW w \in Work,
         SetWork(o, t, w)
  PROVE  /\ Turned(o, run'[o])
         /\ run'[o].pc = run[o].pc /\ run'[o].cancelled = run[o].cancelled
         /\ run'[o].todo = run[o].todo /\ run'[o].slots = run[o].slots
         /\ run'[o].work = [run[o].work EXCEPT ![t] = w]
         /\ run'[o].failed = run[o].failed /\ run'[o].stuck = run[o].stuck
         /\ SameRecord(run'[o], run[o])
<1> DEFINE s == run[o]
           n == [s EXCEPT !.work = [s.work EXCEPT ![t] = w]]
<1>1. s \in Sessions /\ run \in [Runners -> Sessions]
  BY DEF TypeOK
<1>2. [s.work EXCEPT ![t] = w] \in [Targets -> Work]
  BY <1>1 DEF Sessions
<1>3. /\ n \in Sessions /\ n.pc = s.pc /\ n.cancelled = s.cancelled
      /\ n.todo = s.todo /\ n.slots = s.slots
      /\ n.work = [s.work EXCEPT ![t] = w]
      /\ n.failed = s.failed /\ n.stuck = s.stuck /\ SameRecord(n, s)
  BY <1>1, <1>2, WorkFields, ZenonT(40)
<1>4. run' = [run EXCEPT ![o] = n]
  BY DEF SetWork
<1> HIDE DEF n
<1>5. run'[o] = n /\ Turned(o, n)
  BY <1>1, <1>3, <1>4 DEF Turned
<1> QED
  BY <1>3, <1>5

\* What is left of a session that ended.
LEMMA EndFields ==
  ASSUME TypeOK, NEW o \in Runners, NEW p \in Stopped, End(o, p)
  PROVE  /\ Turned(o, run'[o]) /\ run'[o].pc = p /\ run'[o].slots = 0
         /\ run'[o].todo = {} /\ run'[o].behind = run[o].behind
         /\ run'[o].work = AllNodes("idle")
<1> DEFINE b == run[o].behind
           n == [Session EXCEPT !.pc = p, !.behind = b]
<1>1. Session \in Sessions
  BY BootstrapAssumption
  DEF Session, Sessions, Blank, Records, AllNodes, Steps, Phases, NodePhases, Work
<1>2. b \in BOOLEAN /\ p \in Steps
  BY DEF TypeOK, Sessions, Steps
<1> HIDE DEF b
<1>3. n \in Sessions /\ n.pc = p /\ n.behind = b
  BY <1>1, <1>2, Zenon DEF Sessions
<1>4. n.slots = 0 /\ n.todo = {} /\ n.work = AllNodes("idle")
  BY Zenon DEF Session
<1>5. Set(o, n)
  BY DEF End, b
<1> HIDE DEF n
<1>6. Turned(o, n)
  BY <1>3, <1>5, SetTurns
<1> QED
  BY <1>3, <1>4, <1>6 DEF Turned, b

-----------------------------------------------------------------------------
(* Lemmas: what the step of one session leaves of the others.              *)

\* What the others may see of it: the claim, locks given up or taken by one that
\* has lost the claim, what was prepared, and a record that is not theirs.
Spares(u) ==
  /\ run'[u] = run[u] /\ late'[u] = late[u] /\ probed'[u] = probed[u]
  /\ owner' = u <=> owner = u
  /\ u \in lost' <=> u \in lost
  /\ held[u] \subseteq held'[u] /\ good[u] \subseteq good'[u]
  /\ run[u].pc # "start" => Prepared' \subseteq held'[u] /\ Prepared' \subseteq good'[u]
  /\ lost \subseteq lost'
  /\ \A t \in Targets :
       /\ lock'[t] = u => lock[t] = u
       /\ owner = u => lock'[t] \in {lock[t], NoOwner} \cup lost'
  /\ durable' = durable \/ (durable'.runner # u /\ owner # u)

LEMMA OtherKeeps ==
  ASSUME NEW u \in Runners, SessionInv(u), Spares(u)
  PROVE  SessionInv(u)'
<1>1. ClaimOK(u)'
  BY DEF SessionInv, Spares, ClaimOK, Live
<1>2. FleetOK(u)' /\ ProbedOK(u)'
  BY DEF SessionInv, Spares, FleetOK, ProbedOK
<1>3. JournaledOK(u)'
  BY DEF SessionInv, Spares, JournaledOK, Live
<1>4. EvidenceOK(u)'
  BY DEF SessionInv, Spares, EvidenceOK, Live
<1>5. VerifiedOK(u)'
  <2>1. ASSUME NEW t \in Targets, Settled(u, t) PROVE Settled(u, t)'
    BY <2>1 DEF Spares, Settled
  <2> QED
    BY <2>1 DEF SessionInv, Spares, VerifiedOK
<1>6. FenceOK(u)'
  BY DEF SessionInv, Spares, FenceOK, Active
<1>7. RecordedOK(u)'
  BY DEF SessionInv, Spares, RecordedOK
<1> QED
  BY <1>1, <1>2, <1>3, <1>4, <1>5, <1>6, <1>7 DEF SessionInv

\* A step of session o that spares the others: what it makes of its own session
\* and of the record is left to show.
LEMMA SessionStepKeeps ==
  ASSUME BootstrapInvariant, NEW o \in Runners, TypeOK', SessionInv(o)',
         \A u \in Runners \ {o} : Spares(u),
         RecordInv', ProbedBeforeMutation'
  PROVE  BootstrapInvariant'
<1>1. ASSUME NEW u \in Runners, u # o PROVE SessionInv(u)'
  BY <1>1, OtherKeeps DEF BootstrapInvariant
<1> QED
  BY <1>1 DEF BootstrapInvariant

\* A step that leaves the journal: what the record says stays true of a session
\* whose evidence stays, when locks are given up or taken by one that has lost
\* the claim.
LEMMA RecordStays ==
  ASSUME RecordInv, durable' = durable, lost \subseteq lost',
         durable.runner \in Runners =>
           /\ held[durable.runner] \subseteq held'[durable.runner]
           /\ durable.phase = "hosts-ready" =>
                good'[durable.runner] = good[durable.runner],
         \A t \in Targets :
           /\ durable.phase = "hosts-ready" =>
                lock'[t] \in {lock[t], NoOwner} \cup lost'
           /\ lock'[t] = durable.runner /\ lock'[t] # NoOwner =>
                lock[t] = lock'[t] \/ durable.node[t] \in {"preparing", "unknown"},
         durable \in Records
  PROVE  RecordInv'
<1>1. durable.runner \in Runners \/ durable.runner = NoOwner
  BY DEF Records
<1>2. HostsReadyIsFresh'
  BY <1>1 DEF RecordInv, HostsReadyIsFresh
<1>3. ReadyIsEvidence'
  BY <1>1 DEF RecordInv, ReadyIsEvidence
<1>4. SettledWhenReady' /\ JournaledMutation'
  BY DEF RecordInv, SettledWhenReady, JournaledMutation
<1> QED
  BY <1>2, <1>3, <1>4 DEF RecordInv

-----------------------------------------------------------------------------
(* The steps of the hosts.                                                 *)

\* A fault is counted, within its bound.
LEMMA FaultCounted ==
  ASSUME TypeOK, NoFault \/ \E k \in Kinds : Fault(k)
  PROVE  faults' \in 0..MaxFaults
  BY BootstrapAssumption DEF NoFault, Fault, TypeOK

\* Images come and go while no answer is given.
LEMMA ImagesStep ==
  ASSUME BootstrapInvariant, NEW t \in Targets, Pulled(t) \/ Drift(t)
  PROVE  BootstrapInvariant'
<1>1. /\ UNCHANGED <<owner, durable, run, marker, lock, probed, lost, late>>
      /\ images' \subseteq Targets /\ faults' \in 0..MaxFaults
      /\ \/ /\ held' = [o \in Runners |-> held[o] \cup Prepared']
            /\ good' = [o \in Runners |-> good[o] \cup Prepared']
         \/ UNCHANGED <<held, good>> /\ Prepared' \subseteq Prepared
  <2>1. CASE Pulled(t)
    BY <2>1 DEF Pulled, NoteReady, Prepared, BootstrapInvariant, TypeOK
  <2>2. CASE Drift(t)
    BY <2>2, FaultCounted DEF Drift, history, Prepared, Kinds, BootstrapInvariant,
       TypeOK
  <2> QED
    BY <2>1, <2>2
<1>2. TypeOK'
  BY <1>1 DEF BootstrapInvariant, TypeOK, Prepared
<1>3. \A u \in Runners : Spares(u)
  BY <1>1 DEF BootstrapInvariant, TypeOK, SessionInv, EvidenceOK, Spares
<1>4. RecordInv'
  <2>1. ASSUME NEW u \in Runners, good[u] = Targets PROVE good'[u] = good[u]
    BY <1>1, <1>2, <2>1 DEF TypeOK
  <2>2. durable.phase = "hosts-ready" =>
          durable.runner \in Runners /\ good[durable.runner] = Targets
    BY DEF BootstrapInvariant, RecordInv, HostsReadyIsFresh, TypeOK, Records
  <2>3. durable \in Records /\ RecordInv
    BY DEF BootstrapInvariant, TypeOK
  <2> QED
    BY <1>1, <1>3, <2>1, <2>2, <2>3, RecordStays DEF Spares
<1>5. \A u \in Runners : SessionInv(u)'
  BY <1>3, OtherKeeps DEF BootstrapInvariant
<1>6. ProbedBeforeMutation'
  BY <1>1 DEF BootstrapInvariant, ProbedBeforeMutation
<1> QED
  BY <1>2, <1>4, <1>5, <1>6 DEF BootstrapInvariant

\* The answer of an apply reaches the session that awaits it.
Answered(o, t) ==
  /\ run[o].work[t] = "running"
  /\ run'[o].pc = run[o].pc /\ run'[o].todo = run[o].todo
  /\ run'[o].slots = run[o].slots
  /\ \/ run'[o].work = [run[o].work EXCEPT ![t] = "readback"]
     \/ run'[o].work = [run[o].work EXCEPT ![t] = "unknown"]
  /\ run'[o].failed = run[o].failed /\ run'[o].stuck = run[o].stuck
  /\ SameRecord(run'[o], run[o])

\* Nothing else of that session changes: its own invariant is kept.
LEMMA AnsweredKeeps ==
  ASSUME BootstrapInvariant, NEW o \in Runners, NEW t \in Targets, Answered(o, t),
         lock' = [lock EXCEPT ![t] = NoOwner], run' \in [Runners -> Sessions],
         UNCHANGED <<owner, durable, probed, lost, late>>,
         held[o] \subseteq held'[o] /\ good[o] \subseteq good'[o],
         Prepared' \subseteq held'[o] /\ Prepared' \subseteq good'[o]
  PROVE  SessionInv(o)'
<1>1. /\ SessionInv(o) /\ run[o].work \in [Targets -> Work]
      /\ lock \in [Targets -> Runners \cup {NoOwner}]
  BY DEF BootstrapInvariant, TypeOK, Sessions
<1>2. run[o].pc = "preparation" /\ t \notin run[o].todo
  BY <1>1 DEF Answered, SessionInv, FleetOK, WorkOf, Fleets
<1>3. ClaimOK(o)'
  BY <1>1, <1>2, BootstrapAssumption DEF Answered, SessionInv, ClaimOK, Live
<1>4. FleetOK(o)'
  <2>1. {"readback", "unknown"} \subseteq WorkOf("preparation")
    BY DEF WorkOf
  <2>2. /\ run'[o].work[t] \in {"readback", "unknown"}
        /\ \A u \in Targets \ {t} : run'[o].work[u] = run[o].work[u]
    BY <1>1 DEF Answered
  <2>3. run'[o].pc = "preparation" /\ run'[o].todo = run[o].todo
        /\ run'[o].slots = run[o].slots
    BY <1>2 DEF Answered
  <2>4. /\ \A u \in Targets : run[o].work[u] \in WorkOf("preparation")
        /\ \A u \in run[o].todo : run[o].work[u] = "idle"
        /\ run[o].slots <= Cardinality(run[o].todo)
        /\ run[o].todo \subseteq Targets
    BY <1>1, <1>2 DEF SessionInv, FleetOK, Fleets, BootstrapInvariant, TypeOK, Sessions
  <2>5. \A u \in Targets : run'[o].work[u] \in WorkOf("preparation")
    BY <2>1, <2>2, <2>4
  <2>6. \A u \in run[o].todo : run'[o].work[u] = "idle"
    BY <1>2, <2>2, <2>4
  <2> QED
    BY <2>3, <2>4, <2>5, <2>6 DEF FleetOK, Fleets
<1>5. ProbedOK(o)'
  BY <1>1, <1>2 DEF Answered, SessionInv, ProbedOK
<1>6. JournaledOK(o)'
  BY <1>1, <1>2, BootstrapAssumption
  DEF Answered, SameRecord, SessionInv, JournaledOK, Live
<1>7. EvidenceOK(o)'
  BY <1>1, <1>2 DEF Answered, SameRecord, SessionInv, EvidenceOK, Live
<1>8. VerifiedOK(o)'
  BY <1>2 DEF Answered, VerifiedOK
<1>9. FenceOK(o)'
  <2>1. t \in Active(run'[o])
    BY <1>1 DEF Answered, Active
  <2> QED
    BY <1>1, <1>2, <2>1 DEF Answered, SessionInv, FenceOK, Fleets
<1>10. RecordedOK(o)'
  BY <1>1 DEF Answered, SameRecord, SessionInv, RecordedOK
<1> QED
  BY <1>3, <1>4, <1>5, <1>6, <1>7, <1>8, <1>9, <1>10 DEF SessionInv

\* An apply ends.
LEMMA EndedStep ==
  ASSUME BootstrapInvariant, NEW t \in Targets, Completed(t) \/ Broken(t)
  PROVE  BootstrapInvariant'
<1>0. PICK o \in Runners : o = lock[t]
  BY DEF Completed, Broken, Ended, BootstrapInvariant, TypeOK
<1>1. /\ lock' = [lock EXCEPT ![t] = NoOwner]
      /\ \/ UNCHANGED run
         \/ /\ run[o].work[t] = "running"
            /\ SetWork(o, t, "readback") \/ SetWork(o, t, "unknown")
      /\ UNCHANGED <<owner, durable, probed, lost, late>>
  BY <1>0 DEF Completed, Broken, Ended
<1>2. /\ marker' \subseteq Targets /\ images' = images /\ faults' \in 0..MaxFaults
      /\ \/ /\ held' = [u \in Runners |-> held[u] \cup Prepared']
            /\ good' = [u \in Runners |-> good[u] \cup Prepared']
         \/ UNCHANGED <<held, good, marker>>
  <2>1. CASE Completed(t)
    BY <2>1 DEF Completed, Ended, NoteReady, Prepared, NoFault, BootstrapInvariant,
       TypeOK
  <2>2. CASE Broken(t)
    BY <2>2, FaultCounted DEF Broken, Ended, Kinds, BootstrapInvariant, TypeOK
  <2> QED
    BY <2>1, <2>2
<1>3. /\ run' \in [Runners -> Sessions]
      /\ \A u \in Runners \ {o} : run'[u] = run[u]
      /\ run'[o] = run[o] \/ Answered(o, t)
  <2>1. "readback" \in Work /\ "unknown" \in Work /\ TypeOK
    BY DEF Work, Results, BootstrapInvariant
  <2>2. CASE UNCHANGED run
    BY <2>1, <2>2 DEF TypeOK
  <2>3. CASE run[o].work[t] = "running" /\ SetWork(o, t, "readback")
    BY <1>1, <2>1, <2>3, SetWorkTurns DEF Turned, Answered
  <2>4. CASE run[o].work[t] = "running" /\ SetWork(o, t, "unknown")
    BY <1>1, <2>1, <2>4, SetWorkTurns DEF Turned, Answered
  <2> QED
    BY <1>1, <2>2, <2>3, <2>4
<1>4. \A u \in Runners : \A v \in Targets : lock'[v] = u => lock[v] = u
  BY <1>1, BootstrapAssumption DEF BootstrapInvariant, TypeOK
<1>5. \A v \in Targets : lock'[v] \in {lock[v], NoOwner}
  BY <1>1 DEF BootstrapInvariant, TypeOK
<1>6. TypeOK'
  BY <1>1, <1>2, <1>3 DEF BootstrapInvariant, TypeOK, Prepared
<1>7. ASSUME NEW u \in Runners
      PROVE  /\ held[u] \subseteq held'[u] /\ good[u] \subseteq good'[u]
             /\ run[u].pc # "start" =>
                  Prepared' \subseteq held'[u] /\ Prepared' \subseteq good'[u]
  <2>1. EvidenceOK(u)
    BY DEF BootstrapInvariant, SessionInv
  <2> QED
    BY <1>2, <2>1 DEF EvidenceOK, Prepared
<1>8. \A u \in Runners : run'[u] = run[u] => Spares(u)
  BY <1>1, <1>4, <1>5, <1>7 DEF Spares
<1>9. \A u \in Runners : SessionInv(u)'
  <2>1. ASSUME Answered(o, t) PROVE SessionInv(o)'
    <3>1. run[o].pc # "start"
      BY <1>1, <2>1
      DEF Answered, BootstrapInvariant, SessionInv, FleetOK, WorkOf
    <3>2. /\ held[o] \subseteq held'[o] /\ good[o] \subseteq good'[o]
          /\ Prepared' \subseteq held'[o] /\ Prepared' \subseteq good'[o]
      BY <1>1, <1>7, <3>1
    <3> QED
      BY <1>1, <1>3, <2>1, <3>2, AnsweredKeeps
  <2>2. ASSUME NEW u \in Runners, run'[u] = run[u] PROVE SessionInv(u)'
    BY <1>8, <2>2, OtherKeeps DEF BootstrapInvariant
  <2> QED
    BY <1>3, <2>1, <2>2
<1>10. RecordInv'
  <2>1. ASSUME NEW u \in Runners, good[u] = Targets PROVE good'[u] = good[u]
    BY <1>6, <1>7, <2>1 DEF TypeOK
  <2>2. durable.phase = "hosts-ready" /\ durable.runner \in Runners =>
          good[durable.runner] = Targets
    BY DEF BootstrapInvariant, RecordInv, HostsReadyIsFresh
  <2>3. durable \in Records /\ RecordInv
    BY DEF BootstrapInvariant, TypeOK
  <2>4. \A v \in Targets : lock'[v] # NoOwner => lock'[v] = lock[v]
    BY <1>5
  <2> QED
    BY <1>1, <1>5, <1>7, <2>1, <2>2, <2>3, <2>4, RecordStays
<1>11. ProbedBeforeMutation'
  BY <1>1, <1>5 DEF BootstrapInvariant, ProbedBeforeMutation
<1> QED
  BY <1>6, <1>9, <1>10, <1>11 DEF BootstrapInvariant

-----------------------------------------------------------------------------
(* The steps of an SSH session.                                            *)

\* A session of the fleet moves the work on one host on.
Reworked(o, t, w) ==
  /\ run[o].work[t] # "idle" /\ w # "idle" /\ w \in WorkOf(run[o].pc)
  /\ run'[o].pc = run[o].pc
  /\ run'[o].todo = run[o].todo /\ run'[o].slots = run[o].slots
  /\ run'[o].work = [run[o].work EXCEPT ![t] = w]
  /\ run'[o].failed = run[o].failed /\ run'[o].stuck = run[o].stuck
  /\ SameRecord(run'[o], run[o])

\* Of its own invariant, what the work and the locks have to do with is left.
LEMMA ReworkedKeeps ==
  ASSUME BootstrapInvariant, NEW o \in Runners, NEW t \in Targets, NEW w \in Work,
         Reworked(o, t, w), run' \in [Runners -> Sessions],
         UNCHANGED <<owner, durable, images, marker, lost, late>>,
         held' = held, probed[o] \subseteq probed'[o], probed'[o] \subseteq Targets,
         Prepared \subseteq good'[o],
         run[o].pc = "preflight" => w \in {"probe", "unknown"} \/ t \in probed'[o],
         w = "ready" => t \in held[o],
         JournaledOK(o)', VerifiedOK(o)'
  PROVE  SessionInv(o)'
<1>1. /\ SessionInv(o) /\ run[o] \in Sessions /\ run'[o] \in Sessions
      /\ run[o].work \in [Targets -> Work] /\ run[o].todo \subseteq Targets
  BY DEF BootstrapInvariant, TypeOK, Sessions
<1>2. /\ run[o].pc \in Fleets /\ t \notin run[o].todo
      /\ run'[o].work[t] = w
      /\ \A u \in Targets \ {t} : run'[o].work[u] = run[o].work[u]
  <2>1. run[o].pc \in Fleets
    BY <1>1 DEF Reworked, SessionInv, FleetOK, WorkOf, Fleets
  <2> QED
    BY <1>1, <2>1 DEF Reworked, SessionInv, FleetOK
<1>3. ClaimOK(o)'
  BY <1>1, <1>2 DEF Reworked, SessionInv, ClaimOK, Live, Fleets
<1>4. FleetOK(o)'
  BY <1>1, <1>2 DEF Reworked, SessionInv, FleetOK
<1>5. ProbedOK(o)'
  <2>1. probed[o] = Targets => probed'[o] = Targets
    OBVIOUS
  <2> QED
    BY <1>1, <1>2, <2>1 DEF Reworked, SessionInv, ProbedOK
<1>6. EvidenceOK(o)'
  <2>1. Prepared' = Prepared
    BY DEF Prepared
  <2> QED
    BY <1>1, <1>2, <2>1 DEF Reworked, SameRecord, SessionInv, EvidenceOK, Live
<1>7. FenceOK(o)'
  <2>1. t \in Active(run'[o])
    BY <1>2 DEF Reworked, Active
  <2> QED
    BY <1>1, <1>2, <2>1 DEF Reworked, SessionInv, FenceOK, Fleets
<1>8. RecordedOK(o)'
  BY <1>1 DEF Reworked, SameRecord, SessionInv, RecordedOK
<1> QED
  BY <1>3, <1>4, <1>5, <1>6, <1>7, <1>8 DEF SessionInv

\* A host has work in a fleet only, and each fleet has its own kinds.
LEMMA WorkPlace ==
  ASSUME BootstrapInvariant, NEW o \in Runners, NEW t \in Targets
  PROVE  /\ run[o].work[t] # "idle" => run[o].pc \in Fleets
         /\ run[o].work[t] \in {"apply", "running", "readback"} =>
              run[o].pc = "preparation"
         /\ run[o].work[t] = "probe" => run[o].pc \in {"preflight", "verification"}
  BY DEF BootstrapInvariant, SessionInv, FleetOK, WorkOf, Fleets

\* A probe answers, of a host that no apply holds.
LEMMA ProbeStep ==
  ASSUME BootstrapInvariant, NEW o \in Runners, NEW t \in Targets, Probe(o, t)
  PROVE  BootstrapInvariant'
<1> DEFINE w == IF t \in Prepared THEN "ready" ELSE Unready(o)
<1>1. /\ TypeOK /\ SessionInv(o) /\ RecordInv
      /\ run[o].work \in [Targets -> Work]
  BY DEF BootstrapInvariant, TypeOK, Sessions
<1>2. /\ run[o].work[t] \in {"probe", "readback"} /\ lock[t] = NoOwner
      /\ SetWork(o, t, w)
      /\ probed' = [probed EXCEPT ![o] = IF run[o].pc = "preflight"
                                         THEN @ \cup {t} ELSE @]
      /\ UNCHANGED <<owner, durable, hosts, held, good, lost, late, faults>>
  BY DEF Probe, LockFree
<1>3. /\ w \in Work /\ w # "idle" /\ w \in WorkOf(run[o].pc)
      /\ w = "ready" => t \in Prepared
  BY <1>2, WorkPlace DEF Work, Results, Unready, WorkOf
<1> HIDE DEF w
<1>4. w = "ready" => t \in held[o] /\ t \in good[o]
  BY <1>1, <1>2, <1>3, WorkPlace DEF SessionInv, EvidenceOK, Fleets
<1>5. Turned(o, run'[o]) /\ Reworked(o, t, w)
  BY <1>1, <1>2, <1>3, SetWorkTurns DEF Reworked
<1>6. /\ run'[o].work[t] = w
      /\ \A u \in Targets \ {t} : run'[o].work[u] = run[o].work[u]
  BY <1>1, <1>5 DEF Reworked
<1>7. /\ probed[o] \subseteq probed'[o] /\ probed'[o] \subseteq Targets
      /\ run[o].pc = "preflight" => t \in probed'[o]
      /\ \A u \in Runners \ {o} : probed'[u] = probed[u]
  BY <1>1, <1>2 DEF TypeOK
<1>8. JournaledOK(o)'
  BY <1>1, <1>2, <1>5, <1>6, BootstrapAssumption
  DEF hosts, Reworked, SameRecord, SessionInv, JournaledOK, Live
<1>9. VerifiedOK(o)'
  <2>1. ASSUME NEW u \in Targets, Settled(o, u) PROVE Settled(o, u)'
    BY <1>2, <2>1 DEF hosts, Settled
  <2>2. w = "ready" => Settled(o, t)'
    BY <1>2, <1>4 DEF hosts, Settled
  <2> QED
    BY <1>1, <1>3, <1>5, <1>6, <2>1, <2>2
    DEF Reworked, SameRecord, SessionInv, VerifiedOK
<1>10. SessionInv(o)'
  <2>1. Prepared \subseteq good'[o]
    BY <1>1, <1>2, WorkPlace DEF SessionInv, EvidenceOK, Fleets
  <2> QED
    BY <1>2, <1>3, <1>4, <1>5, <1>7, <1>8, <1>9, <2>1, ReworkedKeeps
    DEF hosts, Turned
<1>11. TypeOK'
  BY <1>1, <1>2, <1>5 DEF hosts, Turned, TypeOK
<1>12. \A u \in Runners \ {o} : Spares(u)
  BY <1>2, <1>5, <1>7 DEF hosts, Turned, Spares, Prepared, BootstrapInvariant,
     SessionInv, EvidenceOK
<1>13. RecordInv'
  BY <1>1, <1>2, RecordStays DEF hosts, TypeOK
<1>14. ProbedBeforeMutation'
  BY <1>1, <1>2, <1>7 DEF hosts, BootstrapInvariant, ProbedBeforeMutation, TypeOK
<1> QED
  BY <1>10, <1>11, <1>12, <1>13, <1>14, SessionStepKeeps

\* An apply begins: it takes the lock of a host that the journal shows as being
\* prepared, unless the session has lost its claim.
LEMMA ApplyStep ==
  ASSUME BootstrapInvariant, NEW o \in Runners, NEW t \in Targets, Apply(o, t)
  PROVE  BootstrapInvariant'
<1>1. /\ TypeOK /\ SessionInv(o) /\ RecordInv
      /\ run[o].work \in [Targets -> Work]
  BY DEF BootstrapInvariant, TypeOK, Sessions
<1>2. /\ run[o].work[t] = "apply" /\ lock[t] = NoOwner
      /\ SetWork(o, t, "running") /\ lock' = [lock EXCEPT ![t] = o]
      /\ good' = [good EXCEPT ![o] = Prepared]
      /\ UNCHANGED <<owner, durable, images, marker, probed, held, lost, late,
                    faults>>
  BY DEF Apply
<1>3. /\ run[o].pc = "preparation" /\ "running" \in Work
      /\ "running" \in WorkOf("preparation")
  BY <1>2, WorkPlace DEF Work, WorkOf
<1>4. Turned(o, run'[o]) /\ Reworked(o, t, "running")
  BY <1>1, <1>2, <1>3, SetWorkTurns DEF Reworked
<1>5. /\ run'[o].work[t] = "running"
      /\ \A u \in Targets \ {t} : run'[o].work[u] = run[o].work[u]
  BY <1>1, <1>4 DEF Reworked
<1>6. lock'[t] = o /\ \A u \in Targets \ {t} : lock'[u] = lock[u]
  BY <1>1, <1>2 DEF TypeOK
<1>7. /\ good'[o] = Prepared /\ Prepared' = Prepared
      /\ \A u \in Runners \ {o} : good'[u] = good[u]
  BY <1>1, <1>2 DEF TypeOK, Prepared
<1>8. /\ durable.runner = o =>
           durable.phase = "preparing" /\ durable.node[t] = "preparing"
      /\ o \in lost \/ durable.runner = o
      /\ owner = o \/ o \in lost
      /\ run[o].local.node[t] = "preparing"
  BY <1>1, <1>2, <1>3
  DEF SessionInv, RecordedOK, JournaledOK, ClaimOK, Live, Working, Fleets, Stopped
<1>9. JournaledOK(o)'
  BY <1>1, <1>2, <1>3, <1>4, <1>5, <1>6, <1>8
  DEF Reworked, SameRecord, SessionInv, JournaledOK, Live
<1>10. VerifiedOK(o)'
  BY <1>3, <1>4 DEF Reworked, VerifiedOK
<1>11. SessionInv(o)'
  BY <1>1, <1>2, <1>3, <1>4, <1>7, <1>9, <1>10, ReworkedKeeps DEF Turned, TypeOK
<1>12. TypeOK'
  BY <1>1, <1>2, <1>4, <1>7 DEF Turned, TypeOK, Prepared
<1>13. ASSUME NEW u \in Runners, u # o PROVE Spares(u)
  <2>1. SessionInv(u)
    BY DEF BootstrapInvariant
  <2> QED
    BY <1>2, <1>4, <1>6, <1>7, <1>8, <1>13, <2>1
    DEF Turned, Spares, SessionInv, EvidenceOK
<1>14. RecordInv'
  <2>1. durable.phase = "hosts-ready" => durable.runner # o /\ o \in lost
    BY <1>8
  <2> QED
    BY <1>1, <1>2, <1>6, <1>7, <1>8, <2>1, RecordStays DEF TypeOK
<1>15. ProbedBeforeMutation'
  <2>1. probed[o] = Targets
    BY <1>1, <1>3 DEF SessionInv, ProbedOK
  <2> QED
    BY <1>2, <1>6, <2>1 DEF BootstrapInvariant, ProbedBeforeMutation
<1> QED
  BY <1>11, <1>12, <1>13, <1>14, <1>15, SessionStepKeeps

\* The session to a host ends without an answer; what runs on the host goes on.
LEMMA DisconnectStep ==
  ASSUME BootstrapInvariant, NEW o \in Runners, NEW t \in Targets,
         Disconnected(o, t) \/ Refused(o, t)
  PROVE  BootstrapInvariant'
<1>1. /\ TypeOK /\ SessionInv(o) /\ RecordInv
      /\ run[o].work \in [Targets -> Work]
  BY DEF BootstrapInvariant, TypeOK, Sessions
<1>2. /\ run[o].work[t] \in {"probe", "apply", "running", "readback"}
      /\ SetWork(o, t, "unknown")
      /\ UNCHANGED <<owner, durable, hosts, history>>
      /\ faults' \in 0..MaxFaults
  BY <1>1, FaultCounted DEF Disconnected, Refused, Disconnects, Kinds
<1>3. /\ "unknown" \in Work /\ "unknown" \in WorkOf(run[o].pc)
  BY <1>2, WorkPlace DEF Work, Results, WorkOf
<1>4. Turned(o, run'[o]) /\ Reworked(o, t, "unknown")
  BY <1>1, <1>2, <1>3, SetWorkTurns DEF Reworked
<1>5. /\ run'[o].work[t] = "unknown"
      /\ \A u \in Targets \ {t} : run'[o].work[u] = run[o].work[u]
  BY <1>1, <1>4 DEF Reworked
<1>6. JournaledOK(o)'
  BY <1>1, <1>2, <1>4, <1>5
  DEF hosts, Reworked, SameRecord, SessionInv, JournaledOK, Live
<1>7. VerifiedOK(o)'
  <2>1. ASSUME NEW u \in Targets, Settled(o, u) PROVE Settled(o, u)'
    BY <1>2, <2>1 DEF hosts, history, Settled
  <2> QED
    BY <1>1, <1>4, <1>5, <2>1 DEF Reworked, SameRecord, SessionInv, VerifiedOK
<1>8. SessionInv(o)'
  <2>1. Prepared \subseteq good'[o] /\ probed'[o] \subseteq Targets
    BY <1>1, <1>2, WorkPlace DEF history, SessionInv, EvidenceOK, Fleets, TypeOK
  <2> QED
    BY <1>2, <1>3, <1>4, <1>6, <1>7, <2>1, ReworkedKeeps DEF hosts, history, Turned
<1>9. TypeOK'
  BY <1>1, <1>2, <1>4 DEF hosts, history, Turned, TypeOK
<1>10. \A u \in Runners \ {o} : Spares(u)
  BY <1>2, <1>4 DEF hosts, history, Turned, Spares, Prepared, BootstrapInvariant,
     SessionInv, EvidenceOK
<1>11. RecordInv'
  BY <1>1, <1>2, RecordStays DEF hosts, history, TypeOK
<1>12. ProbedBeforeMutation'
  BY <1>1, <1>2 DEF hosts, history, BootstrapInvariant, ProbedBeforeMutation
<1> QED
  BY <1>8, <1>9, <1>10, <1>11, <1>12, SessionStepKeeps

-----------------------------------------------------------------------------
(* The steps of a session.                                                 *)

\* A step that changes nothing but the session.
LEMMA TurnKeeps ==
  ASSUME BootstrapInvariant, NEW o \in Runners, Turned(o, run'[o]),
         UNCHANGED <<owner, durable, hosts, history>>, faults' \in 0..MaxFaults,
         SessionInv(o)'
  PROVE  BootstrapInvariant'
<1>1. TypeOK /\ RecordInv
  BY DEF BootstrapInvariant
<1>2. TypeOK'
  BY <1>1 DEF hosts, history, Turned, TypeOK
<1>3. \A u \in Runners \ {o} : Spares(u)
  BY DEF hosts, history, Turned, Spares, Prepared, BootstrapInvariant, SessionInv,
     EvidenceOK
<1>4. RecordInv'
  BY <1>1, RecordStays DEF hosts, history, TypeOK
<1>5. ProbedBeforeMutation'
  BY DEF hosts, history, BootstrapInvariant, ProbedBeforeMutation
<1> QED
  BY <1>2, <1>3, <1>4, <1>5, SessionStepKeeps

\* A checkpoint lands for the holder of the claim, who then may or may not know
\* it, or it never does and the session is behind.
LEMMA SaveOutcome ==
  ASSUME TypeOK, NEW o \in Runners, NEW s \in Sessions, NEW ok \in Sessions,
         NEW bad \in Sessions, NEW own \in BOOLEAN, Save(o, s, ok, bad, own)
  PROVE  /\ Turned(o, run'[o]) /\ faults' \in 0..MaxFaults
         /\ UNCHANGED <<owner, hosts>>
         /\ \/ owner = o /\ ~s.behind /\ durable' = s.local /\ run'[o] \in {ok, bad}
            \/ durable' = durable /\ run'[o] = [bad EXCEPT !.behind = TRUE]
<1>1. /\ UNCHANGED <<owner, hosts>>
      /\ NoFault \/ Fault("save")
      /\ \/ /\ owner = o /\ ~s.behind /\ durable' = s.local
            /\ Set(o, ok) \/ Set(o, bad)
         \/ durable' = durable /\ Set(o, [bad EXCEPT !.behind = TRUE])
  BY DEF Save
<1>2. faults' \in 0..MaxFaults
  BY <1>1, FaultCounted DEF Kinds
<1>3. [bad EXCEPT !.behind = TRUE] \in Sessions
  BY BehindFields
<1> QED
  BY <1>1, <1>2, <1>3, SetTurns DEF Turned

\* A record that a session may save: its own, and true of the hosts.
Sound(o, r) ==
  /\ r \in Records /\ Valid(r) /\ r.runner = o
  /\ r.phase = "hosts-ready" =>
       good[o] = Targets /\ \A t \in Targets : lock[t] \in {NoOwner} \cup lost
  /\ \A t \in Targets :
       /\ r.node[t] = "ready" => t \in held[o]
       /\ lock[t] = o => r.node[t] \in {"preparing", "unknown"}

\* A sound record may reach the journal.
LEMMA SavedKeeps ==
  ASSUME BootstrapInvariant, NEW o \in Runners, Turned(o, run'[o]),
         UNCHANGED <<owner, hosts, history>>, faults' \in 0..MaxFaults,
         NEW r, owner = o => Sound(o, r),
         durable' = durable \/ (owner = o /\ durable' = r),
         SessionInv(o)'
  PROVE  BootstrapInvariant'
<1>1. CASE durable' = durable
  BY <1>1, TurnKeeps
<1>2. CASE owner = o /\ durable' = r
  <2>1. Sound(o, r)
    BY <1>2
  <2>2. TypeOK'
    BY <1>2, <2>1 DEF Sound, hosts, history, Turned, BootstrapInvariant, TypeOK
  <2>3. \A u \in Runners \ {o} : Spares(u)
    BY <1>2, <2>1 DEF Sound, hosts, history, Turned, Spares, Prepared,
       BootstrapInvariant, SessionInv, EvidenceOK
  <2>4. RecordInv'
    BY <1>2, <2>1, BootstrapAssumption
    DEF Sound, hosts, history, RecordInv, HostsReadyIsFresh, ReadyIsEvidence,
        SettledWhenReady, JournaledMutation
  <2>5. ProbedBeforeMutation'
    BY DEF hosts, history, BootstrapInvariant, ProbedBeforeMutation
  <2> QED
    BY <2>2, <2>3, <2>4, <2>5, SessionStepKeeps
<1> QED
  BY <1>1, <1>2

\* What a running session was, in the form the next lemmas ask for.
LEMMA SessionFacts ==
  ASSUME BootstrapInvariant, NEW o \in Runners
  PROVE  /\ TypeOK /\ SessionInv(o) /\ run[o] \in Sessions
         /\ run[o].local \in Records /\ run[o].work \in [Targets -> Work]
         /\ run[o].slots \in 0..Parallel /\ run[o].todo \subseteq Targets
         /\ late[o] \in 0..N
         /\ run[o].pc \notin Fleets =>
              run[o].slots = 0 /\ \A t \in Targets : run[o].work[t] = "idle"
         /\ Live(o) /\ run[o].pc # "claimed" =>
              /\ run[o].local.runner = o
              /\ \A t \in Targets :
                   /\ run[o].local.node[t] = "ready" => t \in held[o]
                   /\ lock[t] = o => run[o].local.node[t] \in {"preparing", "unknown"}
         /\ run[o].pc \in Working => run[o].local.phase = "preparing"
  BY DEF BootstrapInvariant, TypeOK, Sessions, SessionInv, FleetOK, WorkOf,
     EvidenceOK, JournaledOK, Fleets

\* A session that winds down keeps its record, and what runs on the hosts goes
\* on; it releases its claim only after its outcome was recorded or it is behind.
LEMMA WindsDown ==
  ASSUME BootstrapInvariant, NEW o \in Runners, Live(o),
         UNCHANGED <<owner, hosts, history>>,
         NEW n \in Sessions, run'[o] = n, n.pc \in {"failed", "releasing"},
         n.slots = 0,
         \A t \in Targets : n.work[t] = "idle",
         n.local.runner = o,
         \A t \in Targets :
           /\ n.local.node[t] = "ready" => t \in held[o]
           /\ lock[t] = o => n.local.node[t] \in {"preparing", "unknown"},
         n.pc = "releasing" /\ durable'.runner = o /\ ~n.behind =>
           durable'.phase \in {"interrupted", "hosts-ready"}
  PROVE  SessionInv(o)'
<1>1. /\ SessionInv(o) /\ late[o] \in 0..N /\ run[o].slots \in 0..Parallel
      /\ IsFiniteSet(n.todo) /\ Cardinality(n.todo) \in Nat
  <2>1. IsFiniteSet(Targets)
    BY BootstrapAssumption, FS_Interval DEF Targets
  <2>2. IsFiniteSet(n.todo)
    BY <2>1, FS_Subset DEF Sessions
  <2> QED
    BY <2>2, FS_CardinalityType, SessionFacts
<1>2. ClaimOK(o)'
  BY <1>1 DEF history, SessionInv, ClaimOK, Live, Stopped
<1>3. FleetOK(o)'
  BY <1>1 DEF FleetOK, WorkOf, Fleets
<1>4. ProbedOK(o)' /\ VerifiedOK(o)'
  BY DEF ProbedOK, VerifiedOK
<1>5. JournaledOK(o)'
  BY DEF hosts, JournaledOK
<1>6. EvidenceOK(o)'
  BY <1>1 DEF hosts, history, SessionInv, EvidenceOK, Live, Working, Fleets, Prepared
<1>7. FenceOK(o)'
  BY <1>1, BootstrapAssumption DEF history, SessionInv, FenceOK, Fleets
<1>8. RecordedOK(o)'
  BY DEF RecordedOK, Working, Fleets
<1> QED
  BY <1>2, <1>3, <1>4, <1>5, <1>6, <1>7, <1>8 DEF SessionInv

\* A checkpoint between fleets: it lands and the session goes on, or the session
\* fails, with the record it meant to save.
LEMMA CheckpointKeeps ==
  ASSUME BootstrapInvariant, NEW o \in Runners, Live(o), run[o].pc \notin Fleets,
         NEW s \in Sessions, SameFleet(s, run[o]), s.local.runner = o,
         \A t \in Targets :
           /\ s.local.node[t] = "ready" => t \in held[o]
           /\ lock[t] = o => s.local.node[t] \in {"preparing", "unknown"},
         owner = o => Sound(o, s.local),
         NEW ok \in Sessions, NEW own \in BOOLEAN,
         Save(o, s, ok, Goes(s, "failed"), own), UNCHANGED history,
         /\ run'[o] = ok /\ owner = o /\ durable' = s.local /\ UNCHANGED <<owner, hosts>>
           => SessionInv(o)'
  PROVE  BootstrapInvariant'
<1> DEFINE bad == Goes(s, "failed")
           lag == [bad EXCEPT !.behind = TRUE]
           r   == s.local
<1>1. Save(o, s, ok, bad, own)
  OBVIOUS
<1>2. /\ TypeOK /\ run[o].slots = 0
      /\ \A t \in Targets : run[o].work[t] = "idle"
  BY SessionFacts
<1>3. bad \in Sessions /\ bad.pc = "failed" /\ SameFleet(bad, s) /\ bad.local = r
  BY GoesFields DEF Steps, SameRecord
<1> HIDE DEF bad
<1>4. lag \in Sessions /\ lag.pc = "failed" /\ SameFleet(lag, bad) /\ lag.local = r
  BY <1>3, BehindFields
<1>5. /\ Turned(o, run'[o]) /\ faults' \in 0..MaxFaults
      /\ UNCHANGED <<owner, hosts>>
      /\ \/ owner = o /\ durable' = r /\ run'[o] \in {ok, bad}
         \/ durable' = durable /\ run'[o] = lag
  BY <1>1, <1>2, <1>3, SaveOutcome
<1> HIDE DEF lag, r
<1>6. CASE run'[o] \in {bad, lag}
  <2>1. /\ run'[o] \in Sessions /\ run'[o].pc = "failed" /\ run'[o].slots = 0
        /\ \A t \in Targets : run'[o].work[t] = "idle"
        /\ run'[o].local = r
    BY <1>2, <1>3, <1>4, <1>6 DEF SameFleet
  <2>2. SessionInv(o)'
    BY <1>5, <2>1, WindsDown DEF r
  <2> QED
    BY <1>5, <2>2, SavedKeeps DEF r
<1>7. CASE run'[o] = ok /\ owner = o /\ durable' = r
  <2>1. SessionInv(o)'
    BY <1>5, <1>7 DEF r
  <2> QED
    BY <1>5, <1>7, <2>1, SavedKeeps DEF r
<1> QED
  BY <1>5, <1>6, <1>7

\* The whole fleet is reset before anything is asked of it.
LEMMA ResetStep ==
  ASSUME BootstrapInvariant, NEW o \in Runners, Reset(o)
  PROVE  BootstrapInvariant'
<1> DEFINE r == [phase |-> "preparing", node |-> FreshNodes(run[o]), runner |-> o]
           s == [run[o] EXCEPT !.local = r]
           ok == Goes(s, "scoping")
<1>1. /\ TypeOK /\ SessionInv(o) /\ run[o] \in Sessions
      /\ run[o].slots = 0 /\ \A t \in Targets : run[o].work[t] = "idle"
  BY SessionFacts DEF Reset, Fleets
<1>2. /\ run[o].pc = "claimed" /\ UNCHANGED history
      /\ Save(o, s, ok, Goes(s, "failed"), FALSE)
  BY DEF Reset, SaveOrFail
<1>3. /\ r \in Records /\ r.phase = "preparing" /\ r.runner = o
      /\ \A t \in Targets : r.node[t] = "pending"
  BY DEF Records, Phases, NodePhases, FreshNodes, AllNodes
<1> HIDE DEF r
<1>4. s \in Sessions /\ SameFleet(s, run[o]) /\ s.local = r
  BY <1>1, <1>3, LocalFields
<1> HIDE DEF s
<1>5. ok \in Sessions /\ ok.pc = "scoping" /\ SameFleet(ok, s) /\ ok.local = r
  BY <1>4, GoesFields DEF Steps, SameRecord
<1> HIDE DEF ok
<1>6. \A t \in Targets : lock[t] # o
  BY <1>1, <1>2 DEF SessionInv, ClaimOK
<1>7. Sound(o, r)
  BY <1>3, <1>6 DEF Sound, Valid
<1>8. Live(o) /\ run[o].pc \notin Fleets
  BY <1>2 DEF Live, Stopped, Fleets
<1>9. ASSUME run'[o] = ok, owner = o, durable' = r, UNCHANGED <<owner, hosts>>
      PROVE  SessionInv(o)'
  <2>1. /\ run'[o].pc = "scoping" /\ run'[o].slots = 0
        /\ run'[o].todo = run[o].todo /\ run'[o].local = r
        /\ \A t \in Targets : run'[o].work[t] = "idle"
    BY <1>1, <1>4, <1>5, <1>9 DEF SameFleet
  <2>2. ClaimOK(o)'
    BY <1>1, <1>2, <1>9, <2>1 DEF history, SessionInv, ClaimOK, Live, Stopped
  <2>3. FleetOK(o)' /\ ProbedOK(o)' /\ VerifiedOK(o)'
    BY <1>1, <1>2, <2>1
    DEF SessionInv, FleetOK, ProbedOK, VerifiedOK, WorkOf, Fleets
  <2>4. JournaledOK(o)'
    BY <1>6, <1>9, <2>1 DEF hosts, JournaledOK
  <2>5. EvidenceOK(o)'
    BY <1>1, <1>2, <1>3, <1>9, <2>1
    DEF hosts, history, SessionInv, EvidenceOK, Prepared
  <2>6. FenceOK(o)' /\ RecordedOK(o)'
    BY <1>1, <1>2, <1>3, <1>9, <2>1
    DEF history, SessionInv, ClaimOK, FenceOK, RecordedOK, Fleets
  <2> QED
    BY <2>2, <2>3, <2>4, <2>5, <2>6 DEF SessionInv
<1> QED
  BY <1>2, <1>3, <1>4, <1>5, <1>6, <1>7, <1>8, <1>9, CheckpointKeeps

\* A fleet begins: what it is to do, and what the record says of its hosts.
LEMMA FleetBegins ==
  ASSUME BootstrapInvariant, NEW o \in Runners,
         run[o].pc \in {"scoping", "marking", "rescoping"},
         NEW p \in Fleets, NEW S \in SUBSET Targets, NEW n \in Sessions,
         run'[o] = n, n.pc = p, n.todo = S, n.work = run[o].work,
         ~n.failed, ~n.stuck,
         n.slots <= Cardinality(S), n.slots <= Parallel, n.slots <= N,
         UNCHANGED <<owner, hosts, history>>,
         p # "preparation" => S = Targets,
         p = "preparation" =>
           /\ probed[o] = Targets
           /\ \A t \in S : n.local.node[t] = "preparing"
                        /\ (durable'.runner = o => durable'.node[t] = "preparing"),
         n.local.runner = o, n.local.phase = "preparing",
         \A t \in Targets : n.local.node[t] = "ready" => t \in held[o],
         durable'.runner = o => durable'.phase = "preparing",
         owner = o => durable'.runner = o
  PROVE  SessionInv(o)'
<1>1. /\ SessionInv(o) /\ \A t \in Targets : run[o].work[t] = "idle"
      /\ "idle" \in WorkOf(p)
  BY SessionFacts DEF Fleets, WorkOf
<1>2. \A t \in Targets : lock[t] # o
  BY <1>1 DEF SessionInv, JournaledOK, Stopped
<1>3. ClaimOK(o)'
  BY <1>1 DEF history, SessionInv, ClaimOK, Live, Stopped, Fleets
<1>4. FleetOK(o)'
  BY <1>1 DEF FleetOK
<1>5. ProbedOK(o)'
  BY <1>1 DEF history, ProbedOK, Fleets
<1>6. JournaledOK(o)'
  BY <1>1, <1>2 DEF hosts, JournaledOK
<1>7. EvidenceOK(o)'
  BY <1>1 DEF hosts, history, SessionInv, EvidenceOK, Prepared, Fleets
<1>8. VerifiedOK(o)'
  BY <1>1 DEF VerifiedOK, Fleets
<1>9. FenceOK(o)'
  <2>1. late'[o] = 0 /\ (o \in lost' <=> o \in lost) /\ n.slots \in 0..Parallel
    BY <1>1 DEF history, SessionInv, FenceOK, Sessions
  <2> QED
    BY <2>1, BootstrapAssumption DEF FenceOK, Fleets
<1>10. RecordedOK(o)'
  BY DEF RecordedOK, Fleets
<1> QED
  BY <1>3, <1>4, <1>5, <1>6, <1>7, <1>8, <1>9, <1>10 DEF SessionInv

\* Between fleets a session holds no host, and its record is sound.
LEMMA BetweenFleets ==
  ASSUME BootstrapInvariant, NEW o \in Runners,
         run[o].pc \in {"scoping", "marking", "rescoping", "publishing"}
  PROVE  /\ \A t \in Targets : lock[t] # o
         /\ Live(o) /\ run[o].pc \notin Fleets \cup {"claimed"}
         /\ owner = o => durable.runner = o
         /\ durable.runner = o => durable.phase = "preparing"
  BY DEF BootstrapInvariant, SessionInv, JournaledOK, RecordedOK, Stopped, Live,
     Fleets, Working

\* The preflight begins under a checkpoint.
LEMMA CheckStep ==
  ASSUME BootstrapInvariant, NEW o \in Runners, Check(o)
  PROVE  BootstrapInvariant'
<1> DEFINE f == AllNodes("checking")
           s == [run[o] EXCEPT !.local.node = f]
           n == FleetOf(s, "preflight", Targets)
<1>1. /\ run[o].pc = "scoping" /\ UNCHANGED history
      /\ Save(o, s, n, Goes(s, "failed"), FALSE)
  BY DEF Check
<1>2. f \in [Targets -> NodePhases] /\ \A t \in Targets : f[t] = "checking"
  BY DEF AllNodes, NodePhases
<1> HIDE DEF f
<1>3. /\ s \in Sessions /\ SameFleet(s, run[o]) /\ s.local.node = f
      /\ s.local.phase = "preparing" /\ s.local.runner = o
  <2>1. /\ run[o] \in Sessions /\ run[o].local.phase = "preparing"
        /\ run[o].local.runner = o
    BY <1>1, SessionFacts, BetweenFleets DEF Working
  <2> QED
    BY <1>2, <2>1, NodesFields
<1> HIDE DEF s
<1>4. /\ n \in Sessions /\ n.pc = "preflight" /\ n.todo = Targets
      /\ n.work = s.work /\ ~n.failed /\ ~n.stuck /\ n.local = s.local
      /\ n.slots <= Cardinality(Targets) /\ n.slots <= Parallel /\ n.slots <= N
  BY <1>3, FleetFields DEF Fleets, SameRecord
<1> HIDE DEF n
<1>5. Sound(o, s.local)
  BY <1>1, <1>2, <1>3, BetweenFleets DEF Sound, Valid, Sessions
<1>6. ASSUME run'[o] = n, owner = o, durable' = s.local, UNCHANGED <<owner, hosts>>
      PROVE  SessionInv(o)'
  <2>1. n.work = run[o].work
    BY <1>3, <1>4 DEF SameFleet
  <2>2. "preflight" \in Fleets /\ Targets \in SUBSET Targets
    BY DEF Fleets
  <2> QED
    BY <1>1, <1>2, <1>3, <1>4, <1>6, <2>1, <2>2, FleetBegins
<1> QED
  BY <1>1, <1>2, <1>3, <1>4, <1>5, <1>6, BetweenFleets, CheckpointKeeps

\* "No host is mutated unless this claim is still ours."
LEMMA MarkStep ==
  ASSUME BootstrapInvariant, NEW o \in Runners, Mark(o)
  PROVE  BootstrapInvariant'
<1> DEFINE S == Pending(run[o])
           f == [t \in Targets |-> IF t \in S THEN "preparing"
                                   ELSE run[o].local.node[t]]
           s == [run[o] EXCEPT !.local.node = f]
           n == FleetOf(s, "preparation", S)
<1>1. /\ run[o].pc = "marking" /\ UNCHANGED history
      /\ \/ /\ S = {} /\ Set(o, n)
            /\ UNCHANGED <<owner, durable, hosts, faults>>
         \/ Save(o, s, n, Goes(s, "failed"), FALSE)
  BY DEF Mark, NoFault, Preparation, Marked
<1>2. /\ S \in SUBSET Targets /\ \A t \in Targets \ S : run[o].local.node[t] = "ready"
      /\ run[o].local.node \in [Targets -> NodePhases]
      /\ run[o] \in Sessions
  BY SessionFacts DEF Pending, Records
<1> HIDE DEF S
<1>3. /\ f \in [Targets -> NodePhases]
      /\ \A t \in Targets : f[t] = IF t \in S THEN "preparing" ELSE "ready"
  BY <1>2 DEF NodePhases
<1> HIDE DEF f
<1>4. /\ s \in Sessions /\ SameFleet(s, run[o]) /\ s.local.node = f
      /\ s.local.phase = "preparing" /\ s.local.runner = o
  <2>1. /\ run[o] \in Sessions /\ run[o].local.phase = "preparing"
        /\ run[o].local.runner = o
    BY <1>1, SessionFacts, BetweenFleets DEF Working
  <2> QED
    BY <1>3, <2>1, NodesFields
<1> HIDE DEF s
<1>5. /\ n \in Sessions /\ n.pc = "preparation" /\ n.todo = S
      /\ n.work = s.work /\ ~n.failed /\ ~n.stuck /\ n.local = s.local
      /\ n.slots <= Cardinality(S) /\ n.slots <= Parallel /\ n.slots <= N
  BY <1>2, <1>4, FleetFields DEF Fleets, SameRecord
<1> HIDE DEF n
<1>6. \A t \in Targets : s.local.node[t] = "ready" => t \in held[o]
  BY <1>1, <1>2, <1>3, <1>4, SessionFacts, BetweenFleets
<1>7. Sound(o, s.local)
  BY <1>1, <1>4, <1>6, BetweenFleets DEF Sound, Valid, Sessions
<1>8. ASSUME run'[o] = n, UNCHANGED <<owner, hosts>>,
             durable' = s.local \/ (S = {} /\ durable' = durable)
      PROVE  SessionInv(o)'
  <2>1. n.work = run[o].work /\ probed[o] = Targets
    BY <1>1, <1>4, <1>5 DEF SameFleet, BootstrapInvariant, SessionInv, ProbedOK
  <2>2. "preparation" \in Fleets
    BY DEF Fleets
  <2>3. /\ durable'.runner = o => durable'.phase = "preparing"
        /\ owner = o => durable'.runner = o
        /\ \A t \in S : n.local.node[t] = "preparing"
                     /\ (durable'.runner = o => durable'.node[t] = "preparing")
    BY <1>1, <1>2, <1>3, <1>4, <1>5, <1>8, BetweenFleets
  <2> QED
    BY <1>1, <1>2, <1>4, <1>5, <1>6, <1>8, <2>1, <2>2, <2>3, FleetBegins
<1>9. CASE S = {} /\ Set(o, n) /\ UNCHANGED <<owner, durable, hosts, faults>>
  <2>1. Turned(o, run'[o]) /\ run'[o] = n
    BY <1>5, <1>9, SetTurns, SessionFacts DEF Turned
  <2>2. faults' \in 0..MaxFaults
    BY <1>9, SessionFacts DEF TypeOK
  <2> QED
    BY <1>1, <1>8, <1>9, <2>1, <2>2, TurnKeeps
<1>10. CASE Save(o, s, n, Goes(s, "failed"), FALSE)
  BY <1>1, <1>4, <1>5, <1>6, <1>7, <1>8, <1>10, BetweenFleets, CheckpointKeeps
<1> QED
  BY <1>1, <1>9, <1>10

\* hosts-ready is published when the whole fleet was found prepared and settled.
LEMMA PublishStep ==
  ASSUME BootstrapInvariant, NEW o \in Runners, Publish(o)
  PROVE  BootstrapInvariant'
<1> DEFINE s == [run[o] EXCEPT !.local.phase = "hosts-ready"]
           n == Goes(s, "releasing")
<1>1. /\ run[o].pc = "publishing" /\ UNCHANGED history
      /\ Save(o, s, n, Goes(s, "failed"), FALSE)
  BY DEF Publish, SaveOrFail
<1>2. /\ s \in Sessions /\ SameFleet(s, run[o]) /\ s.local.phase = "hosts-ready"
      /\ s.local.runner = o /\ s.local.node = run[o].local.node
  <2>1. /\ run[o] \in Sessions /\ run[o].local.runner = o
        /\ "hosts-ready" \in Phases
    BY <1>1, SessionFacts, BetweenFleets DEF Phases
  <2> QED
    BY <2>1, PhaseFields
<1> HIDE DEF s
<1>3. n \in Sessions /\ n.pc = "releasing" /\ SameFleet(n, s) /\ n.local = s.local
  BY <1>2, GoesFields DEF Steps, SameRecord
<1> HIDE DEF n
<1>4. \A t \in Targets : run[o].local.node[t] = "ready" /\ Settled(o, t)
  BY <1>1 DEF BootstrapInvariant, SessionInv, VerifiedOK
<1>5. \A t \in Targets : lock[t] # o /\ t \in held[o]
  BY <1>1, <1>4, BetweenFleets, SessionFacts
<1>6. owner = o => Sound(o, s.local)
  <2>1. good[o] = Targets
    BY <1>4 DEF Settled, BootstrapInvariant, TypeOK
  <2> QED
    BY <1>2, <1>4, <1>5, <2>1 DEF Settled, Sound, Valid, Sessions
<1>7. ASSUME run'[o] = n, owner = o, durable' = s.local, UNCHANGED <<owner, hosts>>
      PROVE  SessionInv(o)'
  <2>1. /\ n.slots = 0 /\ \A t \in Targets : n.work[t] = "idle"
        /\ Live(o)
    BY <1>1, <1>2, <1>3, SessionFacts, BetweenFleets DEF SameFleet
  <2> QED
    BY <1>1, <1>2, <1>3, <1>5, <1>7, <2>1, WindsDown
<1> QED
  BY <1>1, <1>2, <1>3, <1>5, <1>6, <1>7, BetweenFleets, CheckpointKeeps

\* The deferred clean-up of a session that failed.
LEMMA InterruptStep ==
  ASSUME BootstrapInvariant, NEW o \in Runners, Interrupt(o)
  PROVE  BootstrapInvariant'
<1> DEFINE x == [run[o] EXCEPT !.local.phase = "interrupted"]
           s == [run[o] EXCEPT !.local.phase = "interrupted", !.pc = "releasing"]
           lag == [s EXCEPT !.behind = TRUE]
<1>1. run[o].pc = "failed" /\ UNCHANGED history /\ Save(o, s, s, s, TRUE)
  BY DEF Interrupt
<1>2. /\ TypeOK /\ run[o] \in Sessions /\ run[o].local.runner = o
      /\ run[o].slots = 0 /\ \A t \in Targets : run[o].work[t] = "idle"
      /\ Live(o)
      /\ \A t \in Targets :
           /\ run[o].local.node[t] = "ready" => t \in held[o]
           /\ lock[t] = o => run[o].local.node[t] \in {"preparing", "unknown"}
  BY <1>1, SessionFacts DEF Live, Stopped, Fleets
<1>3. /\ s \in Sessions /\ s.pc = "releasing" /\ SameFleet(s, run[o])
      /\ s.local.phase = "interrupted" /\ s.local.runner = o
      /\ s.local.node = run[o].local.node
  <2>1. "interrupted" \in Phases /\ "releasing" \in Steps
    BY DEF Phases, Steps
  <2>2. /\ x \in Sessions /\ SameFleet(x, run[o])
        /\ x.local.phase = "interrupted" /\ x.local.runner = o
        /\ x.local.node = run[o].local.node
    BY <1>2, <2>1, PhaseFields
  <2>3. s = Goes(x, "releasing")
    BY Zenon DEF Goes
  <2> HIDE DEF x, s
  <2> QED
    BY <2>1, <2>2, <2>3, GoesFields DEF SameFleet, SameRecord
<1> HIDE DEF s
<1>4. /\ lag \in Sessions /\ lag.pc = "releasing" /\ SameFleet(lag, s)
      /\ lag.local = s.local /\ lag.behind
  BY <1>3, BehindFields
<1>5. /\ Turned(o, run'[o]) /\ faults' \in 0..MaxFaults
      /\ UNCHANGED <<owner, hosts>>
      /\ \/ owner = o /\ durable' = s.local /\ run'[o] = s
         \/ durable' = durable /\ run'[o] = lag
  <2>1. PICK own \in BOOLEAN : Save(o, s, s, s, own)
    BY <1>1, Zenon
  <2>2. TypeOK /\ s \in Sessions
    BY <1>2, <1>3
  <2> QED
    BY <2>1, <2>2, SaveOutcome
<1> HIDE DEF lag
<1>6. SessionInv(o)'
  <2>1. /\ run'[o] \in Sessions /\ run'[o].pc = "releasing" /\ run'[o].slots = 0
        /\ \A t \in Targets : run'[o].work[t] = "idle"
        /\ run'[o].local = s.local
        /\ durable'.runner = o /\ ~run'[o].behind => durable'.phase = "interrupted"
    BY <1>2, <1>3, <1>4, <1>5 DEF SameFleet
  <2> QED
    BY <1>1, <1>2, <1>3, <1>5, <2>1, WindsDown
<1>7. Sound(o, s.local)
  BY <1>2, <1>3 DEF Sound, Valid, Sessions
<1> QED
  BY <1>1, <1>5, <1>6, <1>7, SavedKeeps

\* An instance of the plan is out of scope.
LEMMA OutOfScopeStep ==
  ASSUME BootstrapInvariant, NEW o \in Runners, OutOfScope(o)
  PROVE  BootstrapInvariant'
<1> DEFINE n == Goes(run[o], "failed")
<1>1. /\ run[o].pc \in {"scoping", "rescoping"} /\ Set(o, n)
      /\ UNCHANGED <<owner, durable, hosts, history>> /\ faults' \in 0..MaxFaults
  BY FaultCounted, SessionFacts DEF OutOfScope, Kinds
<1>2. /\ n \in Sessions /\ n.pc = "failed" /\ SameFleet(n, run[o])
      /\ n.local = run[o].local
  BY SessionFacts, GoesFields DEF Steps, SameRecord
<1> HIDE DEF n
<1>3. Turned(o, run'[o]) /\ run'[o] = n
  BY <1>1, <1>2, SessionFacts, SetTurns DEF Turned
<1>4. /\ n.slots = 0 /\ \A t \in Targets : n.work[t] = "idle"
      /\ n.local.runner = o
      /\ \A t \in Targets :
           /\ n.local.node[t] = "ready" => t \in held[o]
           /\ lock[t] = o => n.local.node[t] \in {"preparing", "unknown"}
  BY <1>1, <1>2, SessionFacts, BetweenFleets DEF SameFleet
<1>5. SessionInv(o)'
  BY <1>1, <1>2, <1>3, <1>4, BetweenFleets, WindsDown
<1> QED
  BY <1>1, <1>3, <1>5, TurnKeeps

\* The final verification begins, of all targets, without a checkpoint.
LEMMA RescopeStep ==
  ASSUME BootstrapInvariant, NEW o \in Runners, Rescope(o)
  PROVE  BootstrapInvariant'
<1> DEFINE n == FleetOf(run[o], "verification", Targets)
<1>1. /\ run[o].pc = "rescoping" /\ Set(o, n)
      /\ UNCHANGED <<owner, durable, hosts, history>> /\ faults' \in 0..MaxFaults
  BY SessionFacts DEF Rescope, Reread, TypeOK
<1>2. "verification" \in Fleets /\ Targets \in SUBSET Targets
  BY DEF Fleets
<1>3. /\ n \in Sessions /\ n.pc = "verification" /\ n.todo = Targets
      /\ n.work = run[o].work /\ ~n.failed /\ ~n.stuck /\ n.local = run[o].local
      /\ n.slots <= Cardinality(Targets) /\ n.slots <= Parallel /\ n.slots <= N
  BY <1>2, SessionFacts, FleetFields DEF SameRecord
<1> HIDE DEF n
<1>4. Turned(o, run'[o]) /\ run'[o] = n
  BY <1>1, <1>3, SessionFacts, SetTurns DEF Turned
<1>5. SessionInv(o)'
  <2>1. /\ n.local.runner = o /\ n.local.phase = "preparing"
        /\ \A t \in Targets : n.local.node[t] = "ready" => t \in held[o]
        /\ durable'.runner = o => durable'.phase = "preparing"
        /\ owner = o => durable'.runner = o
    BY <1>1, <1>3, SessionFacts, BetweenFleets DEF Working
  <2> QED
    BY <1>1, <1>2, <1>3, <1>4, <2>1, FleetBegins
<1> QED
  BY <1>1, <1>4, <1>5, TurnKeeps

\* A fleet that is over has done with every host, or the session fails.
LEMMA FleetDoneStep ==
  ASSUME BootstrapInvariant, NEW o \in Runners, FleetDone(o)
  PROVE  BootstrapInvariant'
<1> DEFINE p == IF FleetFailed(run[o]) THEN "failed" ELSE After(run[o].pc)
           n == Goes(run[o], p)
<1>1. /\ run[o].pc \in Fleets /\ run[o].slots = 0
      /\ \A t \in Targets : run[o].work[t] = "idle"
      /\ Set(o, n)
      /\ UNCHANGED <<owner, durable, hosts, history>> /\ faults' \in 0..MaxFaults
  BY SessionFacts DEF FleetDone, FleetOver, Active, TypeOK
<1>2. /\ run[o].pc = "preflight"    => After(run[o].pc) = "marking"
      /\ run[o].pc = "preparation"  => After(run[o].pc) = "rescoping"
      /\ run[o].pc = "verification" => After(run[o].pc) = "publishing"
  BY Zenon DEF After
<1>3. \/ p = "failed"
      \/ /\ run[o].todo = {} /\ ~run[o].failed /\ ~run[o].stuck
         /\ \/ run[o].pc = "preflight" /\ p = "marking"
            \/ run[o].pc = "preparation" /\ p = "rescoping"
            \/ run[o].pc = "verification" /\ p = "publishing"
  BY <1>1, <1>2 DEF FleetFailed, Fleets
<1> HIDE DEF p
<1>4. /\ n \in Sessions /\ n.pc = p /\ SameFleet(n, run[o])
      /\ n.local = run[o].local /\ n.behind = run[o].behind
  <2>1. p \in Steps /\ run[o] \in Sessions
    BY <1>3, SessionFacts DEF Steps
  <2> QED
    BY <2>1, GoesFields DEF SameRecord
<1> HIDE DEF n
<1>5. Turned(o, run'[o]) /\ run'[o] = n
  BY <1>1, <1>4, SessionFacts, SetTurns DEF Turned
<1>6. SessionInv(o)'
  <2>1. /\ SessionInv(o) /\ Live(o) /\ n.slots = 0 /\ n.todo = run[o].todo
        /\ n.work = run[o].work
        /\ n.local.runner = o /\ n.local.phase = "preparing"
        /\ \A t \in Targets :
             /\ n.local.node[t] = "ready" => t \in held[o]
             /\ lock[t] = o => n.local.node[t] \in {"preparing", "unknown"}
    BY <1>1, <1>4, SessionFacts DEF SameFleet, Live, Stopped, Fleets, Working
  <2>2. CASE p = "failed"
    BY <1>1, <1>4, <1>5, <2>1, <2>2, WindsDown
  <2>3. CASE p # "failed"
    <3>1. /\ p \in {"marking", "rescoping", "publishing"}
          /\ run[o].todo = {} /\ ~run[o].failed /\ ~run[o].stuck
      BY <1>3, <2>3
    <3>2. ClaimOK(o)'
      BY <1>1, <1>4, <1>5, <2>1, <3>1
      DEF history, SessionInv, ClaimOK, Live, Stopped, Fleets
    <3>3. FleetOK(o)'
      BY <1>1, <1>4, <1>5, <2>1, <3>1 DEF SessionInv, FleetOK, WorkOf, Fleets
    <3>4. ProbedOK(o)'
      BY <1>1, <1>3, <1>4, <1>5, <2>1, <3>1
      DEF history, SessionInv, ProbedOK, BootstrapInvariant, TypeOK
    <3>5. \A t \in Targets : lock[t] # o
      BY <1>1, <2>1, <3>1 DEF SessionInv, JournaledOK, Fleets, Stopped
    <3>6. JournaledOK(o)'
      BY <1>1, <1>4, <1>5, <3>1, <3>5 DEF hosts, JournaledOK
    <3>7. EvidenceOK(o)'
      BY <1>1, <1>4, <1>5, <2>1, <3>1
      DEF hosts, history, SessionInv, EvidenceOK, Prepared, Fleets
    <3>8. VerifiedOK(o)'
      BY <1>1, <1>3, <1>4, <1>5, <2>1, <3>1
      DEF hosts, history, SessionInv, VerifiedOK, Settled
    <3>9. FenceOK(o)'
      <4>1. Active(run[o]) = {}
        BY <1>1 DEF Active
      <4> QED
        BY <1>1, <1>4, <1>5, <2>1, <3>1, <4>1, SessionFacts
        DEF history, SessionInv, FenceOK, Fleets
    <3>10. RecordedOK(o)'
      BY <1>1, <1>4, <1>5, <2>1, <3>1 DEF SessionInv, RecordedOK, Working
    <3> QED
      BY <3>2, <3>3, <3>4, <3>6, <3>7, <3>8, <3>9, <3>10 DEF SessionInv
  <2> QED
    BY <2>2, <2>3
<1> QED
  BY <1>1, <1>5, <1>6, TurnKeeps

-----------------------------------------------------------------------------
(* The turns of a fleet.                                                   *)

\* The hosts of a fleet can be counted.
LEMMA TodoCount ==
  ASSUME NEW S \in SUBSET Targets
  PROVE  /\ IsFiniteSet(S) /\ Cardinality(S) \in Nat /\ Cardinality(S) <= N
         /\ S # {} <=> Cardinality(S) >= 1
         /\ \A t \in S : Cardinality(S \ {t}) = Cardinality(S) - 1
<1>1. IsFiniteSet(Targets) /\ Cardinality(Targets) = N
  BY BootstrapAssumption, FS_Interval DEF Targets
<1>2. IsFiniteSet(S) /\ Cardinality(S) <= N
  BY <1>1, FS_Subset
<1>3. Cardinality(S) \in Nat
  BY <1>2, FS_CardinalityType
<1>4. Cardinality(S) = 0 <=> S = {}
  BY <1>2, FS_EmptySet
<1> QED
  BY <1>2, <1>3, <1>4, FS_RemoveElement

\* The next host of the plan is started.
LEMMA StartStep ==
  ASSUME BootstrapInvariant, NEW o \in Runners, Start(o)
  PROVE  BootstrapInvariant'
<1> DEFINE t == Min(run[o].todo)
           w == Mode(run[o].pc)
           n == [run[o] EXCEPT !.slots = @ - 1, !.todo = @ \ {t}, !.work[t] = w]
<1>1. /\ TypeOK /\ SessionInv(o) /\ RecordInv /\ run[o] \in Sessions
      /\ run[o].todo \subseteq Targets /\ run[o].slots \in 0..Parallel
      /\ run[o].work \in [Targets -> Work] /\ late[o] \in 0..N
  BY SessionFacts DEF BootstrapInvariant
<1>2. /\ run[o].pc \in Fleets /\ run[o].slots > 0 /\ Set(o, n)
      /\ late' = IF o \in lost THEN [late EXCEPT ![o] = @ + 1] ELSE late
      /\ UNCHANGED <<owner, durable, hosts, probed, held, good, lost, faults>>
  BY DEF Start
<1>3. /\ Cardinality(run[o].todo) \in Nat
      /\ run[o].slots <= Cardinality(run[o].todo) /\ run[o].todo # {}
  <2>1. run[o].slots <= Cardinality(run[o].todo)
    BY <1>1 DEF SessionInv, FleetOK
  <2> QED
    BY <1>1, <1>2, <2>1, TodoCount
<1>4. t \in run[o].todo
  <2>1. run[o].todo \in SUBSET Nat
    BY <1>1, BootstrapAssumption DEF Targets
  <2> QED
    BY <1>3, <2>1, MinIn
<1>5. /\ w \in Work /\ w # "idle" /\ w \in WorkOf(run[o].pc)
      /\ run[o].pc = "preparation" => w = "apply"
      /\ run[o].pc # "preparation" => w = "probe"
  BY <1>2 DEF Mode, Work, WorkOf, Fleets
<1> HIDE DEF t, w
<1>6. /\ n \in Sessions /\ n.pc = run[o].pc
      /\ n.todo = run[o].todo \ {t} /\ n.slots = run[o].slots - 1
      /\ n.work = [run[o].work EXCEPT ![t] = w]
      /\ n.failed = run[o].failed /\ n.stuck = run[o].stuck
      /\ n.local = run[o].local /\ n.behind = run[o].behind
  <2>1. /\ run[o].slots - 1 \in 0..Parallel /\ t \in Targets
        /\ run[o] \in Sessions /\ w \in Work
    BY <1>1, <1>2, <1>4, <1>5, BootstrapAssumption
  <2> QED
    BY <2>1, Zenon DEF Sessions
<1> HIDE DEF n
<1>7. Turned(o, run'[o]) /\ run'[o] = n
  BY <1>1, <1>2, <1>6, SetTurns DEF Turned
<1>8. /\ n.work[t] = w
      /\ \A u \in Targets \ {t} : n.work[u] = run[o].work[u]
      /\ run[o].work[t] = "idle"
  BY <1>1, <1>2, <1>4, <1>6 DEF SessionInv, FleetOK
<1>9. /\ o \in lost => late'[o] = late[o] + 1
      /\ o \notin lost => late'[o] = late[o]
      /\ \A u \in Runners \ {o} : late'[u] = late[u]
      /\ late' \in [Runners -> 0..N]
  <2>1. o \in lost => late[o] + 1 \in 0..N
    BY <1>1, <1>2, BootstrapAssumption DEF SessionInv, FenceOK
  <2> QED
    BY <1>1, <1>2, <2>1 DEF TypeOK
<1>10. SessionInv(o)'
  <2>1. ClaimOK(o)'
    BY <1>1, <1>2, <1>6, <1>7 DEF hosts, SessionInv, ClaimOK, Live
  <2>2. FleetOK(o)'
    <3>1. n.slots <= Cardinality(n.todo)
      BY <1>1, <1>3, <1>4, <1>6, TodoCount
    <3>2. \A u \in Targets : n.work[u] \in WorkOf(n.pc)
      BY <1>1, <1>5, <1>6, <1>8 DEF SessionInv, FleetOK
    <3>3. \A u \in n.todo : n.work[u] = "idle"
      BY <1>1, <1>2, <1>6, <1>8 DEF SessionInv, FleetOK
    <3> QED
      BY <1>2, <1>6, <1>7, <3>1, <3>2, <3>3 DEF FleetOK
  <2>3. ProbedOK(o)'
    BY <1>1, <1>2, <1>5, <1>6, <1>7, <1>8 DEF SessionInv, ProbedOK
  <2>4. JournaledOK(o)'
    BY <1>1, <1>2, <1>4, <1>6, <1>7, <1>8 DEF hosts, SessionInv, JournaledOK, Live
  <2>5. EvidenceOK(o)'
    BY <1>1, <1>2, <1>5, <1>6, <1>7, <1>8
    DEF hosts, SessionInv, EvidenceOK, Live, Prepared
  <2>6. VerifiedOK(o)'
    BY <1>1, <1>2, <1>5, <1>6, <1>7, <1>8
    DEF hosts, SessionInv, VerifiedOK, Settled, Fleets
  <2>7. FenceOK(o)'
    <3>1. t \in Active(n)
      BY <1>1, <1>4, <1>5, <1>8 DEF Active
    <3> QED
      BY <1>1, <1>2, <1>6, <1>7, <1>9, <3>1, BootstrapAssumption
      DEF SessionInv, FenceOK, Fleets
  <2>8. RecordedOK(o)'
    BY <1>1, <1>2, <1>6, <1>7 DEF SessionInv, RecordedOK
  <2> QED
    BY <2>1, <2>2, <2>3, <2>4, <2>5, <2>6, <2>7, <2>8 DEF SessionInv
<1>11. TypeOK'
  BY <1>1, <1>2, <1>7, <1>9 DEF hosts, Turned, TypeOK
<1>12. \A u \in Runners \ {o} : Spares(u)
  BY <1>2, <1>7, <1>9
  DEF hosts, Turned, Spares, Prepared, BootstrapInvariant, SessionInv, EvidenceOK
<1>13. RecordInv'
  BY <1>1, <1>2, RecordStays DEF hosts, TypeOK
<1>14. ProbedBeforeMutation'
  BY <1>2 DEF hosts, BootstrapInvariant, ProbedBeforeMutation
<1> QED
  BY <1>10, <1>11, <1>12, <1>13, <1>14, SessionStepKeeps

\* What a session is after it took the reply of host t: recorded and, for the
\* holder of the claim, with another turn, or stuck.
Taken(o, t) ==
  LET n == run'[o] IN
  /\ n \in Sessions /\ n.pc = run[o].pc /\ n.todo = run[o].todo
  /\ n.work = [run[o].work EXCEPT ![t] = "idle"]
  /\ n.failed <=> run[o].failed \/ run[o].work[t] = "unknown"
  /\ n.slots = 0 \/ (n.slots = 1 /\ n.todo # {} /\ owner = o)
  /\ n.local.runner = run[o].local.runner /\ n.local.phase = run[o].local.phase
  /\ \/ n.local.node = run[o].local.node
     \/ n.local.node = [run[o].local.node EXCEPT ![t] = run[o].work[t]]
  /\ \/ n.stuck
     \/ /\ ~run[o].stuck /\ owner = o
        /\ n.local.node = [run[o].local.node EXCEPT ![t] = run[o].work[t]]
  /\ durable' = durable \/ (owner = o /\ durable' = n.local)

LEMMA TakeOutcome ==
  ASSUME BootstrapInvariant, NEW o \in Runners, NEW t \in Targets, Take(o, t)
  PROVE  /\ run[o].pc \in Fleets /\ run[o].work[t] \in Results
         /\ UNCHANGED <<owner, hosts, history>>
         /\ Turned(o, run'[o]) /\ Taken(o, t) /\ faults' \in 0..MaxFaults
<1> DEFINE w == run[o].work[t]
           s == [run[o] EXCEPT !.work[t] = "idle", !.failed = @ \/ w = "unknown"]
           r == WithNode(s, t, w)
           ok == NextSlot(r, TRUE)
           rest == NextSlot(r, FALSE)
           bad == [rest EXCEPT !.stuck = TRUE]
           lag == [bad EXCEPT !.behind = TRUE]
<1>1. TypeOK /\ run[o] \in Sessions
  BY SessionFacts
<1>2. /\ s \in Sessions /\ s.pc = run[o].pc /\ s.todo = run[o].todo
      /\ s.slots = run[o].slots /\ s.work = [run[o].work EXCEPT ![t] = "idle"]
      /\ s.failed <=> run[o].failed \/ w = "unknown"
      /\ s.stuck = run[o].stuck /\ s.local = run[o].local
  BY <1>1, TakeFields DEF SameRecord
<1>3. /\ s.pc \in Fleets /\ s.slots = 0 /\ w \in Results /\ UNCHANGED history
      /\ \/ s.stuck /\ Set(o, s) /\ NoFault /\ UNCHANGED <<owner, durable, hosts>>
         \/ ~s.stuck /\ Save(o, r, ok, bad, FALSE)
  BY DEF Take
<1> HIDE DEF s
<1>4. /\ r \in Sessions /\ r.pc = s.pc /\ SameFleet(r, s)
      /\ r.local.phase = s.local.phase /\ r.local.runner = s.local.runner
      /\ r.local.node = [s.local.node EXCEPT ![t] = w]
  <2>1. w \in NodePhases
    BY <1>3 DEF Results, NodePhases
  <2> QED
    BY <1>2, <2>1, NodeFields
<1> HIDE DEF r, w
<1>5. /\ ok \in Sessions /\ ok.pc = r.pc /\ ok.todo = r.todo /\ ok.work = r.work
      /\ ok.failed = r.failed /\ ok.stuck = r.stuck /\ ok.local = r.local
      /\ ok.slots = 0 \/ (ok.slots = 1 /\ r.todo # {})
  <2> DEFINE k == IF MayStart(r, TRUE) THEN 1 ELSE 0
  <2>1. k \in 0..Parallel /\ (k = 0 \/ (k = 1 /\ r.todo # {}))
    BY BootstrapAssumption DEF MayStart
  <2>2. ok = [r EXCEPT !.slots = k]
    BY Zenon DEF NextSlot
  <2> HIDE DEF k, ok
  <2> QED
    BY <1>4, <2>1, <2>2, SlotsFields DEF SameRecord
<1>6. /\ rest \in Sessions /\ rest.pc = r.pc /\ rest.todo = r.todo
      /\ rest.work = r.work /\ rest.failed = r.failed /\ rest.local = r.local
      /\ rest.slots = 0
  <2>1. rest = [r EXCEPT !.slots = 0] /\ 0 \in 0..Parallel
    BY BootstrapAssumption DEF NextSlot, MayStart
  <2> HIDE DEF rest
  <2> QED
    BY <1>4, <2>1, SlotsFields DEF SameRecord
<1> HIDE DEF ok, rest
<1>7. /\ bad \in Sessions /\ bad.pc = r.pc /\ bad.todo = r.todo
      /\ bad.work = r.work /\ bad.failed = r.failed /\ bad.local = r.local
      /\ bad.slots = 0 /\ bad.stuck
  BY <1>6, StuckFields DEF SameRecord
<1> HIDE DEF bad
<1>8. /\ lag \in Sessions /\ lag.pc = r.pc /\ lag.todo = r.todo
      /\ lag.work = r.work /\ lag.failed = r.failed /\ lag.local = r.local
      /\ lag.slots = 0 /\ lag.stuck
  BY <1>7, BehindFields DEF SameFleet
<1>9. CASE s.stuck /\ Set(o, s) /\ NoFault /\ UNCHANGED <<owner, durable, hosts>>
  <2>1. Turned(o, run'[o]) /\ run'[o] = s
    BY <1>1, <1>2, <1>9, SetTurns DEF Turned
  <2>2. faults' \in 0..MaxFaults
    BY <1>1, <1>9, FaultCounted
  <2> QED
    BY <1>2, <1>3, <1>9, <2>1, <2>2 DEF Taken, w
<1>10. CASE ~s.stuck /\ Save(o, r, ok, bad, FALSE)
  <2>1. /\ Turned(o, run'[o]) /\ faults' \in 0..MaxFaults
        /\ UNCHANGED <<owner, hosts>>
        /\ \/ owner = o /\ durable' = r.local /\ run'[o] \in {ok, bad}
           \/ durable' = durable /\ run'[o] = lag
    <3>1. PICK own \in BOOLEAN : Save(o, r, ok, bad, own)
      BY <1>10, Zenon
    <3>2. TypeOK /\ r \in Sessions /\ ok \in Sessions /\ bad \in Sessions
      BY <1>1, <1>4, <1>5, <1>7
    <3> QED
      BY <3>1, <3>2, SaveOutcome
  <2> HIDE DEF lag
  <2>2. CASE owner = o /\ durable' = r.local /\ run'[o] = ok
    BY <1>2, <1>3, <1>4, <1>5, <1>10, <2>1, <2>2 DEF Taken, SameFleet, w
  <2>3. CASE owner = o /\ durable' = r.local /\ run'[o] = bad
    BY <1>2, <1>3, <1>4, <1>7, <2>1, <2>3 DEF Taken, SameFleet, w
  <2>4. CASE durable' = durable /\ run'[o] = lag
    BY <1>2, <1>3, <1>4, <1>8, <2>1, <2>4 DEF Taken, SameFleet, w
  <2> QED
    BY <2>1, <2>2, <2>3, <2>4
<1> QED
  BY <1>3, <1>9, <1>10

\* A reply is recorded, and only then the next host gets its turn.
LEMMA TakeStep ==
  ASSUME BootstrapInvariant, NEW o \in Runners, NEW t \in Targets, Take(o, t)
  PROVE  BootstrapInvariant'
<1> DEFINE n == run'[o]
           w == run[o].work[t]
<1>1. /\ TypeOK /\ SessionInv(o) /\ run[o] \in Sessions
      /\ run[o].local \in Records /\ run[o].work \in [Targets -> Work]
      /\ run[o].todo \subseteq Targets /\ late[o] \in 0..N
  BY SessionFacts
<1>2. /\ run[o].pc \in Fleets /\ w \in Results /\ w # "idle"
      /\ UNCHANGED <<owner, hosts, history>>
      /\ Turned(o, n) /\ Taken(o, t) /\ faults' \in 0..MaxFaults
  BY TakeOutcome DEF Results
<1>3. /\ n \in Sessions /\ n.pc = run[o].pc /\ n.todo = run[o].todo
      /\ n.work[t] = "idle" /\ \A u \in Targets \ {t} : n.work[u] = run[o].work[u]
      /\ n.failed <=> run[o].failed \/ w = "unknown"
      /\ n.slots = 0 \/ (n.slots = 1 /\ n.todo # {} /\ owner = o)
      /\ n.local \in Records
      /\ n.local.runner = run[o].local.runner /\ n.local.phase = run[o].local.phase
      /\ \A u \in Targets \ {t} : n.local.node[u] = run[o].local.node[u]
      /\ n.local.node[t] \in {run[o].local.node[t], w}
      /\ ~n.stuck => ~run[o].stuck /\ owner = o /\ n.local.node[t] = w
      /\ durable' = durable \/ (owner = o /\ durable' = n.local)
  BY <1>1, <1>2 DEF Taken, Records, Sessions
<1>4. t \notin run[o].todo
  BY <1>1, <1>2 DEF SessionInv, FleetOK
<1> HIDE DEF n
<1>5. /\ run[o].local.runner = o /\ run[o].local.phase = "preparing"
      /\ \A u \in Targets : lock[u] = o => run[o].local.node[u] \in {"preparing", "unknown"}
  BY <1>2, SessionFacts DEF Live, Stopped, Fleets, Working
<1>6. lock[t] = o => w = "unknown"
  BY <1>1, <1>2 DEF SessionInv, JournaledOK, Fleets, Results, Stopped
<1>7. \A u \in Targets :
        /\ n.local.node[u] = "ready" => u \in held[o]
        /\ lock[u] = o => n.local.node[u] \in {"preparing", "unknown"}
  BY <1>1, <1>2, <1>3, <1>5, <1>6
  DEF SessionInv, EvidenceOK, Live, Stopped, Fleets
<1>8. SessionInv(o)'
  <2>1. ClaimOK(o)'
    BY <1>1, <1>2, <1>3 DEF n, hosts, history, SessionInv, ClaimOK, Live, Fleets
  <2>2. FleetOK(o)'
    <3>1. "idle" \in WorkOf(run[o].pc)
      BY DEF WorkOf
    <3>2. \A u \in Targets : n.work[u] \in WorkOf(n.pc)
      BY <1>1, <1>3, <3>1 DEF SessionInv, FleetOK
    <3>3. \A u \in n.todo : n.work[u] = "idle"
      BY <1>1, <1>2, <1>3 DEF SessionInv, FleetOK
    <3>4. n.slots <= Cardinality(n.todo)
      <4>1. /\ Cardinality(n.todo) \in Nat
            /\ n.todo # {} <=> Cardinality(n.todo) >= 1
        BY <1>1, <1>3, TodoCount
      <4> QED
        BY <1>3, <4>1
    <3> QED
      BY <1>2, <1>3, <3>2, <3>3, <3>4 DEF n, FleetOK
  <2>3. ProbedOK(o)'
    BY <1>1, <1>2, <1>3 DEF n, history, SessionInv, ProbedOK, Fleets, Results
  <2>4. JournaledOK(o)'
    <3>1. \A u \in Targets : u \in n.todo \/ n.work[u] # "idle" =>
            u # t /\ (u \in run[o].todo \/ run[o].work[u] # "idle")
      BY <1>3, <1>4
    <3>2. n.pc = "preparation" =>
            \A u \in Targets : u \in n.todo \/ n.work[u] # "idle" =>
              /\ n.local.node[u] = "preparing"
              /\ durable'.runner = o => durable'.node[u] = "preparing"
      BY <1>1, <1>3, <3>1 DEF SessionInv, JournaledOK
    <3>3. \A u \in Targets : lock[u] = o =>
            /\ n.pc \in {"preparation", "failed", "releasing"} \cup Stopped
            /\ n.pc = "preparation" =>
                 \/ n.work[u] \in {"running", "unknown"}
                 \/ n.work[u] = "idle" /\ n.failed /\ u \notin n.todo
      BY <1>1, <1>3, <1>4, <1>6 DEF SessionInv, JournaledOK
    <3> QED
      BY <1>2, <1>7, <3>2, <3>3 DEF n, hosts, JournaledOK
  <2>5. EvidenceOK(o)'
    BY <1>1, <1>2, <1>3, <1>5, <1>7
    DEF n, hosts, history, SessionInv, EvidenceOK, Prepared
  <2>6. VerifiedOK(o)'
    <3>1. \A u \in Targets : Settled(o, u) => Settled(o, u)'
      BY <1>2 DEF hosts, history, Settled
    <3>2. n.pc = "verification" => w \in {"ready", "unknown"}
      BY <1>1, <1>2, <1>3 DEF SessionInv, FleetOK, WorkOf, Results
    <3>3. n.pc = "verification" =>
            \A u \in Targets :
              /\ n.work[u] = "ready" => Settled(o, u)
              /\ u \notin n.todo /\ n.work[u] = "idle" /\ ~n.failed /\ ~n.stuck =>
                   Settled(o, u) /\ n.local.node[u] = "ready"
      BY <1>1, <1>3, <3>2 DEF SessionInv, VerifiedOK
    <3> QED
      BY <1>2, <1>3, <3>1, <3>3 DEF n, VerifiedOK, Fleets
  <2>7. FenceOK(o)'
    <3>1. o \in lost => n.slots = 0 /\ n.stuck
      BY <1>1, <1>3 DEF SessionInv, ClaimOK
    <3>2. o \in lost => late[o] <= Parallel
      BY <1>1, BootstrapAssumption DEF SessionInv, FenceOK, Sessions
    <3> QED
      BY <1>1, <1>2, <1>3, <3>1, <3>2 DEF n, history, SessionInv, FenceOK, Fleets
  <2>8. RecordedOK(o)'
    BY <1>1, <1>2, <1>3, <1>5 DEF n, SessionInv, RecordedOK, Fleets
  <2> QED
    BY <2>1, <2>2, <2>3, <2>4, <2>5, <2>6, <2>7, <2>8 DEF SessionInv
<1>9. Sound(o, n.local)
  BY <1>3, <1>5, <1>7 DEF Sound, Valid
<1>10. Turned(o, run'[o])
  BY <1>2 DEF n
<1> QED
  BY <1>2, <1>3, <1>8, <1>9, <1>10, SavedKeeps

-----------------------------------------------------------------------------
(* How a session begins and ends.                                          *)

\* A session that has not begun, or whose process is gone.
LEMMA IdleSession ==
  /\ Session \in Sessions /\ Session.pc = "start" /\ Session.todo = {}
  /\ Session.slots = 0 /\ Session.work = AllNodes("idle")
  /\ Cardinality(Session.todo) = 0
<1>1. Cardinality({}) = 0
  BY FS_EmptySet
<1> QED
  BY <1>1, BootstrapAssumption
  DEF Session, Sessions, Blank, Records, AllNodes, Steps, Phases, NodePhases, Work

\* The claim is acquired, with the record as it is; the session sees what the
\* hosts are from now on.
LEMMA AcquireStep ==
  ASSUME BootstrapInvariant, NEW o \in Runners, Acquire(o)
  PROVE  BootstrapInvariant'
<1> DEFINE n == [Session EXCEPT !.pc = "claimed", !.local = durable]
<1>1. /\ run[o].pc = "start" /\ owner = NoOwner /\ owner' = o /\ Set(o, n)
      /\ held' = [held EXCEPT ![o] = Prepared]
      /\ good' = [good EXCEPT ![o] = Prepared]
      /\ UNCHANGED <<durable, hosts, probed, lost, late, faults>>
  BY DEF Acquire
<1>2. TypeOK /\ SessionInv(o) /\ RecordInv /\ durable \in Records
  BY DEF BootstrapInvariant, TypeOK
<1>3. /\ n \in Sessions /\ n.pc = "claimed" /\ n.todo = {}
      /\ n.slots = 0 /\ n.work = AllNodes("idle")
  <2>1. "claimed" \in Steps
    BY DEF Steps
  <2> QED
    BY <1>2, <2>1, IdleSession, Zenon DEF Sessions
<1> HIDE DEF n
<1>4. Turned(o, run'[o]) /\ run'[o] = n
  BY <1>1, <1>2, <1>3, SetTurns DEF Turned
<1>5. /\ held'[o] = Prepared /\ good'[o] = Prepared /\ Prepared' = Prepared
      /\ \A u \in Runners \ {o} : held'[u] = held[u] /\ good'[u] = good[u]
  BY <1>1, <1>2 DEF TypeOK, hosts, Prepared
<1>6. o \notin lost /\ durable.runner # o /\ \A t \in Targets : lock[t] # o
  BY <1>1, <1>2 DEF SessionInv, ClaimOK
<1>7. SessionInv(o)'
  <2>1. \A t \in Targets : n.work[t] = "idle"
    BY <1>3 DEF AllNodes
  <2>2. ClaimOK(o)'
    BY <1>1, <1>3, <1>4, <1>6 DEF hosts, ClaimOK
  <2>3. FleetOK(o)'
    BY <1>3, <1>4, <2>1, FS_EmptySet DEF FleetOK, WorkOf, Fleets
  <2>4. ProbedOK(o)' /\ VerifiedOK(o)'
    BY <1>3, <1>4 DEF ProbedOK, VerifiedOK
  <2>5. JournaledOK(o)'
    BY <1>1, <1>3, <1>4, <1>6 DEF hosts, JournaledOK
  <2>6. EvidenceOK(o)'
    BY <1>3, <1>4, <1>5, <2>1 DEF EvidenceOK, Working, Fleets
  <2>7. FenceOK(o)'
    BY <1>1, <1>2, <1>6 DEF SessionInv, FenceOK
  <2>8. RecordedOK(o)'
    BY <1>3, <1>4 DEF RecordedOK, Working, Fleets
  <2> QED
    BY <2>2, <2>3, <2>4, <2>5, <2>6, <2>7, <2>8 DEF SessionInv
<1>8. TypeOK'
  BY <1>1, <1>2, <1>4 DEF hosts, Turned, TypeOK, Prepared
<1>9. ASSUME NEW u \in Runners, u # o PROVE Spares(u)
  <2>1. EvidenceOK(u)
    BY DEF BootstrapInvariant, SessionInv
  <2> QED
    BY <1>1, <1>4, <1>5, <1>9, <2>1, BootstrapAssumption
    DEF hosts, Turned, Spares, EvidenceOK
<1>10. RecordInv'
  BY <1>1, <1>2, <1>5, <1>6, RecordStays DEF hosts
<1>11. ProbedBeforeMutation'
  BY <1>1 DEF hosts, BootstrapInvariant, ProbedBeforeMutation
<1> QED
  BY <1>7, <1>8, <1>9, <1>10, <1>11, SessionStepKeeps

\* A process that is gone keeps no session; what it started on the hosts goes on.
LEMMA EndKeeps ==
  ASSUME BootstrapInvariant, NEW o \in Runners, NEW p \in Stopped, Live(o),
         End(o, p), UNCHANGED <<durable, hosts, history>>,
         owner' = owner \/ (owner = o /\ owner' = NoOwner),
         faults' \in 0..MaxFaults,
         p = "stopped" /\ durable.runner = o /\ ~run[o].behind =>
           durable.phase \in {"interrupted", "hosts-ready"}
  PROVE  BootstrapInvariant'
<1>1. TypeOK /\ SessionInv(o) /\ RecordInv /\ late[o] \in 0..N
  BY SessionFacts DEF BootstrapInvariant
<1>2. /\ Turned(o, run'[o]) /\ run'[o].pc = p /\ run'[o].slots = 0
      /\ run'[o].todo = {} /\ run'[o].behind = run[o].behind
      /\ \A t \in Targets : run'[o].work[t] = "idle"
  BY <1>1, EndFields DEF AllNodes
<1>3. SessionInv(o)'
  <2>1. ClaimOK(o)'
    BY <1>1, <1>2, BootstrapAssumption
    DEF history, SessionInv, ClaimOK, Live, Stopped
  <2>2. FleetOK(o)'
    BY <1>2, FS_EmptySet DEF FleetOK, WorkOf, Fleets, Stopped
  <2>3. ProbedOK(o)' /\ VerifiedOK(o)'
    BY <1>2 DEF ProbedOK, VerifiedOK, Stopped
  <2>4. JournaledOK(o)'
    BY <1>2 DEF JournaledOK, Live, Stopped
  <2>5. EvidenceOK(o)'
    BY <1>1, <1>2
    DEF hosts, history, SessionInv, EvidenceOK, Live, Stopped, Working, Fleets,
        Prepared
  <2>6. FenceOK(o)'
    <3>1. o \in lost => late[o] <= Parallel /\ late[o] <= N
      BY <1>1, SessionFacts, BootstrapAssumption DEF SessionInv, FenceOK
    <3> QED
      BY <1>1, <1>2, <3>1 DEF history, SessionInv, FenceOK, Stopped, Fleets
  <2>7. RecordedOK(o)'
    BY <1>2 DEF RecordedOK, Stopped, Working, Fleets
  <2> QED
    BY <2>1, <2>2, <2>3, <2>4, <2>5, <2>6, <2>7 DEF SessionInv
<1>4. TypeOK'
  BY <1>1, <1>2 DEF hosts, history, Turned, TypeOK
<1>5. ASSUME NEW u \in Runners, u # o PROVE Spares(u)
  <2>1. EvidenceOK(u)
    BY DEF BootstrapInvariant, SessionInv
  <2> QED
    BY <1>2, <1>5, <2>1, BootstrapAssumption
    DEF hosts, history, Turned, Spares, EvidenceOK, Prepared
<1>6. RecordInv'
  BY <1>1, RecordStays DEF hosts, history, TypeOK
<1>7. ProbedBeforeMutation'
  BY DEF hosts, history, BootstrapInvariant, ProbedBeforeMutation
<1> QED
  BY <1>3, <1>4, <1>5, <1>6, <1>7, SessionStepKeeps

LEMMA ReleaseStep ==
  ASSUME BootstrapInvariant, NEW o \in Runners, Release(o)
  PROVE  BootstrapInvariant'
<1>1. /\ run[o].pc = "releasing" /\ End(o, "stopped")
      /\ owner' = owner \/ (owner = o /\ owner' = NoOwner)
      /\ NoFault \/ Fault("save")
      /\ UNCHANGED <<durable, hosts, history>>
  BY DEF Release
<1>2. Live(o) /\ "stopped" \in Stopped
  BY <1>1 DEF Live, Stopped
<1>3. faults' \in 0..MaxFaults
  BY <1>1, FaultCounted, SessionFacts DEF Kinds
<1>4. durable.runner = o /\ ~run[o].behind =>
        durable.phase \in {"interrupted", "hosts-ready"}
  BY <1>1 DEF BootstrapInvariant, SessionInv, RecordedOK
<1> QED
  BY <1>1, <1>2, <1>3, <1>4, EndKeeps

LEMMA CrashStep ==
  ASSUME BootstrapInvariant, NEW o \in Runners, Crash(o)
  PROVE  BootstrapInvariant'
<1>1. /\ Live(o) /\ End(o, "crashed") /\ UNCHANGED <<owner, durable, hosts, history>>
      /\ faults' \in 0..MaxFaults /\ "crashed" \in Stopped
  BY FaultCounted, SessionFacts DEF Crash, Kinds, Stopped
<1> QED
  BY <1>1, EndKeeps

-----------------------------------------------------------------------------
(* The steps of the operators.                                             *)

\* The context of a session ends; only its next steps see it.
LEMMA CancelStep ==
  ASSUME BootstrapInvariant, NEW o \in Runners, Cancel(o)
  PROVE  BootstrapInvariant'
<1> DEFINE n == [run[o] EXCEPT !.cancelled = TRUE]
<1>1. TypeOK /\ SessionInv(o) /\ run[o] \in Sessions
  BY SessionFacts
<1>2. /\ run' = [run EXCEPT ![o] = n]
      /\ UNCHANGED <<owner, durable, hosts, history>>
      /\ faults' \in 0..MaxFaults
  BY <1>1, FaultCounted DEF Cancel, Kinds
<1>3. n \in Sessions /\ n.pc = run[o].pc /\ SameFleet(n, run[o]) /\ SameRecord(n, run[o])
  BY <1>1, CancelledFields
<1> HIDE DEF n
<1>4. Turned(o, run'[o]) /\ run'[o] = n
  BY <1>1, <1>2, <1>3, SetTurns DEF Set, Turned
<1>5. SessionInv(o)'
  <2>1. ClaimOK(o)' /\ FleetOK(o)' /\ ProbedOK(o)'
    BY <1>1, <1>2, <1>3, <1>4
    DEF hosts, history, SameFleet, SessionInv, ClaimOK, Live, FleetOK, ProbedOK
  <2>2. JournaledOK(o)' /\ EvidenceOK(o)'
    BY <1>1, <1>2, <1>3, <1>4
    DEF hosts, history, SameFleet, SameRecord, SessionInv, JournaledOK, EvidenceOK,
        Live, Prepared
  <2>3. VerifiedOK(o)' /\ RecordedOK(o)'
    BY <1>1, <1>2, <1>3, <1>4
    DEF hosts, history, SameFleet, SameRecord, SessionInv, VerifiedOK, Settled,
        RecordedOK
  <2>4. FenceOK(o)'
    BY <1>1, <1>2, <1>3, <1>4
    DEF history, SameFleet, SessionInv, FenceOK, Active
  <2> QED
    BY <2>1, <2>2, <2>3, <2>4 DEF SessionInv
<1> QED
  BY <1>2, <1>4, <1>5, TurnKeeps

\* A claim is released by hand, perhaps under a session that still runs.
LEMMA UnlockStep ==
  ASSUME BootstrapInvariant, NEW o \in Runners, Unlock(o)
  PROVE  BootstrapInvariant'
<1>1. /\ owner = o /\ owner' = NoOwner
      /\ NoFault \/ Fault("unlock")
      /\ lost' = IF Live(o) THEN lost \cup {o} ELSE lost
      /\ UNCHANGED <<durable, run, hosts, probed, held, good, late>>
  BY DEF Unlock
<1>2. /\ TypeOK /\ SessionInv(o) /\ RecordInv
      /\ run[o].slots \in 0..Parallel /\ run[o].todo \in SUBSET Targets
  BY SessionFacts DEF BootstrapInvariant
<1>3. faults' \in 0..MaxFaults
  BY <1>1, <1>2, FaultCounted DEF Kinds
<1>4. SessionInv(o)'
  <2>1. /\ o \notin lost /\ run[o].pc # "start" /\ late[o] = 0
    BY <1>1, <1>2 DEF SessionInv, ClaimOK, FenceOK
  <2>2. ClaimOK(o)'
    BY <1>1, <1>2, <2>1, BootstrapAssumption
    DEF hosts, SessionInv, ClaimOK, Live
  <2>3. FleetOK(o)' /\ ProbedOK(o)'
    BY <1>1, <1>2 DEF SessionInv, FleetOK, ProbedOK
  <2>4. JournaledOK(o)' /\ EvidenceOK(o)'
    BY <1>1, <1>2 DEF hosts, SessionInv, JournaledOK, EvidenceOK, Live, Prepared
  <2>5. VerifiedOK(o)'
    <3>1. \A t \in Targets : Settled(o, t) => Settled(o, t)'
      BY <1>1, BootstrapAssumption DEF Settled
    <3> QED
      BY <1>1, <1>2, <3>1 DEF SessionInv, VerifiedOK
  <2>6. FenceOK(o)'
    <3>1. run[o].slots <= Parallel /\ run[o].slots <= N
      <4>1. Cardinality(run[o].todo) \in Nat /\ Cardinality(run[o].todo) <= N
        BY <1>2, TodoCount
      <4>2. run[o].slots <= Cardinality(run[o].todo)
        BY <1>2 DEF SessionInv, FleetOK
      <4> QED
        BY <1>2, <4>1, <4>2, BootstrapAssumption
    <3> QED
      BY <1>1, <1>2, <2>1, <3>1 DEF FenceOK
  <2>7. RecordedOK(o)'
    BY <1>1, <1>2, BootstrapAssumption DEF SessionInv, RecordedOK
  <2> QED
    BY <2>2, <2>3, <2>4, <2>5, <2>6, <2>7 DEF SessionInv
<1>5. TypeOK'
  BY <1>1, <1>2, <1>3 DEF hosts, TypeOK
<1>6. ASSUME NEW u \in Runners, u # o PROVE Spares(u)
  <2>1. EvidenceOK(u)
    BY DEF BootstrapInvariant, SessionInv
  <2> QED
    BY <1>1, <1>6, <2>1, BootstrapAssumption
    DEF hosts, Spares, EvidenceOK, Prepared
<1>7. RecordInv'
  BY <1>1, <1>2, RecordStays DEF hosts, TypeOK
<1>8. ProbedBeforeMutation'
  BY <1>1 DEF hosts, BootstrapInvariant, ProbedBeforeMutation
<1> QED
  BY <1>4, <1>5, <1>6, <1>7, <1>8, SessionStepKeeps

-----------------------------------------------------------------------------
(* The theorems.                                                           *)

LEMMA BootstrapInit ==
  ASSUME Init
  PROVE  BootstrapInvariant
<1>1. /\ owner = NoOwner /\ durable = Blank /\ images = {} /\ marker = {}
      /\ lock = AllNodes(NoOwner) /\ lost = {} /\ faults = 0
      /\ run = [o \in Runners |-> Session] /\ late = [o \in Runners |-> 0]
      /\ probed = Nothing /\ held = Nothing /\ good = Nothing
  BY DEF Init
<1>2. /\ Blank \in Records /\ Blank.phase = "none" /\ Blank.runner = NoOwner
      /\ \A t \in Targets : Blank.node[t] = "pending" /\ lock[t] = NoOwner
  BY <1>1 DEF Blank, Records, Phases, NodePhases, AllNodes
<1>3. TypeOK
  BY <1>1, <1>2, IdleSession, BootstrapAssumption
  DEF TypeOK, Valid, AllNodes, Nothing
<1>4. ASSUME NEW o \in Runners PROVE SessionInv(o)
  <2>1. /\ run[o].pc = "start" /\ run[o].todo = {} /\ run[o].slots = 0
        /\ \A t \in Targets : run[o].work[t] = "idle"
        /\ Cardinality(run[o].todo) = 0 /\ late[o] = 0 /\ o # NoOwner
    BY <1>1, IdleSession, BootstrapAssumption DEF AllNodes
  <2> QED
    BY <1>1, <1>2, <2>1
    DEF SessionInv, ClaimOK, FleetOK, ProbedOK, JournaledOK, EvidenceOK,
        VerifiedOK, FenceOK, RecordedOK, Live, WorkOf, Working, Fleets, Stopped
<1>5. RecordInv /\ ProbedBeforeMutation
  BY <1>1, <1>2
  DEF RecordInv, HostsReadyIsFresh, ReadyIsEvidence, SettledWhenReady,
      JournaledMutation, ProbedBeforeMutation
<1> QED
  BY <1>3, <1>4, <1>5 DEF BootstrapInvariant

LEMMA BootstrapStutter ==
  ASSUME BootstrapInvariant, UNCHANGED vars
  PROVE  BootstrapInvariant'
<1>1. TypeOK' /\ ProbedBeforeMutation' /\ RecordInv'
  <2>1. TypeOK /\ RecordInv /\ ProbedBeforeMutation
    BY DEF BootstrapInvariant
  <2>2. TypeOK' /\ ProbedBeforeMutation'
    BY <2>1 DEF vars, TypeOK, ProbedBeforeMutation
  <2>3. RecordInv'
    BY <2>1, RecordStays DEF vars, TypeOK
  <2> QED
    BY <2>2, <2>3
<1>2. ASSUME NEW u \in Runners PROVE SessionInv(u)'
  <2>1. SessionInv(u)
    BY DEF BootstrapInvariant
  <2>2. Spares(u)
    BY <2>1 DEF vars, Spares, SessionInv, EvidenceOK, Prepared
  <2> QED
    BY <2>1, <2>2, OtherKeeps
<1> QED
  BY <1>1, <1>2 DEF BootstrapInvariant

LEMMA BootstrapStep ==
  ASSUME BootstrapInvariant, [Next]_vars
  PROVE  BootstrapInvariant'
<1>1. ASSUME NEW t \in Targets, Host(t) PROVE BootstrapInvariant'
  BY <1>1, ImagesStep, EndedStep DEF Host
<1>2. ASSUME NEW o \in Runners, NEW t \in Targets, SSH(o, t) \/ Take(o, t)
      PROVE  BootstrapInvariant'
  BY <1>2, ProbeStep, ApplyStep, DisconnectStep, TakeStep DEF SSH
<1>3. ASSUME NEW o \in Runners, Runner(o) PROVE BootstrapInvariant'
  <2>1. CASE Acquire(o) \/ Reset(o) \/ OutOfScope(o) \/ Check(o) \/ Mark(o)
    BY <2>1, AcquireStep, ResetStep, OutOfScopeStep, CheckStep, MarkStep
  <2>2. CASE Rescope(o) \/ Publish(o) \/ Interrupt(o) \/ Release(o)
    BY <2>2, RescopeStep, PublishStep, InterruptStep, ReleaseStep
  <2>3. CASE Start(o) \/ FleetDone(o)
    BY <2>3, StartStep, FleetDoneStep
  <2> QED
    BY <1>2, <1>3, <2>1, <2>2, <2>3 DEF Runner
<1>4. ASSUME NEW o \in Runners, Cancel(o) \/ Crash(o) \/ Unlock(o)
      PROVE  BootstrapInvariant'
  BY <1>4, CancelStep, CrashStep, UnlockStep
<1> QED
  BY <1>1, <1>3, <1>4, BootstrapStutter DEF Next

\* The inductive invariant of host preparation holds in every state.
THEOREM BootstrapInvariance == Spec => []BootstrapInvariant
<1>1. Init => BootstrapInvariant
  BY BootstrapInit
<1>2. BootstrapInvariant /\ [Next]_vars => BootstrapInvariant'
  BY BootstrapStep
<1> QED
  BY <1>1, <1>2, PTL DEF Spec

\* The journal's record is well formed and valid in every state, whatever failed:
\* "hosts-ready" is never saved over a host that is not (validateBootstrap).
THEOREM BootstrapTypes == Spec => []TypeOK
<1>1. BootstrapInvariant => TypeOK
  BY DEF BootstrapInvariant
<1> QED
  BY <1>1, BootstrapInvariance, PTL

\* No host is changed by a session before the whole fleet answered its preflight,
\* nor without a checkpoint that names it; and a session whose claim was taken
\* away reaches out to at most one more burst of hosts (Execute, fleet).
THEOREM MutationIsSafe == Spec => []SafeMutation
<1>1. BootstrapInvariant => SafeMutation
  <2>1. ASSUME BootstrapInvariant PROVE FencedByCheckpoints
    <3>1. ASSUME NEW o \in lost PROVE late[o] <= Parallel
      <4>1. o \in Runners
        BY <2>1 DEF BootstrapInvariant, TypeOK
      <4>2. /\ FenceOK(o) /\ late[o] \in 0..N /\ run[o].slots \in 0..Parallel
        BY <2>1, <4>1, SessionFacts DEF SessionInv
      <4> QED
        BY <3>1, <4>2, BootstrapAssumption DEF FenceOK
    <3> QED
      BY <3>1 DEF FencedByCheckpoints
  <2> QED
    BY <2>1 DEF SafeMutation, BootstrapInvariant, RecordInv
<1> QED
  BY <1>1, BootstrapInvariance, PTL

\* hosts-ready means that every host was found prepared after the last time the
\* recorded session changed any of them (Execute: the final verification).
THEOREM HostsReadyMeansFresh == Spec => []HostsReadyIsFresh
<1>1. BootstrapInvariant => HostsReadyIsFresh
  BY DEF BootstrapInvariant, RecordInv
<1> QED
  BY <1>1, BootstrapInvariance, PTL

\* What the record says holds however sessions follow, overtake and unlock each
\* other: "ready" was seen by the recorded session, hosts at work are named, no
\* preparation runs under hosts-ready, and a failure shows unless no checkpoint
\* could (Execute: the reset, the batch checkpoints and the deferred clean-up).
THEOREM RecordMeansEvidence == Spec => []RecordIsEvidence
<1>1. BootstrapInvariant => RecordIsEvidence
  <2>1. ASSUME BootstrapInvariant, NEW o \in Runners, Unrecorded(o)
        PROVE  run[o].behind
    BY <2>1 DEF BootstrapInvariant, SessionInv, RecordedOK, Unrecorded
  <2> QED
    BY <2>1 DEF RecordIsEvidence, FailureRecorded, BootstrapInvariant, RecordInv
<1> QED
  BY <1>1, BootstrapInvariance, PTL
=============================================================================
