------------------------------ MODULE JoinProofs ------------------------------
(***************************************************************************)
(* Proofs about the joining of an existing chain, for any number of hosts,  *)
(* plans and faults: an allocation has one engine, although every engine    *)
(* judges a record it read before its claim; and a recorded join was seen.  *)
(***************************************************************************)
EXTENDS Join, WellFoundedInduction, TLAPS

-----------------------------------------------------------------------------
(* The inductive invariant.                                                *)

PlanSteps == {"start", "await", "started", "scope", "poll", "wait"}
Steps     == {"idle", "claim", "enter", "deploy", "probe", "failed", "release"}
               \cup PlanSteps
Records   == [prepared : BOOLEAN, genesis : BOOLEAN, plan : Plans \cup {"none"},
              phase : {"none", "joining", "interrupted", "joined"},
              node : [Targets -> {"pending", "syncing", "ready"}]]
Sessions  == [pc : Steps, todo : SUBSET Targets, failed : BOOLEAN,
              behind : BOOLEAN, local : Records]
Jobs      == [plan : Plans \cup {"none"},
              step : {"none", "own", "compose", "mark", "done", "refused"}]
Hosts     == [plan : Plans \cup {"none", "genesis"}, box : 0..3, marker : 0..3,
              restarted : BOOLEAN, tip : BOOLEAN]

Types ==
  /\ TypeOK
  /\ ses \in [Actors -> Sessions]
  /\ job \in [Targets -> Jobs]
  /\ held \subseteq Targets

\* An invocation that is past its claim holds it.
Runs(a) == ses[a].pc \notin {"idle", "claim"}

\* Whose the hosts are, by the record.
EngineOf(r) == IF r.genesis THEN "genesis" ELSE r.plan

\* A host belongs to the engine of the record, and so does what runs on it; a
\* container that was put in place of ours is never taken for ours again.
HostOK(t) ==
  /\ host[t].plan # "none" => host[t].plan = EngineOf(record)
  /\ host[t].marker = Foreign => host[t].box = Foreign
  /\ job[t] # NoJob => job[t].plan \in Plans /\ job[t].plan = record.plan

\* What an invocation would save differs from the record only in what it works on,
\* or can no longer be saved.
AgreesOK(a) ==
  /\ ses[a].pc \notin {"idle", "claim", "release"} /\ ~ses[a].behind =>
       /\ ses[a].local.plan = record.plan /\ ses[a].local.genesis = record.genesis
       /\ a \notin Plans => ses[a].local.phase = record.phase
  /\ ses[a].pc \in PlanSteps =>
       /\ a \in Plans /\ record.plan = a /\ ~ses[a].behind
       /\ ses[a].local.phase = "joining"
  /\ ses[a].pc = "deploy" => a = "genesis" /\ record.genesis /\ ses[a].todo # {}

\* A plan starts its hosts one by one: those it is done with are at rest, all of
\* them when it polls.
JobsOK(a) ==
  /\ ses[a].pc \in {"start", "await", "started"} =>
       /\ ses[a].todo # {}
       /\ \A t \in Targets \ ses[a].todo : job[t] = NoJob
  /\ ses[a].pc = "started" => job[Min(ses[a].todo)] = NoJob
  /\ ses[a].pc \in {"scope", "poll", "wait"} => \A t \in Targets : job[t] = NoJob

\* What a poll has seen was so.
PollOK(a) ==
  ses[a].pc = "poll" =>
    /\ \A t \in Targets : Ready(host[t]) /\ Ours(host[t]) => t \in held
    /\ \A t \in Targets \ ses[a].todo :
         ses[a].local.node[t] = "ready" => t \in held \/ ses[a].failed

SessionInv(a) ==
  (Runs(a) => owner = a) /\ AgreesOK(a) /\ JobsOK(a) /\ PollOK(a)

JoinInvariant ==
  Types /\ (\A t \in Targets : HostOK(t)) /\ \A a \in Actors : SessionInv(a)

-----------------------------------------------------------------------------
(* Lemmas: the fields of an invocation after each of its updates.          *)

\* The next target of a plan is one that is left.
LEMMA MinIn ==
  ASSUME NEW S \in SUBSET Nat, S # {}
  PROVE  Min(S) \in S
<1> DEFINE Less == {p \in Nat \X Nat : p[1] < p[2]}
<1>1. IsWellFoundedOn(Less, Nat)
  BY NatLessThanWellFounded, Zenon DEF OpToRel
<1>2. PICK x \in S : \A y \in S : ~(<<y, x>> \in Less)
  BY <1>1, WFMin, Zenon
<1>3. ASSUME NEW y \in S PROVE x <= y
  <2>1. x \in Nat /\ y \in Nat /\ ~(<<y, x>> \in Less)
    BY <1>2, <1>3
  <2> QED
    BY <2>1, SMT
<1> QED
  BY <1>2, <1>3 DEF Min

LEMMA IdleIsSession ==
  Idle \in Sessions /\ Idle.pc = "idle" /\ Blank \in Records /\ ~Idle.behind
  BY DEF Idle, Sessions, Steps, Blank, Records, NoNode

LEMMA GoesFields ==
  ASSUME NEW s \in Sessions, NEW p \in Steps
  PROVE  /\ Goes(s, p) \in Sessions /\ Goes(s, p).pc = p
         /\ p # "release" =>
              /\ Goes(s, p).todo = s.todo /\ Goes(s, p).failed = s.failed
              /\ Goes(s, p).behind = s.behind /\ Goes(s, p).local = s.local
<1>1. /\ [s EXCEPT !.pc = p] \in Sessions /\ [s EXCEPT !.pc = p].pc = p
      /\ [s EXCEPT !.pc = p].todo = s.todo /\ [s EXCEPT !.pc = p].failed = s.failed
      /\ [s EXCEPT !.pc = p].behind = s.behind /\ [s EXCEPT !.pc = p].local = s.local
  BY DEF Sessions
<1>2. [Idle EXCEPT !.pc = p] \in Sessions /\ [Idle EXCEPT !.pc = p].pc = p
  BY IdleIsSession DEF Sessions
<1> QED
  BY <1>1, <1>2 DEF Goes

LEMMA BehindFields ==
  ASSUME NEW s \in Sessions
  PROVE  LET n == [s EXCEPT !.behind = TRUE] IN
         /\ n \in Sessions /\ n.behind /\ n.local = s.local
  BY Zenon DEF Sessions

LEMMA FailedFields ==
  ASSUME NEW s \in Sessions
  PROVE  LET n == [s EXCEPT !.failed = TRUE] IN
         /\ n \in Sessions /\ n.pc = s.pc /\ n.todo = s.todo /\ n.failed
         /\ n.behind = s.behind /\ n.local = s.local
  BY Zenon DEF Sessions

LEMMA PollFields ==
  ASSUME NEW s \in Sessions
  PROVE  LET n == [s EXCEPT !.todo = Targets, !.failed = FALSE] IN
         /\ n \in Sessions /\ n.pc = s.pc /\ n.todo = Targets
         /\ n.behind = s.behind /\ n.local = s.local
  BY Zenon DEF Sessions

LEMMA WorkFields ==
  ASSUME NEW s \in Sessions, NEW S \in SUBSET Targets
  PROVE  LET n == [s EXCEPT !.todo = S] IN
         /\ n \in Sessions /\ n.pc = s.pc /\ n.todo = S /\ n.failed = s.failed
         /\ n.behind = s.behind /\ n.local = s.local
  BY DEF Sessions

LEMMA LocalFields ==
  ASSUME NEW s \in Sessions, NEW r \in Records
  PROVE  LET n == [s EXCEPT !.local = r] IN
         /\ n \in Sessions /\ n.pc = s.pc /\ n.todo = s.todo
         /\ n.failed = s.failed /\ n.behind = s.behind /\ n.local = r
  BY DEF Sessions

\* The answer of a host is noted.
LEMMA NodeFields ==
  ASSUME NEW s \in Sessions, NEW t \in Targets, NEW p \in {"syncing", "ready"}
  PROVE  LET n == [s EXCEPT !.local.node[t] = p] IN
         /\ n \in Sessions /\ n.pc = s.pc /\ n.todo = s.todo
         /\ n.failed = s.failed /\ n.behind = s.behind
         /\ n.local \in Records /\ n.local.plan = s.local.plan
         /\ n.local.genesis = s.local.genesis /\ n.local.phase = s.local.phase
         /\ n.local.node = [s.local.node EXCEPT ![t] = p]
<1>1. p \in {"pending", "syncing", "ready"}
  OBVIOUS
<1> QED
  BY <1>1, Zenon DEF Sessions, Records

\* Invocation a turns to n and the others stay.
Turned(a, n) ==
  /\ ses' \in [Actors -> Sessions] /\ ses'[a] = n
  /\ \A b \in Actors \ {a} : ses'[b] = ses[b]

LEMMA SetTurns ==
  ASSUME Types, NEW a \in Actors, NEW n \in Sessions, Set(a, n)
  PROVE  Turned(a, n)
  BY DEF Set, Types, Turned

-----------------------------------------------------------------------------
(* Lemmas: one invocation at a time.                                       *)

\* Of an invocation that does not run nothing is asked.
LEMMA IdleKeeps ==
  ASSUME NEW a \in Actors, ses[a].pc \in {"idle", "claim"}
  PROVE  SessionInv(a)
  BY DEF SessionInv, Runs, AgreesOK, JobsOK, PollOK, PlanSteps

\* A step of the holder leaves the others where they are: not running.
LEMMA HolderKeeps ==
  ASSUME JoinInvariant, NEW a \in Actors, owner = a, Turned(a, ses'[a]),
         Types', \A t \in Targets : HostOK(t)', SessionInv(a)'
  PROVE  JoinInvariant'
<1>1. ASSUME NEW b \in Actors, b # a PROVE SessionInv(b)'
  <2>1. ses'[b] = ses[b] /\ ses'[b].pc \in {"idle", "claim"}
    BY <1>1 DEF Turned, JoinInvariant, SessionInv, Runs
  <2> QED
    BY <2>1 DEF SessionInv, Runs, AgreesOK, JobsOK, PollOK, PlanSteps
<1> QED
  BY <1>1 DEF JoinInvariant

\* A step of an invocation on its own: the record and the hosts stay.
LEMMA TurnKeeps ==
  ASSUME JoinInvariant, NEW a \in Actors, Runs(a), Turned(a, ses'[a]),
         UNCHANGED <<record, owner, host, job>>, held' \subseteq Targets,
         AgreesOK(a)', JobsOK(a)', PollOK(a)'
  PROVE  JoinInvariant'
<1>1. owner = a /\ Types /\ \A t \in Targets : HostOK(t)
  BY DEF JoinInvariant, SessionInv
<1>2. Types'
  BY <1>1 DEF Types, TypeOK, Turned
<1>3. \A t \in Targets : HostOK(t)'
  BY <1>1 DEF HostOK
<1>4. SessionInv(a)'
  BY <1>1 DEF SessionInv, Runs
<1> QED
  BY <1>1, <1>2, <1>3, <1>4, HolderKeeps

\* An invocation that fails, or only has its claim to give back; a job may end
\* with it.
LEMMA FailKeeps ==
  ASSUME JoinInvariant, NEW a \in Actors, Runs(a), ses[a].pc # "release",
         Turned(a, ses'[a]), ses'[a].pc \in {"failed", "release"},
         ses'[a].pc = "failed" =>
           ses'[a].local = ses[a].local /\ ses'[a].behind = ses[a].behind,
         UNCHANGED <<record, owner, host, held>>, job' \in [Targets -> Jobs],
         \A t \in Targets : job'[t] \in {job[t], NoJob}
  PROVE  JoinInvariant'
<1>1. /\ owner = a /\ Types /\ SessionInv(a) /\ \A t \in Targets : HostOK(t)
      /\ ses[a].pc \notin {"idle", "claim", "release"}
  BY DEF JoinInvariant, SessionInv, Runs
<1>2. Types'
  BY <1>1 DEF Types, TypeOK, Turned
<1>3. \A t \in Targets : HostOK(t)'
  BY <1>1 DEF HostOK
<1>4. SessionInv(a)'
  BY <1>1 DEF SessionInv, Runs, AgreesOK, JobsOK, PollOK, PlanSteps
<1> QED
  BY <1>1, <1>2, <1>3, <1>4, HolderKeeps

\* A step of a host.
LEMMA HostKeeps ==
  ASSUME JoinInvariant, UNCHANGED <<record, owner, ses>>,
         host' \in [Targets -> Hosts], job' \in [Targets -> Jobs],
         held \subseteq held', held' \subseteq Targets,
         \A t \in Targets : HostOK(t)',
         \A t \in Targets : job[t] = NoJob => job'[t] = NoJob,
         \A a \in Actors : ses[a].pc = "poll" =>
           \A t \in Targets : Ready(host'[t]) /\ Ours(host'[t]) => t \in held'
  PROVE  JoinInvariant'
<1>1. Types'
  BY DEF JoinInvariant, Types, TypeOK, Hosts
<1>2. ASSUME NEW a \in Actors PROVE SessionInv(a)'
  <2>1. SessionInv(a) /\ ses[a] \in Sessions
    BY DEF JoinInvariant, Types
  <2>2. ses[a].todo # {} => Min(ses[a].todo) \in Targets
    <3>1. ses[a].todo \in SUBSET Nat /\ ses[a].todo \subseteq Targets
      BY <2>1, JoinAssumption DEF Sessions
    <3> QED
      BY <3>1, MinIn
  <2>3. JobsOK(a)'
    BY <2>1, <2>2 DEF SessionInv, JobsOK
  <2>4. AgreesOK(a)' /\ PollOK(a)'
    BY <2>1 DEF SessionInv, AgreesOK, PollOK
  <2> QED
    BY <2>1, <2>3, <2>4 DEF SessionInv, Runs
<1> QED
  BY <1>1, <1>2 DEF JoinInvariant

-----------------------------------------------------------------------------
(* Lemmas: the record.                                                     *)

\* A checkpoint of the holder lands, whether or not it hears of it, or never will.
LEMMA SaveOutcome ==
  ASSUME Types, NEW a \in Actors, owner = a, NEW s \in Sessions,
         NEW ok \in Steps, NEW bad \in Steps, Save(a, s, ok, bad)
  PROVE  /\ UNCHANGED <<owner, host, job>> /\ Turned(a, ses'[a])
         /\ \/ /\ ~s.behind /\ Valid(s.local) /\ record' = s.local
               /\ ses'[a] \in {Goes(s, ok), Goes(s, bad)}
            \/ /\ record' = record
               /\ ses'[a] = Goes([s EXCEPT !.behind = TRUE], bad)
<1>1. /\ UNCHANGED <<owner, host, job>>
      /\ \/ /\ ~s.behind /\ Valid(s.local) /\ record' = s.local
            /\ Set(a, Goes(s, ok)) \/ Set(a, Goes(s, bad))
         \/ record' = record /\ Set(a, Goes([s EXCEPT !.behind = TRUE], bad))
  BY DEF Save
<1>2. /\ Goes(s, ok) \in Sessions /\ Goes(s, bad) \in Sessions
      /\ Goes([s EXCEPT !.behind = TRUE], bad) \in Sessions
  BY BehindFields, GoesFields
<1> QED
  BY <1>1, <1>2, SetTurns DEF Turned

\* What an invocation may save: a record of the same engine, or the first one.
Sound(s) ==
  ~s.behind => \/ s.local.plan = record.plan /\ s.local.genesis = record.genesis
               \/ record.plan = "none" /\ ~record.genesis

\* A checkpoint that lands leaves the invocation where it says; one that fails
\* leaves it failed, with what it saved, or behind for good.
LEMMA SaveKeeps ==
  ASSUME JoinInvariant, NEW a \in Actors, Runs(a), NEW s \in Sessions,
         NEW ok \in Steps, NEW bad \in {"failed", "release"}, Save(a, s, ok, bad),
         Sound(s), held' \subseteq Targets,
         ses'[a] = Goes(s, ok) /\ record' = s.local /\ ~s.behind /\
           UNCHANGED <<owner, host, job>> =>
             AgreesOK(a)' /\ JobsOK(a)' /\ PollOK(a)'
  PROVE  JoinInvariant'
<1>1. /\ owner = a /\ Types /\ \A t \in Targets : HostOK(t)
      /\ bad \in Steps /\ s.local \in Records
  BY DEF JoinInvariant, SessionInv, Steps, Sessions
<1>2. /\ UNCHANGED <<owner, host, job>> /\ Turned(a, ses'[a])
      /\ \/ /\ ~s.behind /\ Valid(s.local) /\ record' = s.local
            /\ ses'[a] \in {Goes(s, ok), Goes(s, bad)}
         \/ /\ record' = record
            /\ ses'[a] = Goes([s EXCEPT !.behind = TRUE], bad)
  BY <1>1, SaveOutcome
<1>3. /\ Goes(s, bad).pc = bad
      /\ bad = "failed" => Goes(s, bad).local = s.local
  BY <1>1, GoesFields
<1>4. /\ Goes([s EXCEPT !.behind = TRUE], bad).pc = bad
      /\ bad = "failed" => Goes([s EXCEPT !.behind = TRUE], bad).behind
  <2>1. [s EXCEPT !.behind = TRUE] \in Sessions /\ [s EXCEPT !.behind = TRUE].behind
    BY BehindFields
  <2> HIDE DEF Goes
  <2> QED
    BY <1>1, <2>1, GoesFields
<1>5. Types'
  <2>1. record' \in Records /\ Valid(record')
    BY <1>1, <1>2 DEF Types, TypeOK, Valid, Records
  <2> QED
    BY <1>1, <1>2, <2>1 DEF Types, TypeOK, Valid, Records, Turned
<1>6. \A t \in Targets : HostOK(t)'
  BY <1>1, <1>2, JoinAssumption DEF Types, TypeOK, Valid, HostOK, EngineOf, Sound
<1>7. SessionInv(a)'
  <2>1. ASSUME ses'[a].pc \in {"failed", "release"},
               ses'[a].pc = "failed" => ses'[a].behind \/ ses'[a].local = record'
        PROVE  SessionInv(a)'
    BY <1>1, <1>2, <2>1 DEF SessionInv, Runs, AgreesOK, JobsOK, PollOK, PlanSteps
  <2>2. CASE ses'[a] = Goes(s, ok) /\ record' = s.local /\ ~s.behind
    BY <1>1, <1>2, <2>2 DEF SessionInv
  <2>3. CASE ses'[a] = Goes(s, bad) /\ record' = s.local
    BY <1>3, <2>1, <2>3
  <2>4. CASE ses'[a] = Goes([s EXCEPT !.behind = TRUE], bad)
    BY <1>4, <2>1, <2>4
  <2> QED
    BY <1>2, <2>2, <2>3, <2>4
<1> QED
  BY <1>1, <1>2, <1>5, <1>6, <1>7, HolderKeeps

-----------------------------------------------------------------------------
(* The steps of an invocation.                                             *)

\* What an invocation that runs is, in the form the next lemmas ask for.
LEMMA RunFacts ==
  ASSUME JoinInvariant, NEW a \in Actors
  PROVE  /\ Types /\ SessionInv(a) /\ ses[a] \in Sessions
         /\ ses[a].todo \in SUBSET Targets /\ ses[a].local \in Records
         /\ \A t \in Targets : HostOK(t)
         /\ Runs(a) => owner = a
         /\ ses[a].todo # {} => Min(ses[a].todo) \in ses[a].todo
<1>1. Types /\ SessionInv(a) /\ ses[a] \in Sessions /\ \A t \in Targets : HostOK(t)
  BY DEF JoinInvariant, Types
<1>2. ses[a].todo \in SUBSET Targets /\ ses[a].local \in Records
  BY <1>1 DEF Sessions
<1>3. ses[a].todo # {} => Min(ses[a].todo) \in ses[a].todo
  BY <1>2, JoinAssumption, MinIn
<1> QED
  BY <1>1, <1>2, <1>3 DEF SessionInv

LEMMA InterruptStep ==
  ASSUME JoinInvariant, NEW a \in Actors, Interrupt(a)
  PROVE  JoinInvariant'
<1> DEFINE r == Interrupted(a, ses[a].local)
           s == [ses[a] EXCEPT !.local = r]
<1>1. /\ ses[a].pc = "failed" /\ held' = held
      /\ Save(a, s, "release", "release")
  BY DEF Interrupt, At
<1>2. Types /\ ses[a] \in Sessions /\ ses[a].local \in Records /\ SessionInv(a)
  BY RunFacts
<1>3. /\ r \in Records /\ r.plan = ses[a].local.plan
      /\ r.genesis = ses[a].local.genesis
  <2>1. CASE a \in Plans
    <3>1. r = [ses[a].local EXCEPT !.phase = "interrupted"]
      BY <2>1, JoinAssumption, Zenon DEF Interrupted
    <3> HIDE DEF r
    <3> QED
      BY <1>2, <3>1 DEF Records
  <2>2. CASE a = "bootstrap"
    <3>1. r = [ses[a].local EXCEPT !.prepared = FALSE]
      BY <2>2, JoinAssumption, Zenon DEF Interrupted
    <3> HIDE DEF r
    <3> QED
      BY <1>2, <3>1, Zenon DEF Records
  <2>3. CASE a \notin Plans /\ a # "bootstrap"
    <3>1. r = ses[a].local
      BY <2>3, Zenon DEF Interrupted
    <3> QED
      BY <1>2, <3>1
  <2> QED
    BY <2>1, <2>2, <2>3
<1> HIDE DEF r
<1>4. s \in Sessions /\ s.behind = ses[a].behind /\ s.local = r
  BY <1>2, <1>3, LocalFields
<1> HIDE DEF s
<1>5. "release" \in Steps /\ Runs(a) /\ held' \subseteq Targets
  BY <1>1, <1>2 DEF Steps, Runs, Types
<1>6. Sound(s)
  BY <1>1, <1>2, <1>3, <1>4 DEF SessionInv, AgreesOK, Sound
<1>7. ses'[a] = Goes(s, "release") => AgreesOK(a)' /\ JobsOK(a)' /\ PollOK(a)'
  BY <1>4, <1>5, GoesFields DEF AgreesOK, JobsOK, PollOK, PlanSteps
<1> QED
  BY <1>1, <1>4, <1>5, <1>6, <1>7, SaveKeeps

\* An invocation that gave its claim back, or was killed, is idle again.
LEMMA GoneStep ==
  ASSUME JoinInvariant, NEW a \in Actors, Release(a) \/ Crash(a)
  PROVE  JoinInvariant'
<1>1. /\ Set(a, Idle) /\ UNCHANGED <<record, host, job, held>>
      /\ \/ owner' = owner
         \/ ses[a].pc = "release" /\ owner = a /\ owner' = "none"
  BY DEF Release, Crash, At
<1>2. Types /\ \A t \in Targets : HostOK(t)
  BY RunFacts
<1>3. /\ Turned(a, ses'[a]) /\ ses'[a].pc = "idle"
  BY <1>1, <1>2, IdleIsSession, SetTurns DEF Turned
<1>4. Types' /\ \A t \in Targets : HostOK(t)'
  BY <1>1, <1>2, <1>3 DEF Types, TypeOK, Turned, HostOK
<1>5. ASSUME NEW b \in Actors PROVE SessionInv(b)'
  <2>1. CASE ses'[b].pc = "idle"
    BY <2>1 DEF SessionInv, Runs, AgreesOK, JobsOK, PollOK, PlanSteps
  <2>2. CASE ses'[b].pc # "idle"
    <3>1. ses'[b] = ses[b] /\ SessionInv(b) /\ b # a
      BY <1>3, <2>2 DEF Turned, JoinInvariant
    <3> QED
      BY <1>1, <3>1 DEF SessionInv, Runs, AgreesOK, JobsOK, PollOK, PlanSteps
  <2> QED
    BY <2>1, <2>2
<1> QED
  BY <1>4, <1>5 DEF JoinInvariant

\* The record is read, before there is a claim.
LEMMA BeginStep ==
  ASSUME JoinInvariant, NEW a \in Actors, Begin(a)
  PROVE  JoinInvariant'
<1>1. Set(a, Goes(Idle, "claim")) /\ UNCHANGED <<record, owner, host, job, held>>
  BY DEF Begin
<1>2. Types /\ \A t \in Targets : HostOK(t)
  BY RunFacts
<1>3. /\ Turned(a, ses'[a]) /\ ses'[a].pc = "claim"
  <2>1. "claim" \in Steps
    BY DEF Steps
  <2> QED
    BY <1>1, <1>2, <2>1, IdleIsSession, GoesFields, SetTurns DEF Turned
<1>4. Types' /\ \A t \in Targets : HostOK(t)'
  BY <1>1, <1>2, <1>3 DEF Types, TypeOK, Turned, HostOK
<1>5. ASSUME NEW b \in Actors PROVE SessionInv(b)'
  <2>1. CASE ses'[b].pc = "claim"
    BY <2>1 DEF SessionInv, Runs, AgreesOK, JobsOK, PollOK, PlanSteps
  <2>2. CASE ses'[b].pc # "claim"
    <3>1. ses'[b] = ses[b] /\ SessionInv(b)
      BY <1>3, <2>2 DEF Turned, JoinInvariant
    <3> QED
      BY <1>1, <3>1 DEF SessionInv, Runs, AgreesOK, JobsOK, PollOK
  <2> QED
    BY <2>1, <2>2
<1> QED
  BY <1>4, <1>5 DEF JoinInvariant

\* The claim is acquired, and the record read again, when nobody runs.
LEMMA ClaimStep ==
  ASSUME JoinInvariant, NEW a \in Actors, Claim(a)
  PROVE  JoinInvariant'
<1> DEFINE n == [Idle EXCEPT !.pc = "enter", !.local = record]
<1>1. /\ UNCHANGED <<record, host, job, held>>
      /\ \/ owner = "none" /\ owner' = a /\ Set(a, n)
         \/ owner' = owner /\ Set(a, Idle)
  BY DEF Claim
<1>2. Types /\ record \in Records /\ \A t \in Targets : HostOK(t)
  BY RunFacts DEF Types, TypeOK, Records
<1>3. n \in Sessions /\ n.pc = "enter" /\ n.local = record
  <2>1. "enter" \in Steps /\ record \in Records /\ Idle \in Sessions
    BY <1>2, IdleIsSession DEF Steps
  <2> QED
    BY <2>1, Zenon DEF Sessions
<1> HIDE DEF n
<1>4. Turned(a, ses'[a]) /\ ses'[a] \in {n, Idle}
  BY <1>1, <1>2, <1>3, IdleIsSession, SetTurns DEF Turned
<1>5. Types' /\ \A t \in Targets : HostOK(t)'
  BY <1>1, <1>2, <1>4 DEF Types, TypeOK, Turned, HostOK
<1>6. CASE owner = "none" /\ owner' = a /\ Set(a, n)
  <2>1. ses'[a] = n
    BY <1>2, <1>3, <1>6, SetTurns DEF Turned
  <2>2. SessionInv(a)'
    BY <1>1, <1>3, <1>6, <2>1
    DEF SessionInv, Runs, AgreesOK, JobsOK, PollOK, PlanSteps
  <2>3. ASSUME NEW b \in Actors, b # a PROVE SessionInv(b)'
    <3>1. "none" \notin Actors
      BY JoinAssumption DEF Actors
    <3>2. ses'[b] = ses[b] /\ ses[b].pc \in {"idle", "claim"}
      BY <1>4, <1>6, <2>3, <3>1 DEF Turned, JoinInvariant, SessionInv, Runs
    <3> QED
      BY <3>2 DEF SessionInv, Runs, AgreesOK, JobsOK, PollOK, PlanSteps
  <2> QED
    BY <1>5, <2>2, <2>3 DEF JoinInvariant
<1>7. CASE owner' = owner /\ Set(a, Idle)
  <2>1. ses'[a].pc = "idle"
    BY <1>2, <1>7, IdleIsSession, SetTurns DEF Turned
  <2>2. ASSUME NEW b \in Actors PROVE SessionInv(b)'
    <3>1. CASE b = a
      BY <2>1, <3>1 DEF SessionInv, Runs, AgreesOK, JobsOK, PollOK, PlanSteps
    <3>2. CASE b # a
      <4>1. ses'[b] = ses[b] /\ SessionInv(b)
        BY <1>4, <3>2 DEF Turned, JoinInvariant
      <4> QED
        BY <1>1, <1>7, <4>1 DEF SessionInv, Runs, AgreesOK, JobsOK, PollOK
    <3> QED
      BY <3>1, <3>2
  <2> QED
    BY <1>5, <2>2 DEF JoinInvariant
<1> QED
  BY <1>1, <1>6, <1>7

\* The second look at the record refuses it.
LEMMA RefusedStep ==
  ASSUME JoinInvariant, NEW a \in Actors, Refused(a)
  PROVE  JoinInvariant'
<1>1. /\ ses[a].pc = "enter" /\ Set(a, Goes(ses[a], "release"))
      /\ UNCHANGED <<record, owner, host, job, held>>
  BY DEF Refused, At
<1>2. Types /\ ses[a] \in Sessions /\ "release" \in Steps
  BY RunFacts DEF Steps
<1>3. Turned(a, ses'[a]) /\ ses'[a].pc = "release"
  BY <1>1, <1>2, GoesFields, SetTurns DEF Turned
<1> QED
  BY <1>1, <1>2, <1>3, FailKeeps DEF Runs, Types

\* A join enters the record: its plan, when the hosts are nobody's or its own.
LEMMA EnterStep ==
  ASSUME JoinInvariant, NEW a \in Plans, Enter(a)
  PROVE  JoinInvariant'
<1> DEFINE l == ses[a].local
           r == Joining(a, l)
           s == [ses[a] EXCEPT !.local = r, !.todo = Targets]
<1>1. /\ ses[a].pc = "enter" /\ ~l.genesis /\ l.plan \in {"none", a}
      /\ Save(a, s, "start", "failed") /\ held' = held
  BY DEF Enter, At, JoinScope, Mine
<1>2. /\ a \in Actors /\ Types /\ ses[a] \in Sessions /\ l \in Records
      /\ SessionInv(a)
  BY RunFacts DEF Actors
<1> HIDE DEF l
<1>3. /\ r \in Records /\ r.plan = a /\ r.phase = "joining"
      /\ r.genesis = l.genesis
  <2>1. NoNode \in [Targets -> {"pending", "syncing", "ready"}]
    BY DEF NoNode
  <2>2. l \in Records /\ a \in Plans \cup {"none"}
        /\ "joining" \in {"none", "joining", "interrupted", "joined"}
    BY <1>2
  <2> QED
    BY <2>1, <2>2, Zenon DEF Joining, Records
<1> HIDE DEF r
<1>4. /\ s \in Sessions /\ s.local = r /\ s.todo = Targets
      /\ s.behind = ses[a].behind
  <2>1. Targets \in SUBSET Targets /\ ses[a] \in Sessions /\ r \in Records
    BY <1>2, <1>3
  <2> QED
    BY <2>1, Zenon DEF Sessions
<1> HIDE DEF s
<1>5. /\ "start" \in Steps /\ Runs(a) /\ held' \subseteq Targets
  BY <1>1, <1>2 DEF Steps, PlanSteps, Runs, Types
<1>6. Sound(s)
  BY <1>1, <1>2, <1>3, <1>4 DEF SessionInv, AgreesOK, Sound, l
<1>7. ASSUME ses'[a] = Goes(s, "start"), record' = s.local, ~s.behind
      PROVE  AgreesOK(a)' /\ JobsOK(a)' /\ PollOK(a)'
  <2>1. /\ ses'[a].pc = "start" /\ ses'[a].local = r /\ ses'[a].todo = Targets
        /\ ~ses'[a].behind
    BY <1>4, <1>5, <1>7, GoesFields
  <2> QED
    BY <1>3, <1>4, <1>7, <2>1, JoinAssumption
    DEF AgreesOK, JobsOK, PollOK, PlanSteps
<1> QED
  BY <1>1, <1>2, <1>4, <1>5, <1>6, <1>7, SaveKeeps

\* The next host is asked to join, unless it is another's, or busy.
LEMMA StartStep ==
  ASSUME JoinInvariant, NEW a \in Plans, Start(a)
  PROVE  JoinInvariant'
<1> DEFINE t == Min(ses[a].todo)
           j == [plan |-> a, step |-> "own"]
<1>1. /\ ses[a].pc = "start" /\ UNCHANGED <<record, owner, host, held>>
      /\ \/ /\ Accepted(a, t) /\ Set(a, Goes(ses[a], "await"))
            /\ job' = [job EXCEPT ![t] = j]
         \/ Set(a, Goes(ses[a], "failed")) /\ UNCHANGED job
  BY DEF Start, At
<1>2. /\ a \in Actors /\ Types /\ ses[a] \in Sessions /\ SessionInv(a)
      /\ Runs(a) /\ owner = a /\ \A u \in Targets : HostOK(u)
  BY <1>1, RunFacts DEF Actors, Runs
<1>3. /\ t \in ses[a].todo /\ t \in Targets /\ record.plan = a /\ ~ses[a].behind
      /\ ses[a].local.phase = "joining"
      /\ ses[a].local.plan = record.plan /\ ses[a].local.genesis = record.genesis
      /\ \A u \in Targets \ ses[a].todo : job[u] = NoJob
  BY <1>1, <1>2, RunFacts DEF SessionInv, AgreesOK, JobsOK, PlanSteps
<1> HIDE DEF t
<1>4. CASE Accepted(a, t) /\ Set(a, Goes(ses[a], "await")) /\ job' = [job EXCEPT ![t] = j]
  <2>1. "await" \in Steps /\ j \in Jobs
    BY DEF Steps, PlanSteps, Jobs
  <2>2. /\ Turned(a, ses'[a]) /\ ses'[a].pc = "await" /\ ses'[a].todo = ses[a].todo
        /\ ses'[a].local = ses[a].local /\ ses'[a].behind = ses[a].behind
    BY <1>2, <1>4, <2>1, GoesFields, SetTurns DEF Turned
  <2>3. /\ job' \in [Targets -> Jobs] /\ job'[t] = j
        /\ \A u \in Targets \ {t} : job'[u] = job[u]
    BY <1>2, <1>3, <1>4, <2>1 DEF Types
  <2>4. Types'
    BY <1>1, <1>2, <2>2, <2>3 DEF Types, TypeOK, Turned
  <2>5. \A u \in Targets : HostOK(u)'
    BY <1>1, <1>2, <1>3, <2>3 DEF HostOK
  <2>6. SessionInv(a)'
    BY <1>1, <1>2, <1>3, <2>2, <2>3
    DEF SessionInv, Runs, AgreesOK, JobsOK, PollOK, PlanSteps
  <2> QED
    BY <1>2, <2>2, <2>4, <2>5, <2>6, HolderKeeps
<1>5. CASE Set(a, Goes(ses[a], "failed")) /\ UNCHANGED job
  <2>1. "failed" \in Steps
    BY DEF Steps
  <2>2. /\ Turned(a, ses'[a]) /\ ses'[a].pc = "failed"
        /\ ses'[a].local = ses[a].local /\ ses'[a].behind = ses[a].behind
    BY <1>2, <1>5, <2>1, GoesFields, SetTurns DEF Turned
  <2> QED
    BY <1>1, <1>2, <1>5, <2>2, FailKeeps DEF Types
<1> QED
  BY <1>1, <1>4, <1>5

\* A session is cut off, the instances are out of scope, or the deadline is over.
LEMMA FailStep ==
  ASSUME JoinInvariant, NEW a \in Actors, Runs(a), ses[a].pc # "release",
         Set(a, Goes(ses[a], "failed")),
         UNCHANGED <<record, owner, host, job, held>>
  PROVE  JoinInvariant'
<1>1. Types /\ ses[a] \in Sessions /\ "failed" \in Steps
  BY RunFacts DEF Steps
<1>2. /\ Turned(a, ses'[a]) /\ ses'[a].pc = "failed"
      /\ ses'[a].local = ses[a].local /\ ses'[a].behind = ses[a].behind
  BY <1>1, GoesFields, SetTurns DEF Turned
<1> QED
  BY <1>1, <1>2, FailKeeps DEF Types

\* The start of a host is recorded; after the last one the poll begins.
LEMMA StartedStep ==
  ASSUME JoinInvariant, NEW a \in Plans, Started(a)
  PROVE  JoinInvariant'
<1> DEFINE t == Min(ses[a].todo)
           rest == ses[a].todo \ {t}
           s == [ses[a] EXCEPT !.todo = rest]
           p == IF rest = {} THEN "scope" ELSE "start"
<1>1. /\ ses[a].pc = "started" /\ held' = held /\ Save(a, s, p, "failed")
  BY DEF Started, At
<1>2. /\ a \in Actors /\ Types /\ ses[a] \in Sessions /\ SessionInv(a)
      /\ Runs(a) /\ rest \in SUBSET Targets
  BY <1>1, RunFacts DEF Actors, Runs
<1>3. /\ t \in ses[a].todo /\ record.plan = a /\ ~ses[a].behind
      /\ ses[a].local.phase = "joining"
      /\ ses[a].local.plan = record.plan /\ ses[a].local.genesis = record.genesis
      /\ \A u \in Targets \ rest : job[u] = NoJob
  BY <1>1, <1>2, RunFacts DEF SessionInv, AgreesOK, JobsOK, PlanSteps
<1>4. p \in Steps /\ p \in {"scope", "start"} /\ (p = "scope" <=> rest = {})
  <2> HIDE DEF rest
  <2> QED
    BY DEF Steps, PlanSteps
<1> HIDE DEF p, rest, t
<1>5. s \in Sessions /\ s.todo = rest /\ s.local = ses[a].local
      /\ s.behind = ses[a].behind
  BY <1>2, WorkFields
<1> HIDE DEF s
<1>6. Sound(s) /\ held' \subseteq Targets
  BY <1>1, <1>2, <1>3, <1>5 DEF Sound, Types
<1>7. ASSUME ses'[a] = Goes(s, p), record' = s.local, UNCHANGED <<owner, host, job>>
      PROVE  AgreesOK(a)' /\ JobsOK(a)' /\ PollOK(a)'
  <2>1. /\ ses'[a].pc = p /\ ses'[a].todo = rest /\ ses'[a].local = ses[a].local
        /\ ses'[a].behind = ses[a].behind
    BY <1>4, <1>5, <1>7, GoesFields
  <2> QED
    BY <1>3, <1>4, <1>5, <1>7, <2>1 DEF AgreesOK, JobsOK, PollOK, PlanSteps
<1> QED
  BY <1>1, <1>2, <1>4, <1>5, <1>6, <1>7, SaveKeeps

-----------------------------------------------------------------------------
(* The poll.                                                               *)

LEMMA PollStep ==
  ASSUME JoinInvariant, NEW a \in Plans, Poll(a)
  PROVE  JoinInvariant'
<1> DEFINE g == Goes(ses[a], "poll")
           n == [g EXCEPT !.todo = Targets, !.failed = FALSE]
<1>1. /\ ses[a].pc = "scope" /\ UNCHANGED <<record, owner, host, job>>
      /\ \/ Set(a, n) /\ held' = {t \in Targets : Ready(host[t]) /\ Ours(host[t])}
         \/ Set(a, Goes(ses[a], "failed")) /\ held' = held
  BY DEF Poll, At
<1>2. /\ a \in Actors /\ Types /\ ses[a] \in Sessions /\ SessionInv(a) /\ Runs(a)
  BY <1>1, RunFacts DEF Actors, Runs
<1>3. /\ n \in Sessions /\ n.pc = "poll" /\ n.todo = Targets
      /\ n.behind = ses[a].behind /\ n.local = ses[a].local
  <2>1. "poll" \in Steps
    BY DEF Steps, PlanSteps
  <2>2. /\ g \in Sessions /\ g.pc = "poll" /\ g.behind = ses[a].behind
        /\ g.local = ses[a].local
    BY <1>2, <2>1, GoesFields
  <2> HIDE DEF g
  <2> QED
    BY <2>2, PollFields
<1> HIDE DEF g, n
<1>4. CASE Set(a, n) /\ held' = {t \in Targets : Ready(host[t]) /\ Ours(host[t])}
  <2>1. Turned(a, ses'[a]) /\ ses'[a] = n
    BY <1>2, <1>3, <1>4, SetTurns DEF Turned
  <2>2. AgreesOK(a)' /\ JobsOK(a)'
    BY <1>1, <1>2, <1>3, <2>1 DEF SessionInv, AgreesOK, JobsOK, PlanSteps
  <2>3. PollOK(a)' /\ held' \subseteq Targets
    BY <1>1, <1>3, <1>4, <2>1 DEF PollOK
  <2> QED
    BY <1>1, <1>2, <2>1, <2>2, <2>3, TurnKeeps
<1>5. CASE Set(a, Goes(ses[a], "failed")) /\ held' = held
  BY <1>1, <1>2, <1>5, FailStep
<1> QED
  BY <1>1, <1>4, <1>5

\* A host answers with what it is, or the poll has failed.
LEMMA StatusStep ==
  ASSUME JoinInvariant, NEW a \in Plans, Status(a)
  PROVE  JoinInvariant'
<1> DEFINE t == Min(ses[a].todo)
           s == [ses[a] EXCEPT !.todo = @ \ {t}]
           p == IF Ready(host[t]) THEN "ready" ELSE "syncing"
           n == [s EXCEPT !.local.node[t] = p]
           x == [s EXCEPT !.failed = TRUE]
<1>1. /\ ses[a].pc = "poll" /\ ses[a].todo # {}
      /\ UNCHANGED <<record, owner, host, job, held>>
      /\ (Ours(host[t]) /\ Set(a, n)) \/ Set(a, x)
  BY DEF Status, At, Answers
<1>2. /\ a \in Actors /\ Types /\ ses[a] \in Sessions /\ SessionInv(a) /\ Runs(a)
      /\ t \in ses[a].todo /\ t \in Targets /\ p \in {"syncing", "ready"}
      /\ ses[a].todo \ {t} \in SUBSET Targets
  BY <1>1, RunFacts DEF Actors, Runs
<1>3. p = "ready" => Ready(host[t])
  OBVIOUS
<1> HIDE DEF t, p
<1>4. /\ s \in Sessions /\ s.pc = "poll" /\ s.todo = ses[a].todo \ {t}
      /\ s.failed = ses[a].failed
      /\ s.behind = ses[a].behind /\ s.local = ses[a].local
  BY <1>1, <1>2, WorkFields
<1> HIDE DEF s
<1>5. /\ n \in Sessions /\ n.pc = "poll" /\ n.todo = s.todo /\ n.failed = s.failed
      /\ n.behind = s.behind /\ n.local \in Records /\ n.local.plan = s.local.plan
      /\ n.local.genesis = s.local.genesis /\ n.local.phase = s.local.phase
      /\ n.local.node = [s.local.node EXCEPT ![t] = p]
  <2>1. s \in Sessions /\ t \in Targets /\ p \in {"syncing", "ready"}
    BY <1>2, <1>4
  <2>2. /\ n \in Sessions /\ n.pc = s.pc /\ n.todo = s.todo
        /\ n.failed = s.failed /\ n.behind = s.behind
        /\ n.local \in Records /\ n.local.plan = s.local.plan
        /\ n.local.genesis = s.local.genesis /\ n.local.phase = s.local.phase
        /\ n.local.node = [s.local.node EXCEPT ![t] = p]
    BY <2>1, NodeFields, Zenon
  <2> QED
    BY <1>4, <2>2
<1>6. /\ x \in Sessions /\ x.pc = "poll" /\ x.todo = s.todo /\ x.failed
      /\ x.behind = s.behind /\ x.local = s.local
  BY <1>4, FailedFields
<1>7. /\ Turned(a, ses'[a])
      /\ (Ours(host[t]) /\ ses'[a] = n) \/ ses'[a] = x
  BY <1>1, <1>2, <1>5, <1>6, SetTurns DEF Turned
<1> HIDE DEF n, x
<1>8. /\ ses'[a].pc = "poll" /\ ses'[a].behind = ses[a].behind
      /\ ses'[a].local.plan = ses[a].local.plan
      /\ ses'[a].local.genesis = ses[a].local.genesis
      /\ ses'[a].local.phase = ses[a].local.phase
  BY <1>4, <1>5, <1>6, <1>7
<1>9. AgreesOK(a)' /\ JobsOK(a)'
  BY <1>1, <1>2, <1>8 DEF SessionInv, AgreesOK, JobsOK, PlanSteps
<1>10. PollOK(a)'
  <2>1. ses[a].local.node \in [Targets -> {"pending", "syncing", "ready"}]
    BY <1>2 DEF Sessions, Records
  <2>2. p = "ready" /\ Ours(host[t]) => t \in held
    BY <1>1, <1>2, <1>3 DEF SessionInv, PollOK
  <2>3. ses'[a].todo = ses[a].todo \ {t}
    BY <1>4, <1>5, <1>6, <1>7
  <2>4. CASE ses'[a] = x
    BY <1>1, <1>2, <1>6, <2>4 DEF SessionInv, PollOK
  <2>5. CASE Ours(host[t]) /\ ses'[a] = n
    <3>1. /\ ses'[a].local.node[t] = p
          /\ \A u \in Targets \ {t} : ses'[a].local.node[u] = ses[a].local.node[u]
          /\ ses'[a].failed = ses[a].failed
      BY <1>2, <1>4, <1>5, <2>1, <2>5
    <3> QED
      BY <1>1, <1>2, <2>2, <2>3, <2>5, <3>1 DEF SessionInv, PollOK
  <2> QED
    BY <1>7, <2>4, <2>5
<1> QED
  BY <1>1, <1>2, <1>7, <1>9, <1>10, TurnKeeps DEF Types

\* The poll is over: the join is recorded when every target was ready in it.
LEMMA ConcludeStep ==
  ASSUME JoinInvariant, NEW a \in Plans, Conclude(a)
  PROVE  JoinInvariant'
<1> DEFINE s == Concluded(ses[a])
           p == IF AllReady(ses[a]) THEN "release" ELSE "wait"
<1>1. /\ ses[a].pc = "poll" /\ held' = {}
      /\ \/ /\ Set(a, Goes(ses[a], "failed"))
            /\ UNCHANGED <<record, owner, host, job>>
         \/ Save(a, s, p, "failed")
  BY DEF Conclude, At
<1>2. /\ a \in Actors /\ Types /\ ses[a] \in Sessions /\ SessionInv(a) /\ Runs(a)
      /\ held' \subseteq Targets
  BY <1>1, RunFacts DEF Actors, Runs
<1>3. /\ s \in Sessions /\ s.behind = ses[a].behind
      /\ s.local.plan = ses[a].local.plan
      /\ s.local.genesis = ses[a].local.genesis
      /\ s = ses[a] \/ AllReady(ses[a])
  <2>1. CASE s = ses[a]
    BY <1>2, <2>1
  <2>2. CASE AllReady(ses[a])
    <3>1. s = [ses[a] EXCEPT !.local.phase = "joined"]
      BY <2>2 DEF Concluded
    <3>2. "joined" \in {"none", "joining", "interrupted", "joined"}
      OBVIOUS
    <3>3. ses[a] \in Sessions
      BY <1>2
    <3>4. [ses[a] EXCEPT !.local.phase = "joined"] \in Sessions
      BY <3>2, <3>3, Zenon DEF Sessions, Records
    <3>5. LET n == [ses[a] EXCEPT !.local.phase = "joined"] IN
          /\ n.behind = ses[a].behind /\ n.local.plan = ses[a].local.plan
          /\ n.local.genesis = ses[a].local.genesis
      BY <3>3, Zenon DEF Sessions, Records
    <3> HIDE DEF s
    <3> QED
      BY <2>2, <3>1, <3>4, <3>5, Zenon
  <2> QED
    BY <2>1, <2>2 DEF Concluded
<1>4. p \in Steps /\ (p = "release" \/ (p = "wait" /\ s = ses[a]))
  BY <1>3 DEF Steps, PlanSteps, Concluded
<1> HIDE DEF s, p
<1>5. CASE Save(a, s, p, "failed")
  <2>1. Sound(s)
    BY <1>1, <1>2, <1>3 DEF SessionInv, AgreesOK, Sound, PlanSteps
  <2>2. ASSUME ses'[a] = Goes(s, p), record' = s.local, UNCHANGED job
        PROVE  AgreesOK(a)' /\ JobsOK(a)' /\ PollOK(a)'
    <3>1. /\ ses'[a].pc = p
          /\ p = "wait" => ses'[a].local = ses[a].local /\ ses'[a].behind = ses[a].behind
      BY <1>3, <1>4, <2>2, GoesFields
    <3> QED
      BY <1>1, <1>2, <1>4, <2>2, <3>1
      DEF SessionInv, AgreesOK, JobsOK, PollOK, PlanSteps
  <2> QED
    BY <1>2, <1>3, <1>4, <1>5, <2>1, <2>2, SaveKeeps
<1>6. CASE /\ Set(a, Goes(ses[a], "failed")) /\ UNCHANGED <<record, owner, host, job>>
  <2>1. "failed" \in Steps
    BY DEF Steps
  <2>2. /\ Turned(a, ses'[a]) /\ ses'[a].pc = "failed"
        /\ ses'[a].local = ses[a].local /\ ses'[a].behind = ses[a].behind
    BY <1>2, <1>6, <2>1, GoesFields, SetTurns DEF Turned
  <2>3. AgreesOK(a)' /\ JobsOK(a)' /\ PollOK(a)'
    BY <1>1, <1>2, <1>6, <2>2 DEF SessionInv, AgreesOK, JobsOK, PollOK, PlanSteps
  <2> QED
    BY <1>2, <1>6, <2>2, <2>3, TurnKeeps
<1> QED
  BY <1>1, <1>5, <1>6

\* The poll is repeated, or the deadline is over.
LEMMA WaitStep ==
  ASSUME JoinInvariant, NEW a \in Plans, Wait(a)
  PROVE  JoinInvariant'
<1>1. /\ ses[a].pc = "wait" /\ UNCHANGED <<record, owner, host, job, held>>
      /\ Set(a, Goes(ses[a], "scope")) \/ Set(a, Goes(ses[a], "failed"))
  BY DEF Wait, At
<1>2. /\ a \in Actors /\ Types /\ ses[a] \in Sessions /\ SessionInv(a) /\ Runs(a)
      /\ "scope" \in Steps /\ held' \subseteq Targets
  BY <1>1, RunFacts DEF Actors, Runs, Steps, PlanSteps, Types
<1>3. CASE Set(a, Goes(ses[a], "scope"))
  <2>1. /\ Turned(a, ses'[a]) /\ ses'[a].pc = "scope"
        /\ ses'[a].local = ses[a].local /\ ses'[a].behind = ses[a].behind
    BY <1>2, <1>3, GoesFields, SetTurns DEF Turned
  <2>2. AgreesOK(a)' /\ JobsOK(a)' /\ PollOK(a)'
    BY <1>1, <1>2, <2>1 DEF SessionInv, AgreesOK, JobsOK, PollOK, PlanSteps
  <2> QED
    BY <1>1, <1>2, <2>1, <2>2, TurnKeeps
<1>4. CASE Set(a, Goes(ses[a], "failed"))
  BY <1>1, <1>2, <1>4, FailStep
<1> QED
  BY <1>1, <1>3, <1>4

-----------------------------------------------------------------------------
(* The other engines.                                                      *)

\* A genesis deployment enters the record: only one without a plan takes it.
LEMMA GenesisEnterStep ==
  ASSUME JoinInvariant, GenesisEnter
  PROVE  JoinInvariant'
<1> DEFINE a == "genesis"
           l == ses[a].local
           s == [ses[a] EXCEPT !.local.genesis = TRUE, !.todo = Targets]
<1>1. /\ ses[a].pc = "enter" /\ held' = held
      /\ Save(a, s, "deploy", "failed")
  BY DEF GenesisEnter, At
<1>2. /\ a \in Actors /\ a \notin Plans /\ Types /\ ses[a] \in Sessions
      /\ l \in Records /\ SessionInv(a) /\ Runs(a)
  <2>1. a \in Actors
    BY DEF Actors
  <2> QED
    BY <1>1, <2>1, RunFacts, JoinAssumption DEF Runs
<1>3. /\ s \in Sessions /\ s.todo = Targets /\ s.behind = ses[a].behind
      /\ s.local.plan = l.plan /\ s.local.genesis /\ s.local.phase = l.phase
  <2>1. ses[a] \in Sessions
    BY <1>2
  <2> QED
    BY <2>1, Zenon DEF Sessions, Records
<1> HIDE DEF s
<1>4. "deploy" \in Steps /\ "failed" \in Steps /\ held' \subseteq Targets
  BY <1>1, <1>2 DEF Steps, Types
<1>5. CASE Valid(s.local)
  <2>1. Sound(s)
    <3>1. l.plan = "none"
      BY <1>3, <1>5 DEF Valid
    <3> QED
      BY <1>1, <1>2, <1>3, <3>1 DEF SessionInv, AgreesOK, Sound
  <2>2. ASSUME ses'[a] = Goes(s, "deploy"), record' = s.local
        PROVE  AgreesOK(a)' /\ JobsOK(a)' /\ PollOK(a)'
    <3>1. ses'[a].pc = "deploy" /\ ses'[a].local = record' /\ ses'[a].todo # {}
      BY <1>3, <1>4, <2>2, GoesFields, JoinAssumption
    <3> QED
      BY <1>3, <2>2, <3>1 DEF AgreesOK, JobsOK, PollOK, PlanSteps
  <2> QED
    BY <1>1, <1>2, <1>3, <1>4, <2>1, <2>2, SaveKeeps
<1>6. CASE ~Valid(s.local)
  <2> DEFINE x == [s EXCEPT !.behind = TRUE]
             n == Goes(x, "failed")
  <2>1. UNCHANGED <<record, owner, host, job>> /\ Set(a, n)
    BY <1>1, <1>6 DEF Save
  <2>2. x \in Sessions /\ x.behind
    BY <1>3, BehindFields
  <2> HIDE DEF x
  <2>3. n \in Sessions /\ n.pc = "failed" /\ n.behind
    BY <1>4, <2>2, GoesFields
  <2> HIDE DEF n
  <2>4. Turned(a, ses'[a]) /\ ses'[a] = n
    BY <1>2, <2>1, <2>3, SetTurns DEF Turned
  <2>5. AgreesOK(a)' /\ JobsOK(a)' /\ PollOK(a)'
    BY <2>3, <2>4 DEF AgreesOK, JobsOK, PollOK, PlanSteps
  <2> QED
    BY <1>2, <1>4, <2>1, <2>4, <2>5, TurnKeeps
<1> QED
  BY <1>5, <1>6

\* It marks its first hosts, which are nobody's: the record says so.
LEMMA DeployStep ==
  ASSUME JoinInvariant, Deploy
  PROVE  JoinInvariant'
<1> DEFINE a == "genesis"
           t == Min(ses[a].todo)
           h == [host[t] EXCEPT !.plan = a]
           g == Goes(ses[a], "release")
           m == [ses[a] EXCEPT !.todo = ses[a].todo \ {t}]
<1>1. /\ ses[a].pc = "deploy" /\ UNCHANGED <<record, owner, job, held>>
      /\ \/ /\ host' = [host EXCEPT ![t] = h]
            /\ \/ Set(a, g)
               \/ ses[a].todo # {t} /\ Set(a, m)
         \/ Set(a, Goes(ses[a], "failed")) /\ UNCHANGED host
  BY DEF Deploy, SetHost, At
<1>2. /\ a \in Actors /\ Types /\ ses[a] \in Sessions /\ SessionInv(a) /\ Runs(a)
      /\ owner = a /\ \A u \in Targets : HostOK(u)
  <2>1. a \in Actors
    BY DEF Actors
  <2> QED
    BY <1>1, <2>1, RunFacts DEF Runs
<1>3. /\ t \in ses[a].todo /\ t \in Targets /\ record.genesis
      /\ ses[a].todo \subseteq Targets
  BY <1>1, <1>2, RunFacts DEF SessionInv, AgreesOK
<1> HIDE DEF t
<1>4. CASE /\ host' = [host EXCEPT ![t] = h]
           /\ Set(a, g) \/ (ses[a].todo # {t} /\ Set(a, m))
  <2>1. /\ host' \in [Targets -> Hosts] /\ host'[t].plan = "genesis"
        /\ host'[t].marker = host[t].marker /\ host'[t].box = host[t].box
        /\ \A u \in Targets \ {t} : host'[u] = host[u]
    BY <1>2, <1>3, <1>4 DEF Types, TypeOK, Hosts
  <2>2. /\ g \in Sessions /\ g.pc = "release"
        /\ m \in Sessions /\ m.pc = "deploy" /\ m.todo = ses[a].todo \ {t}
        /\ m.behind = ses[a].behind /\ m.local = ses[a].local
    <3>1. "release" \in Steps /\ ses[a].todo \ {t} \in SUBSET Targets
      BY <1>3 DEF Steps
    <3> QED
      BY <1>1, <1>2, <3>1, GoesFields, WorkFields
  <2> HIDE DEF g, m
  <2>3. /\ Turned(a, ses'[a])
        /\ ses'[a] = g \/ (ses[a].todo # {t} /\ ses'[a] = m)
    BY <1>2, <1>4, <2>2, SetTurns DEF Turned
  <2>4. Types'
    BY <1>1, <1>2, <2>1, <2>3 DEF Types, TypeOK, Turned, Hosts
  <2>5. \A u \in Targets : HostOK(u)'
    BY <1>1, <1>2, <1>3, <2>1 DEF HostOK, EngineOf
  <2>6. SessionInv(a)'
    <3>1. CASE ses'[a] = g
      BY <1>1, <1>2, <2>2, <3>1
      DEF SessionInv, Runs, AgreesOK, JobsOK, PollOK, PlanSteps
    <3>2. CASE ses[a].todo # {t} /\ ses'[a] = m
      <4>1. m.todo # {}
        BY <1>3, <2>2, <3>2
      <4> QED
        BY <1>1, <1>2, <1>3, <2>2, <3>2, <4>1
        DEF SessionInv, Runs, AgreesOK, JobsOK, PollOK, PlanSteps
    <3> QED
      BY <2>3, <3>1, <3>2
  <2> QED
    BY <1>2, <2>3, <2>4, <2>5, <2>6, HolderKeeps
<1>5. CASE Set(a, Goes(ses[a], "failed")) /\ UNCHANGED host
  BY <1>1, <1>2, <1>5, FailStep
<1> QED
  BY <1>1, <1>4, <1>5

\* Host preparation run again: the record only says whether it is done.
LEMMA PrepareStep ==
  ASSUME JoinInvariant, Reprepare \/ Probe
  PROVE  JoinInvariant'
<1> DEFINE a == "bootstrap"
           l == ses[a].local
<1>1. a \in Actors /\ a \notin Plans /\ Types /\ ses[a] \in Sessions
      /\ l \in Records /\ SessionInv(a)
  <2>1. a \in Actors
    BY DEF Actors
  <2> QED
    BY <2>1, RunFacts, JoinAssumption
<1>2. ASSUME NEW b \in BOOLEAN, NEW p \in {"probe", "release"},
             ses[a].pc \in {"enter", "probe"}, held' = held,
             Save(a, [ses[a] EXCEPT !.local.prepared = b], p, "failed")
      PROVE  JoinInvariant'
  <2> DEFINE s == [ses[a] EXCEPT !.local.prepared = b]
  <2>1. /\ s \in Sessions /\ s.behind = ses[a].behind
        /\ s.local.plan = l.plan /\ s.local.genesis = l.genesis
        /\ s.local.phase = l.phase
    BY <1>1 DEF Sessions, Records
  <2>2. Save(a, s, p, "failed")
    BY <1>2
  <2> HIDE DEF s
  <2>3. Runs(a) /\ p \in Steps /\ held' \subseteq Targets
    BY <1>1, <1>2 DEF Runs, Steps, Types
  <2>4. Sound(s)
    BY <1>1, <1>2, <2>1 DEF SessionInv, AgreesOK, Sound
  <2>5. ASSUME ses'[a] = Goes(s, p), record' = s.local
        PROVE  AgreesOK(a)' /\ JobsOK(a)' /\ PollOK(a)'
    <3>1. ses'[a].pc = p /\ (p # "release" => ses'[a].local = record')
      BY <2>1, <2>3, <2>5, GoesFields
    <3> QED
      BY <3>1 DEF AgreesOK, JobsOK, PollOK, PlanSteps
  <2> QED
    BY <1>1, <2>1, <2>2, <2>3, <2>4, <2>5, SaveKeeps
<1>3. CASE Reprepare
  <2>1. PICK b \in BOOLEAN : /\ ses[a].pc = "enter" /\ held' = held
          /\ Save(a, [ses[a] EXCEPT !.local.prepared = b], "probe", "failed")
    BY <1>3, Zenon DEF Reprepare, At
  <2> QED
    BY <1>2, <2>1
<1>4. CASE Probe
  <2>1. CASE \A t \in Targets : host[t].box = 0
    <3>1. PICK b \in BOOLEAN : /\ ses[a].pc = "probe" /\ held' = held
            /\ Save(a, [ses[a] EXCEPT !.local.prepared = b], "release", "failed")
      BY <1>4, <2>1, Zenon DEF Probe, At
    <3> QED
      BY <1>2, <3>1
  <2>2. CASE ~ \A t \in Targets : host[t].box = 0
    <3>1. /\ ses[a].pc = "probe" /\ Set(a, Goes(ses[a], "failed"))
          /\ UNCHANGED <<record, owner, host, job, held>>
      BY <1>4, <2>2 DEF Probe, At
    <3> QED
      BY <1>1, <3>1, FailStep DEF Runs
  <2> QED
    BY <2>1, <2>2
<1> QED
  BY <1>3, <1>4

-----------------------------------------------------------------------------
(* The steps of the hosts.                                                 *)

\* While a host works off a join-start, nobody polls.
LEMMA NoPoll ==
  ASSUME JoinInvariant, NEW t \in Targets, job[t] # NoJob, NEW a \in Actors
  PROVE  ses[a].pc # "poll"
  BY DEF JoinInvariant, SessionInv, JobsOK

\* join-start writes deployment.json, starts the container, and marks it.
LEMMA WorkerStep ==
  ASSUME JoinInvariant, NEW t \in Targets, Own(t) \/ Compose(t) \/ MarkContainer(t)
  PROVE  JoinInvariant'
<1>1. /\ Types /\ HostOK(t) /\ \A u \in Targets : HostOK(u)
      /\ host \in [Targets -> Hosts] /\ job \in [Targets -> Jobs]
      /\ record.plan # "none" => ~record.genesis
  BY DEF JoinInvariant, Types, TypeOK, Hosts
<1>2. /\ UNCHANGED <<record, owner, ses, held>>
      /\ job[t].step \in {"own", "compose", "mark"}
      /\ \E step \in {"compose", "mark", "done", "refused"} :
           job' = [job EXCEPT ![t].step = step]
  BY DEF Own, Compose, MarkContainer, HostStep, JobGoes
<1>3. /\ job[t] # NoJob /\ job[t].plan \in Plans /\ job[t].plan = record.plan
      /\ job[t].plan # "none"
  <2>1. job[t] # NoJob
    BY <1>2 DEF NoJob
  <2> QED
    BY <1>1, <2>1, JoinAssumption DEF HostOK
<1>4. /\ job' \in [Targets -> Jobs] /\ job'[t].plan = job[t].plan
      /\ \A u \in Targets \ {t} : job'[u] = job[u]
  BY <1>1, <1>2 DEF Jobs
<1>5. /\ host' \in [Targets -> Hosts] /\ \A u \in Targets \ {t} : host'[u] = host[u]
      /\ host'[t].plan \in {host[t].plan, job[t].plan}
      /\ host'[t].marker = Foreign => host'[t].box = Foreign
  <2>1. CASE Own(t)
    BY <1>1, <1>3, <2>1 DEF Own, SetHost, Hosts, HostOK
  <2>2. CASE Compose(t)
    BY <1>1, <2>2 DEF Compose, NewId, SetHost, Hosts, HostOK, Foreign
  <2>3. CASE MarkContainer(t)
    BY <1>1, <2>3 DEF MarkContainer, SetHost, Hosts, HostOK, Foreign
  <2> QED
    BY <2>1, <2>2, <2>3
<1>6. \A u \in Targets : HostOK(u)'
  <2>1. EngineOf(record) = record.plan
    BY <1>1, <1>3 DEF EngineOf
  <2> QED
    BY <1>1, <1>2, <1>3, <1>4, <1>5, <2>1 DEF HostOK, EngineOf
<1>7. \A a \in Actors : ses[a].pc # "poll"
  BY <1>3, NoPoll
<1>8. \A u \in Targets : job[u] = NoJob => job'[u] = NoJob
  BY <1>3, <1>4
<1>9. held' = held /\ held \subseteq Targets
  BY <1>1, <1>2 DEF Types
<1> QED
  BY <1>2, <1>4, <1>5, <1>6, <1>7, <1>8, <1>9, HostKeeps

\* A job that ends on its host without a session to hear of it.
LEMMA JobEnds ==
  ASSUME JoinInvariant, NEW t \in Targets, job' = [job EXCEPT ![t] = NoJob],
         UNCHANGED <<record, owner, ses, host, held>>
  PROVE  JoinInvariant'
<1>1. /\ Types /\ \A u \in Targets : HostOK(u)
      /\ NoJob \in Jobs
  BY DEF JoinInvariant, NoJob, Jobs
<1>2. /\ job' \in [Targets -> Jobs] /\ host' \in [Targets -> Hosts]
      /\ \A u \in Targets : job'[u] \in {job[u], NoJob}
      /\ held' \subseteq Targets
  BY <1>1 DEF Types, TypeOK, Hosts
<1>3. \A u \in Targets : HostOK(u)'
  BY <1>1, <1>2 DEF HostOK
<1>4. \A a \in Actors : ses[a].pc = "poll" =>
        \A u \in Targets : Ready(host'[u]) /\ Ours(host'[u]) => u \in held'
  BY DEF JoinInvariant, SessionInv, PollOK
<1> QED
  BY <1>2, <1>3, <1>4, HostKeeps

\* A session awaits the job that has its plan, on the host that is next.
Awaits(a, t) == a \in Plans /\ ses[a].pc = "await" /\ t = Min(ses[a].todo)

\* It hears that the job failed, or nothing.
LEMMA JobFails ==
  ASSUME JoinInvariant, NEW t \in Targets, NEW a \in Plans, Awaits(a, t),
         job' = [job EXCEPT ![t] = NoJob], Set(a, Goes(ses[a], "failed")),
         UNCHANGED <<record, owner, host, held>>
  PROVE  JoinInvariant'
<1>1. /\ a \in Actors /\ Types /\ ses[a] \in Sessions /\ Runs(a)
      /\ "failed" \in Steps /\ NoJob \in Jobs
  BY RunFacts DEF Actors, Awaits, Runs, Steps, NoJob, Jobs
<1>2. /\ Turned(a, ses'[a]) /\ ses'[a].pc = "failed"
      /\ ses'[a].local = ses[a].local /\ ses'[a].behind = ses[a].behind
  BY <1>1, GoesFields, SetTurns DEF Turned
<1>3. /\ job' \in [Targets -> Jobs] /\ \A u \in Targets : job'[u] \in {job[u], NoJob}
  BY <1>1 DEF Types
<1> QED
  BY <1>1, <1>2, <1>3, FailKeeps DEF Awaits

\* It hears of the first status.
LEMMA JobAnswers ==
  ASSUME JoinInvariant, NEW t \in Targets, NEW a \in Plans, Awaits(a, t),
         job' = [job EXCEPT ![t] = NoJob],
         Set(a, [ses[a] EXCEPT !.pc = "started", !.local.node[t] = "syncing"]),
         UNCHANGED <<record, owner, host, held>>
  PROVE  JoinInvariant'
<1> DEFINE n == [ses[a] EXCEPT !.pc = "started", !.local.node[t] = "syncing"]
           l == ses[a].local
<1>1. /\ a \in Actors /\ Types /\ ses[a] \in Sessions /\ Runs(a) /\ SessionInv(a)
      /\ owner = a /\ NoJob \in Jobs /\ \A u \in Targets : HostOK(u)
  BY RunFacts DEF Actors, Awaits, Runs, NoJob, Jobs
<1>2. /\ n \in Sessions /\ n.pc = "started" /\ n.todo = ses[a].todo
      /\ n.behind = ses[a].behind /\ n.local.plan = l.plan
      /\ n.local.genesis = l.genesis /\ n.local.phase = l.phase
  <2>1. /\ "started" \in Steps /\ ses[a] \in Sessions
        /\ "syncing" \in {"pending", "syncing", "ready"}
    BY <1>1 DEF Steps, PlanSteps
  <2> QED
    BY <2>1, Zenon DEF Sessions, Records
<1>3. Set(a, n)
  OBVIOUS
<1> HIDE DEF n
<1>4. Turned(a, ses'[a]) /\ ses'[a] = n
  BY <1>1, <1>2, <1>3, SetTurns DEF Turned
<1>5. /\ job' \in [Targets -> Jobs] /\ job'[t] = NoJob
      /\ \A u \in Targets : job'[u] \in {job[u], NoJob}
  BY <1>1 DEF Types
<1>6. Types'
  BY <1>1, <1>4, <1>5 DEF Types, TypeOK, Turned
<1>7. \A u \in Targets : HostOK(u)'
  BY <1>1, <1>5 DEF HostOK
<1>8. SessionInv(a)'
  BY <1>1, <1>2, <1>4, <1>5
  DEF Awaits, SessionInv, Runs, AgreesOK, JobsOK, PollOK, PlanSteps
<1> QED
  BY <1>1, <1>4, <1>6, <1>7, <1>8, HolderKeeps

\* A job ends: with an answer, with its worker, or with the session.
LEMMA AnswerStep ==
  ASSUME JoinInvariant, NEW t \in Targets, Answer(t) \/ Killed(t)
  PROVE  JoinInvariant'
<1>1. PICK a : a = job[t].plan
  OBVIOUS
<1>2. /\ UNCHANGED <<record, owner, host, held>>
      /\ job' = [job EXCEPT ![t] = NoJob]
      /\ job[t] # NoJob
      /\ \/ UNCHANGED ses
         \/ /\ ses[a].pc = "await" /\ t = Min(ses[a].todo)
            /\ \/ Set(a, Goes(ses[a], "failed"))
               \/ Set(a, [ses[a] EXCEPT !.pc = "started", !.local.node[t] = "syncing"])
  <2>1. CASE Answer(t)
    <3>1. job[t] # NoJob
      BY <2>1 DEF Answer, NoJob
    <3> QED
      BY <1>1, <2>1, <3>1 DEF Answer, At
  <2>2. CASE Killed(t)
    BY <1>1, <2>2 DEF Killed, At
  <2> QED
    BY <2>1, <2>2
<1>3. a \in Plans
  BY <1>1, <1>2 DEF JoinInvariant, HostOK
<1> QED
  BY <1>2, <1>3, JobEnds, JobFails, JobAnswers DEF Awaits

\* What happens to a Core and its container.
LEMMA CoreStep ==
  ASSUME JoinInvariant, NEW t \in Targets,
         Syncs(t) \/ Lags(t) \/ Restarts(t) \/ Removed(t) \/ Replaced(t)
  PROVE  JoinInvariant'
<1>1. /\ Types /\ HostOK(t) /\ \A u \in Targets : HostOK(u)
      /\ host \in [Targets -> Hosts] /\ host[t] \in Hosts
  BY DEF JoinInvariant, Types, TypeOK, Hosts
<1>2. UNCHANGED <<record, owner, ses, job>>
  BY DEF Syncs, Lags, Restarts, Removed, Replaced, Calm
<1>3. ASSUME NEW h, SetHost(t, h), h \in Hosts, h.plan = host[t].plan,
             h.marker = host[t].marker, h.marker = Foreign => h.box = Foreign,
             held' \subseteq Targets, held \subseteq held',
             \A a \in Actors : ses[a].pc = "poll" /\ Ready(h) /\ Ours(h) =>
               t \in held' \/ (Ready(host[t]) /\ Ours(host[t]))
      PROVE  JoinInvariant'
  <2>1. /\ host' \in [Targets -> Hosts] /\ host'[t] = h
        /\ \A u \in Targets \ {t} : host'[u] = host[u]
    BY <1>1, <1>3 DEF SetHost
  <2>2. \A u \in Targets : HostOK(u)'
    BY <1>1, <1>2, <1>3, <2>1 DEF HostOK
  <2>3. \A a \in Actors : ses[a].pc = "poll" =>
          \A u \in Targets : Ready(host'[u]) /\ Ours(host'[u]) => u \in held'
    BY <1>3, <2>1 DEF JoinInvariant, SessionInv, PollOK
  <2>4. job' \in [Targets -> Jobs] /\ \A u \in Targets : job[u] = NoJob => job'[u] = NoJob
    BY <1>1, <1>2 DEF Types
  <2> QED
    BY <1>2, <1>3, <2>1, <2>2, <2>3, <2>4, HostKeeps
<1>4. CASE Syncs(t)
  <2> DEFINE h == [host[t] EXCEPT !.tip = TRUE]
  <2>1. /\ h \in Hosts /\ h.plan = host[t].plan /\ h.marker = host[t].marker
        /\ h.box = host[t].box
    BY <1>1, Zenon DEF Hosts
  <2>2. SetHost(t, h) /\ held' = IF /\ \E a \in Plans : ses[a].pc = "poll"
                                    /\ Ready(host'[t]) /\ Ours(host'[t])
                                 THEN held \cup {t} ELSE held
    BY <1>4 DEF Syncs, At
  <2> HIDE DEF h
  <2>3. host'[t] = h
    BY <1>1, <2>2 DEF SetHost
  <2>4. \A a \in Actors : ses[a].pc = "poll" => a \in Plans
    BY DEF JoinInvariant, SessionInv, AgreesOK, PlanSteps
  <2>5. held \subseteq held' /\ held' \subseteq Targets
    BY <1>1, <2>2 DEF Types
  <2> QED
    BY <1>1, <1>3, <2>1, <2>2, <2>3, <2>4, <2>5 DEF HostOK
<1>5. CASE Lags(t)
  <2> DEFINE h == [host[t] EXCEPT !.tip = FALSE]
  <2>1. /\ h \in Hosts /\ h.plan = host[t].plan /\ h.marker = host[t].marker
        /\ h.box = host[t].box /\ ~h.tip
    BY <1>1, Zenon DEF Hosts
  <2>2. SetHost(t, h) /\ held' = held
    BY <1>5 DEF Lags
  <2> HIDE DEF h
  <2> QED
    BY <1>1, <1>3, <2>1, <2>2 DEF HostOK, Ready, Types
<1>6. CASE Restarts(t)
  <2> DEFINE h == [host[t] EXCEPT !.restarted = TRUE, !.tip = FALSE]
  <2>1. /\ h \in Hosts /\ h.plan = host[t].plan /\ h.marker = host[t].marker
        /\ h.box = host[t].box /\ ~h.tip
    BY <1>1, Zenon DEF Hosts
  <2>2. SetHost(t, h) /\ held' = held
    BY <1>6 DEF Restarts
  <2> HIDE DEF h
  <2> QED
    BY <1>1, <1>3, <2>1, <2>2 DEF HostOK, Ready, Types
<1>7. CASE Removed(t)
  <2> DEFINE h == [host[t] EXCEPT !.box = 0, !.restarted = FALSE, !.tip = FALSE]
  <2>1. /\ h \in Hosts /\ h.plan = host[t].plan /\ h.marker = host[t].marker
        /\ ~h.tip
    <3>1. 0 \in 0..3 /\ host[t] \in Hosts
      BY <1>1
    <3> QED
      BY <3>1, Zenon DEF Hosts
  <2>2. SetHost(t, h) /\ held' = held /\ host[t].box \in Created
    BY <1>7 DEF Removed
  <2> HIDE DEF h
  <2> QED
    BY <1>1, <1>3, <2>1, <2>2 DEF HostOK, Ready, Types, Created, Foreign
<1>8. CASE Replaced(t)
  <2> DEFINE h == [host[t] EXCEPT !.box = Foreign, !.restarted = FALSE, !.tip = TRUE]
  <2>1. /\ h \in Hosts /\ h.plan = host[t].plan /\ h.marker = host[t].marker
        /\ h.box = Foreign
    <3>1. Foreign \in 0..3 /\ host[t] \in Hosts
      BY <1>1 DEF Foreign
    <3> QED
      BY <3>1, Zenon DEF Hosts
  <2>2. SetHost(t, h) /\ held' = held /\ host[t].box \in Created
    BY <1>8 DEF Replaced
  <2> HIDE DEF h
  <2>3. ~Ours(h)
    BY <1>1, <2>1, <2>2 DEF HostOK, Ours, Created, Foreign
  <2> QED
    BY <1>1, <1>3, <2>1, <2>2, <2>3 DEF HostOK, Types
<1> QED
  BY <1>4, <1>5, <1>6, <1>7, <1>8

\* The claim of an invocation that is gone is released by hand.
LEMMA UnlockStep ==
  ASSUME JoinInvariant, Unlock
  PROVE  JoinInvariant'
<1>1. /\ ses[owner].pc \in {"idle", "claim"} /\ owner' = "none"
      /\ UNCHANGED <<record, ses, host, job, held>>
  BY DEF Unlock
<1>2. Types /\ \A t \in Targets : HostOK(t)
  BY DEF JoinInvariant
<1>3. Types' /\ \A t \in Targets : HostOK(t)'
  BY <1>1, <1>2 DEF Types, TypeOK, HostOK
<1>4. ASSUME NEW a \in Actors PROVE SessionInv(a)'
  <2>1. ses'[a].pc \in {"idle", "claim"}
    BY <1>1 DEF JoinInvariant, SessionInv, Runs
  <2> QED
    BY <2>1 DEF SessionInv, Runs, AgreesOK, JobsOK, PollOK, PlanSteps
<1> QED
  BY <1>3, <1>4 DEF JoinInvariant

-----------------------------------------------------------------------------
(* The invariant.                                                          *)

LEMMA JoinInit == Init => JoinInvariant
<1> SUFFICES ASSUME Init PROVE JoinInvariant
  OBVIOUS
<1>1. NoJob \in Jobs /\ Fresh \in Hosts /\ Fresh.plan = "none" /\ Fresh.marker = 0
  BY DEF NoJob, Jobs, Fresh, Hosts
<1>2. /\ record \in Records /\ record.plan = "none" /\ record.phase = "none"
      /\ owner = "none" /\ ses = [a \in Actors |-> Idle]
      /\ host = [t \in Targets |-> Fresh] /\ job = [t \in Targets |-> NoJob]
      /\ held = {}
  BY IdleIsSession DEF Init, Blank
<1>3. Types
  BY <1>1, <1>2, IdleIsSession DEF Types, TypeOK, Records, Hosts
<1>4. \A t \in Targets : HostOK(t)
  BY <1>1, <1>2 DEF HostOK, Foreign
<1>5. \A a \in Actors : SessionInv(a)
  BY <1>2, IdleIsSession, IdleKeeps
<1> QED
  BY <1>3, <1>4, <1>5 DEF JoinInvariant

LEMMA StutterStep == JoinInvariant /\ UNCHANGED vars => JoinInvariant'
<1> SUFFICES ASSUME JoinInvariant, UNCHANGED vars PROVE JoinInvariant'
  OBVIOUS
<1>1. /\ UNCHANGED <<record, owner, ses, host, job, held>>
      /\ Types /\ \A t \in Targets : HostOK(t)
  BY DEF vars, JoinInvariant
<1>2. Types' /\ \A t \in Targets : HostOK(t)'
  BY <1>1 DEF Types, TypeOK, HostOK
<1>3. \A a \in Actors : SessionInv(a)'
  BY <1>1 DEF JoinInvariant, SessionInv, Runs, AgreesOK, JobsOK, PollOK
<1> QED
  BY <1>2, <1>3 DEF JoinInvariant

\* A step of a plan.
LEMMA JoinRunStep ==
  ASSUME JoinInvariant, NEW a \in Plans, JoinRun(a)
  PROVE  JoinInvariant'
<1>1. a \in Actors
  BY DEF Actors
<1>2. CASE Cut(a)
  <2>1. /\ ses[a].pc = "await" /\ Set(a, Goes(ses[a], "failed"))
        /\ UNCHANGED <<record, owner, host, job, held>>
    BY <1>2 DEF Cut, At
  <2> QED
    BY <1>1, <2>1, FailStep DEF Runs
<1>3. CASE Claim(a) \/ Refused(a) \/ Interrupt(a) \/ Release(a)
  BY <1>1, <1>3, ClaimStep, RefusedStep, InterruptStep, GoneStep
<1>4. CASE Enter(a) \/ Start(a) \/ Started(a)
  BY <1>4, EnterStep, StartStep, StartedStep
<1>5. CASE Poll(a) \/ Status(a) \/ Conclude(a) \/ Wait(a)
  BY <1>5, PollStep, StatusStep, ConcludeStep, WaitStep
<1> QED
  BY <1>2, <1>3, <1>4, <1>5 DEF JoinRun

\* A step of a genesis deployment, or of the host preparation.
LEMMA EngineStep ==
  ASSUME JoinInvariant, NEW a \in {"genesis", "bootstrap"}, Engine(a)
  PROVE  JoinInvariant'
<1>1. a \in Actors
  BY DEF Actors
<1>2. CASE Claim(a) \/ Refused(a) \/ Interrupt(a) \/ Release(a)
  BY <1>1, <1>2, ClaimStep, RefusedStep, InterruptStep, GoneStep
<1>3. CASE GenesisEnter \/ Deploy \/ Reprepare \/ Probe
  BY <1>3, GenesisEnterStep, DeployStep, PrepareStep
<1> QED
  BY <1>2, <1>3 DEF Engine

\* Every step keeps the invariant.
LEMMA JoinStep == JoinInvariant /\ [Next]_vars => JoinInvariant'
<1> SUFFICES ASSUME JoinInvariant, [Next]_vars PROVE JoinInvariant'
  OBVIOUS
<1>1. CASE UNCHANGED vars
  BY <1>1, StutterStep
<1>2. CASE \E a \in Actors : Begin(a) \/ Crash(a)
  BY <1>2, BeginStep, GoneStep
<1>3. CASE \E a \in Plans : JoinRun(a)
  BY <1>3, JoinRunStep
<1>4. CASE \E a \in {"genesis", "bootstrap"} : Engine(a)
  BY <1>4, EngineStep
<1>5. CASE \E t \in Targets : Working(t)
  BY <1>5, WorkerStep, AnswerStep DEF Working
<1>6. CASE World
  BY <1>6, AnswerStep, CoreStep DEF World
<1>7. CASE Unlock
  BY <1>7, UnlockStep
<1> QED
  BY <1>1, <1>2, <1>3, <1>4, <1>5, <1>6, <1>7 DEF Next

-----------------------------------------------------------------------------
(* A recorded join.                                                        *)

\* What a step that works with a checkpoint makes of the record's phase.
LEMMA SavedPhase ==
  ASSUME JoinInvariant, NEW a \in Actors, Runs(a), NEW s \in Sessions,
         NEW ok \in Steps, NEW bad \in Steps, Save(a, s, ok, bad),
         ~s.behind => s.local.phase # "joined" \/ record.phase = "joined"
  PROVE  record'.phase = "joined" => record.phase = "joined"
<1>1. Types /\ owner = a
  BY RunFacts
<1>2. record' = record \/ (record' = s.local /\ ~s.behind)
  BY <1>1, SaveOutcome
<1> QED
  BY <1>2

\* The interruption: of a join it is one, of the others it says nothing new.
LEMMA InterruptPhase ==
  ASSUME JoinInvariant, NEW a \in Actors, Interrupt(a)
  PROVE  record'.phase = "joined" => record.phase = "joined"
<1> DEFINE r == Interrupted(a, ses[a].local)
           s == [ses[a] EXCEPT !.local = r]
<1>1. ses[a].pc = "failed" /\ Save(a, s, "release", "release")
  BY DEF Interrupt, At
<1>2. ses[a] \in Sessions /\ ses[a].local \in Records /\ SessionInv(a) /\ Runs(a)
  BY <1>1, RunFacts DEF Runs
<1>3. /\ r \in Records
      /\ \/ r.phase = "interrupted"
         \/ a \notin Plans /\ r.phase = ses[a].local.phase
  <2>1. CASE a \in Plans
    <3>1. r = [ses[a].local EXCEPT !.phase = "interrupted"]
      BY <2>1, JoinAssumption, Zenon DEF Interrupted
    <3> HIDE DEF r
    <3> QED
      BY <1>2, <3>1 DEF Records
  <2>2. CASE a = "bootstrap" /\ a \notin Plans
    <3>1. r = [ses[a].local EXCEPT !.prepared = FALSE]
      BY <2>2, JoinAssumption, Zenon DEF Interrupted
    <3> HIDE DEF r
    <3>2. r \in Records /\ r.phase = ses[a].local.phase
      BY <1>2, <3>1, Zenon DEF Records
    <3> QED
      BY <2>2, <3>2
  <2>3. CASE a \notin Plans /\ a # "bootstrap"
    <3>1. r = ses[a].local
      BY <2>3, Zenon DEF Interrupted
    <3> QED
      BY <1>2, <2>3, <3>1
  <2> QED
    BY <2>1, <2>2, <2>3
<1> HIDE DEF r
<1>4. s \in Sessions /\ s.behind = ses[a].behind /\ s.local = r
  BY <1>2, <1>3, LocalFields
<1> HIDE DEF s
<1>5. "release" \in Steps
  BY DEF Steps
<1>6. ~s.behind => s.local.phase # "joined" \/ record.phase = "joined"
  BY <1>1, <1>2, <1>3, <1>4 DEF SessionInv, AgreesOK
<1> QED
  BY <1>1, <1>2, <1>4, <1>5, <1>6, SavedPhase

\* A join that enters is not joined, nor one that records the start of a host.
LEMMA StartPhase ==
  ASSUME JoinInvariant, NEW a \in Plans, Enter(a) \/ Started(a)
  PROVE  record'.phase = "joined" => record.phase = "joined"
<1>1. a \in Actors /\ Types /\ ses[a] \in Sessions /\ ses[a].local \in Records
      /\ SessionInv(a) /\ "failed" \in Steps /\ "start" \in Steps /\ "scope" \in Steps
  BY RunFacts DEF Actors, Steps, PlanSteps
<1>2. CASE Enter(a)
  <2> DEFINE l == ses[a].local
             r == Joining(a, l)
             s == [ses[a] EXCEPT !.local = r, !.todo = Targets]
  <2>1. ses[a].pc = "enter" /\ Save(a, s, "start", "failed")
    BY <1>2 DEF Enter, At
  <2> HIDE DEF l
  <2>2. r \in Records /\ r.phase = "joining"
    <3>1. NoNode \in [Targets -> {"pending", "syncing", "ready"}]
      BY DEF NoNode
    <3>2. l \in Records /\ a \in Plans \cup {"none"}
          /\ "joining" \in {"none", "joining", "interrupted", "joined"}
      BY <1>1 DEF l
    <3> QED
      BY <3>1, <3>2, Zenon DEF Joining, Records
  <2> HIDE DEF r
  <2>3. s \in Sessions /\ s.local = r
    <3>1. Targets \in SUBSET Targets /\ ses[a] \in Sessions /\ r \in Records
      BY <1>1, <2>2
    <3> QED
      BY <3>1, Zenon DEF Sessions
  <2> HIDE DEF s
  <2> QED
    BY <1>1, <2>1, <2>2, <2>3, SavedPhase DEF Runs
<1>3. CASE Started(a)
  <2> DEFINE rest == ses[a].todo \ {Min(ses[a].todo)}
             s == [ses[a] EXCEPT !.todo = rest]
             p == IF rest = {} THEN "scope" ELSE "start"
  <2>1. ses[a].pc = "started" /\ Save(a, s, p, "failed")
    BY <1>3 DEF Started, At
  <2>2. rest \in SUBSET Targets
    BY <1>1, RunFacts
  <2>3. p \in Steps
    <3> HIDE DEF rest
    <3> QED
      BY <1>1
  <2> HIDE DEF p, rest
  <2>4. s \in Sessions /\ s.local = ses[a].local
    BY <1>1, <2>2, WorkFields
  <2> HIDE DEF s
  <2>5. s.local.phase = "joining"
    BY <1>1, <2>1, <2>4 DEF SessionInv, AgreesOK, PlanSteps
  <2> QED
    BY <1>1, <2>1, <2>3, <2>4, <2>5, SavedPhase DEF Runs
<1> QED
  BY <1>2, <1>3

\* The other engines carry the phase of the record.
LEMMA EnginePhase ==
  ASSUME JoinInvariant, GenesisEnter \/ Reprepare \/ Probe
  PROVE  record'.phase = "joined" => record.phase = "joined"
<1>1. {"enter", "probe", "deploy", "release", "failed"} \subseteq Steps
  BY DEF Steps
<1>2. ASSUME NEW a \in Actors, a \notin Plans, ses[a].pc \in {"enter", "probe"},
             NEW s \in Sessions, s.behind = ses[a].behind,
             s.local.phase = ses[a].local.phase, NEW ok \in Steps,
             Save(a, s, ok, "failed")
      PROVE  record'.phase = "joined" => record.phase = "joined"
  <2>1. ~s.behind => s.local.phase # "joined" \/ record.phase = "joined"
    BY <1>2, RunFacts DEF SessionInv, AgreesOK
  <2> QED
    BY <1>1, <1>2, <2>1, SavedPhase DEF Runs
<1>3. CASE GenesisEnter
  <2> DEFINE a == "genesis"
             s == [ses[a] EXCEPT !.local.genesis = TRUE, !.todo = Targets]
  <2>1. ses[a].pc = "enter" /\ Save(a, s, "deploy", "failed")
    BY <1>3 DEF GenesisEnter, At
  <2>2. a \in Actors /\ a \notin Plans
    BY JoinAssumption DEF Actors
  <2>3. ses[a] \in Sessions
    BY <2>2, RunFacts
  <2>4. /\ s \in Sessions /\ s.behind = ses[a].behind
        /\ s.local.phase = ses[a].local.phase
    BY <2>3, Zenon DEF Sessions, Records
  <2> HIDE DEF s
  <2> QED
    BY <1>1, <1>2, <2>1, <2>2, <2>4
<1>4. CASE Reprepare \/ Probe
  <2> DEFINE a == "bootstrap"
  <2>1. \/ UNCHANGED record
        \/ \E b \in BOOLEAN, p \in {"probe", "release"} :
             /\ ses[a].pc \in {"enter", "probe"}
             /\ Save(a, [ses[a] EXCEPT !.local.prepared = b], p, "failed")
    <3>1. CASE Reprepare
      <4>1. PICK b \in BOOLEAN : /\ ses[a].pc = "enter"
              /\ Save(a, [ses[a] EXCEPT !.local.prepared = b], "probe", "failed")
        BY <3>1, Zenon DEF Reprepare, At
      <4> QED
        BY <4>1
    <3>2. CASE Probe
      <4>1. CASE \A t \in Targets : host[t].box = 0
        <5>1. PICK b \in BOOLEAN : /\ ses[a].pc = "probe"
                /\ Save(a, [ses[a] EXCEPT !.local.prepared = b], "release", "failed")
          BY <3>2, <4>1, Zenon DEF Probe, At
        <5> QED
          BY <5>1
      <4>2. CASE ~ \A t \in Targets : host[t].box = 0
        BY <3>2, <4>2 DEF Probe
      <4> QED
        BY <4>1, <4>2
    <3> QED
      BY <1>4, <3>1, <3>2
  <2>2. a \in Actors /\ a \notin Plans
    BY JoinAssumption DEF Actors
  <2>3. ses[a] \in Sessions
    BY <2>2, RunFacts
  <2>4. ASSUME NEW b \in BOOLEAN
        PROVE  LET s == [ses[a] EXCEPT !.local.prepared = b] IN
               /\ s \in Sessions /\ s.behind = ses[a].behind
               /\ s.local.phase = ses[a].local.phase
    BY <2>3, <2>4 DEF Sessions, Records
  <2>5. CASE UNCHANGED record
    BY <2>5
  <2>6. ASSUME NEW b \in BOOLEAN, NEW p \in {"probe", "release"},
               ses[a].pc \in {"enter", "probe"},
               Save(a, [ses[a] EXCEPT !.local.prepared = b], p, "failed")
        PROVE  record'.phase = "joined" => record.phase = "joined"
    <3> DEFINE s == [ses[a] EXCEPT !.local.prepared = b]
    <3>1. /\ s \in Sessions /\ s.behind = ses[a].behind
          /\ s.local.phase = ses[a].local.phase
      BY <2>4
    <3>2. Save(a, s, p, "failed") /\ p \in Steps
      BY <1>1, <2>6
    <3> HIDE DEF s
    <3> QED
      BY <1>2, <2>2, <2>6, <3>1, <3>2
  <2> QED
    BY <2>1, <2>5, <2>6
<1> QED
  BY <1>3, <1>4

\* The poll concludes: joined only if every host answered, and was ready.
LEMMA ConcludePhase ==
  ASSUME JoinInvariant, NEW a \in Plans, Conclude(a),
         record'.phase = "joined", record.phase # "joined"
  PROVE  held = Targets
<1>1. /\ a \in Actors /\ Types /\ ses[a] \in Sessions /\ SessionInv(a)
      /\ ses[a].local \in Records /\ "failed" \in Steps
  BY RunFacts DEF Actors, Steps
<1>2. /\ ses[a].pc = "poll" /\ ses[a].todo = {} /\ ~ses[a].failed
      /\ Save(a, Concluded(ses[a]), IF AllReady(ses[a]) THEN "release" ELSE "wait",
              "failed")
  BY DEF Conclude, At, Unanswered
<1>3. ses[a].local.phase = "joining"
  BY <1>1, <1>2 DEF SessionInv, AgreesOK, PlanSteps
<1>4. AllReady(ses[a])
  <2>1. SUFFICES ASSUME ~AllReady(ses[a]) PROVE FALSE
    OBVIOUS
  <2>2. Save(a, ses[a], "wait", "failed") /\ "wait" \in Steps
    BY <1>2, <2>1 DEF Concluded, Steps, PlanSteps
  <2> QED
    BY <1>1, <1>2, <1>3, <2>2, SavedPhase DEF Runs
<1> QED
  BY <1>1, <1>2, <1>4 DEF SessionInv, PollOK, AllReady, Types

\* Nothing else changes the record.
LEMMA RecordChanges ==
  ASSUME [Next]_vars, record' # record
  PROVE  \/ \E a \in Actors : Interrupt(a)
         \/ \E a \in Plans : Enter(a) \/ Started(a) \/ Conclude(a)
         \/ GenesisEnter \/ Reprepare \/ Probe
<1>1. /\ ~ UNCHANGED vars /\ ~Unlock
      /\ \A a \in Actors : ~Begin(a) /\ ~Crash(a) /\ ~Claim(a) /\ ~Refused(a)
                           /\ ~Release(a)
  BY DEF vars, Unlock, Begin, Crash, Claim, Refused, Release
<1>2. \A a \in Plans : ~Start(a) /\ ~Cut(a) /\ ~Poll(a) /\ ~Status(a) /\ ~Wait(a)
  BY DEF Start, Cut, Poll, Status, Wait
<1>3. \A t \in Targets : ~Working(t)
  BY DEF Working, Own, Compose, MarkContainer, Answer, HostStep
<1>4. ~World /\ ~Deploy
  BY DEF World, Killed, Syncs, Lags, Restarts, Removed, Replaced, Calm, Deploy
<1>5. Plans \subseteq Actors /\ {"genesis", "bootstrap"} \subseteq Actors
  BY DEF Actors
<1> QED
  BY <1>1, <1>2, <1>3, <1>4, <1>5 DEF Next, JoinRun, Engine

-----------------------------------------------------------------------------
(* The theorems.                                                           *)

\* join/runner.go: whatever joins, deploys or prepares the hosts of an allocation,
\* and whatever is lost on the way, the invariant above holds.
THEOREM JoinInvariance == Spec => []JoinInvariant
<1> QED
  BY JoinInit, JoinStep, PTL DEF Spec

\* provision/join.go 27: every record that is written satisfies its readers.
THEOREM JoinTypes == Spec => []TypeOK
<1>1. JoinInvariant => TypeOK
  BY DEF JoinInvariant, Types
<1> QED
  BY <1>1, JoinInvariance, PTL

\* runner.go 27 and 91: the hosts of an allocation belong to the one engine of its
\* record, although each engine judges a record it read before its claim.
THEOREM HostsHaveOneEngine == Spec => []OneEngine
<1>1. JoinInvariant => OneEngine
  BY DEF JoinInvariant, HostOK, EngineOf, OneEngine
<1> QED
  BY <1>1, JoinInvariance, PTL

\* runner.go, the poll: a join is recorded only when every host was ready, in the
\* container of its marker, at some moment of the last poll.
THEOREM JoinIsObserved == Spec => JoinedIsObserved
<1>1. JoinInvariant /\ [Next]_vars =>
        [record'.phase = "joined" /\ record.phase # "joined" => held = Targets]_vars
  <2> SUFFICES ASSUME JoinInvariant, [Next]_vars,
                      record'.phase = "joined", record.phase # "joined"
               PROVE  held = Targets
    OBVIOUS
  <2> QED
    BY RecordChanges, InterruptPhase, StartPhase, EnginePhase, ConcludePhase
<1> QED
  BY <1>1, JoinInvariance, PTL DEF Spec, JoinedIsObserved

=============================================================================
