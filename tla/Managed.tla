------------------------------- MODULE Managed -------------------------------
(***************************************************************************)
(* managed/runner.go: enrolment, deploy and upgrade of a network whose      *)
(* workloads this program did not create, over the host workers of          *)
(* ManagedHost and a journal record with a runner claim.                    *)
(*                                                                          *)
(* Of the observed Targets the Operated ones are enrolled and changed; the  *)
(* others only vote.  An upgrade replaces one host at a time, between two   *)
(* observations of the fleet, and a validator is withdrawn only when the    *)
(* observed rest keeps more than two thirds of the voting power.  Runners   *)
(* exclude one another by the claim (Journal proves that), so there is one  *)
(* session at a time here, and a claim a dead runner left behind.           *)
(***************************************************************************)
EXTENDS ManagedHost, Sequences, FiniteSetsExt

CONSTANTS
  Targets,           \* the validators of the fleet
  Power,             \* the voting power of each
  IdleExtensions,    \* extra observation windows (3 in the code)
  Menu,              \* the plans operators ask for: kind, scope, changed, sel
  MaxImports,        \* bound on imports of the fleet
  Strays,            \* containers someone else may replace
  FaultKinds,        \* what may go wrong, each once
  MaxEvents          \* bound on imports and faults together

\* BuildSelected: what is changed is in scope, and targets are enrolled hosts.
Requests == [kind : {"upgrade", "deploy"}, scope : SUBSET Components,
             changed : SUBSET Components, sel : SUBSET Operated]

ASSUME ManagedAssumption ==
  /\ Operated \subseteq Targets /\ IsFiniteSet(Targets)
  /\ Power \in [Targets -> Nat \ {0}]
  /\ Menu \in Seq(Requests)
  /\ \A i \in DOMAIN Menu : Menu[i].changed \subseteq Menu[i].scope
  /\ Strays \subseteq Operated \X Components
  /\ {IdleExtensions, MaxImports, MaxEvents} \subseteq Nat

VARIABLES
  record,            \* the journal item's data
  claimed,           \* the journal item has an owner
  ses,               \* the runner
  imports,           \* snapshots of the operated hosts
  plans,             \* reviewed plans
  cond,              \* what each target would answer about its chain
  since,             \* history: targets that failed since they were sampled
  faults             \* history: faults so far

runVars == <<record, claimed, ses, imports, plans, cond, since, faults>>
vars    == <<hostVars, runVars>>

Conditions == {"ok", "down", "banned"}
Phases == {"absent", "enrolling", "enrolled", "staging", "applying",
           "verifying", "interrupted", "complete"}
Active == {"staging", "applying", "verifying", "interrupted"}

Absent == [phase |-> "absent", snap |-> 0, enrolled |-> {}, op |-> 0,
           current |-> 0, done |-> {}]
NoSession == [pc |-> "idle", rec |-> Absent, plan |-> 0, todo |-> {},
              mutated |-> FALSE, behind |-> FALSE, gate |-> "none",
              first |-> {}, second |-> {}, lag |-> {}, sound |-> {},
              extra |-> 0]

Init ==
  /\ HostInit
  /\ record = Absent /\ claimed = FALSE /\ ses = NoSession
  /\ imports = <<>> /\ plans = <<>>
  /\ cond = [v \in Targets |-> "ok"]
  /\ since = {} /\ faults = {}

-----------------------------------------------------------------------------
Fault(f) ==
  /\ f \in FaultKinds \ faults /\ imports # <<>>
  /\ Cardinality(faults) + Len(imports) < MaxEvents
  /\ faults' = faults \cup {f}

Doing(pc) == ses.pc = pc
Then(pc)  == [ses EXCEPT !.pc = pc]
P         == plans[ses.plan]

\* Observation.Healthy: every workload runs and the chain answers are good.
Healthy(v) ==
  /\ cond[v] = "ok"
  /\ v \in Operated => \A k \in Components : cont[v][k].there /\ cont[v][k].up

Voting(S) == FoldSet(LAMBDA v, n : Power[v] + n, 0, S)

CoreOnly  == {"core"}                  \* mutant: Platform does not vote
Consensus == {"core", "drive", "tenderdash"}

\* canWithdrawSelected: the other validators, as the last sweep saw them.
CanWithdraw(p, t, seen) ==
  p.scope \cap Consensus # {} =>
    Voting(seen \ {t}) > (2 * Voting(Targets)) \div 3

Quiet   == UNCHANGED hostVars
Outside == UNCHANGED <<imports, plans, cond, since>>

-----------------------------------------------------------------------------
(* The record.  A save that fails may have been carried out; when it was    *)
(* not, the revision of the next one no longer fits.                        *)

Save(r, next) ==
  \/ /\ record' = r
     /\ ses' = [next EXCEPT !.rec = r]
     /\ UNCHANGED faults
  \/ \E landed \in BOOLEAN :
       /\ Fault("save")
       /\ record' = IF landed THEN r ELSE record
       /\ ses' = [next EXCEPT !.pc = "interrupt", !.rec = r, !.behind = ~landed]

\* A call, or anything else, that ends the operation with an error.
Fail == ses' = Then("interrupt") /\ UNCHANGED record

\* The deferred save of an operation that has begun, and then the release.
Interrupt ==
  /\ Doing("interrupt") /\ Quiet /\ Outside /\ UNCHANGED claimed
  /\ IF ses.mutated /\ ~ses.behind
     THEN \/ /\ record' = [ses.rec EXCEPT !.phase = "interrupted"]
             /\ UNCHANGED faults
          \/ Fault("save") /\ UNCHANGED record
     ELSE UNCHANGED <<record, faults>>
  /\ ses' = Then("release")

Release ==
  /\ Doing("release") /\ Quiet /\ Outside /\ UNCHANGED record
  /\ \/ claimed' = FALSE /\ UNCHANGED faults
     \/ Fault("save") /\ UNCHANGED claimed
  /\ ses' = NoSession

\* Acquire creates the record or claims it; the claim of another is refused.
Acquire == Doing("idle") /\ ~claimed /\ claimed' = TRUE

\* for _, t := range f.Targets
Turn(t) == t \in ses.todo /\ \A u \in ses.todo : t <= u

-----------------------------------------------------------------------------
(* Enrolment.                                                               *)

Enroll(i) ==
  LET rec == IF record.phase = "absent"
             THEN [Absent EXCEPT !.phase = "enrolling", !.snap = i]
             ELSE record
      refused == \/ rec.snap # i /\ rec.phase = "enrolling"
                 \/ rec.op # 0 /\ rec.phase \notin {"complete", "enrolled"}
  IN /\ Acquire /\ Quiet /\ Outside /\ UNCHANGED faults
     /\ record' = rec
     /\ ses' = [NoSession EXCEPT
          !.pc = IF refused THEN "release" ELSE "enroll",
          !.rec = [rec EXCEPT !.snap = i],
          !.todo = Operated \ rec.enrolled]

EnrollHost(t) ==
  /\ Doing("enroll") /\ Turn(t) /\ Outside /\ UNCHANGED claimed
  /\ \/ /\ Free(t) /\ cont[t] = imports[ses.rec.snap][t]
        /\ HostEnroll(t, imports[ses.rec.snap][t])
        /\ \/ Save([ses.rec EXCEPT !.enrolled = @ \cup {t}],
                   [ses EXCEPT !.todo = @ \ {t}])
           \/ Fault("lost") /\ Fail
     \/ /\ ~Free(t) \/ cont[t] # imports[ses.rec.snap][t]
        /\ Fail /\ Quiet /\ UNCHANGED faults

Enrolled ==
  /\ Doing("enroll") /\ ses.todo = {} /\ Quiet /\ Outside /\ UNCHANGED claimed
  /\ Save([ses.rec EXCEPT !.phase = "enrolled"], Then("release"))

-----------------------------------------------------------------------------
(* An operation.                                                            *)

\* Nothing may have changed since the snapshot, but what a deploy restores.
Preflight(p) ==
  \A t \in p.sel :
    /\ Preserved(t, p, IF p.kind = "deploy" THEN p.scope ELSE {})
    /\ p.kind = "deploy" => \A k \in p.scope : Same(cont[t][k], p.base[t][k])

Intended(p) == [record EXCEPT !.op = p.id, !.phase = "staging",
                              !.done = Targets \ p.sel]

Gate(s, g) == [s EXCEPT !.pc = "first", !.gate = g]

\* mutant: only what stopped cleanly is resumed
CleanPlan(p) == record.op = p.id /\ record.phase # "interrupted"
SamePlan(p) == record.op = p.id

\* The record is read before the claim; what is unfinished is resumed.
Execute(i) ==
  LET p == plans[i]
      s == [NoSession EXCEPT !.rec = record, !.plan = i]
      resumes == SamePlan(p)
      stale == \/ record.op # p.prev
               \/ record.phase \notin {"enrolled", "complete"}
  IN /\ p.sel \subseteq record.enrolled
     /\ Acquire /\ Quiet /\ Outside /\ UNCHANGED <<record, faults>>
     /\ ses' = CASE resumes /\ record.phase = "complete" -> Gate(s, "replay")
                 [] resumes /\ record.phase # "complete" ->
                      [s EXCEPT !.pc = "stage", !.mutated = TRUE, !.todo = p.sel]
                 [] ~resumes /\ (stale \/ ~Preflight(p)) ->
                      [s EXCEPT !.pc = "release"]
                 [] ~resumes /\ ~stale /\ Preflight(p) ->
                      IF p.kind = "upgrade" THEN Gate(s, "begin")
                                            ELSE [s EXCEPT !.pc = "intend"]

Intend ==
  /\ Doing("intend") /\ Quiet /\ Outside /\ UNCHANGED claimed
  /\ Save(Intended(P), [ses EXCEPT !.pc = "stage", !.mutated = TRUE,
                                   !.todo = P.sel])

\* Images are pulled on every host before a container is touched.
Stage(t) ==
  /\ Doing("stage") /\ Turn(t) /\ Outside /\ UNCHANGED claimed
  /\ IF Free(t) /\ t \in owned
     THEN /\ HostStage(t, P)
          /\ \/ /\ ses' = [ses EXCEPT !.todo = @ \ {t}]
                /\ UNCHANGED <<record, faults>>
             \/ Fault("lost") /\ Fail
     ELSE Quiet /\ Fail /\ UNCHANGED faults

\* The journalled target first: it may be between stop, remove and create.
Upcoming == IF ses.rec.current # 0 THEN ses.rec.current
         ELSE CHOOSE t \in P.sel \ ses.rec.done :
                \A u \in P.sel \ ses.rec.done : t <= u

Pick ==
  /\ Doing("stage") /\ ses.todo = {} /\ Quiet /\ Outside /\ UNCHANGED claimed
  /\ \/ /\ UNCHANGED <<record, faults>>
        /\ ses' = CASE P.sel \subseteq ses.rec.done -> Gate(ses, "final")
                    [] OTHER -> IF P.kind = "upgrade" /\ ses.rec.current = 0
                                THEN Gate(ses, "next") ELSE Then("mark")
     \/ ~(P.sel \subseteq ses.rec.done) /\ Fault("lost") /\ Fail

Mark ==
  /\ Doing("mark") /\ Quiet /\ Outside /\ UNCHANGED claimed
  /\ Save([ses.rec EXCEPT !.current = Upcoming, !.phase = "applying"],
          Then("call"))

Accepts(t, p) ==
  Free(t) /\ t \in owned /\ (Resumes(t, p) \/ MayBegin(t, p))

Call ==
  LET t == ses.rec.current IN
  /\ Doing("call") /\ Outside /\ UNCHANGED <<record, claimed, faults>>
  /\ IF Accepts(t, P)
     THEN Apply(t, P) /\ ses' = Then("answer")
     ELSE Quiet /\ Fail

Any(a)  == TRUE                        \* mutant: an error is an answer too
Good(a) == a = "ok"

Answer ==
  LET t == ses.rec.current IN
  /\ Doing("answer") /\ answer[t] # "none"
  /\ Quiet /\ Outside /\ UNCHANGED claimed
  /\ IF Good(answer[t])
     THEN Save([ses.rec EXCEPT !.phase = "verifying"],
               Then(IF P.kind = "upgrade" THEN "ready" ELSE "finish"))
     ELSE Fail /\ UNCHANGED faults

\* The connection breaks; the worker goes on.
AnswerLost ==
  /\ Doing("answer") /\ Fault("lost") /\ Fail
  /\ proc' = [proc EXCEPT ![ses.rec.current].heard = FALSE]
  /\ Outside /\ UNCHANGED <<claimed, cont, owned, staged, marker, answer>>

\* awaitReady: until the replaced target serves again, or is banned.
Ready ==
  LET t == ses.rec.current IN
  /\ Doing("ready") /\ Quiet /\ Outside /\ UNCHANGED <<claimed, record, faults>>
  /\ \/ Healthy(t) /\ ses' = Gate(ses, "after")
     \/ cond[t] = "banned" /\ ses' = Then("interrupt")

\* mutant: the target stays the current one
Lingers(r)  == [r EXCEPT !.done = @ \cup {r.current}]
Finished(r) == [r EXCEPT !.done = @ \cup {r.current}, !.current = 0]

Finish ==
  /\ Doing("finish") /\ Quiet /\ Outside /\ UNCHANGED claimed
  /\ Save(Finished(ses.rec), Then("stage"))

Completed ==
  /\ Doing("complete") /\ Quiet /\ Outside /\ UNCHANGED claimed
  /\ Save([ses.rec EXCEPT !.phase = "complete"], Then("release"))

\* The deadline of awaitReady, of verify or of the operation.
TimedOut ==
  /\ ses.pc \in {"ready", "first", "second", "extend"} /\ Fault("lost")
  /\ Fail /\ Quiet /\ Outside /\ UNCHANGED claimed

-----------------------------------------------------------------------------
(* A gate: two sweeps of the fleet a window apart (doctor).  A selected node *)
(* that answers but has not advanced is sampled again, a few times.         *)

\* verify: what is selected is as in the snapshot, but for what was changed,
\* and that runs the pinned image.
Sound(t) ==
  LET S == IF t \in ses.rec.done \cup {ses.rec.current} THEN P.scope ELSE {}
  IN Preserved(t, P, S) /\ \A k \in S : Wanted(t, P, k)

FirstSweep ==
  /\ Doing("first") /\ Quiet /\ Outside /\ UNCHANGED <<record, claimed, faults>>
  /\ ses' = [ses EXCEPT !.pc = "second", !.first = {v \in Targets : Healthy(v)}]

\* A sweep of S in which the nodes of L answer without having advanced.
Sampled(S, L) ==
  [ses EXCEPT !.second = (@ \ S) \cup {v \in S : Healthy(v)},
              !.lag = (@ \ S) \cup L,
              !.sound = (@ \ S) \cup {t \in S \cap P.sel : Sound(t)}]

Verdict(s) ==
  LET t == Upcoming
      healthy == P.sel \subseteq (s.first \cap s.second) \ s.lag
      sound == P.sel \subseteq s.sound
  IN [s EXCEPT !.first = {}, !.second = {}, !.lag = {}, !.sound = {},
               !.extra = 0, !.gate = IF s.gate \in {"after", "final"} /\ ~healthy
                                     THEN @ ELSE "none",
               !.pc = CASE s.gate = "begin" ->
                             IF healthy THEN "intend" ELSE "interrupt"
                        [] s.gate = "replay" -> "release"
                        [] s.gate = "next" ->
                             IF healthy /\ CanWithdraw(P, t, s.second)
                             THEN "mark" ELSE "interrupt"
                        [] OTHER ->
                             IF ~healthy THEN "first"
                             ELSE IF ~sound THEN "interrupt"
                             ELSE IF s.gate = "after" THEN "finish"
                                                      ELSE "complete"]

Judged(s, more) ==
  ses' = IF more /\ s.lag \cap P.sel # {} /\ s.extra < IdleExtensions
         THEN [s EXCEPT !.pc = "extend"] ELSE Verdict(s)

\* The network may be between two blocks.
Idling(S) == {{}, {v \in S : Healthy(v)}}

SecondSweep(L) ==
  /\ Doing("second") /\ Quiet /\ UNCHANGED <<record, claimed, faults>>
  /\ Judged(Sampled(Targets, L), TRUE)
  /\ since' = {} /\ UNCHANGED <<imports, plans, cond>>

Extend ==
  LET S == ses.lag \cap P.sel IN
  /\ Doing("extend") /\ Quiet /\ UNCHANGED <<record, claimed, faults>>
  /\ \E L \in Idling(S) :
       Judged([Sampled(S, L) EXCEPT !.extra = @ + 1], TRUE)
  /\ since' = since \ S /\ UNCHANGED <<imports, plans, cond>>

\* No time for another window.
NoTime ==
  /\ Doing("extend") /\ Quiet /\ Outside /\ UNCHANGED <<record, claimed, faults>>
  /\ Judged(ses, FALSE)

-----------------------------------------------------------------------------
(* Around the runner.                                                       *)

WorkerStep(t) ==
  /\ marker[t].plan # 0
  /\ Worker(t, plans[marker[t].plan])
  /\ cond' = [cond EXCEPT ![t] =
       IF @ = "ok" /\ \E k \in Components : cont[t][k].up /\ ~cont'[t][k].up
       THEN "down" ELSE @]
  /\ UNCHANGED <<record, claimed, ses, imports, plans, since, faults>>

\* managed-import of a fleet that can be observed completely.
Observable(t) ==
  /\ cond[t] # "down"
  /\ \A k \in Components :
       /\ cont[t][k].there
       /\ k \in {"core", "tenderdash"} => cont[t][k].up

Import ==
  /\ Doing("idle") /\ Len(imports) < MaxImports
  /\ Cardinality(faults) + Len(imports) < MaxEvents
  /\ \A t \in Operated : Observable(t)
  /\ imports' = Append(imports, cont)
  /\ Quiet /\ UNCHANGED <<record, claimed, ses, plans, cond, since, faults>>

MakePlan(i) ==
  LET m == Menu[Len(plans) + 1] IN
  /\ Doing("idle") /\ ~claimed /\ Len(plans) < Len(Menu)
  /\ record.phase \in {"absent", "enrolled", "complete"}
  /\ plans' = Append(plans,
       [id |-> Len(plans) + 1, kind |-> m.kind, scope |-> m.scope,
        changed |-> m.changed, sel |-> m.sel, base |-> imports[i],
        prev |-> record.op])
  /\ Quiet /\ UNCHANGED <<record, claimed, ses, imports, cond, since, faults>>

\* managed-unlock, once the old runner and its remote work have stopped.
Unlock ==
  /\ Doing("idle") /\ claimed /\ \A t \in Operated : Free(t)
  /\ claimed' = FALSE
  /\ Quiet /\ Outside /\ UNCHANGED <<record, ses, faults>>

Crash ==
  /\ ~Doing("idle") /\ Fault("crash")
  /\ ses' = NoSession
  /\ proc' = [t \in Operated |-> [proc[t] EXCEPT !.heard = FALSE]]
  /\ Outside /\ UNCHANGED <<record, claimed, cont, owned, staged, marker, answer>>

Kill(t) ==
  /\ Killed(t) /\ Fault("kill")
  /\ Outside /\ UNCHANGED <<record, claimed, ses>>

\* A workload is stopped by hand, for a deploy to restore.
IntendedStop(t, k) ==
  /\ Doing("idle") /\ Free(t) /\ record.phase \notin Active
  /\ cont[t][k].there /\ cont[t][k].up /\ Fault("stop")
  /\ Touch(t, k, [cont[t][k] EXCEPT !.up = FALSE])
  /\ cond' = [cond EXCEPT ![t] = "down"] /\ since' = since \cup {t}
  /\ UNCHANGED <<owned, staged, marker, proc, answer,
                 record, claimed, ses, imports, plans>>

\* Someone else replaces a container, with an old or a planned image.
Drift(t, k) ==
  /\ <<t, k>> \in Strays /\ cont[t][k].there /\ Fault("drift")
  /\ \E img \in {0} \cup {plans[i].id : i \in DOMAIN plans} :
       Touch(t, k, [there |-> TRUE, id |-> cont[t][k].id + 1, img |-> img,
                    up |-> TRUE, run |-> 1])
  /\ Outside /\ UNCHANGED <<owned, staged, marker, proc, answer,
                           record, claimed, ses>>

NodeFails(v) ==
  /\ cond[v] = "ok" /\ Fault("fail")
  /\ cond' = [cond EXCEPT ![v] = "down"] /\ since' = since \cup {v}
  /\ Quiet /\ UNCHANGED <<record, claimed, ses, imports, plans>>

Banned(t) ==
  /\ cond[t] = "down" /\ Fault("ban")
  /\ cond' = [cond EXCEPT ![t] = "banned"]
  /\ Quiet /\ UNCHANGED <<record, claimed, ses, imports, plans, since>>

\* A node that runs catches up.
Heals(v) ==
  /\ cond[v] = "down"
  /\ v \in Operated => \A k \in Components : cont[v][k].there /\ cont[v][k].up
  /\ cond' = [cond EXCEPT ![v] = "ok"]
  /\ Quiet /\ UNCHANGED <<record, claimed, ses, imports, plans, since, faults>>

-----------------------------------------------------------------------------
Session ==
  \/ \E t \in Operated : EnrollHost(t) \/ Stage(t)
  \/ Enrolled \/ Intend \/ Pick \/ Mark \/ Call \/ Answer \/ Ready
  \/ FirstSweep \/ (\E L \in Idling(Targets) : SecondSweep(L)) \/ Extend
  \/ Finish \/ Completed \/ Interrupt \/ Release

Rerun == record.phase \in Active /\ Execute(record.op)

Operator ==
  \/ Import
  \/ \E i \in DOMAIN imports : Enroll(i) \/ MakePlan(i)
  \/ \E i \in DOMAIN plans : Execute(i)
  \/ Unlock

World ==
  \/ AnswerLost \/ TimedOut \/ NoTime \/ Crash
  \/ \E t \in Operated : \/ Kill(t) \/ Banned(t)
                         \/ \E k \in Components : IntendedStop(t, k) \/ Drift(t, k)
  \/ \E v \in Targets : NodeFails(v) \/ Heals(v)

Next ==
  Session \/ Operator \/ World \/ \E t \in Operated : WorkerStep(t)

Spec == Init /\ [][Next]_vars

\* The runner and the workers go on, started nodes catch up, the chain makes
\* blocks, and an operator resumes what was left unfinished.
Fairness ==
  /\ WF_vars(Session) /\ WF_vars(Unlock) /\ SF_vars(Rerun)
  /\ WF_vars(\E t \in Operated : WorkerStep(t))
  /\ WF_vars(\E v \in Targets : Heals(v))
  /\ SF_vars(SecondSweep({}))

FairSpec == Spec /\ Fairness

-----------------------------------------------------------------------------
(* Properties.                                                              *)

\* Types, and what Record.Validate asks of a record (store.go 38-64).
SessionPc == {"idle", "enroll", "intend", "stage", "mark", "call", "answer",
              "ready", "first", "second", "extend", "finish", "complete",
              "interrupt", "release"}

TypeOK ==
  /\ HostTypeOK
  /\ record.phase \in Phases /\ record.enrolled \subseteq Operated
  /\ record.phase = "complete" => record.current = 0
  /\ record.phase \in Active =>
       /\ record.op \in DOMAIN plans
       /\ Targets \ record.done \subseteq record.enrolled
       /\ record.current # 0 => record.current \in record.enrolled \ record.done
  /\ claimed \in BOOLEAN /\ ses.pc \in SessionPc /\ ses.pc # "idle" => claimed
  /\ \A t \in Operated : marker[t].plan # 0 => marker[t].plan \in DOMAIN plans
  /\ cond \in [Targets -> Conditions] /\ since \subseteq Targets

Unfinished(t) == marker[t].phase = "applying"

\* runner.go 306-330, worker.py 521: at most one host is between two versions,
\* and the journal names it and its plan, whatever was killed or lost.
OneApplying ==
  \A t \in Operated : Unfinished(t) =>
    /\ \A u \in Operated \ {t} : ~Unfinished(u)
    /\ record.op = marker[t].plan /\ record.current = t
    /\ record.phase \in Active

\* worker.py 494-529: a container is gone only while the marker of the
\* operation can bring it back, and Tenderdash never runs without its Drive.
Recoverable ==
  \A t \in Operated, k \in Components : ~cont[t][k].there =>
    /\ Unfinished(t) /\ k \in plans[marker[t].plan].scope
    /\ \A d \in marker[t].done : d[1] # k
    /\ k = "drive" /\ "drift" \notin faults => ~cont[t]["tenderdash"].up

\* What a session finds after another was broken off on a host is one marker,
\* named by the record, from which every container can be put back.
Resumable == OneApplying /\ Recoverable

\* runner.go 306-315, 424, health.go 252: while a consensus service of a validator
\* is being replaced, the others, but for what has failed since it was seen, hold
\* over two thirds of the power.
QuorumGate ==
  \A t \in Operated :
    LET p == plans[marker[t].plan]
        rest == {v \in Targets \ {t} : Healthy(v) \/ v \in since}
        withdrawn == /\ Unfinished(t) /\ p.kind = "upgrade"
                     /\ p.scope \cap {"core", "drive", "tenderdash"} # {}
    IN withdrawn => 3 * Voting(rest) > 2 * Voting(Targets)

\* runner.go 337-343: a complete operation is complete on every host, each of
\* its containers was replaced once, and no other was.
CompleteIsReal ==
  "drift" \notin faults =>
    /\ record.phase = "complete" =>
         \A t \in plans[record.op].sel :
           /\ marker[t].plan = record.op /\ marker[t].phase = "complete"
           /\ \A k \in plans[record.op].scope :
                Wanted(t, plans[record.op], k)
    /\ \A t \in Operated, k \in Components :
         cont[t][k].id <= Cardinality({i \in DOMAIN plans :
           i <= record.op /\ t \in plans[i].sel /\ k \in plans[i].changed})

\* worker.py 514-520: a container someone else put there is never removed.
ForeignKept ==
  [][\A t \in Operated, k \in Components :
       cont[t][k].there /\ ~cont'[t][k].there =>
         cont[t][k].id = plans[marker[t].plan].base[t][k].id]_vars

\* runner.go 292-343: an operation that began is completed by resuming it,
\* unless its containers were replaced by someone else, a validator was banned,
\* or a workload was stopped by hand on a host that had completed it.
Undone ==
  \/ faults \cap {"drift", "ban"} # {}
  \/ \E t \in Operated, k \in Components :
       /\ marker[t].plan = record.op /\ marker[t].phase = "complete"
       /\ ~cont[t][k].up

RerunCompletes ==
  (record.phase \in Active) ~> (record.phase = "complete" \/ Undone)
=============================================================================
