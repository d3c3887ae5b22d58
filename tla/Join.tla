-------------------------------- MODULE Join --------------------------------
(***************************************************************************)
(* join.Execute and node/join.py: the fresh hosts of one allocation join an *)
(* existing chain.  What may want the same allocation is here as well: a    *)
(* second join plan, a genesis deployment (up to its first host), a rerun   *)
(* of the host preparation.  They share the record and its claim; the claim *)
(* and the revisions are Journal's: a save lands only for the holder, and   *)
(* never again after one that did not land.                                 *)
(***************************************************************************)
EXTENDS Integers, FiniteSetsExt

CONSTANTS
  Targets,        \* the hosts, numbered in plan order
  Plans,          \* join plans made for the allocation
  FaultKinds,     \* what may go wrong, each once: see Kinds
  MaxFaults       \* bound on the faults of a behaviour

\* An SSH session or a host worker lost; a save or release without an answer; a
\* runner killed; the deadline, or instances out of scope; a Core behind the
\* tip, or restarted by Docker; a container removed, or replaced by another, by
\* hand; a rerun of the bootstrap, or of a plan that was not first.
Kinds == {"lost", "save", "crash", "scope", "core", "container", "mistake"}

ASSUME JoinAssumption ==
  /\ Targets \subseteq Nat \ {0} /\ Targets # {} /\ IsFiniteSet(Targets)
  /\ Plans \cap {"none", "genesis", "bootstrap"} = {}
  /\ FaultKinds \subseteq Kinds /\ MaxFaults \in Nat

VARIABLES
  record,         \* the operation record
  owner,          \* its claim, or "none"
  ses,            \* the invocation under way of each plan and engine
  host,           \* the hosts
  job,            \* the join-start that runs on a host, and for which plan
  held,           \* history: hosts that were ready since the poll began
  faults          \* history: faults so far

vars == <<record, owner, ses, host, job, held, faults>>

Actors == Plans \cup {"genesis", "bootstrap"}

\* The containers there can be: what join-start creates, each with an ID of its
\* own, and another's under the same name.
Created == {1, 3}
Foreign == 2

\* deployment.json; the container, 0 for none, and the marker with its ID;
\* restarted by Docker; at the tip of the right chain.
Fresh  == [plan |-> "none", box |-> 0, marker |-> 0, restarted |-> FALSE,
           tip |-> FALSE]
NoJob  == [plan |-> "none", step |-> "none"]
NoNode == [t \in Targets |-> "pending"]
Blank  == [prepared |-> TRUE, genesis |-> FALSE, plan |-> "none",
           phase |-> "none", node |-> NoNode]
Idle   == [pc |-> "idle", todo |-> {}, failed |-> FALSE, behind |-> FALSE,
           local |-> Blank]

Init ==
  /\ record = Blank /\ owner = "none"
  /\ ses = [a \in Actors |-> Idle]
  /\ host = [t \in Targets |-> Fresh] /\ job = [t \in Targets |-> NoJob]
  /\ held = {} /\ faults = {}

Fault(f) ==
  /\ f \in FaultKinds \ faults /\ Cardinality(faults) < MaxFaults
  /\ faults' = faults \cup {f}
NoFault == UNCHANGED faults

At(a, pc)     == ses[a].pc = pc
\* Of an invocation that only has its claim to give back, nothing is kept.
Goes(s, pc)   == IF pc = "release" THEN [Idle EXCEPT !.pc = pc]
                                   ELSE [s EXCEPT !.pc = pc]
Set(a, s)     == ses' = [ses EXCEPT ![a] = s]
SetHost(t, h) == host' = [host EXCEPT ![t] = h]

-----------------------------------------------------------------------------
(* The record.                                                              *)

NoConflict(r) == TRUE                \* mutant: a record may have two engines
Valid(r) ==
  /\ r.plan # "none" => ~r.genesis
  /\ r.phase = "joined" => \A t \in Targets : r.node[t] = "ready"

\* Save: an invalid record is not sent; an answer may be missing.
Save(a, s, ok, bad) ==
  LET lands == Valid(s.local) /\ owner = a /\ ~s.behind IN
  /\ \/ lands /\ record' = s.local /\ Set(a, Goes(s, ok)) /\ NoFault
     \/ lands /\ record' = s.local /\ Set(a, Goes(s, bad)) /\ Fault("save")
     \/ /\ ~lands \/ "save" \in FaultKinds
        /\ IF lands THEN Fault("save") ELSE NoFault
        /\ Set(a, Goes([s EXCEPT !.behind = TRUE], bad)) /\ UNCHANGED record
  /\ UNCHANGED <<owner, host, job>>

\* The deferred clean-up: the interruption, then the claim.
Interrupted(a, r) ==
  CASE a \in Plans     -> [r EXCEPT !.phase = "interrupted"]
    [] a = "bootstrap" -> [r EXCEPT !.prepared = FALSE]
    [] OTHER           -> r

Interrupt(a) ==
  /\ At(a, "failed")
  /\ Save(a, [ses[a] EXCEPT !.local = Interrupted(a, @)], "release", "release")
  /\ UNCHANGED held

\* A release that does not arrive is a crash before it.
Release(a) ==
  /\ At(a, "release") /\ Set(a, Idle) /\ NoFault
  /\ owner' = IF owner = a THEN "none" ELSE owner
  /\ UNCHANGED <<record, host, job, held>>

-----------------------------------------------------------------------------
(* Entering: the record is read and judged, claimed, and judged again.      *)

JoinScope(r) == r.prepared /\ ~r.genesis

MayEnter(a, r) ==
  CASE a \in Plans     -> JoinScope(r)
    [] a = "genesis"   -> r.prepared /\ r.plan = "none"
    [] a = "bootstrap" -> TRUE

\* Once the hosts are a plan's, the others are an operator's mistake.
Mistaken(a) == a # "genesis" /\ record.plan \notin {"none", a}

\* At most one invocation is between its read and its claim: that loses only
\* what needs two of them with a save in between.
Begin(a) ==
  /\ \A b \in Actors : ~At(b, "claim")
  /\ At(a, "idle") /\ MayEnter(a, record) /\ Set(a, Goes(Idle, "claim"))
  /\ IF a = "bootstrap" THEN Fault("mistake")
     ELSE IF Mistaken(a) THEN Fault("mistake") ELSE NoFault
  /\ UNCHANGED <<record, owner, host, job, held>>

Claim(a) ==
  /\ At(a, "claim") /\ NoFault /\ UNCHANGED <<record, host, job, held>>
  /\ IF owner = "none"
     THEN owner' = a /\ Set(a, [Idle EXCEPT !.pc = "enter", !.local = record])
     ELSE Set(a, Idle) /\ UNCHANGED owner

\* A join looks at the instances too, here and before every poll.
AnyPlan(a, r) == TRUE                \* mutant: whichever plan comes
Mine(a, r)    == r.plan \in {"none", a}
Refused(a) ==
  /\ At(a, "enter") /\ a # "bootstrap" /\ Set(a, Goes(ses[a], "release"))
  /\ \/ a \in Plans /\ (~JoinScope(ses[a].local) \/ ~Mine(a, ses[a].local))
        /\ NoFault
     \/ a = "genesis" /\ ~ses[a].local.prepared /\ NoFault
     \/ a \in Plans /\ Fault("scope")
  /\ UNCHANGED <<record, owner, host, job, held>>

Joining(a, r) ==
  [r EXCEPT !.plan = a, !.phase = "joining", !.node = NoNode]

Enter(a) ==
  LET s == ses[a] IN
  /\ At(a, "enter") /\ a \in Plans /\ JoinScope(s.local) /\ Mine(a, s.local)
  /\ Save(a, [s EXCEPT !.local = Joining(a, @), !.todo = Targets],
          "start", "failed")
  /\ UNCHANGED held

-----------------------------------------------------------------------------
(* join-start on a host: the session sends it, the host works it off.       *)

\* execute, owned: another plan's host is refused, and so is a busy one.
Accepted(a, t) == job[t] = NoJob /\ host[t].plan \in {"none", a}
Unmarked(t) == host[t].box = 0       \* mutant: no container is taken up again
NotReplaced(t) == host[t].box = 0 \/ host[t].marker \in {0, host[t].box}

Start(a) ==
  LET t == Min(ses[a].todo) IN
  /\ At(a, "start") /\ a \in Plans
  /\ \/ /\ Accepted(a, t) /\ Set(a, Goes(ses[a], "await")) /\ NoFault
        /\ job' = [job EXCEPT ![t] = [plan |-> a, step |-> "own"]]
     \/ ~Accepted(a, t) /\ Set(a, Goes(ses[a], "failed")) /\ NoFault
        /\ UNCHANGED job
  /\ UNCHANGED <<record, owner, host, held>>

JobGoes(t, step) == job' = [job EXCEPT ![t].step = step]
HostStep(t) == NoFault /\ UNCHANGED <<record, owner, ses, held>>

Own(t) ==
  /\ job[t].step = "own" /\ HostStep(t)
  /\ SetHost(t, [host[t] EXCEPT !.plan = job[t].plan])
  /\ JobGoes(t, IF NotReplaced(t) THEN "compose" ELSE "refused")

\* Docker gives a container an ID that no marker has.
NewId(h) == IF h.marker = 1 THEN 3 ELSE 1

\* Compose starts what is there, or creates it.
Compose(t) ==
  /\ job[t].step = "compose" /\ JobGoes(t, "mark") /\ HostStep(t)
  /\ SetHost(t, IF host[t].box = 0
                THEN [host[t] EXCEPT !.box = NewId(host[t])] ELSE host[t])

MarkContainer(t) ==
  /\ job[t].step = "mark" /\ HostStep(t)
  /\ IF host[t].box = 0 THEN JobGoes(t, "refused") /\ UNCHANGED host
     ELSE /\ SetHost(t, [host[t] EXCEPT !.marker = host[t].box])
          /\ JobGoes(t, "done")

\* The answer: the first status, or a refusal.  A session that has gone hears
\* nothing; a Core that is not heard in two minutes is as good as a lost answer.
Answer(t) ==
  LET a == job[t].plan IN
  /\ job[t].step \in {"done", "refused"} /\ job' = [job EXCEPT ![t] = NoJob]
  /\ IF a \in Plans /\ At(a, "await") /\ t = Min(ses[a].todo)
     THEN IF job[t].step = "done"
          THEN Set(a, [ses[a] EXCEPT !.pc = "started",
                                     !.local.node[t] = "syncing"])
          ELSE Set(a, Goes(ses[a], "failed"))
     ELSE UNCHANGED ses
  /\ NoFault /\ UNCHANGED <<record, owner, host, held>>

\* The worker dies on its host, or only the session with it is lost.
Killed(t) ==
  /\ job[t] # NoJob /\ Fault("lost") /\ job' = [job EXCEPT ![t] = NoJob]
  /\ IF At(job[t].plan, "await") /\ t = Min(ses[job[t].plan].todo)
     THEN Set(job[t].plan, Goes(ses[job[t].plan], "failed"))
     ELSE UNCHANGED ses
  /\ UNCHANGED <<record, owner, host, held>>

Cut(a) ==
  /\ At(a, "await") /\ Fault("lost") /\ Set(a, Goes(ses[a], "failed"))
  /\ UNCHANGED <<record, owner, host, job, held>>

Started(a) ==
  LET rest == ses[a].todo \ {Min(ses[a].todo)} IN
  /\ At(a, "started")
  /\ Save(a, [ses[a] EXCEPT !.todo = rest],
          IF rest = {} THEN "scope" ELSE "start", "failed")
  /\ UNCHANGED held

-----------------------------------------------------------------------------
(* The poll: every target, ready at the checkpoint and at the tip.          *)

Ready(h) == h.tip /\ ~h.restarted
Ours(h)  == h.box # 0 /\ h.marker = h.box

Poll(a) ==
  /\ At(a, "scope") /\ UNCHANGED <<record, owner, host, job>>
  /\ \/ /\ Set(a, [Goes(ses[a], "poll") EXCEPT !.todo = Targets,
                                                !.failed = FALSE])
        /\ held' = {t \in Targets : Ready(host[t]) /\ Ours(host[t])}
        /\ NoFault
     \/ Set(a, Goes(ses[a], "failed")) /\ Fault("scope") /\ UNCHANGED held

\* join_status: the container of the marker, on the chain of the plan.
AnyContainer(a, t) ==                \* mutant: whatever has the name answers
  job[t] = NoJob /\ host[t].plan \in {"none", a} /\ host[t].box # 0
Answers(a, t) ==
  job[t] = NoJob /\ host[t].plan \in {"none", a} /\ Ours(host[t])

Status(a) ==
  LET t == Min(ses[a].todo)
      s == [ses[a] EXCEPT !.todo = @ \ {t}]
  IN /\ At(a, "poll") /\ ses[a].todo # {}
     /\ \/ /\ Answers(a, t) /\ NoFault
           /\ Set(a, [s EXCEPT !.local.node[t] =
                        IF Ready(host[t]) THEN "ready" ELSE "syncing"])
        \/ ~Answers(a, t) /\ Set(a, [s EXCEPT !.failed = TRUE]) /\ NoFault
        \/ Set(a, [s EXCEPT !.failed = TRUE]) /\ Fault("lost")
     /\ UNCHANGED <<record, owner, host, job, held>>

Unanswered(s) == s.failed

AllReady(s) == \A t \in Targets : s.local.node[t] = "ready"
Concluded(s) ==
  IF AllReady(s) THEN [s EXCEPT !.local.phase = "joined"] ELSE s

Conclude(a) ==
  LET s == ses[a] IN
  /\ At(a, "poll") /\ s.todo = {}
  /\ IF Unanswered(s)
     THEN Set(a, Goes(s, "failed")) /\ NoFault
          /\ UNCHANGED <<record, owner, host, job>>
     ELSE Save(a, Concluded(s), IF AllReady(s) THEN "release" ELSE "wait",
               "failed")
  /\ held' = {}

\* Fifteen seconds, or the deadline of the command.
Wait(a) ==
  /\ At(a, "wait") /\ UNCHANGED <<record, owner, host, job, held>>
  /\ \/ Set(a, Goes(ses[a], "scope")) /\ NoFault
     \/ Set(a, Goes(ses[a], "failed")) /\ Fault("scope")

JoinRun(a) ==
  \/ Claim(a) \/ Refused(a) \/ Enter(a) \/ Start(a) \/ Started(a) \/ Cut(a)
  \/ Poll(a) \/ Status(a) \/ Conclude(a) \/ Wait(a)
  \/ Interrupt(a) \/ Release(a)

-----------------------------------------------------------------------------
(* The other engines.                                                       *)

\* lifecycle.Execute, to its first hosts: the intent is saved before them, and
\* again when the plan resumes.  A join is not asked for again, but not saved.
GenesisEnter ==
  LET a == "genesis"  s == ses[a] IN
  /\ At(a, "enter") /\ s.local.prepared
  /\ Save(a, [s EXCEPT !.local.genesis = TRUE, !.todo = Targets],
          "deploy", "failed")
  /\ UNCHANGED held

Deploy ==
  LET a == "genesis"  t == Min(ses[a].todo) IN
  /\ At(a, "deploy")
  /\ IF host[t].plan \in {"none", a} /\ job[t] = NoJob
     THEN /\ SetHost(t, [host[t] EXCEPT !.plan = a])
          /\ Set(a, IF ses[a].todo = {t} THEN Goes(ses[a], "release")
                    ELSE [ses[a] EXCEPT !.todo = @ \ {t}])
     ELSE Set(a, Goes(ses[a], "failed")) /\ UNCHANGED host
  /\ NoFault /\ UNCHANGED <<record, owner, job, held>>

\* bootstrap.Execute: the record starts afresh, then the hosts are probed; one
\* with a container is refused (recipe.sh).
Reprepare ==
  LET a == "bootstrap" IN
  /\ At(a, "enter")
  /\ Save(a, [ses[a] EXCEPT !.local.prepared = FALSE], "probe", "failed")
  /\ UNCHANGED held

Probe ==
  LET a == "bootstrap" IN
  /\ At(a, "probe") /\ UNCHANGED held
  /\ IF \A t \in Targets : host[t].box = 0
     THEN Save(a, [ses[a] EXCEPT !.local.prepared = TRUE], "release", "failed")
     ELSE Set(a, Goes(ses[a], "failed")) /\ NoFault
          /\ UNCHANGED <<record, owner, host, job>>

Engine(a) ==
  \/ Claim(a) \/ Refused(a) \/ Interrupt(a) \/ Release(a)
  \/ a = "genesis" /\ (GenesisEnter \/ Deploy)
  \/ a = "bootstrap" /\ (Reprepare \/ Probe)

-----------------------------------------------------------------------------
(* Hosts, crashes, operators.                                               *)

Calm == UNCHANGED <<record, owner, ses, job>>

Syncs(t) ==
  /\ host[t].box \in Created /\ ~host[t].tip /\ Calm /\ NoFault
  /\ SetHost(t, [host[t] EXCEPT !.tip = TRUE])
  /\ held' = IF /\ \E a \in Plans : At(a, "poll")
                /\ Ready(host'[t]) /\ Ours(host'[t])
             THEN held \cup {t} ELSE held

Lags(t) ==
  /\ host[t].tip /\ Fault("core") /\ Calm /\ UNCHANGED held
  /\ SetHost(t, [host[t] EXCEPT !.tip = FALSE])

Restarts(t) ==
  /\ host[t].box \in Created /\ Fault("core") /\ Calm /\ UNCHANGED held
  /\ SetHost(t, [host[t] EXCEPT !.restarted = TRUE, !.tip = FALSE])

\* The marker stays, of a container that is no more.
Removed(t) ==
  /\ host[t].box \in Created /\ Fault("container") /\ Calm /\ UNCHANGED held
  /\ SetHost(t, [host[t] EXCEPT !.box = 0, !.restarted = FALSE, !.tip = FALSE])

\* Another Core, on whatever chain, under the same name.
Replaced(t) ==
  /\ host[t].box \in Created /\ Fault("container") /\ Calm /\ UNCHANGED held
  /\ SetHost(t, [host[t] EXCEPT !.box = Foreign, !.restarted = FALSE,
                                !.tip = TRUE])

Crash(a) ==
  /\ ~At(a, "idle") /\ Fault("crash") /\ Set(a, Idle)
  /\ UNCHANGED <<record, owner, host, job, held>>

\* The holder is gone; one that looks again holds nothing yet.
Unlock ==
  /\ owner # "none" /\ ses[owner].pc \in {"idle", "claim"} /\ owner' = "none"
  /\ NoFault /\ UNCHANGED <<record, ses, host, job, held>>

Working(t) == Own(t) \/ Compose(t) \/ MarkContainer(t) \/ Answer(t)

World == \E t \in Targets :
  Killed(t) \/ Syncs(t) \/ Lags(t) \/ Restarts(t) \/ Removed(t) \/ Replaced(t)

Next ==
  \/ \E a \in Actors : Begin(a) \/ Crash(a)
  \/ \E a \in Plans : JoinRun(a)
  \/ \E a \in {"genesis", "bootstrap"} : Engine(a)
  \/ \E t \in Targets : Working(t)
  \/ World \/ Unlock

Spec == Init /\ [][Next]_vars

\* An operator resumes a join that is not joined, with its plan.
Rerun(a) == record.plan = a /\ record.phase # "joined" /\ Begin(a)

Fairness ==
  /\ \A a \in Plans : WF_vars(JoinRun(a)) /\ SF_vars(Rerun(a))
  /\ \A a \in {"genesis", "bootstrap"} : WF_vars(Engine(a))
  /\ \A t \in Targets : WF_vars(Working(t)) /\ WF_vars(Syncs(t))
  /\ WF_vars(Unlock)

FairSpec == Spec /\ Fairness

-----------------------------------------------------------------------------
(* Properties.                                                              *)

\* Types, and what every reader of the record insists on (provision/join.go 27).
TypeOK ==
  /\ record.plan # "none" => ~record.genesis
  /\ record.phase = "joined" => record.node = [t \in Targets |-> "ready"]
  /\ owner \in Actors \cup {"none"}
  /\ record \in [prepared : BOOLEAN, genesis : BOOLEAN,
                 plan : Plans \cup {"none"},
                 phase : {"none", "joining", "interrupted", "joined"},
                 node : [Targets -> {"pending", "syncing", "ready"}]]
  /\ host \in [Targets -> [plan : Plans \cup {"none", "genesis"}, box : 0..3,
                          marker : 0..3, restarted : BOOLEAN, tip : BOOLEAN]]

\* runner.go 27 and 91, provision/join.go 27, lifecycle/runner.go 133: the hosts
\* of an allocation belong to one plan of one engine, the one in the record,
\* although each engine judges a record it read before its claim.
OneEngine ==
  \A t \in Targets :
    host[t].plan # "none" =>
      /\ host[t].plan = IF record.genesis THEN "genesis" ELSE record.plan
      /\ \A u \in Targets : host[u].plan \in {"none", host[t].plan}

\* docs/join-existing-chain.md, "A joined result requires every target's ...":
\* a join is recorded only when every target, in the container of its marker,
\* was ready at some moment of the last poll.
JoinedIsObserved ==
  [][record'.phase = "joined" /\ record.phase # "joined"
     => held = Targets]_vars

\* docs/join-existing-chain.md, "rerun the same join plan": a join once recorded
\* gets there, unless the host preparation was run again, Docker restarted a
\* Core, or a host at rest cannot join: its container is not the one of its
\* marker (replaced, or created after a removal by a start that died before its
\* marker), or is another's that does not follow the chain.
Mismatched(t) == host[t].box # 0 /\ host[t].marker \notin {0, host[t].box}
Astray(t)     == host[t].box = Foreign /\ ~host[t].tip
Barred ==
  \/ ~record.prepared
  \/ \E t \in Targets :
       \/ host[t].restarted
       \/ job[t] = NoJob /\ (Mismatched(t) \/ Astray(t))
JoinCompletes == record.phase \in {"joining", "interrupted"} ~>
                 (record.phase = "joined" \/ Barred)
=============================================================================
