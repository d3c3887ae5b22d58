------------------------------ MODULE Bootstrap ------------------------------
(***************************************************************************)
(* Host preparation: bootstrap.Execute with its fleet of concurrent SSH     *)
(* sessions, the recipe that runs on each host, and the shared record.      *)
(*                                                                          *)
(* Each element of Runners is one invocation.  Claim and checkpoints follow *)
(* Journal: a Save lands only for the claim holder, and never again after   *)
(* one that did not land (the next revision skips one).  Unlike in Journal, *)
(* an operator may release the claim of a runner that only looks stopped:   *)
(* the fence has to hold the survivor back.  A Save without an answer has   *)
(* landed or never will.  Preparation of a host may outlive its SSH session *)
(* and its runner.                                                          *)
(***************************************************************************)
EXTENDS Integers, FiniteSetsExt

CONSTANTS
  Runners,        \* invocations of bootstrap, all with the same plan
  NoOwner,        \* the record is unclaimed; the host lock is free
  N,              \* targets of the plan, 1..N in plan order
  Parallel,       \* parallelHosts
  FaultKinds,     \* what may go wrong: see Kinds
  MaxFaults       \* bound: how often

\* A checkpoint or release without an answer; an SSH session lost, refused or
\* timed out; a recipe failing on its host; a host losing its images; instances
\* out of scope; a runner cancelled or killed; a claim released too early.
Kinds == {"save", "ssh", "host", "drift", "scope", "cancel", "crash", "unlock"}

ASSUME BootstrapAssumption ==
  /\ NoOwner \notin Runners
  /\ N \in Nat \ {0} /\ Parallel \in Nat \ {0}
  /\ FaultKinds \subseteq Kinds /\ MaxFaults \in Nat

Targets == 1..N

VARIABLES
  owner,          \* the claim on the record
  durable,        \* the record in the journal
  run,            \* the invocations
  images, marker, \* hosts with all images and runtime; with a ready file
  lock,           \* the invocation whose apply holds a host's flock
  probed,         \* history: preflight probes answered in this session
  held,           \* history: hosts found prepared since the session began
  good,           \* history: the same since its last apply began
  lost,           \* history: runners that lost the claim while running
  late,           \* history: host sessions started after that
  faults

hosts   == <<images, marker, lock>>
history == <<probed, held, good, lost, late>>
vars    == <<owner, durable, run, images, marker, lock,
             probed, held, good, lost, late, faults>>

NodePhases == {"pending", "checking", "preparing", "ready", "unknown"}
Phases     == {"none", "preparing", "interrupted", "hosts-ready"}
Records    == [phase : Phases, node : [Targets -> NodePhases],
               runner : Runners \cup {NoOwner}]

Results == {"ready", "pending", "unknown"}
Work    == {"idle", "probe", "apply", "running", "readback"} \cup Results
Fleets  == {"preflight", "preparation", "verification"}
Stopped == {"stopped", "crashed"}
Steps   == {"start", "claimed", "scoping", "marking", "rescoping",
            "publishing", "failed", "releasing"} \cup Fleets \cup Stopped

Sessions == [pc : Steps, local : Records, todo : SUBSET Targets,
             slots : 0..Parallel, work : [Targets -> Work], failed : BOOLEAN,
             stuck : BOOLEAN, cancelled : BOOLEAN, behind : BOOLEAN]

\* validateBootstrap: what Save and every reader insist on.
Valid(r) == r.phase = "hosts-ready" => \A t \in Targets : r.node[t] = "ready"

\* The record is well formed in every session, and valid whatever failed.
TypeOK ==
  /\ owner \in Runners \cup {NoOwner}
  /\ durable \in Records /\ Valid(durable)
  /\ run \in [Runners -> Sessions]
  /\ images \subseteq Targets /\ marker \subseteq Targets
  /\ lock \in [Targets -> Runners \cup {NoOwner}]
  /\ probed \in [Runners -> SUBSET Targets]
  /\ held \in [Runners -> SUBSET Targets]
  /\ good \in [Runners -> SUBSET Targets]
  /\ lost \subseteq Runners
  /\ late \in [Runners -> 0..N]
  /\ faults \in 0..MaxFaults

AllNodes(p) == [t \in Targets |-> p]
Blank   == [phase |-> "none", node |-> AllNodes("pending"), runner |-> NoOwner]
Session == [pc |-> "start", local |-> Blank, todo |-> {}, slots |-> 0,
            work |-> AllNodes("idle"), failed |-> FALSE, stuck |-> FALSE,
            cancelled |-> FALSE, behind |-> FALSE]
Nothing == [o \in Runners |-> {}]

Init ==
  /\ owner = NoOwner
  /\ durable = Blank
  /\ run = [o \in Runners |-> Session]
  /\ images = {} /\ marker = {}
  /\ lock = AllNodes(NoOwner)
  /\ probed = Nothing /\ held = Nothing /\ good = Nothing
  /\ lost = {} /\ late = [o \in Runners |-> 0]
  /\ faults = 0

Fault(k) == k \in FaultKinds /\ faults < MaxFaults /\ faults' = faults + 1
NoFault  == UNCHANGED faults

-----------------------------------------------------------------------------
(* The hosts.                                                               *)

Prepared == images \cap marker
Live(o)  == run[o].pc \notin {"start"} \cup Stopped
SetWork(o, t, w) == run' = [run EXCEPT ![o].work[t] = w]
NoteReady(now) ==
  /\ held' = [o \in Runners |-> held[o] \cup now]
  /\ good' = [o \in Runners |-> good[o] \cup now]

\* apply pulls the images and publishes the ready file last; its flock is
\* gone with the process.  An answer still awaited is the success or failure.
Pulled(t) ==
  /\ lock[t] # NoOwner
  /\ images' = images \cup {t}
  /\ NoteReady(images' \cap marker)
  /\ UNCHANGED <<owner, durable, run, marker, lock, probed, lost, late, faults>>

Ended(t, w) ==
  LET o == lock[t] IN
  /\ o # NoOwner
  /\ lock' = [lock EXCEPT ![t] = NoOwner]
  /\ IF run[o].work[t] = "running" THEN SetWork(o, t, w) ELSE UNCHANGED run
  /\ UNCHANGED <<owner, durable, images, probed, lost, late>>

Completed(t) ==
  /\ t \in images
  /\ marker' = marker \cup {t}
  /\ NoteReady(images \cap marker')
  /\ Ended(t, "readback") /\ NoFault

Broken(t) ==
  /\ Ended(t, "unknown") /\ Fault("host")
  /\ UNCHANGED <<marker, held, good>>

\* Images pruned, Docker stopped: the ready file alone is not evidence.
Drift(t) ==
  /\ t \in images
  /\ images' = images \ {t}
  /\ Fault("drift")
  /\ UNCHANGED <<owner, durable, run, marker, lock, history>>

Host(t) == Pulled(t) \/ Completed(t) \/ Broken(t) \/ Drift(t)

-----------------------------------------------------------------------------
(* One SSH session of the fleet.                                            *)

LockIgnored(t) == TRUE           \* mutant: a probe looks past a running apply
LockFree(t)    == lock[t] = NoOwner

\* A host that answers but is not ready is pending to the preflight, an error
\* to every later probe.
Unready(o) == IF run[o].pc = "preflight" THEN "pending" ELSE "unknown"

Probe(o, t) ==
  /\ run[o].work[t] \in {"probe", "readback"}
  /\ ~run[o].cancelled /\ LockFree(t)
  /\ SetWork(o, t, IF t \in Prepared THEN "ready" ELSE Unready(o))
  /\ probed' = [probed EXCEPT ![o] = IF run[o].pc = "preflight"
                                     THEN @ \cup {t} ELSE @]
  /\ UNCHANGED <<owner, durable, hosts, held, good, lost, late, faults>>

Apply(o, t) ==
  /\ run[o].work[t] = "apply"
  /\ ~run[o].cancelled /\ lock[t] = NoOwner
  /\ lock' = [lock EXCEPT ![t] = o]
  /\ SetWork(o, t, "running")
  /\ good' = [good EXCEPT ![o] = Prepared]
  /\ UNCHANGED <<owner, durable, images, marker, probed, held, lost, late,
                 faults>>

\* Unreachable, refused by the host's checks, timed out, or the answer lost:
\* what runs on the host goes on.
Disconnects(o, t) ==
  /\ run[o].work[t] \in {"probe", "apply", "running", "readback"}
  /\ SetWork(o, t, "unknown")
  /\ UNCHANGED <<owner, durable, hosts, history>>

Disconnected(o, t) == Disconnects(o, t) /\ Fault("ssh")

\* No fault is needed when the context ended, or an apply holds the host lock:
\* that of another session refuses this one, its own may outlast the deadline.
Refused(o, t) ==
  /\ run[o].cancelled \/ lock[t] # NoOwner
  /\ Disconnects(o, t) /\ NoFault

SSH(o, t) ==
  Probe(o, t) \/ Apply(o, t) \/ Disconnected(o, t) \/ Refused(o, t)

-----------------------------------------------------------------------------
(* Checkpoints.                                                             *)

Set(o, s)  == run' = [run EXCEPT ![o] = s]
Goes(s, p) == [s EXCEPT !.pc = p]
WithNode(s, t, p) == [s EXCEPT !.local.node[t] = p]

\* Save(ctx, r, owner): s is the session with the new record; it becomes
\* ok on a nil answer and bad on an error.  A cancelled context sends
\* nothing; the deferred clean-up has a context of its own.
Save(o, s, ok, bad, own) ==
  LET sent  == own \/ ~s.cancelled
      lands == sent /\ owner = o /\ ~s.behind
      none  == UNCHANGED durable /\ Set(o, [bad EXCEPT !.behind = TRUE])
  IN /\ \/ lands /\ durable' = s.local /\ Set(o, ok) /\ NoFault
        \/ lands /\ durable' = s.local /\ Set(o, bad) /\ Fault("save")
        \/ ~lands /\ none /\ NoFault
        \/ lands /\ none /\ Fault("save")
     /\ UNCHANGED <<owner, hosts>>

\* Most checkpoints end the command when they fail.
SaveOrFail(o, s, p) == Save(o, s, Goes(s, p), Goes(s, "failed"), FALSE)

-----------------------------------------------------------------------------
(* fleet: sessions start in plan order, replies come in any order.          *)

Active(s) == {t \in Targets : s.work[t] # "idle"}

FleetOf(s, p, targets) ==
  [s EXCEPT !.pc = p, !.todo = targets, !.stuck = FALSE, !.failed = FALSE,
            !.slots = IF Cardinality(targets) < Parallel
                      THEN Cardinality(targets) ELSE Parallel]

Mode(p) == IF p = "preparation" THEN "apply" ELSE "probe"

Start(o) ==
  LET s == run[o]  t == Min(s.todo) IN
  /\ s.pc \in Fleets /\ s.slots > 0
  /\ Set(o, [s EXCEPT !.slots = @ - 1, !.todo = @ \ {t},
                      !.work[t] = Mode(s.pc)])
  /\ late' = IF o \in lost THEN [late EXCEPT ![o] = @ + 1] ELSE late
  /\ UNCHANGED <<owner, durable, hosts, probed, held, good, lost, faults>>

\* mutant: the next host is started whether or not the result was recorded
StartsAnyway(s, saved) == s.todo # {}
MayStart(s, saved)     == saved /\ s.todo # {} /\ ~s.cancelled

NextSlot(s, saved) == [s EXCEPT !.slots = IF MayStart(s, saved) THEN 1 ELSE 0]

\* The calling goroutine takes a reply and records it, unless an earlier record
\* failed; the next host starts only after that.
Take(o, t) ==
  LET s == [run[o] EXCEPT !.work[t] = "idle",
                          !.failed = @ \/ run[o].work[t] = "unknown"]
      r == WithNode(s, t, run[o].work[t])
  IN /\ s.pc \in Fleets /\ s.slots = 0
     /\ run[o].work[t] \in Results
     /\ IF s.stuck
        THEN Set(o, s) /\ NoFault /\ UNCHANGED <<owner, durable, hosts>>
        ELSE Save(o, r, NextSlot(r, TRUE),
                        [NextSlot(r, FALSE) EXCEPT !.stuck = TRUE], FALSE)
     /\ UNCHANGED history

FleetWaits(s) == s.slots = 0 /\ Active(s) = {} /\ s.todo = {}   \* mutant
FleetOver(s)  == s.slots = 0 /\ Active(s) = {}

ForgetsErrors(s) == s.stuck \/ s.todo # {}    \* mutant: work errors dropped
FleetFailed(s)   == s.stuck \/ s.failed \/ s.todo # {}

After(p) == CASE p = "preflight"    -> "marking"
              [] p = "preparation"  -> "rescoping"
              [] p = "verification" -> "publishing"

FleetDone(o) ==
  /\ run[o].pc \in Fleets /\ FleetOver(run[o])
  /\ Set(o, Goes(run[o], IF FleetFailed(run[o]) THEN "failed"
                                               ELSE After(run[o].pc)))
  /\ UNCHANGED <<owner, durable, hosts, history, faults>>

-----------------------------------------------------------------------------
(* Execute.                                                                 *)

\* Read and Acquire: the record is that of completed compute.
Acquire(o) ==
  /\ run[o].pc = "start"
  /\ owner = NoOwner
  /\ owner' = o
  /\ Set(o, [Session EXCEPT !.pc = "claimed", !.local = durable])
  /\ held' = [held EXCEPT ![o] = Prepared]
  /\ good' = [good EXCEPT ![o] = Prepared]
  /\ UNCHANGED <<durable, hosts, probed, lost, late, faults>>

FreshNodes(s) == AllNodes("pending")

Reset(o) ==
  LET r == [phase |-> "preparing", node |-> FreshNodes(run[o]), runner |-> o] IN
  /\ run[o].pc = "claimed"
  /\ SaveOrFail(o, [run[o] EXCEPT !.local = r], "scoping")
  /\ UNCHANGED history

\* RunningTargets: an instance is missing, changed or not running.
OutOfScope(o) ==
  /\ run[o].pc \in {"scoping", "rescoping"}
  /\ Set(o, Goes(run[o], "failed"))
  /\ \/ run[o].cancelled /\ NoFault
     \/ Fault("scope")
  /\ UNCHANGED <<owner, durable, hosts, history>>

Check(o) ==
  LET s == [run[o] EXCEPT !.local.node = AllNodes("checking")] IN
  /\ run[o].pc = "scoping"
  /\ Save(o, s, FleetOf(s, "preflight", Targets), Goes(s, "failed"), FALSE)
  /\ UNCHANGED history

Pending(s) == {t \in Targets : s.local.node[t] # "ready"}
Marked(s)  ==
  [s EXCEPT !.local.node = [t \in Targets |->
     IF t \in Pending(s) THEN "preparing" ELSE @[t]]]
Preparation(s) == FleetOf(Marked(s), "preparation", Pending(s))

\* "No host is mutated unless this claim is still ours."
Mark(o) ==
  LET s == Marked(run[o]) IN
  /\ run[o].pc = "marking"
  /\ IF Pending(run[o]) = {}
     THEN /\ Set(o, Preparation(run[o])) /\ NoFault
          /\ UNCHANGED <<owner, durable, hosts>>
     ELSE Save(o, s, Preparation(run[o]), Goes(s, "failed"), FALSE)
  /\ UNCHANGED history

\* mutant: the hosts the record shows as ready are not read again
OnlyUnready(o)  == Pending(run[o])
Reread(o)       == Targets

Rescope(o) ==
  /\ run[o].pc = "rescoping"
  /\ Set(o, FleetOf(run[o], "verification", Reread(o)))
  /\ UNCHANGED <<owner, durable, hosts, history, faults>>

Publish(o) ==
  LET s == [run[o] EXCEPT !.local.phase = "hosts-ready"] IN
  /\ run[o].pc = "publishing"
  /\ SaveOrFail(o, s, "releasing")
  /\ UNCHANGED history

\* The deferred clean-up: one more revision, whether or not the last one landed.
Interrupt(o) ==
  LET s == [run[o] EXCEPT !.local.phase = "interrupted", !.pc = "releasing"] IN
  /\ run[o].pc = "failed"
  /\ Save(o, s, s, s, TRUE)
  /\ UNCHANGED history

\* What is left of a session: its outcome.
End(o, p) ==
  Set(o, [Session EXCEPT !.pc = p, !.behind = run[o].behind])

Release(o) ==
  /\ run[o].pc = "releasing"
  /\ End(o, "stopped")
  /\ \/ owner = o /\ owner' = NoOwner /\ NoFault
     \/ owner # o /\ UNCHANGED owner /\ NoFault
     \/ owner = o /\ UNCHANGED owner /\ Fault("save")
  /\ UNCHANGED <<durable, hosts, history>>

-----------------------------------------------------------------------------
(* Operators.                                                               *)

\* Interrupt signal or deadline.
Cancel(o) ==
  /\ Live(o) /\ ~run[o].cancelled
  /\ run' = [run EXCEPT ![o].cancelled = TRUE]
  /\ Fault("cancel")
  /\ UNCHANGED <<owner, durable, hosts, history>>

Crash(o) ==
  /\ Live(o)
  /\ End(o, "crashed")
  /\ Fault("crash")
  /\ UNCHANGED <<owner, durable, hosts, history>>

\* operation-unlock, also for a runner that only seems to have stopped.
Unlock(o) ==
  /\ owner = o
  /\ owner' = NoOwner
  /\ IF Live(o) THEN Fault("unlock") ELSE NoFault
  /\ lost' = IF Live(o) THEN lost \cup {o} ELSE lost
  /\ UNCHANGED <<durable, run, hosts, probed, held, good, late>>

Runner(o) ==
  \/ Acquire(o) \/ Reset(o) \/ OutOfScope(o) \/ Check(o) \/ Mark(o)
  \/ Rescope(o) \/ Publish(o) \/ Interrupt(o) \/ Release(o)
  \/ Start(o) \/ FleetDone(o)
  \/ \E t \in Targets : SSH(o, t) \/ Take(o, t)

Next ==
  \/ \E t \in Targets : Host(t)
  \/ \E o \in Runners : Runner(o) \/ Cancel(o) \/ Crash(o) \/ Unlock(o)

Spec == Init /\ [][Next]_vars

\* A running process is scheduled, and every SSH session ends: the context has
\* a deadline.  Nothing is assumed of hosts, operators or answers.
FairSpec == Spec /\ \A o \in Runners : WF_vars(Runner(o))

-----------------------------------------------------------------------------
(* What a reader of the record, and the next command, rely on.              *)

\* No host is changed by a session before every host of the plan answered its
\* preflight probe.  (Execute: the preflight fleet returns its errors.)
ProbedBeforeMutation ==
  \A t \in Targets : lock[t] # NoOwner => probed[lock[t]] = Targets

\* A runner whose claim was released under it reaches out to at most one more
\* burst of hosts, and then stops at a checkpoint.  (fleet: a new target starts
\* only after the previous result was recorded; the saves between fleets.)
FencedByCheckpoints == \A o \in lost : late[o] <= Parallel

\* A host that the recorded session may still be changing, in an SSH session or
\* after it, is never shown as untouched or ready: a resume after a kill can
\* rely on the record to name them.  (Execute: the batch checkpoint before any
\* mutation; unknown() for work that failed.)
JournaledMutation ==
  \A t \in Targets : lock[t] = durable.runner /\ lock[t] # NoOwner =>
    durable.node[t] \in {"preparing", "unknown"}

\* When a host may be changed: after the whole fleet was probed, under a
\* checkpoint that names it, and not much longer than the claim is held.
SafeMutation == ProbedBeforeMutation /\ JournaledMutation /\ FencedByCheckpoints

\* hosts-ready: every host was found prepared since the last time that session
\* changed any host, also those that were ready before.  (Execute: the final
\* verification of all targets.)
HostsReadyIsFresh ==
  durable.phase = "hosts-ready" => good[durable.runner] = Targets

\* An entry "ready" was true at some time since the session that the record
\* names began: never an observation of an earlier session.  (Execute: the
\* reset of the whole fleet.)
ReadyIsEvidence ==
  \A t \in Targets :
    durable.node[t] = "ready" => t \in held[durable.runner]

\* When the record says hosts-ready, no preparation left over from an earlier
\* session still runs on any host.  (recipe.sh: probe takes the flock too.)
SettledWhenReady ==
  durable.phase = "hosts-ready" =>
    \A t \in Targets : lock[t] \in {NoOwner} \cup lost

Unrecorded(o) ==
  /\ run[o].pc = "stopped" /\ o \notin lost
  /\ durable.runner = o
  /\ durable.phase \notin {"interrupted", "hosts-ready"}

\* A session that fails leaves "interrupted", not a fleet that seems to be in
\* preparation, unless a checkpoint of it never reached the table.  (Execute:
\* the deferred clean-up.)
FailureRecorded == \A o \in Runners : Unrecorded(o) => run[o].behind

\* What the record says holds however sessions follow each other: a host is at
\* work, and never seen ready, until it is, and a session that failed shows it.
RecordIsEvidence ==
  ReadyIsEvidence /\ SettledWhenReady /\ JournaledMutation /\ FailureRecorded

\* A session ends, whatever its hosts and saves do.  (fleet: running work
\* finishes unrecorded after a failed record; every context has a deadline.)
SessionEnds ==
  \A o \in Runners : run[o].pc = "claimed" ~> run[o].pc \in Stopped
=============================================================================
