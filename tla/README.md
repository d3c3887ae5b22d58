# TLA+ models of dash-network-go

dash-network-go builds and operates Dash networks on EC2: it launches the
instances, prepares the hosts, deploys Core and Platform, upgrades them one node
at a time and gives everything back. Nothing of it runs permanently. Every step
is a command that claims a shared DynamoDB record, works through SSH and the EC2
API, checkpoints each result and releases the claim. Commands time out, are
killed and are run again; what they started goes on without them. These modules
state what the record, the hosts and the cloud may look like whatever happens
between two steps, check it with TLC, and prove most of its safety with TLAPS.

Paths are relative to `src/`.

## The system

| Component | State it keeps | Operations | What makes it correct |
|---|---|---|---|
| journal (`internal/journal`) | one item per network: plan, owner, revision, record | Acquire, Save, Release, Read; clean-up store; `operation-unlock` | one claim holder; it sees every acknowledged checkpoint; no write of the past replaces a later one |
| provision executor (`internal/provision/runner.go`, `ec2.go`, `ipam*.go`) | node and address phases in the record; instances and addresses in EC2 | Execute (discover, launch, wait, addresses), ReleaseAddresses | one instance and one address per target, none lost, none released under a running instance |
| bootstrap executor (`internal/bootstrap`) | node phases in the record; images, ready file and flock on a host | Execute with a pool of SSH sessions; probe and apply of the recipe | no host changed before all were probed; `ready` and `hosts-ready` are evidence of this session |
| deploy and stop (`internal/lifecycle/runner.go`) | stage, genesis height, registrations | deploy (whole or Core only), stop, fan-out `each` | one registration per validator; one genesis; no burst mining under DKG; miner stops first; a rerun completes |
| rollout (`internal/lifecycle/upgrade_runner.go`, `internal/node/upgrade.py`) | current node and completed nodes in the record; marker `upgrade.json` on a host | Upgrade with scope core or Platform, upgrade-stage, upgrade-apply, mine-pause, mine-start | one node out at a time; replaced once; no DKG session misses a validator; Tenderdash is withdrawn before Drive |
| managed networks (`internal/managed`) | a record of their own; owner file, images and `operation.json` on a host; containers that someone else made | import, Enroll, plan, Execute (deploy, upgrade), unlock; enroll, stage, apply on a host; doctor | one host between two versions, withdrawn inside the quorum margin; every container can be put back from the marker; nothing foreign is removed |
| join (`internal/join`, `internal/node/join.py`) | join phase and node phases in the record; `deployment.json`, marker and container on a host | Execute with starts and polls; join-start, join-status | an allocation belongs to one plan of one engine; joined only when every target was ready in one poll |
| host worker (`internal/node/worker.py`) | files, containers and wallet of a host | one action per call under a flock | a repeated action repeats no effect |
| seed TLS (`internal/seedtls`) | mounted key and certificate, their backup and journal, `operation.json`, the helper container | apply and its undo, rollback, doctor; the renewal service under a timer | the gateway never loads half a pair; Dashmate goes only after the new pair is served; an adoption left half-way is rolled back |
| plans, specs, inventory, status, releases, files, transport | none shared | parsing, projection, I/O | pure |

Interactions: provisioning, bootstrap, deploy, rollout and join share the one
record of the journal, so they exclude each other through its claim; each reads
and judges the record before it claims it, and again after. Managed networks use
the same calls on a record of their own. Seed TLS has no shared record: its
worker and its renewal service meet on the host, under two flocks. Executors call hosts
through SSH (`transport`, `node.go`, `bootstrap/node.go`) and learn an answer or
an error of unknown effect. Hosts keep a lock and a marker of their own, because
work on them outlives sessions. The rollout and deploy also depend on the chain:
mining is under their control, DKG sessions follow the blocks.

What is hard here: writes that arrive late or twice; answers that do not arrive;
kills between an effect and its checkpoint; a claim released under a runner that
still works; preparation that outlives its session; results of a pool in any
order; a file that is written in place when its writer dies; and a chain that
moves while a node is away. `PROJECT.json` lists these
hazards at their lines with the properties that cover them.

## Modules

| Module | Models | Checked by |
|---|---|---|
| `ClaimedRecord` | abstract: a record that one holder at a time extends | refined by `Journal` |
| `Journal` | the DynamoDB calls and every executor's use of them | `MCJournal` |
| `JournalInv` | the inductive invariant of `Journal` | `MCJournal` |
| `RecordProofs` | the theorems about `Journal` and `Provision` | tlapm |
| `Provision` | Execute and ReleaseAddresses against EC2 | `MCProvision` |
| `Bootstrap` | bootstrap.Execute, its pool, the recipe on hosts | `MCBootstrap` |
| `BootstrapProofs` | the theorems about `Bootstrap` | tlapm |
| `Deploy` | Execute: deployment and stop, with the worker, its wallet and the chain | `MCDeploy` |
| `DeployProofs` | the theorems about `Deploy` | tlapm |
| `Rollout` | Upgrade with scope `core`, execute_core, mining and the DKG cycle | `MCRollout` |
| `RolloutProofs` | the theorems about `Rollout` | tlapm |
| `Platform` | Upgrade with scope `platform` or `tenderdash`, apply_platform on the hosts | `MCPlatform` |
| `PlatformProofs` | the theorems about `Platform` | tlapm |
| `ManagedHost` | `managed/worker.py` on a host: enroll, stage, apply with its marker | through `Managed` |
| `Managed` | `managed/runner.go` over `ManagedHost`: enrolment, operations, gates | `MCManaged` |
| `ManagedProofs` | the theorems about `Managed` and `ManagedHost` | tlapm |
| `Join` | `join.Execute`, join-start and join-status, the engines it competes with | `MCJoin` |
| `JoinProofs` | the theorems about `Join` | tlapm |
| `SeedTLS` | `seedtls/worker.py` and `renew.py` on one seed | `MCSeedTLS` |
| `SeedTLSProofs` | the theorems about `SeedTLS` | tlapm |

### Journal

`plan`, `owner`, `rev`, `data` are the attributes of the item. `calls` holds the
write attempts that may still reach the table, `replies` the answers under way.
A served call may stay in `calls` (a retry), so calls are duplicated, reordered
and delayed beyond the life of their caller. `PutCondition`, `ClaimCondition`,
`SaveCondition`, `HolderCondition` are the condition expressions of
`dynamodb.go`. A runner walks through Acquire (put, read, claim), a series of
saves, the deferred interruption save and the release, as every executor does.
A record is the set of the checkpoints folded into it, which is all that lost
updates can be told by. Cleaners are release-addresses commands, which never
create a record. Encoding and decoding of records, and with it how a clean-up
carries over the history of the application unread, are left out.

Assumed: owner IDs are never reused (they are random); once Acquire has returned
its answer, no earlier attempt of the same call is still under way; the operator
unlocks only runners that have stopped, as the documentation demands.

### Provision

The record of a target has a node phase and an address phase with an allocation
ID; `copy` is the session's and `durable` what Save last wrote. `vm` and
`eip` are EC2's truth, from accepted ("flying") over invisible ("hidden") to
visible, running, terminated and purged. Every API call may be dropped, take
effect late, or lose its answer; every read may lag where EC2's reads lag.
Sessions are serial, which is what `Journal` shows; a session ends anywhere.
`Age` is the passing of fifteen minutes over an allocation intent.

### Bootstrap

Here invocations may overlap, since an operator may release the claim of a runner
that only looks stopped (the fault "unlock"). A runner has its local record, the pool
(`todo`, `slots`, `work` per target), and the flags of its session. `Save` is the
checkpoint of Journal: it lands only for the owner, and never after a save that
did not land, because the revision then skips one; it fails under a cancelled
context without being sent. On a host, `images`, `marker` (the ready file) and
`lock` (the flock and whose apply holds it) change independently of the session
that started the apply. A save without an answer has landed or never will; late
arrival is Journal's subject. What goes wrong is counted: `FaultKinds` selects
among `Kinds`, `MaxFaults` bounds their number. A session that ends because its
context did, or because an apply holds the host lock beyond the deadline, is no
fault.

### Deploy

`durable` and `local` are the record and the session's copy, with the phase, the
stage, the genesis height and the ProTxHash of every validator. `s` is the
session; `s.pc` is the step that waits for answers. `Where` and `Action` say whom
a step calls with what, `Enter` sends the requests, and `Onward` (nothing saved),
`StageDone` (a stage saved) and one action for each remaining step say what
follows when all answered well. A step of `each` may lose a checkpoint while
calls are out (`SaveFails`): the rest is cancelled, with or without its process
(`CutOff`). `s.behind` is a revision that ran ahead of the journal's, after which
the interruption save is refused too.

A host has at most one process, which holds its flock; a request to a host at
work is answered "err". The actions of the worker take one durable step at a
time and go on from the files, as the code does: register signs and saves,
submits, locks, confirms; platform-start binds its inputs, then starts; activate
sets sporks one after another; stop takes the miner first. So a process that
broke off, or that runs on after its session, needs no state of its own. The
chain has the sporks, the miner, the best ChainLock, and `due`: whether
registrations call for rotation cycles that are not mined yet.

Assumed: masternode sync makes sure progress only while mining is paused;
ChainLocks form once all nodes are up, synced and registered with DKG on. Doctor
is one look at the network (`Healthy`) instead of two samples. The record has no
join and no unfinished upgrade, which Execute refuses to work beside.

### Rollout

`record` is the durable progress: open or complete, current node, completed
nodes. `pc` is the session, one action per step of Upgrade; every step may be
lost or late (`Lost`), killed (`Crash`), or fail at its checkpoint (`Save`). A
host has its apply process, marker step, Core image, Core, dependants and links.
`height` is the position in the DKG cycle; the block that starts a cycle records
the validators that are away in `missed`. Faults are counted and bounded by
`MaxFaults`; `FaultKinds` selects them, and `faults` keeps the kinds met so far.
The phases staging, applying, verifying and interrupted of the record are one
phase "open": no step reads them apart from being complete. The check of the
host's evidence with which Upgrade begins (upgrade_runner.go 421) is left out
here; it is `Evidence` in `Platform`, where releases differ in what they change.

### Platform

`plan` is what the release changes on a validator (`changed`, and of these the
services with another image in `images`) and the restarts of Tenderdash that
Docker had counted in the baseline. `record` is as in Rollout. `cont` has per
host and service whether the container is there and runs, whether it has the
fingerprint of the render (`new`), how often it was recreated (`id`) and
Docker's counter; `marker` is `upgrade.json` with the selected services and the
dependency; `proc` is the apply that holds the host lock and the step it is at.
Intent, stop, and record of the stop are actions of their own, so are removal,
creation and start of each container by Compose, wait and start of Tenderdash,
and the final check; a process may be broken off between any two. `Evidence` is
upgradeEvidence with its exemption of the pending node, `Gate` the whole fleet.

Taken to hold: Core stays as it is, a host renders the same each time (so the
staged changes are those applied), images verify, Compose dies with the worker
that started it. Checkpoints that change nothing of this record (staging,
verifying) are part of their steps. Left out: the pins of sidecar images, and
hosts that only move to a new helper.

### ManagedHost and Managed

`ManagedHost` is one host: `cont` are its containers (there, ID, image, running,
number of starts), `owned` the owner file, `staged` the images pulled, `marker`
the write-ahead `operation.json` with the IDs of the containers that are done,
the drain of Tenderdash and how far it got. `proc` is the apply that holds the
flock and the step it is at, `answer` what its SSH session has heard. Every
effect of `apply` is an action (`StopRequested` .. `Restarted`, `Stop`, `Remove`,
`Create`, `Start`, `Recorded`, `Complete`), a process may be killed between any
two of them, and nothing but the marker and Docker says where it was. `Guard` is
operation_guard, `Preserved` assert_baseline.

`Managed` extends it with the runner. `record` is the journal's data, `ses` the
runner with its copy, `imports` the snapshots, `plans` the reviewed plans. The
session actions follow Enroll and Execute: intent, staging of all hosts, and for
each target the gate, the durable current target, the call, the wait for the
target, the gate after it, the durable result. A gate is two sweeps (`FirstSweep`,
`SecondSweep`) and a few more for nodes that have not advanced (`Extend`), then
`Verdict`; `CanWithdraw` is the quorum margin. The workloads change under it:
nodes fail, are banned and heal (`cond`), a workload is stopped by hand or
replaced by another (`IntendedStop`, `Drift`). `since` is a history of what failed
after it was last sampled, which no gate can know.

The constants are what the code accepts: where Drive runs, so does its Tenderdash
(Fleet.Validate, `ManagedHostAssumption`); a plan changes only what is in its scope
and is on enrolled hosts (BuildSelected and Plan.Validate, `Requests`). The margin is
asked only of an upgrade whose scope has a service of the consensus, Core, Drive or
Tenderdash (runner.go 424), so `QuorumGate` speaks of these.

Left out, or taken to hold: hashes of configuration and files (they stand and
fall with the container's identity here), disagreement about consensus blocks,
changes of the fleet between import and plan, companions, the registry.

### Join

`record` has the plan that claimed the allocation, the phase, the node phases,
and whether a genesis deployment or a bootstrap rerun got there first. `ses` has
one invocation for each of two join plans, the genesis deployment (up to the
first hosts it marks, which is all a join can collide with) and a rerun of the
bootstrap. Each reads and judges the record (`Begin`), claims it (`Claim`), judges
it again (`Refused`) and only then saves its intent. On a host, `plan` is
`deployment.json`, `box` and `marker` the container and the ID recorded for it,
and `job` a join-start under way, which outlives its session. Every container
that join-start creates has an ID that no marker on the host has (`NewId`), and
one put there by hand is `Foreign`. A poll asks every
host (`Status`), and is saved as a whole or not at all (`Conclude`). `held` is a
history of the hosts that were ready at some moment of the poll under way.

At most one invocation is between its read and its claim; all others interleave.
Left out: the drift checks of the rendered join.json and dash.conf and of the
image.

### SeedTLS

A pair is a number, 0 for the original. `disk` has the numbers of the mounted key
and certificate, or `Torn` for a file whose writer died in it; `prev` and
`pending` are the backup and the journal, `loaded` what the gateway serves. `w` is
the holder of renew.lock and the step of `renew.py` (or of the recovery the
worker runs under it) it is at; `op` is the same for operation.lock and
`worker.py`. The renewal is `Check`, `Issue`, `BackupCert` .. `Journal`,
`InstallKey` .. `InstallUnlink`, with the recovery before it and after a failure;
adoption, undo and rollback are `Apply` and `Restore`, one action per step.
`phase` is the one in operation.json; "staged" is none yet beside the unit files,
which an adoption writes first (`StageUnits`, then `Prepare`). `Doctor` is a
predicate on one state. A HUP that fails in the undo is a reload not taken: what
it leaves is what a worker killed there leaves.

Assumed: the gateway takes a HUP within the thirty seconds or not at all. Left
out: what drift the adoption checks for (one Boolean, seen or not), and reboots
of the host, after which doctor and rollback refuse the changed start times.

## Runs

| Run | Instance | Shows |
|---|---|---|
| `journal` | a runner and a release-addresses command on one plan, 2 revisions, fair | the inductive invariant of the proofs, no lost update and no steal (`RecordKept`), refinement, a claim that worked is given back |
| `provision` | 3 targets, with addresses or without, 2 allocations each | what was launched is known and launched once (`LaunchesKnown`), one address that is never lost (`AddressesKept`), compute-ready is real, releases are of dead instances and final (`ReleaseIsFinal`) |
| `bootstrap_fleet` | 1 runner, 3 hosts, 2 SSH sessions, 2 faults, fair | preflight and journal before mutation, the fence of the checkpoints (`SafeMutation`), fresh evidence, sessions end |
| `bootstrap_sessions` | 3 exchangeable commands, 1 host, 2 faults | the record is evidence of the host across resumes and overlaps, no apply runs behind hosts-ready, failures are recorded (`RecordIsEvidence`) |
| `deploy` | 2 validators and a mining wallet, 1 fault of any kind, 1 stop or Core-only command, any number of deployments, fair | one registration and one genesis (`MadeOnce`), DKG in order under a miner that stops first (`DKGOverValidators`); reruns complete |
| `rollout_faults` | 3 validators and the miner, 3 faults of any kind, fair | one out, journaled, replaced once and served after (`OneJournaledWithdrawal`); no DKG session while away; reruns complete |
| `rollout_stuck` | 1 validator and the miner | disagreement, see below |
| `platform` | 2 validators, 5 releases, 2 faults of 5 kinds, fair | Drive never goes away under a running Tenderdash (`GracefulDrain`), one node out and journaled, each service recreated once at most (`OneWithdrawal`); reruns complete |
| `platform_stuck` | 1 validator, a release that reconfigures Drive, 1 kill | disagreement, see below |
| `managed` | 3 validators with powers 1, 1 and 2, the first two operated; drive, tenderdash and gateway; an upgrade, then a deploy; 3 events of imports and 8 kinds of fault; fair | a session finds one marker from which all is put back (`Resumable`), the quorum margin holds while a host is away, complete is real, nothing foreign is removed, reruns complete |
| `seedtls` | 3 certificates, 2 faults of 5 kinds, fair | half a pair only under a journal, doctor is right and Dashmate retired only behind a served pair (`ReportIsTrue`), renewals get through and half-way adoptions are settled (`Reconciles`) |
| `join` | 2 hosts, 2 plans, 2 faults of 7 kinds, fair | an allocation has one engine, joined is observed, reruns complete |

Properties named in brackets are conjunctions of named parts in their modules.
Safety and liveness of a module are checked by the same run, on the same states.

Bounds. The cycle of 4 blocks with two quiet ones in `rollout_faults` stands for
24 with eleven: the properties depend on the order of quiet part, boundary and
session only. Two runners are enough for a stale writer to meet a holder; the
proofs remove the bound, which is why the instance is not larger. Two revisions
allow an acknowledged and a late checkpoint at once. Three targets in Provision
allow one finished, one under way and one untouched; two allocations are the
second one that must not happen. Three hosts with two sessions let the pool
refill once; two commands are a failure and its resume, three leave room for an
orphan of the first. Two faults are the one that leaves something behind and the
one that hits the resume; three in a rollout let a session, its resume and the
host break on the same node. In a deployment two validators are the one whose
collateral is there and the one whose registration might spend it; one fault
leaves a session anywhere and one stop meets what it left. Two ChainLocks and two
signed transactions are the second that must not count. Its safety properties
were also checked with two faults (2.5 million states) and with a miner of its
own host (1.5 million), by the same configuration with `MaxFaults = 2` or
`Miner = 4`.

In `platform` the releases are those that drain or do not, that replace
Tenderdash with Drive or leave its container, and that other images give away or
not; two counts, none and one, are the restart of Tenderdash that any deployment
may have seen. Two faults are the one that breaks an apply off and the one that
hits its resume.

In `managed` the powers put the margin to the test: of 4, the other two hold 3
when one of the small ones is away, which is just above two thirds, and 2 when
another fails, which is not. The operated two are the one being replaced and the
one that waits; a third validator, which is only observed, is what can fail
without being ours. Drive and Tenderdash are the one dependency that is drained;
the gateway is what must not change. The second plan is there so that the record,
the marker and the images of a first operation are met by another. Each kind of
fault happens once, and imports count with the faults, so that three events are a
first import, with two faults, or a second import (for the second plan) with one.
In `seedtls` three certificates are one adopted, one renewed and one that
replaces a renewal that failed. In `join` two plans are the owner and the
intruder, two hosts the one that joined and the one still on its way.

Deadlock is checked in `managed` and `seedtls`, where something can always
happen. In the other runs commands end, and a finished network stays as it is.

Fairness. `Journal`: a runner that is not killed takes its next step, and a
release that was sent arrives; everything else on the wire is left to chance.
`Bootstrap`: a runner takes its next step, which includes giving up on a session,
since Execute insists on a context with a deadline. `Rollout`: blocks are mined
while the miner runs, host processes and sessions go on, and the operator repeats
the command. `Platform`: the same without
blocks. `Deploy`: the operator repeats the command, sessions and host
processes go on, a quiet network synchronises, a complete one makes ChainLocks,
and the deadline that Execute insists on ends a wait which mining keeps from ever
ending. A quiet height, or the worker's look at one, is taken if it comes
again and again (strong fairness): heights stand for eight seconds or more and
both sides poll every two. `Managed`: sessions and host workers go on, nodes
whose containers run catch up, the operator releases the claim of a runner that
stopped and repeats an unfinished operation (strongly fair, as imports and other
commands may come between); and a sweep finds, again and again, that all nodes
have advanced, which is that the chain makes blocks. `Join`: runs, host workers
and engines go on, a Core that runs reaches the tip, the operator releases stale
claims and repeats the plan whose join is not finished. `SeedTLS`: processes go
on, the timer fires, an ACME container ends, and the operator rolls back an
adoption that was left half-way. Faults are never due.

## What the runs disagree with

* `rollout_stuck`: docs/upgrades.md says to rerun the same plan. If a block left
  the quiet part before the pause took hold and the answer of the pause is lost,
  mining stays paused at a height outside the window: every rerun waits for a
  quiet height in vain. `RerunCompletes` in `rollout_faults` is what holds:
  without such a race reruns complete, whatever else fails.
* `platform_stuck`: the same sentence. On the journaled current node a resume
  expects Tenderdash's restart counter to be 0, as a planned stop leaves it, even
  when the host had not got to that stop. As long as other images, or a service
  that is down, keep platform-status from succeeding, the node is exempt; but a
  release that changes only the configuration of Drive (a new dashmate helper)
  leaves it to succeed, and a counter that was not 0 before the rollout, as when
  Tenderdash once waited for Drive, makes every rerun end with
  unselected/not-yet-upgraded service changed. `RerunCompletes` in `platform`
  excludes exactly this state (`Undrained`), and a service that Docker restarted
  during the rollout.

Met while modelling, without a run of their own:

* Bootstrap: docs/provisioning.md says that a cancellation records its
  progress. A save that a cancelled context keeps from being sent still raises
  the revision, so the interruption record that follows is refused and the
  record keeps showing a fleet in preparation. The claim is released.
  `FailureRecorded` excludes it by `behind`.
* Seed TLS: docs/dapi-seed-tls.md says to use the plan and binary again
  for rollback and reconciliation. A rollback that re-created the retired helper
  and was broken off before it recorded its end meets its own container, which
  has not the ID from before the adoption, and is refused as
  helper-replaced-externally, every time. By then the original pair is back and
  the timer is off. And an adoption that was broken off after it wrote a unit
  file (worker.py 312) and before operation.json (315) is refused from then on as
  renewal-unit-already-exists, and there is no operation to roll back; no service
  was touched by then. `Settles` is what holds: it asks nothing of a seed in one
  of these two states (`Stranded`).
* docs/ipam.md says that an allocation without a visible address stays unknown
  with no second allocation; `ensureAddresses` (ipam.go 214) drops an intent
  after fifteen minutes and allocates again. With the assumption about EC2
  stated in `Provision` no address leaks from this (`AddressesKept`).
* A comment in lifecycle/runner.go (237) says that an interrupted final check
  must not repeat wallet or registration work over a healthy fleet. Whether to
  check first is read from the stage (188), which the same run overwrites (204):
  interrupted again before it calls Doctor, the next run starts over from render.
  The repeated calls change nothing (`MadeOnce`, `DKGOverValidators`).
* docs/upgrades.md says that no DKG session can start while a validator is away.
  After a lost or failed apply mining resumes at once, while the host may still
  be replacing Core (upgrade_runner.go 490). `NoSessionWhileAway` is what holds:
  no session is missed unless an answer was lost or something was killed or
  broke on the host; racing blocks and failing checkpoints do no harm.
* Managed networks: an operation resumed with a current target is not gated
  again, so the margin is that of the first call (`QuorumGate` says so by
  `since`); a deploy has only the final gate. Nodes that answer without advancing
  count as serving in the margin (health.go 252), though not in the gate. A
  partly enrolled network is bound to the snapshot of its first host: after a
  restart of one container there, enrolment neither finishes nor starts over. A
  complete plan that is executed again after another enrolment becomes active
  again, and if one of its workloads was stopped by hand it can neither complete
  nor be planned over (`RerunCompletes` excludes it by `Undone`).
* Seed TLS: the undo of a failed adoption does not wait until the gateway serves
  the original pair, as the rollback does.
* Join: docs/join-existing-chain.md says to rerun the same join plan. That does
  not help when a container was removed by hand and the next join-start is killed
  between creating another (join.py 34) and recording its ID (35): the marker is
  then of the container that is gone, and every later start is refused as
  join-container-replaced, until the container is removed once more. The same
  goes for a Core that Docker restarted and for a marked container replaced by
  hand. A container of another where none is marked is taken up, if it runs the
  right image (28-33), and joins only if it follows the chain. `JoinCompletes`
  excludes these, and a rerun of the bootstrap, which the documentation forbids,
  and nothing else (`Barred`).

## Proofs

The first part of `RecordProofs`, about `Journal`, proves for any number of
runners, plans and revisions, under `JournalAssumption` only (cleaners are
runners, the markers for "none" are not members):

* `InvariantHolds`: `JournalInvariant`, the strengthening of `JournalInv`.
* `ClaimExcludesHolds`, `HolderSeesLatestHolds`, `AckedDurableHolds`: what it is
  for: one holder, who sees every acknowledged checkpoint, none of which is lost.
* `NoLostUpdateHolds`, `NoStealHolds`, and their conjunction `RecordKeptHolds`:
  the action properties.
* `ImplementsRecordHolds`: every step of `Journal` is a step of `ClaimedRecord`
  or a stutter.

All executors rely on these: their modules start from sessions that exclude one
another and from a record that keeps what was acknowledged.

Why a strengthening: exclusion is not inductive by itself. Nothing in the state
of the table and the runners forbids a late claim or save that would break it;
what forbids it is which calls and answers can still be on the wire. The
invariant says that attempts of an Acquire outlive it only for runners that
stopped without an answer (`AcquireOnlyIn`), that such a runner never wrote
(`NoWriteBeforeClaim`), that late checkpoints of one runner form a chain ending
in its copy (`SavesBelowLocal`, `SavesChain`), and that the one the condition
lets through extends the item (`NextSaveExtends`). Each action has a lemma, and
each conjunct a step in it.

The other proofs have one shape. Each module has an inductive invariant, a
conjunction of named parts, most of them about one host or one session; TLC
checked it on the instance of the run before it was proved. A lemma per action
shows that it is kept, a lemma about the whole step splits on the disjuncts of
`Next`, and the properties of the run are read off it. The assumptions on the
constants are those of the `ASSUME` in the model, and nothing else. Sessions and
hosts are worked off in order with `Min`, which the community modules define
with CHOOSE; a lemma `MinIn` in each module that uses it says what that chooses.

**`BootstrapProofs`**, for any number of commands, hosts, SSH sessions and
faults: `BootstrapTypes`, `MutationIsSafe`, `HostsReadyMeansFresh`,
`RecordMeansEvidence`. The properties speak of the record; what makes them true
is what each command, the holder or one that lost its claim, can still do. So
the invariant says of every command where the work on each host can be by the
step it is at (`FleetOK`), that it probed what it marks (`ProbedOK`), that what it
left running on a host is journaled as such (`JournaledOK`), that its evidence is
its own (`EvidenceOK`), that a command without its claim uses up its turns
(`FenceOK`), and what the final verification may rely on while others are around
(`VerifiedOK`). `SessionStepKeeps` is the heart of it: what a step of one command
leaves of all the others.

**`RolloutProofs`**, for any number of nodes, any length of the DKG cycle and of
its quiet part, and any number of faults: `RolloutTypes`, `OneWithdrawalAtATime`,
`SessionsAreWhole`. A host is tied to its marker (`MarkerOrder`, `ReplacesOld`), its
marker to the journal (`WorkIsJournaled`, `DoneAt`), and the session to both
(`SessionOrder`). That no DKG session starts without a validator needs no
arithmetic on heights: around a validator the miner is down from before the
withdrawal until the node serves again (`MinerDown`), as long as answers come
and nothing is killed (`Clean`, the condition of the property itself).

**`PlatformProofs`**, for any number of validators, any set of releases and
restart counters and any number of faults: `PlatformTypes`, `DriveIsDrained`,
`OnePlatformWithdrawal`. `GracefulDrain` compares two services of a host; the
invariant says where in the drain a host process can be with which of them down,
also when it is the second process on that host (`DrainOrder`), and what the
marker selects (`MarkerSelects`, `UnselectedStay`).

**`SeedTLSProofs`**, for any number of certificates and faults: `SeedTypes`,
`MixedPairIsJournalled`, `SeedReportIsTrue`. The two locks and what their holders
are doing (`LocksOK`), what the writer has done to each file by where it is
(`FilesOK`), and the one way to half a pair without a journal, a rollback to the
original (`PairOK`), together give the first; the second also needs the phases of
an adoption (`PhaseOK`, `FirstRenewal`, `RetiringOK`, `TimerOK`, `ReturningOK`).

**`JoinProofs`**, for any number of hosts, join plans and faults: `JoinTypes`,
`HostsHaveOneEngine`, `JoinIsObserved`. Every engine judges a record it read
before its claim. The invariant says why that is enough: what a running
invocation would save names the plan and engine of the record, or its revision is
`behind` and it will never be saved (`AgreesOK`); what runs on a host belongs to
the plan of the record, whatever became of the session that started it (`HostOK`);
and no host is at work while a plan polls (`JobsOK`), so that what it takes for
ready was so (`PollOK`).

**`DeployProofs`**, for any number of validators, repeated commands and faults, and
a miner on the wallet's host or its own: `DeployTypes`, `ValidatorsMadeOnce`,
`DKGHasItsValidators`. Calls outlive the session that made them, so nothing can be
shown about a session alone. The invariant ties every process on a host to the step
under way, or to an earlier session; then the one step that may run beside it is
`inspect`, which fails over it (`CallOK`). What a process finds is still as its
session left it (`ProcOK`): a registration finds every other collateral locked, so
that the coins it signs for are none of these; `activate` finds all validators
confirmed; `platform-start` carries the durable genesis; `mine-start` finds all Cores
up and no stop at work. What a session has behind it (`Fits`) and what each answer
still says when the last one is in (`AnswerOK`) carry this from one step to the next.
A step of a session is a checkpoint or a move (`SaveKeeps`, `MoveKeeps`), a step of a
host a turn of one process (`TurnKeeps`).

**The second part of `RecordProofs`**, about `Provision`, for any number of targets, of allocations and of sessions:
`ProvisionTypes`, `LaunchesAreKnown`, `AddressesAreKept`, `ReadyStaysReal` and the
action property `ReleasesAreFinal`. Nothing the session is told can be taken at face value:
a launch may be under way that no read shows. The invariant says why that is enough. What
EC2 does by itself only settles what was already asked for (`Settles`), and it
never needs a target twice (`CloudOK`). An intent is in the record before the call
(`TargetOK`); a session differs from the record only in instances that turned up
(`CopyOK`), and what it did not find when it discovered was never launched
(`LaunchOK`). An address is asked for only when none can be held, because an old intent
is only asked again when nothing of it can turn up (`StaleOK`), and the snapshot stays
true of an instance that lives (`AddressingOK`). The survey before a withdrawal
found each target's one address, or that it has none, and every instance dead
(`WithdrawalOK`), so that releasing them leaves nothing behind.

**`ManagedProofs`**, for any number of targets of any voting power, any menu of
plans and any number of faults: `ManagedInvariance`, `ManagedTypes`,
`OperationIsResumable`, `QuorumIsKept`, `CompleteMeansDone` and the action property
`ForeignIsKept`. The parts of the invariant are operators on values, on one host's
marker, containers and process or on the session and the record, so that a step is
judged by what it makes of the one host or session it changes: `TurnKeeps` for a step
of a host, `HostMoves` for whatever else moves one; a step of the session leaves the
hosts alone.

* `PlansOK`, `Older`: snapshots and baselines are of the past. An ID that is still
  the snapshot's is still the container that was reviewed; one that is not was
  replaced after it. `ForeignIsKept` rests on this.
* `RecordOK`, `SessionOK`: what the journal holds, and what a session may rely on by
  where it is. `AnswerOK`, `HeardOK`: only the call that is waited for is heard, and
  a good answer means a complete marker.
* `JournalOK`: the record names the one marker that is not complete, and is right
  about the hosts that are done. `ContOK`: a container that is gone is the one of the
  snapshot and is to be replaced. Together they give `OperationIsResumable`.
* `PlaceOK`, `DrainOK`, `CountOK`, unless somebody replaces workloads by hand
  (`drift`): behind the process every container is the desired one, Tenderdash is
  down while Drive is gone or still to be replaced, and IDs count the operations that
  replaced a container. They give `CompleteMeansDone`; that `ProcOK` must know how
  far the drain got while the process is in it is what induction asked for.
* `MarginOK`: the margin was there when the current target was chosen, over the
  targets that serve or have failed since (`Serving`), a set no step shrinks while it
  counts. That `CanWithdraw` then says what `QuorumGate` does needs that more targets
  have more power. The sum is a fold, of which the prover knows nothing;
  `VotingIsVotes` shows that it counts pairs of a target and a vote, by well-founded
  induction on finite sets, and counting is monotone by the library.

Proving changed the models in three places. Where a definition had a CASE with
overlapping guards, TLC took the first and TLA+ promises any of them: they are now
IF, in the order of the code. `Managed` named no assumption on the plans it is given;
the two above are what the code checks before it accepts one. And `QuorumGate`
claimed the margin for every upgrade, which held on the instance only because
its plans replace a service of the consensus: an upgrade of DAPI alone is not
gated on it.

Only model-checked: liveness (`ClaimGivenBack`, `SessionEnds`, `RerunCompletes`,
`RedeployCompletes`, `JoinCompletes`, `Reconciles`), which is beyond the prover.

## Not modelled

* Plans, specifications, inventory, status, releases, files: pure or read-only.
* SSH, Docker, DynamoDB, EC2, ACME and Dash Core themselves, except for the
  effects the executors depend on. Definitions for them are marked external in
  the map.
* Time as a quantity. Deadlines are "may give up", the age of an intent or of a
  certificate is an event.
* The starting and stopping of containers by hand during a join, and a genesis
  deployment beyond the hosts it marks there; reboots in SeedTLS.

## Plan

1. `Journal` with its proofs, `Provision`, `Bootstrap`, `Deploy`, `Rollout`,
   `Platform`, `ManagedHost` and `Managed`, `Join`, `SeedTLS`: done.
2. Proofs: the safety of every module: done.
3. Serial sessions as an abstract specification that `Journal` implements and
   the executors start from.
4. Operators: `validateUpgrade`, `validateBootstrap` and `quietDKG` against what
   their writers produce; `Doctor` on bounded observations.
