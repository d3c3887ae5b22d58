------------------------------- MODULE Journal -------------------------------
(***************************************************************************)
(* The DynamoDB journal of internal/journal and the way every executor uses *)
(* it: PutItem/UpdateItem calls with conditions, made by several runner     *)
(* processes through an SDK that retries, over a network that delays and    *)
(* duplicates calls and loses answers.                                      *)
(*                                                                          *)
(* A call stays in "calls" while an attempt of it may still reach the       *)
(* table, so it can be served late (after its caller gave up, was killed or *)
(* moved on) and, for a retry, more than once.  A caller takes any answer   *)
(* an attempt produced, or an error at any time.                            *)
(*                                                                          *)
(* Assumed of the SDK: once a runner has the answer of its Acquire call, no *)
(* earlier attempt of that same call is still under way.  After an Acquire  *)
(* that ended in an error, attempts may still arrive (the "lost response    *)
(* may have left a claim" of the Store contract).                           *)
(***************************************************************************)
EXTENDS Naturals

CONSTANTS
  Runners,        \* invocations of the CLI; owner IDs are random, never reused
  Cleaners,       \* the invocations of release-addresses among them
  PlanOf,         \* the plan file each invocation was given
  NoPlan,         \* the item does not exist
  NoOwner,        \* the item has no Owner attribute
  MaxRev          \* bound: highest revision any runner writes

ASSUME JournalAssumption ==
  /\ Cleaners \subseteq Runners
  /\ NoOwner \notin Runners
  /\ \A o \in Runners : PlanOf[o] # NoPlan
  /\ MaxRev \in Nat

VARIABLES
  plan, owner, rev, data,   \* the item: PlanID, Owner, Revision, Data
  pc,                       \* where each runner stands
  local,                    \* each runner's copy of the record
  calls,                    \* write attempts that may still reach the table
  replies,                  \* answers produced by served attempts
  acked                     \* checkpoints whose Save returned nil (history)

item == <<plan, owner, rev, data>>
vars == <<plan, owner, rev, data, pc, local, calls, replies, acked>>

\* A record is the set of checkpoints folded into it: who wrote which revision.
Checkpoint == Runners \X Nat
Records    == [rev : Nat, data : SUBSET Checkpoint]
Calls      == [op : {"put", "claim", "save", "release"}, owner : Runners,
               rev : Nat, data : SUBSET Checkpoint]
Replies    == [op : {"put", "claim", "save"}, owner : Runners,
               rev : Nat, data : SUBSET Checkpoint, ok : BOOLEAN]

Stopped == {"stopped", "crashed"}
PCs == {"start", "putting", "reading", "claiming", "working", "saving",
        "failed", "interrupting", "releasing"} \cup Stopped

\* The runner believes that it holds the claim.
Holding(o) == pc[o] \in {"working", "saving", "failed", "interrupting"}

Call(op, o, n, d)   == [op |-> op, owner |-> o, rev |-> n, data |-> d]
Reply(m, n, d, ok)  == [op |-> m.op, owner |-> m.owner, rev |-> n, data |-> d, ok |-> ok]

TypeOK ==
  /\ plan \in {NoPlan} \cup {PlanOf[o] : o \in Runners}
  /\ owner \in Runners \cup {NoOwner}
  /\ rev \in Nat
  /\ data \subseteq Checkpoint
  /\ pc \in [Runners -> PCs]
  /\ local \in [Runners -> Records]
  /\ calls \subseteq Calls
  /\ replies \subseteq Replies
  /\ acked \in [Runners -> SUBSET Checkpoint]

Init ==
  /\ plan = NoPlan
  /\ owner = NoOwner
  /\ rev = 0
  /\ data = {}
  /\ pc = [o \in Runners |-> "start"]
  /\ local = [o \in Runners |-> [rev |-> 0, data |-> {}]]
  /\ calls = {}
  /\ replies = {}
  /\ acked = [o \in Runners |-> {}]

-----------------------------------------------------------------------------
(* The table.  Each request is applied atomically under its condition.      *)

\* A served attempt leaves an answer; the call stays if it may be retried.  A
\* refused save or release leaves none: its caller does with a refusal what it
\* does with a lost answer.
Answer(m, answers) ==
  /\ replies' = replies \cup answers
  /\ calls' \in {calls, calls \ {m}}
  /\ UNCHANGED <<pc, local, acked>>

Refuse(m, answers) == UNCHANGED item /\ Answer(m, answers)

PutCondition == plan = NoPlan

ServePut(m) ==
  /\ m.op = "put"
  /\ IF PutCondition
     THEN /\ plan' = PlanOf[m.owner]
          /\ owner' = m.owner
          /\ rev' = 0
          /\ data' = {}
          /\ Answer(m, {Reply(m, 0, {}, TRUE)})
     ELSE Refuse(m, {Reply(m, 0, {}, FALSE)})

ClaimCondition(m) == plan = PlanOf[m.owner] /\ owner = NoOwner

\* ReturnValueAllNew: the answer carries the record as claimed.
ServeClaim(m) ==
  /\ m.op = "claim"
  /\ IF ClaimCondition(m)
     THEN /\ owner' = m.owner
          /\ UNCHANGED <<plan, rev, data>>
          /\ Answer(m, {Reply(m, rev, data, TRUE)})
     ELSE Refuse(m, {Reply(m, 0, {}, FALSE)})

\* mutants: any higher revision; no owner condition
LaterRevision(m) == plan = PlanOf[m.owner] /\ owner = m.owner /\ m.rev > rev
AnyOwner(m) == plan = PlanOf[m.owner] /\ m.rev = rev + 1

SaveCondition(m) ==
  /\ plan = PlanOf[m.owner]
  /\ owner = m.owner
  /\ \/ m.rev = rev + 1
     \/ m.rev = rev /\ m.data = data

ServeSave(m) ==
  /\ m.op = "save"
  /\ IF SaveCondition(m)
     THEN /\ data' = m.data
          /\ rev' = m.rev
          /\ UNCHANGED <<plan, owner>>
          /\ Answer(m, {Reply(m, m.rev, m.data, TRUE)})
     ELSE Refuse(m, {})

HolderCondition(m) == plan = PlanOf[m.owner] /\ owner = m.owner

ServeRelease(m) ==
  /\ m.op = "release"
  /\ IF HolderCondition(m)
     THEN /\ owner' = NoOwner
          /\ UNCHANGED <<plan, rev, data>>
          /\ Answer(m, {})
     ELSE Refuse(m, {})

Serve(m) == ServePut(m) \/ ServeClaim(m) \/ ServeSave(m) \/ ServeRelease(m)

-----------------------------------------------------------------------------
(* The runner.                                                              *)

SameRevision(o) ==       \* mutant: the revision is not raised
  [rev |-> local[o].rev,
   data |-> local[o].data \cup {<<o, local[o].rev + 1>>}]

\* A write to the record: the next revision, with this runner's own mark.
NextRecord(o) ==
  [rev |-> local[o].rev + 1,
   data |-> local[o].data \cup {<<o, local[o].rev + 1>>}]

Send(m)     == calls' = calls \cup {m}
GoTo(o, p)  == pc' = [pc EXCEPT ![o] = p]
OwnCall(o, op)    == {m \in calls : m.owner = o /\ m.op = op}
OwnReplies(o, op) == {r \in replies : r.owner = o /\ r.op = op}

\* Acquire starts with the conditional PutItem; release-addresses starts with
\* the read, it never creates a record.
Start(o) ==
  /\ pc[o] = "start"
  /\ IF o \in Cleaners
     THEN GoTo(o, "reading") /\ UNCHANGED calls
     ELSE GoTo(o, "putting") /\ Send(Call("put", o, 0, {}))
  /\ UNCHANGED <<item, local, replies, acked>>

\* The answer of an Acquire call is taken; nothing of that call is left.
Settle(o, op) ==
  /\ calls' = calls \ OwnCall(o, op)
  /\ replies' = replies \ OwnReplies(o, op)

Created(o) ==
  /\ pc[o] = "putting"
  /\ \E r \in OwnReplies(o, "put") :
       \/ r.ok  /\ GoTo(o, "working")
       \/ ~r.ok /\ GoTo(o, "reading")
  /\ local' = [local EXCEPT ![o] = [rev |-> 0, data |-> {}]]
  /\ Settle(o, "put")
  /\ UNCHANGED <<item, acked>>

\* Strongly consistent; a record of another plan, or none, ends the command.
Read(o) ==
  /\ pc[o] = "reading"
  /\ IF plan = PlanOf[o]
     THEN GoTo(o, "claiming") /\ Send(Call("claim", o, 0, {}))
     ELSE GoTo(o, "stopped") /\ UNCHANGED calls
  /\ UNCHANGED <<item, local, replies, acked>>

Claimed(o) ==
  /\ pc[o] = "claiming"
  /\ \E r \in OwnReplies(o, "claim") :
       \/ /\ r.ok
          /\ GoTo(o, "working")
          /\ local' = [local EXCEPT ![o] = [rev |-> r.rev, data |-> r.data]]
       \/ /\ ~r.ok
          /\ GoTo(o, "stopped")
          /\ UNCHANGED local
  /\ Settle(o, "claim")
  /\ UNCHANGED <<item, acked>>

\* An Acquire that failed without an answer is never followed by a release.
AcquireTimeout(o) ==
  /\ pc[o] \in {"putting", "reading", "claiming"}
  /\ GoTo(o, "stopped")
  /\ UNCHANGED <<item, local, calls, replies, acked>>

SendSave(o) ==
  /\ local[o].rev < MaxRev
  /\ local' = [local EXCEPT ![o] = NextRecord(o)]
  /\ Send(Call("save", o, local'[o].rev, local'[o].data))
  /\ UNCHANGED <<item, replies, acked>>

SaveProgress(o) == pc[o] = "working" /\ GoTo(o, "saving") /\ SendSave(o)

\* Save returned nil: the runner relies on the checkpoint from here on.
Saved(o) ==
  /\ pc[o] = "saving"
  /\ \E r \in OwnReplies(o, "save") :
       r.rev = local[o].rev /\ replies' = replies \ {r}
  /\ GoTo(o, "working")
  /\ acked' = [acked EXCEPT ![o] = @ \cup {<<o, local[o].rev>>}]
  /\ UNCHANGED <<item, local, calls>>

\* Refused, or no answer: the write may or may not land.
SaveFailed(o) ==
  /\ pc[o] = "saving"
  /\ GoTo(o, "failed")
  /\ UNCHANGED <<item, local, calls, replies, acked>>

\* Remote work fails or the context is cancelled between two checkpoints.
RemoteFailure(o) ==
  /\ pc[o] = "working"
  /\ GoTo(o, "failed")
  /\ UNCHANGED <<item, local, calls, replies, acked>>

\* The deferred clean-up of Execute: the revision is raised once more, whether
\* or not the last save landed.
Interrupt(o) == pc[o] = "failed" /\ GoTo(o, "interrupting") /\ SendSave(o)

SendRelease(o) ==
  /\ GoTo(o, "releasing")
  /\ Send(Call("release", o, 0, {}))
  /\ UNCHANGED <<item, local, replies, acked>>

KeepsClaim(o) ==         \* mutant: returns without the release
  /\ pc[o] = "interrupting"
  /\ GoTo(o, "stopped")
  /\ UNCHANGED <<item, local, calls, replies, acked>>

\* The interruption was saved, refused, or its answer lost: released anyway.
InterruptDone(o) == pc[o] = "interrupting" /\ SendRelease(o)

\* Nothing changed, or a failure that is not recorded: only the release.
Finish(o) == pc[o] \in {"working", "failed"} /\ SendRelease(o)

ReleaseDone(o) ==
  /\ pc[o] = "releasing"
  /\ GoTo(o, "stopped")
  /\ UNCHANGED <<item, local, calls, replies, acked>>

Crash(o) ==
  /\ pc[o] \notin Stopped
  /\ GoTo(o, "crashed")
  /\ UNCHANGED <<item, local, calls, replies, acked>>

\* operation-unlock: the operator names the owner shown by operation-status
\* and confirms that this runner has stopped.
Unlock(o) ==
  /\ pc[o] \in Stopped
  /\ owner = o
  /\ Send(Call("release", o, 0, {}))
  /\ UNCHANGED <<item, pc, local, replies, acked>>

Runner(o) ==
  \/ Start(o) \/ Created(o) \/ Read(o) \/ Claimed(o) \/ AcquireTimeout(o)
  \/ SaveProgress(o) \/ Saved(o) \/ SaveFailed(o) \/ RemoteFailure(o)
  \/ Interrupt(o) \/ InterruptDone(o) \/ Finish(o) \/ ReleaseDone(o)

Next ==
  \/ \E m \in calls : Serve(m)
  \/ \E o \in Runners : Runner(o) \/ Crash(o) \/ Unlock(o)

Spec == Init /\ [][Next]_vars

\* A running process makes progress, and a release that was sent arrives.
\* Crashes, the operator, and every other delivery are left to chance.
Delivered(o) == \E m \in OwnCall(o, "release") : ServeRelease(m)

FairSpec ==
  Spec /\ \A o \in Runners : WF_vars(Runner(o)) /\ WF_vars(Delivered(o))

-----------------------------------------------------------------------------
(* What the executors rely on.                                              *)

\* A runner that believes it holds the claim is the item's owner, and the item
\* is bound to its plan; hence two runners never work at the same time, even
\* when an attempt of an earlier Acquire or Release is served late.
\* (Dynamo.Acquire, claim, Release.)
ClaimExcludes ==
  \A o \in Runners : Holding(o) => owner = o /\ plan = PlanOf[o]

\* Between two checkpoints the holder's copy IS the item, byte for byte: it
\* decides what to create or mutate next from the durable record and not from
\* a stale one.  (The record returned by Acquire and kept across Save.)
HolderSeesLatest ==
  \A o \in Runners :
    pc[o] = "working" => local[o] = [rev |-> rev, data |-> data]

\* A checkpoint whose Save returned nil is in every later item, whoever writes
\* it, whatever retries are still on the wire.  (Dynamo.Save.)
AckedDurable == \A o \in Runners : acked[o] \subseteq data

\* No write drops a checkpoint that reached the table, acknowledged or not, and
\* the revision never goes back.  (The condition expression of Dynamo.save.)
NoLostUpdate == [][data \subseteq data' /\ rev <= rev']_vars

\* A claim never passes from one runner to another without being given up in
\* between, and a record never changes plan.  (Dynamo.claim: claims never
\* expire; PutItem only when the item does not exist.)
NoSteal ==
  [][ /\ owner # NoOwner => owner' \in {owner, NoOwner}
      /\ plan # NoPlan => plan' = plan ]_vars

\* What the table keeps: its checkpoints, its claim, its plan.
RecordKept == NoLostUpdate /\ NoSteal

\* A runner that once worked under the claim and was not killed gives it back,
\* whatever failed on the way; and no late call of its own takes it again.
\* (The deferred Release of every Execute.)
ClaimGivenBack ==
  \A o \in Runners :
    pc[o] = "working" ~> \/ pc[o] = "crashed"
                         \/ [](owner # o)

\* The journal implements the record of ClaimedRecord: every step of table,
\* network and runners is one of its steps or leaves the record alone.
C == INSTANCE ClaimedRecord WITH
       bound <- plan, holder <- owner, version <- rev, history <- data
ImplementsRecord == C!ASpec
=============================================================================
