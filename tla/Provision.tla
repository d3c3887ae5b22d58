------------------------------ MODULE Provision ------------------------------
(***************************************************************************)
(* Compute provisioning and its undoing: internal/provision Execute, with   *)
(* the IPAM addresses, and ReleaseAddresses, against an EC2 API whose calls *)
(* take effect late, are lost or lose their answers, and whose reads lag.   *)
(*                                                                          *)
(* Sessions (one Execute or ReleaseAddresses each) are serial: Journal      *)
(* shows that two claim holders never overlap.  A session works on a copy   *)
(* of the durable record and reaches it only through Save.  It ends at any  *)
(* point, by an error, a cancellation or a kill; the next one starts from   *)
(* whatever the record then says.                                           *)
(*                                                                          *)
(* Assumed of EC2: a tagged address, once visible, stays visible until it   *)
(* is released; RunInstances with one client token makes one instance; an   *)
(* AllocateAddress is dropped, or visible, long before StaleAllocationAfter *)
(* has passed since its intent (action Age).                                *)
(***************************************************************************)
EXTENDS Integers, FiniteSetsExt

CONSTANTS
  N,              \* targets of the plan, 1..N in plan order
  MaxAlloc        \* bound: AllocateAddress calls that take effect, per target

ASSUME ProvisionAssumption ==
  N \in Nat \ {0} /\ MaxAlloc \in Nat \ {0}

CallBound == 2      \* bound: RunInstances calls counted per target

Targets == 1..N
Ids     == 1..MaxAlloc      \* allocation IDs of one target; 0 is the empty ID

VARIABLES
  public,         \* publicIpv4 of the plan: every target gets an IPAM address
  vm,             \* EC2: the instance that a target's client token made
  eip,            \* EC2: the addresses tagged with the target
  joining,        \* associations accepted but not yet in effect
  leaving,        \* addresses a ReleaseAddress call was sent for
  durable,        \* the record in the journal
  copy,           \* the session's copy
  doing, at, seen,    \* the session: its step, its target, its address snapshot
  stale,          \* the intent is older than StaleAllocationAfter
  launches        \* history: RunInstances calls per target

cloud == <<vm, eip, joining, leaving>>
provisionVars == <<public, vm, eip, joining, leaving, durable, copy, doing, at,
                   seen, stale, launches>>

VmStates  == {"none", "flying", "hidden", "pending", "running", "stopped",
              "terminated", "purged"}
EipStates == {"none", "flying", "hidden", "visible", "attached", "released"}
NodePhases == {"pending", "launching", "present"}
AddrPhases == {"none", "allocating", "allocated", "associating", "associated",
               "releasing", "released"}
Phases == {"pending", "provisioning", "interrupted", "compute-ready",
           "addresses-released"}
Steps == {"idle", "discovering", "scoping", "launching", "running", "polling",
          "preparing", "addressing", "allocating", "associating", "rechecking",
          "surveying", "releasing", "deleting", "verifying"}

Address == [phase : AddrPhases, id : 0..MaxAlloc]
ProvisionRecords == [phase : Phases, node : [Targets -> NodePhases],
                     addr : [Targets -> Address]]
NoAddress == [phase |-> "none", id |-> 0]
Unseen    == [t \in Targets |-> [id |-> 0, attached |-> FALSE]]

ProvisionTypeOK ==
  /\ public \in BOOLEAN
  /\ vm \in [Targets -> VmStates]
  /\ eip \in [Targets -> [Ids -> EipStates]]
  /\ joining \subseteq Targets
  /\ leaving \subseteq Targets
  /\ durable \in ProvisionRecords
  /\ copy \in ProvisionRecords
  /\ doing \in Steps
  /\ at \in 1..(N + 1)
  /\ seen \in [Targets -> [id : 0..MaxAlloc, attached : BOOLEAN]]
  /\ stale \subseteq Targets
  /\ launches \in [Targets -> 0..CallBound]

ProvisionInit ==
  /\ public \in BOOLEAN
  /\ vm = [t \in Targets |-> "none"]
  /\ eip = [t \in Targets |-> [k \in Ids |-> "none"]]
  /\ joining = {} /\ leaving = {}
  /\ durable = [phase |-> "pending", node |-> [t \in Targets |-> "pending"],
                addr |-> [t \in Targets |-> NoAddress]]
  /\ copy = durable
  /\ doing = "idle" /\ at = 1 /\ seen = Unseen
  /\ stale = {}
  /\ launches = [t \in Targets |-> 0]

-----------------------------------------------------------------------------
(* EC2, the network to it, and the operator's console.                      *)

Shown(t)    == {k \in Ids : eip[t][k] \in {"visible", "attached"}}
InFlight(t) == {k \in Ids : eip[t][k] \in {"flying", "hidden"}}
Holds(t)    == Shown(t) \cup InFlight(t)
Visible(t)  == vm[t] \in {"pending", "running", "stopped", "terminated"}

SetVm(t, v)     == vm' = [vm EXCEPT ![t] = v]
SetEip(t, k, v) == eip' = [eip EXCEPT ![t][k] = v]
Undisturbed     == UNCHANGED <<durable, copy, doing, at, seen, stale, launches>>

\* A call that left no answer takes effect, or never does; what took effect
\* shows in later reads.
InstanceAppears(t) ==
  /\ \/ vm[t] = "flying"  /\ \E v \in {"hidden", "none"} : SetVm(t, v)
     \/ vm[t] = "hidden"  /\ SetVm(t, "pending")
     \/ vm[t] = "pending" /\ SetVm(t, "running")
  /\ UNCHANGED <<eip, joining, leaving>>

AddressAppears(t) ==
  /\ \E k \in Ids :
       \/ eip[t][k] = "flying" /\ \E v \in {"hidden", "none"} : SetEip(t, k, v)
       \/ eip[t][k] = "hidden" /\ SetEip(t, k, "visible")
  /\ UNCHANGED <<vm, joining, leaving>>

LateAssociation(t) ==
  /\ t \in joining
  /\ joining' = joining \ {t}
  /\ \/ /\ vm[t] \in {"running", "stopped"}
        /\ \E k \in Ids : eip[t][k] = "visible" /\ SetEip(t, k, "attached")
     \/ UNCHANGED eip
  /\ UNCHANGED <<vm, leaving>>

LateRelease(t) ==
  /\ t \in leaving
  /\ leaving' = leaving \ {t}
  /\ \/ \E k \in Ids : eip[t][k] = "visible" /\ SetEip(t, k, "released")
     \/ UNCHANGED eip
  /\ UNCHANGED <<vm, joining>>

\* The operator stops, starts and terminates instances; termination detaches
\* the address; EC2 forgets a terminated instance after an hour.
Console(t) ==
  /\ \/ vm[t] = "running" /\ SetVm(t, "stopped") /\ UNCHANGED eip
     \/ vm[t] = "stopped" /\ SetVm(t, "running") /\ UNCHANGED eip
     \/ /\ vm[t] \in {"pending", "running", "stopped"}
        /\ SetVm(t, "terminated")
        /\ eip' = [eip EXCEPT ![t] =
                     [k \in Ids |-> IF @[k] = "attached" THEN "visible" ELSE @[k]]]
     \/ vm[t] = "terminated" /\ SetVm(t, "purged") /\ UNCHANGED eip
  /\ UNCHANGED <<joining, leaving>>

\* Time passes since the intent.  The assumption on AllocateAddress: by then its
\* request is not about to be sent, is neither in flight nor invisible, and did
\* not appear only after the address snapshot of the session at work.
Age(t) ==
  /\ durable.addr[t].phase = "allocating"
  /\ doing # "allocating" /\ InFlight(t) = {}
  /\ doing = "addressing" /\ seen[t].id = 0 => Shown(t) = {}
  /\ stale' = stale \cup {t}
  /\ UNCHANGED <<cloud, durable, copy, doing, at, seen, launches>>

Ec2(t) ==
  /\ \/ InstanceAppears(t) \/ AddressAppears(t) \/ LateAssociation(t)
     \/ LateRelease(t) \/ Console(t)
  /\ Undisturbed

-----------------------------------------------------------------------------
(* Checkpoints and the end of a session.                                    *)

UnknownPhase(r) == [r EXCEPT !.phase = "failed"]  \* mutant: not in the schema

\* The deferred clean-up of a failed session.
Interrupted(r) ==
  IF r.phase = "addresses-released" THEN r ELSE [r EXCEPT !.phase = "interrupted"]

Idle == copy' = durable' /\ doing' = "idle" /\ at' = 1 /\ seen' = Unseen

\* The session ends; the interruption is recorded or that write fails as well.
End == durable' \in {durable, Interrupted(copy)} /\ Idle

\* The last checkpoint of a session, or a checkpoint that fails: landed or not,
\* and then the interruption on top of it or not.
SaveAndEnd(r) == durable' \in {durable, r, Interrupted(r)} /\ Idle

\* A checkpoint: acknowledged, and the session goes on; or not.
Save(r, next, i) ==
  \/ durable' = r /\ copy' = r /\ doing' = next /\ at' = i /\ UNCHANGED seen
  \/ SaveAndEnd(r)

NoCall == UNCHANGED <<cloud, launches>>

Withdrawn(r) ==      \* the targets whose address is being released, or is
  {t \in Targets : r.addr[t].phase \in {"releasing", "released"}}

Fail == doing # "idle" /\ End /\ NoCall /\ UNCHANGED stale

\* Killed: nothing more is written.
Kill ==
  /\ doing # "idle"
  /\ UNCHANGED durable
  /\ Idle
  /\ NoCall /\ UNCHANGED stale

-----------------------------------------------------------------------------
(* Execute: launch.                                                         *)

Begin ==
  /\ doing = "idle"
  /\ durable.phase # "addresses-released"
  /\ Withdrawn(durable) = {}
  /\ Save([durable EXCEPT !.phase = "provisioning"], "discovering", at)
  /\ NoCall /\ UNCHANGED stale

\* discover refuses every instance that is neither pending nor running.
Discoverable == \A t \in Targets : vm[t] \notin {"stopped", "terminated"}

\* reconcile: what is visible is present; before the first launch, an intent
\* without an instance, and an instance without an intent, end the session.
Reconciled(r) ==
  [r EXCEPT !.node = [t \in Targets |->
     IF Visible(t) THEN "present" ELSE r.node[t]]]

WaitForVisibility(r) ==   \* mutant: as in the wait loop, before the launches
  \A t \in Targets : Visible(t) => r.node[t] # "pending"

OutcomeKnown(r) ==
  \A t \in Targets : Visible(t) <=> r.node[t] # "pending"

Discover ==
  /\ doing = "discovering"
  /\ Discoverable /\ OutcomeKnown(copy)
  /\ copy' = Reconciled(copy)
  /\ doing' = "scoping"
  /\ NoCall /\ UNCHANGED <<durable, at, seen, stale>>

\* discoverAddresses, for the live instances: one visible address per target,
\* journaled, with the recorded identity, attached only to the live instance;
\* a recorded address must be visible.
AddressScopeOK(r, live) ==
  \A t \in Targets :
    /\ Cardinality(Shown(t)) <= 1
    /\ \A k \in Shown(t) :
         /\ r.addr[t].phase # "none"
         /\ r.addr[t].id \in {0, k}
         /\ IF eip[t][k] = "attached"
            THEN t \in live
            ELSE r.addr[t].phase # "associated"
    /\ r.addr[t].id # 0 => r.addr[t].id \in Shown(t)

Snapshot ==
  [t \in Targets |->
    IF Shown(t) = {} THEN [id |-> 0, attached |-> FALSE]
    ELSE LET k == CHOOSE k \in Shown(t) : TRUE
         IN  [id |-> k, attached |-> eip[t][k] = "attached"]]

Present(r) == {t \in Targets : r.node[t] = "present"}

Scope ==
  /\ doing = "scoping"
  /\ public => AddressScopeOK(copy, Present(copy))
  /\ Save(copy, "launching", at)
  /\ NoCall /\ UNCHANGED stale

\* The next target that is not present: intent first, then the call.
Launch ==
  /\ doing = "launching"
  /\ Present(copy) # Targets
  /\ LET t == Min(Targets \ Present(copy))
     IN  Save([copy EXCEPT !.node[t] = "launching"], "running", t)
  /\ NoCall /\ UNCHANGED stale

\* RunInstances and the checkpoint of its answer; or an error that says nothing
\* of the outcome, and the session ends.
Run ==
  /\ doing = "running"
  /\ launches[at] < CallBound
  /\ launches' = [launches EXCEPT ![at] = @ + 1]
  /\ \/ /\ SetVm(at, IF vm[at] = "none" THEN "hidden" ELSE vm[at])
        /\ Save([copy EXCEPT !.node[at] = "present"], "launching", at)
     \/ /\ \E v \in {"none", "flying", "hidden"} :
             SetVm(at, IF vm[at] = "none" THEN v ELSE vm[at])
        /\ End
  /\ UNCHANGED <<eip, joining, leaving, stale>>

Launched ==
  /\ doing = "launching"
  /\ Present(copy) = Targets
  /\ doing' = "polling"
  /\ NoCall /\ UNCHANGED <<durable, copy, at, seen, stale>>

AllRunning == \A t \in Targets : vm[t] = "running"

\* One round of the wait for EC2 running.
Poll ==
  /\ doing = "polling"
  /\ Discoverable
  /\ LET r == Reconciled(copy)
         ready == AllRunning
     IN  \/ /\ ~ready
            /\ Save(r, "polling", at)
         \/ /\ ready /\ public
            /\ copy' = r /\ doing' = "preparing" /\ UNCHANGED <<durable, at, seen>>
         \/ /\ ready /\ ~public
            /\ SaveAndEnd([r EXCEPT !.phase = "compute-ready"])
  /\ NoCall /\ UNCHANGED stale

-----------------------------------------------------------------------------
(* Execute: ensureAddresses, one target at a time in plan order.            *)

SetAddr(t, phase, k) == [copy EXCEPT !.addr[t] = [phase |-> phase, id |-> k]]

\* The snapshot is taken once, and again after each mutation.
Prepare ==
  /\ doing \in {"preparing", "rechecking"}
  /\ AddressScopeOK(copy, Targets)
  /\ seen' = Snapshot
  /\ at' = IF doing = "preparing" THEN 1 ELSE at
  /\ doing' = "addressing"
  /\ NoCall /\ UNCHANGED <<durable, copy, stale>>

\* No address in the snapshot: a new intent, unless one may be in flight.
MayAllocate(t) ==
  \/ copy.addr[t].phase = "none"
  \/ copy.addr[t].phase = "allocating" /\ t \in stale

Intend ==
  /\ doing = "addressing" /\ at <= N
  /\ seen[at].id = 0
  /\ MayAllocate(at)
  /\ Save(SetAddr(at, "allocating", 0), "allocating", at)
  /\ stale' = stale \ {at}
  /\ NoCall

Free(t) == {k \in Ids : eip[t][k] = "none"}

\* AllocateAddress, without a token and without retries.
Allocate ==
  /\ doing = "allocating"
  /\ \/ /\ Free(at) # {}      \* answered
        /\ SetEip(at, Min(Free(at)), "hidden")
        /\ Save(SetAddr(at, "allocated", Min(Free(at))), "rechecking", at)
     \/ /\ \/ UNCHANGED eip   \* outcome unknown
           \/ /\ Free(at) # {}
              /\ \E v \in {"flying", "hidden"} : SetEip(at, Min(Free(at)), v)
        /\ End
     \/ /\ UNCHANGED eip      \* rejected: the intent is taken back
        /\ SaveAndEnd(SetAddr(at, "none", 0))
  /\ UNCHANGED <<vm, joining, leaving, stale, launches>>

\* A lost allocation that showed up is recorded.
Adopt ==
  /\ doing = "addressing" /\ at <= N
  /\ seen[at].id # 0 /\ copy.addr[at].phase = "allocating"
  /\ Save(SetAddr(at, "allocated", seen[at].id), "addressing", at)
  /\ stale' = stale \ {at}
  /\ NoCall

Attach ==
  /\ doing = "addressing" /\ at <= N
  /\ seen[at].id # 0 /\ ~seen[at].attached
  /\ copy.addr[at].phase \notin {"allocating", "associating"}
  /\ Save(SetAddr(at, "associating", copy.addr[at].id), "associating", at)
  /\ NoCall /\ UNCHANGED stale

Associate ==
  /\ doing = "associating"
  /\ \/ /\ vm[at] = "running"
        /\ eip[at][copy.addr[at].id] = "visible"
        /\ SetEip(at, copy.addr[at].id, "attached")
        /\ UNCHANGED joining
     \/ joining' = joining \cup {at} /\ UNCHANGED eip
     \/ UNCHANGED <<eip, joining>>
  /\ \/ doing' = "rechecking" /\ UNCHANGED <<durable, copy, at, seen>>
     \/ End
  /\ UNCHANGED <<vm, leaving, stale, launches>>

Associated ==
  /\ doing = "addressing" /\ at <= N
  /\ seen[at].attached /\ copy.addr[at].phase # "allocating"
  /\ Save(SetAddr(at, "associated", copy.addr[at].id), "addressing", at + 1)
  /\ NoCall /\ UNCHANGED stale

ReadyTooSoon ==           \* mutant: the last target is left out
  /\ doing = "addressing" /\ at = N
  /\ SaveAndEnd([copy EXCEPT !.phase = "compute-ready"])
  /\ NoCall /\ UNCHANGED stale

Ready ==
  /\ doing = "addressing" /\ at = N + 1
  /\ SaveAndEnd([copy EXCEPT !.phase = "compute-ready"])
  /\ NoCall /\ UNCHANGED stale

-----------------------------------------------------------------------------
(* ReleaseAddresses.                                                        *)

\* Every target has its instance identity; the journal entry exists.
BeginCleanup ==
  /\ doing = "idle" /\ public
  /\ durable.phase # "addresses-released"
  /\ Present(durable) = Targets
  /\ copy' = durable
  /\ doing' = "surveying"
  /\ NoCall /\ UNCHANGED <<durable, at, seen, stale>>

Gone(t) == vm[t] \in {"terminated", "purged"}

\* The validation copy forgets associations, and the identity of an address
\* whose release has begun.
ForValidation(r) ==
  [r EXCEPT !.addr = [t \in Targets |->
     [phase |-> IF r.addr[t].phase = "associated" THEN "allocated" ELSE r.addr[t].phase,
      id    |-> IF t \in Withdrawn(r) THEN 0 ELSE r.addr[t].id]]]

\* verifyAddressReleased: AWS reports the exact allocation as unknown.
ProvenAbsent(t, k) == k # 0 /\ k \notin Shown(t)

NotThere(t) ==            \* mutant: what is not visible was never allocated
  Shown(t) # {} =>
    copy.addr[t].id \in {0} \cup Shown(t) /\ copy.addr[t].phase # "released"

Resolved(t) ==
  /\ Shown(t) = {} /\ copy.addr[t].phase # "none" =>
       t \in Withdrawn(copy) /\ ProvenAbsent(t, copy.addr[t].id)
  /\ Shown(t) # {} =>
       copy.addr[t].id \in {0} \cup Shown(t) /\ copy.addr[t].phase # "released"

\* All instances gone, all addresses known and detached, before any release.
Survey ==
  /\ doing = "surveying"
  /\ \A t \in Targets : Gone(t)
  /\ AddressScopeOK(ForValidation(copy), {})
  /\ \A t \in Targets : Resolved(t)
  /\ seen' = Snapshot
  /\ doing' = "releasing" /\ at' = 1
  /\ NoCall /\ UNCHANGED <<durable, copy, stale>>

SkipRelease ==
  /\ doing = "releasing" /\ at <= N
  /\ copy.addr[at].phase = "none"
  /\ at' = at + 1
  /\ NoCall /\ UNCHANGED <<durable, copy, doing, seen, stale>>

\* releasing is saved before ReleaseAddress is called.
IntendRelease ==
  /\ doing = "releasing" /\ at <= N
  /\ copy.addr[at].phase # "none" /\ seen[at].id # 0
  /\ Save(SetAddr(at, "releasing",
            IF copy.addr[at].phase = "allocating" THEN seen[at].id
            ELSE copy.addr[at].id), "deleting", at)
  /\ stale' = stale \ {at}
  /\ NoCall

Delete ==
  /\ doing = "deleting"
  /\ LET k == seen[at].id
     IN  \/ /\ eip[at][k] = "visible"
            /\ SetEip(at, k, "released")
            /\ UNCHANGED leaving
         \/ leaving' = leaving \cup {at} /\ UNCHANGED eip
         \/ UNCHANGED <<eip, leaving>>
  /\ \/ doing' = "verifying" /\ UNCHANGED <<durable, copy, at, seen>>
     \/ End
  /\ UNCHANGED <<vm, joining, stale, launches>>

ForgetReleased ==         \* mutant: the evidence is erased
  /\ at <= N
  /\ \/ doing = "verifying"
     \/ doing = "releasing" /\ copy.addr[at].phase # "none" /\ seen[at].id = 0
  /\ Save(SetAddr(at, "none", 0), "releasing", at + 1)
  /\ NoCall /\ UNCHANGED stale

\* Released now, or before this session.
RecordReleased ==
  /\ at <= N
  /\ \/ doing = "verifying"
     \/ doing = "releasing" /\ copy.addr[at].phase # "none" /\ seen[at].id = 0
  /\ doing = "verifying" => ProvenAbsent(at, copy.addr[at].id)
  /\ Save(SetAddr(at, "released", copy.addr[at].id), "releasing", at + 1)
  /\ NoCall /\ UNCHANGED stale

Retire ==
  /\ doing = "releasing" /\ at = N + 1
  /\ SaveAndEnd([copy EXCEPT !.phase = "addresses-released"])
  /\ NoCall /\ UNCHANGED stale

-----------------------------------------------------------------------------
Execute ==
  \/ Begin \/ Discover \/ Scope \/ Launch \/ Run \/ Launched \/ Poll \/ Prepare
  \/ Intend \/ Allocate \/ Adopt \/ Attach \/ Associate \/ Associated \/ Ready
ReleaseAddresses ==
  \/ BeginCleanup \/ Survey \/ SkipRelease \/ IntendRelease \/ Delete
  \/ RecordReleased \/ Retire

ProvisionNext ==
  /\ \/ Execute \/ ReleaseAddresses \/ Fail \/ Kill
     \/ \E t \in Targets : Ec2(t) \/ Age(t)
  /\ UNCHANGED public

ProvisionSpec == ProvisionInit /\ [][ProvisionNext]_provisionVars

-----------------------------------------------------------------------------
\* RunInstances is called at most once for a target, over all sessions, however
\* the earlier ones ended: an intent without a visible instance is never
\* launched again.  (Execute's launch loop after reconcile.)
LaunchedOnce == \A t \in Targets : launches[t] <= 1

\* Whatever exists in EC2, or may still come into existence there, is in the
\* journal already: no crash leaves an unrecorded instance or address.
\* (The intent checkpoints before launch and AllocateAddress, and the intent
\* taken back only after a rejection.)
Journaled ==
  \A t \in Targets :
    /\ vm[t] # "none" \/ launches[t] > 0 => durable.node[t] # "pending"
    /\ Holds(t) # {} => durable.addr[t].phase # "none"

\* What a resumed session finds in its record is all there is.
LaunchesKnown == LaunchedOnce /\ Journaled

\* One target never has two addresses, although AllocateAddress has no token and
\* an unanswered call is repeated after StaleAllocationAfter.  (ensureAddresses.)
OneAddress == \A t \in Targets : Cardinality(Holds(t)) <= 1

\* compute-ready means what it says, in every later session too: every instance
\* came up, and every address is recorded and on its instance, until the
\* instance is terminated.  (The end of Execute's wait loop.)
ReadyIsReal ==
  durable.phase = "compute-ready" =>
    \A t \in Targets :
      /\ durable.node[t] = "present"
      /\ vm[t] \in {"running", "stopped", "terminated", "purged"}
      /\ public =>
           /\ durable.addr[t].phase \in {"associated", "releasing", "released"}
           /\ vm[t] \in {"running", "stopped"} => eip[t][durable.addr[t].id] = "attached"

\* A retired allocation has left no address in the account, visible or not.
\* (ReleaseAddresses: addresses-released only after every exact-ID readback.)
NothingLeaks ==
  durable.phase = "addresses-released" => \A t \in Targets : Holds(t) = {}

\* An address has one owner while it is held, and none when it is retired.
AddressesKept == OneAddress /\ NothingLeaks

\* No address is released while any instance of the plan is alive or any of its
\* addresses attached; one bad target keeps the addresses of all.
\* (ReleaseAddresses: everything is verified before the first release.)
ReleasesOnlyDead ==
  [][ (\E t \in Targets, k \in Ids :
         eip[t][k] # "released" /\ eip'[t][k] = "released")
      => \A t \in Targets : /\ vm[t] \in {"terminated", "purged"}
                            /\ \A k \in Ids : eip[t][k] # "attached" ]_provisionVars

\* Once the release of an address is recorded, nothing of this plan is created
\* again, by any session, and that record stays.  (Execute's refusals.)
RetirementIsFinal ==
  [][ Withdrawn(durable) # {} =>
        /\ launches' = launches
        /\ \A t \in Targets : Holds(t)' \subseteq Holds(t)
        /\ Withdrawn(durable) \subseteq Withdrawn(durable') ]_provisionVars

\* A release is of what is dead, and of what stays dead.
ReleaseIsFinal == ReleasesOnlyDead /\ RetirementIsFinal

=============================================================================
