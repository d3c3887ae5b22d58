----------------------------- MODULE ManagedHost -----------------------------
(***************************************************************************)
(* managed/worker.py: what the adapter of existing workloads does on a host.*)
(*                                                                          *)
(* A host has containers that this program did not create, an owner file    *)
(* once it is enrolled, and the write-ahead marker of the operation under   *)
(* way.  Apply runs under the host's flock and may outlive the SSH session  *)
(* that started it; it may be killed between any two of its effects, and a  *)
(* later call with the same plan takes up where the marker and Docker say.  *)
(*                                                                          *)
(* A container is its ID, its image, whether it runs and how often it was   *)
(* started (startedAt and the restart counter); configuration,              *)
(* mounts and files never change here, so the comparisons of their hashes   *)
(* are left out.  The recipes of the containers in scope are part of the    *)
(* marker: where a marker of the plan exists, they do.                      *)
(***************************************************************************)
EXTENDS Integers, FiniteSets

CONSTANTS
  Operated,       \* the hosts that are enrolled and operated
  Components      \* the containers of each of them

\* for k in ['core','drive','tenderdash','dapi','gateway','helper']
Rank == [core |-> 1, drive |-> 2, tenderdash |-> 3,
         dapi |-> 4, gateway |-> 5, helper |-> 6]

\* Fleet.Validate: where Drive runs, its ABCI client does.
ASSUME ManagedHostAssumption ==
  /\ Operated \subseteq Nat \ {0} /\ IsFiniteSet(Operated)
  /\ Components \subseteq DOMAIN Rank
  /\ "drive" \in Components => "tenderdash" \in Components

VARIABLES
  cont,           \* the containers of each host
  owned,          \* hosts with an owner file of this network
  staged,         \* the plans whose images each host has
  marker,         \* operation.json of each host
  proc,           \* the apply that holds the host's flock, or Idle
  answer          \* what the SSH session that started it has heard

hostVars == <<cont, owned, staged, marker, proc, answer>>

Dependencies == {"none", "stop-requested", "stopped", "start-requested",
                 "started"}
Steps == {"idle", "drain", "draining", "drained", "enter", "work", "started"}

Containers == [there : BOOLEAN, id : Nat, img : Nat, up : BOOLEAN, run : Nat]
Hosts      == [Components -> Containers]
NoMarker   == [plan |-> 0, phase |-> "none", done |-> {}, drain |-> FALSE,
               dep |-> "none"]
Idle       == [step |-> "idle", k |-> "end", heard |-> FALSE]

HostTypeOK ==
  /\ cont \in [Operated -> Hosts]
  /\ owned \subseteq Operated
  /\ staged \in [Operated -> SUBSET Nat]
  /\ marker \in [Operated ->
       [plan : Nat, phase : {"none", "applying", "complete"},
        done : SUBSET (Components \X Nat), drain : BOOLEAN,
        dep : Dependencies]]
  /\ proc \in [Operated ->
       [step : Steps, k : Components \cup {"end"}, heard : BOOLEAN]]
  /\ answer \in [Operated -> {"none", "ok", "error"}]

Original == [k \in Components |->
              [there |-> TRUE, id |-> 0, img |-> 0, up |-> TRUE, run |-> 0]]

HostInit ==
  /\ cont = [t \in Operated |-> Original]
  /\ owned = {}
  /\ staged = [t \in Operated |-> {}]
  /\ marker = [t \in Operated |-> NoMarker]
  /\ proc = [t \in Operated |-> Idle]
  /\ answer = [t \in Operated |-> "none"]

-----------------------------------------------------------------------------
(* A request carries the plan: its id, kind, scope (the pinned components), *)
(* the image of each of them, and the baseline: the host in the snapshot.   *)

Desired(p, t, k) == IF k \in p.changed THEN p.id ELSE p.base[t][k].img

Same(c, b) == c.id = b.id /\ c.img = b.img

\* assert_baseline, and Preserved in health.go: what is not mutable is there
\* exactly as in the snapshot, running or not.
Preserved(t, p, mutable) ==
  \A k \in Components : /\ cont[t][k].there
                        /\ k \notin mutable => cont[t][k] = p.base[t][k]

Wanted(t, p, k) == cont[t][k].img = Desired(p, t, k)

\* A container in scope that is not recorded as done: the snapshot's, or one
\* with the pinned image, which an earlier call may have created.
Expected(t, p, k) == Same(cont[t][k], p.base[t][k]) \/ Wanted(t, p, k)

\* operation_guard, before the first effect and again for every component.
Guard(t, p) ==
  \A k \in Components :
    LET c == cont[t][k]  b == p.base[t][k]
        done == {d \in marker[t].done : d[1] = k}
    IN IF ~c.there              THEN k \in p.scope /\ marker[t].phase = "applying"
       ELSE IF k \notin p.scope THEN c = b
       ELSE IF done # {}        THEN <<k, c.id>> \in done
       ELSE Expected(t, p, k)

NoDrain(t, p) == FALSE                 \* mutant: Tenderdash is left running

\* Drive is about to be replaced or started: its ABCI client goes first.
Drains(t, p) ==
  /\ {"drive", "tenderdash"} \subseteq Components /\ "drive" \in p.scope
  /\ ~Wanted(t, p, "drive") \/ ~cont[t]["drive"].up

\* The first component of S in service dependency order.
First(S) == IF S = {} THEN "end"
            ELSE CHOOSE k \in S : \A j \in S : Rank[k] <= Rank[j]
After(p, k) == First({j \in p.scope : Rank[j] > Rank[k]})

\* The process ends, and with it its flock.
Exit(t, r) ==
  /\ proc' = [proc EXCEPT ![t] = Idle]
  /\ answer' = IF proc[t].heard THEN [answer EXCEPT ![t] = r] ELSE answer

SetDep(t, d)  == marker' = [marker EXCEPT ![t].dep = d]
Go(t, step)   == proc' = [proc EXCEPT ![t].step = step]
At(t, step)   == proc[t].step = step
Touch(t, k, c) == cont' = [cont EXCEPT ![t][k] = c]

-----------------------------------------------------------------------------
(* enroll and stage are short; execute refuses both while the flock is held.*)

Free(t) == proc[t].step = "idle"

\* Enrolling a host that already has the owner file changes nothing.
HostEnroll(t, base) ==
  /\ Free(t) /\ cont[t] = base
  /\ owned' = owned \cup {t}
  /\ UNCHANGED <<cont, staged, marker, proc, answer>>

HostStage(t, p) ==
  /\ Free(t) /\ t \in owned
  /\ staged' = [staged EXCEPT ![t] = @ \cup {p.id}]
  /\ UNCHANGED <<cont, owned, marker, proc, answer>>

-----------------------------------------------------------------------------
(* apply.                                                                   *)

Resumes(t, p) == marker[t].plan = p.id

\* Every image is there; nothing unfinished of another plan; the host as in
\* the snapshot, but for what a deploy is to start.
MayBegin(t, p) ==
  /\ marker[t].phase # "applying"
  /\ p.id \in staged[t]
  /\ Preserved(t, p, IF p.kind = "deploy" THEN p.scope ELSE {})
  /\ \A k \in p.scope : Same(cont[t][k], p.base[t][k])
  /\ Drains(t, p) => "tenderdash" \in p.scope

NewMarker(t, p) ==
  [plan |-> p.id, phase |-> "applying", done |-> {},
   drain |-> Drains(t, p), dep |-> "none"]

NextStep(m) ==
  IF m.drain /\ m.dep \notin {"start-requested", "started"}
  THEN "drain" ELSE "enter"

\* A call that finds the host free and enrolled: owner, marker, first guard.
Apply(t, p) ==
  LET m == IF Resumes(t, p) THEN marker[t] ELSE NewMarker(t, p) IN
  /\ Free(t) /\ t \in owned
  /\ Resumes(t, p) \/ MayBegin(t, p)
  /\ marker' = [marker EXCEPT ![t] = m]
  /\ IF Resumes(t, p) /\ (~Guard(t, p) \/ m.phase = "complete")
     THEN /\ UNCHANGED proc
          /\ answer' = [answer EXCEPT
               ![t] = IF Guard(t, p) THEN "ok" ELSE "error"]
     ELSE /\ proc' = [proc EXCEPT ![t] =
               [step |-> NextStep(m), k |-> First(p.scope), heard |-> TRUE]]
          /\ answer' = [answer EXCEPT ![t] = "none"]
  /\ UNCHANGED <<cont, owned, staged>>

\* Tenderdash is stopped before Drive goes away, and the marker says so first.
StopRequested(t) ==
  /\ At(t, "drain") /\ SetDep(t, "stop-requested") /\ Go(t, "draining")
  /\ UNCHANGED <<cont, owned, staged, answer>>

DependencyStopped(t) ==
  /\ At(t, "draining")
  /\ IF cont[t]["tenderdash"].there
     THEN /\ cont' = [cont EXCEPT ![t]["tenderdash"].up = FALSE]
          /\ Go(t, "drained") /\ UNCHANGED answer
     ELSE Exit(t, "error") /\ UNCHANGED cont
  /\ UNCHANGED <<owned, staged, marker>>

Drained(t) ==
  /\ At(t, "drained") /\ SetDep(t, "stopped") /\ Go(t, "enter")
  /\ UNCHANGED <<cont, owned, staged, answer>>

Restarts(t) == proc[t].k = "tenderdash" /\ marker[t].drain

\* The guard of one component; Tenderdash waits for Drive's listener.
Enter(t, p) ==
  /\ At(t, "enter") /\ proc[t].k # "end"
  /\ IF Guard(t, p) /\ (Restarts(t) => cont[t]["drive"].up)
     THEN /\ IF Restarts(t) THEN SetDep(t, "start-requested")
                            ELSE UNCHANGED marker
          /\ Go(t, "work") /\ UNCHANGED answer
     ELSE Exit(t, "error") /\ UNCHANGED marker
  /\ UNCHANGED <<cont, owned, staged>>

AnyOne(t, p) == TRUE                   \* mutant: whatever has the name
\* Only the container of the snapshot is stopped and removed, by its ID.
Mine(t, p) == cont[t][proc[t].k].id = p.base[t][proc[t].k].id
Replaces(t, p) ==
  /\ At(t, "work")
  /\ cont[t][proc[t].k].there /\ ~Wanted(t, p, proc[t].k)

Stop(t, p) ==
  LET k == proc[t].k IN
  /\ Replaces(t, p) /\ Mine(t, p) /\ cont[t][k].up
  /\ Touch(t, k, [cont[t][k] EXCEPT !.up = FALSE])
  /\ UNCHANGED <<owned, staged, marker, proc, answer>>

\* DELETE ...?v=false: the volumes stay.
Remove(t, p) ==
  LET k == proc[t].k IN
  /\ Replaces(t, p) /\ Mine(t, p) /\ ~cont[t][k].up
  /\ Touch(t, k, [cont[t][k] EXCEPT !.there = FALSE])
  /\ UNCHANGED <<owned, staged, marker, proc, answer>>

Refuse(t, p) ==
  /\ Replaces(t, p) /\ ~Mine(t, p)
  /\ Exit(t, "error")
  /\ UNCHANGED <<cont, owned, staged, marker>>

\* From the recipe in the marker, with the pinned image.
Create(t, p) ==
  LET k == proc[t].k  c == cont[t][k] IN
  /\ At(t, "work") /\ ~c.there
  /\ Touch(t, k, [there |-> TRUE, id |-> c.id + 1,
                  img |-> Desired(p, t, k), up |-> FALSE, run |-> 0])
  /\ UNCHANGED <<owned, staged, marker, proc, answer>>

Start(t, p) ==
  LET k == proc[t].k  c == cont[t][k] IN
  /\ At(t, "work") /\ c.there /\ Wanted(t, p, k) /\ ~c.up
  /\ Touch(t, k, [c EXCEPT !.up = TRUE, !.run = @ + 1])
  /\ UNCHANGED <<owned, staged, marker, proc, answer>>

NextComponent(t, p) ==
  proc' = [proc EXCEPT ![t].step = "enter", ![t].k = After(p, proc[t].k)]

Recorded(t, p) ==
  LET k == proc[t].k  c == cont[t][k] IN
  /\ At(t, "work") /\ c.there /\ Wanted(t, p, k) /\ c.up
  /\ marker' = [marker EXCEPT
       ![t].done = {d \in @ : d[1] # k} \cup {<<k, c.id>>}]
  /\ IF Restarts(t) THEN Go(t, "started") ELSE NextComponent(t, p)
  /\ UNCHANGED <<cont, owned, staged, answer>>

Restarted(t, p) ==
  /\ At(t, "started") /\ SetDep(t, "started") /\ NextComponent(t, p)
  /\ UNCHANGED <<cont, owned, staged, answer>>

Complete(t, p) ==
  /\ At(t, "enter") /\ proc[t].k = "end"
  /\ IF Preserved(t, p, p.scope)
     THEN marker' = [marker EXCEPT ![t].phase = "complete"] /\ Exit(t, "ok")
     ELSE UNCHANGED marker /\ Exit(t, "error")
  /\ UNCHANGED <<cont, owned, staged>>

\* The process is killed, by a reboot or otherwise.
Killed(t) ==
  /\ ~Free(t) /\ Exit(t, "error")
  /\ UNCHANGED <<cont, owned, staged, marker>>

Worker(t, p) ==
  \/ StopRequested(t) \/ DependencyStopped(t) \/ Drained(t) \/ Enter(t, p)
  \/ Stop(t, p) \/ Remove(t, p) \/ Refuse(t, p) \/ Create(t, p)
  \/ Start(t, p) \/ Recorded(t, p) \/ Restarted(t, p) \/ Complete(t, p)
=============================================================================
