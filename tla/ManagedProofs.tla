---------------------------- MODULE ManagedProofs ----------------------------
(***************************************************************************)
(* Proofs about managed networks, for any number of targets with any voting *)
(* power, any plans and any number of faults: what a session finds on a     *)
(* host can be completed or put back, a target is withdrawn inside the      *)
(* margin, a complete operation is real and nothing foreign is removed.     *)
(***************************************************************************)
EXTENDS Managed, FiniteSetTheorems, WellFoundedInduction, TLAPS

-----------------------------------------------------------------------------
(* The inductive invariant.  Its parts speak of values, so that a step that  *)
(* changes one host or one session is judged by what it makes of that one:   *)
(* of a host t they take its marker m, its containers h and its process q,   *)
(* with the plan p of the marker; of a session s its record r, with the       *)
(* plans ps there are.                                                       *)

Snapshots == [Operated -> Hosts]
PlanSet == [id : Nat, kind : {"upgrade", "deploy"}, scope : SUBSET Components,
            changed : SUBSET Components, sel : SUBSET Operated,
            base : Snapshots, prev : Nat]
RecordSet == [phase : Phases, snap : Nat, enrolled : SUBSET Operated, op : Nat,
              current : Nat, done : SUBSET Targets]
Gates  == {"none", "begin", "next", "after", "final", "replay"}
SessionSet == [pc : SessionPc, rec : RecordSet, plan : Nat,
               todo : SUBSET Operated, mutated : BOOLEAN, behind : BOOLEAN,
               gate : Gates, first : SUBSET Targets, second : SUBSET Targets,
               lag : SUBSET Targets, sound : SUBSET Targets, extra : Nat]
Markers == [plan : Nat, phase : {"none", "applying", "complete"},
            done : SUBSET (Components \X Nat), drain : BOOLEAN,
            dep : Dependencies]
Procs   == [step : Steps, k : Components \cup {"end"}, heard : BOOLEAN]
Answers == {"none", "ok", "error"}

RunTypes ==
  /\ ses \in SessionSet /\ claimed \in BOOLEAN
  /\ imports \in Seq(Snapshots) /\ plans \in Seq(PlanSet)
  /\ cond \in [Targets -> Conditions] /\ since \subseteq Targets

\* A container was there before another, and they are the same if their IDs are.
Older(b, h) ==
  \A k \in Components :
    /\ b[k].id <= h[k].id
    /\ b[k].id = h[k].id => b[k].img = h[k].img

\* The snapshots and the baselines of the plans are of the past.
PlansOK ==
  /\ \A i \in DOMAIN imports : \A t \in Operated : Older(imports[i][t], cont[t])
  /\ \A i \in DOMAIN plans :
       /\ plans[i].id = i /\ plans[i].prev < i
       /\ plans[i].changed \subseteq plans[i].scope
       /\ \A t \in Operated : Older(plans[i].base[t], cont[t])

\* An operation is on hosts that are enrolled; when it is no more active, all
\* are done.
RecordOK(r, ps) ==
  /\ r \in RecordSet
  /\ r.phase \in {"absent", "enrolling"} => r.op = 0
  /\ r.op = 0 => r.phase \notin Active \cup {"complete"} /\ r.current = 0
  /\ r.op # 0 =>
       /\ r.op \in DOMAIN ps /\ ps[r.op].sel \subseteq r.enrolled
       /\ Targets \ ps[r.op].sel \subseteq r.done
       /\ r.current # 0 => r.current \in ps[r.op].sel \ r.done
       /\ r.phase \notin Active => r.done = Targets

-----------------------------------------------------------------------------
(* The session.                                                             *)

Sweeps       == {"first", "second", "extend"}
InGate(s, g) == s.pc \in Sweeps /\ s.gate = g
Operating(s) ==
  \/ s.pc \in {"stage", "mark", "call", "answer", "ready", "finish", "complete"}
  \/ InGate(s, "next") \/ InGate(s, "after") \/ InGate(s, "final")
Preparing(s) == s.pc = "intend" \/ InGate(s, "begin")
Replaced(s)  == s.pc \in {"ready", "finish"} \/ InGate(s, "after")
AtWork(s)    == s.pc \in {"call", "answer"} \/ Replaced(s)

IsComplete(m, r) == m.plan = r.op /\ m.phase = "complete"

\* What a session knows of the record, by where it is.
SessionOK(s, r, ps) ==
  /\ s.pc \in Sweeps => s.gate # "none"
  /\ s.pc = "enroll" =>
       /\ ~s.mutated /\ r.phase \notin Active \cup {"absent"}
       /\ s.rec = [r EXCEPT !.snap = s.rec.snap]
  /\ Operating(s) =>
       /\ s.mutated /\ ~s.behind
       /\ r = s.rec /\ r.op = s.plan /\ r.op # 0
  /\ Preparing(s) =>
       /\ ~s.mutated /\ ~s.behind /\ r = s.rec
       /\ r.phase \in {"enrolled", "complete"}
       /\ s.plan \in DOMAIN ps /\ ps[s.plan].prev = r.op
       /\ ps[s.plan].sel \subseteq r.enrolled
  /\ InGate(s, "replay") =>
       /\ ~s.mutated /\ r = s.rec /\ r.op = s.plan
       /\ r.op # 0 /\ r.phase = "complete"
  /\ s.pc = "interrupt" /\ s.mutated /\ ~s.behind => r = s.rec /\ r.op # 0
  /\ s.pc = "mark" \/ InGate(s, "next") => ~(ps[s.plan].sel \subseteq r.done)
  /\ InGate(s, "next") => r.current = 0
  /\ InGate(s, "final") \/ s.pc = "complete" => ps[s.plan].sel \subseteq r.done
  /\ AtWork(s) => r.current # 0

\* A good answer is of a host whose marker M is complete.
AnswerOK(s, r, M, A) ==
  /\ s.pc = "answer" /\ A[r.current] = "ok" => IsComplete(M[r.current], r)
  /\ Replaced(s) => IsComplete(M[r.current], r)

\* Only the session that called a worker hears it, and it waits.
HeardOK(s, r, Q, A) ==
  \A t \in Operated : Q[t].heard =>
    /\ s.pc = "answer" /\ t = r.current /\ A[t] = "none" /\ Q[t].step # "idle"

-----------------------------------------------------------------------------
(* A host.                                                                  *)

InPlace(p, t, h, k) == h[k].there /\ h[k].img = Desired(p, t, k)

\* The record names the marker that is not complete, and is right about the
\* hosts that are done.
JournalOK(r, t, m, ps) ==
  /\ m.phase = "applying" =>
       r.op = m.plan /\ r.current = t /\ r.phase \in Active
  /\ r.op # 0 /\ t \in ps[r.op].sel \cap r.done => IsComplete(m, r)

NoWork(m, h, q) ==
  m.phase = "none" => q.step = "idle" /\ \A k \in Components : h[k].there

MarkerOK(t, m, p) ==
  m.phase # "none" =>
    /\ t \in p.sel
    /\ m.drain => {"drive", "tenderdash"} \subseteq Components /\ "drive" \in p.scope

Draining == {"drain", "draining", "drained"}
Starting == {"start-requested", "started"}
Again(m, q) == q.k = "tenderdash" /\ m.drain
ProcOK(m, q, p) ==
  /\ q.step # "idle" => m.phase = "applying" /\ q.k \in p.scope \cup {"end"}
  /\ q.step \in Draining => m.drain /\ m.dep \notin Starting
  /\ q.step \in {"work", "started"} => q.k # "end"
  /\ q.step = "started" => Again(m, q)

\* A container that is gone is the one of the snapshot, and is to be replaced.
ContOK(t, m, h, p) ==
  m.phase # "none" =>
    /\ \A k \in Components : ~h[k].there =>
         /\ m.phase = "applying" /\ k \in p.changed
         /\ h[k].id = p.base[t][k].id
         /\ \A d \in m.done : d[1] # k
    /\ m.phase = "applying" => \A d \in m.done :
         /\ p.base[t][d[1]].id <= d[2] /\ d[2] <= h[d[1]].id
         /\ d[2] = h[d[1]].id => h[d[1]].img = Desired(p, t, d[1])

HostOK(t, m, h, q, p) ==
  /\ m.plan = 0 <=> m.phase = "none"
  /\ NoWork(m, h, q) /\ MarkerOK(t, m, p) /\ ProcOK(m, q, p) /\ ContOK(t, m, h, p)

\* Behind the process, every container is the one the plan asks for.
Passed(q, p) == {j \in p.scope : \/ q.k = "end" \/ Rank[j] < Rank[q.k]
                                 \/ q.step = "started" /\ j = q.k}
PlaceOK(t, m, h, q, p) ==
  /\ m.phase = "complete" => \A k \in p.scope : InPlace(p, t, h, k)
  /\ q.step # "idle" => \A j \in Passed(q, p) : InPlace(p, t, h, j)

\* Where Drive is gone or still to be replaced, Tenderdash is down.
DrainOK(t, m, h, q, p) ==
  /\ m.phase = "applying" /\ "drive" \in p.scope =>
       (m.drain /\ m.dep \notin Starting) \/ InPlace(p, t, h, "drive")
  /\ q.step \in {"drained", "enter", "work", "started"} /\ m.drain
     /\ m.dep \notin Starting => ~h["tenderdash"].up
  /\ q.step \in {"work", "started"} /\ Again(m, q) => m.dep \in Starting
  /\ "drive" \in Components /\ ~h["drive"].there => ~h["tenderdash"].up

\* IDs count the operations up to op that replaced the container.
Replacements(op, t, k, ps) ==
  {i \in DOMAIN ps : i <= op /\ t \in ps[i].sel /\ k \in ps[i].changed}
CountOK(op, t, h, ps) ==
  \A k \in Components :
    /\ h[k].id <= Cardinality(Replacements(op, t, k, ps))
    /\ op # 0 /\ t \in ps[op].sel /\ k \in ps[op].changed =>
         ps[op].base[t][k].id < Cardinality(Replacements(op, t, k, ps))

-----------------------------------------------------------------------------
(* The margin of the targets S that serve, or have failed unseen.           *)

Serving == {v \in Targets : Healthy(v) \/ v \in since}
Margin(p, t, S) ==
  p.kind = "upgrade" /\ p.scope \cap Consensus # {} =>
    3 * Voting(S \ {t}) > 2 * Voting(Targets)
Due(s, ps) == CHOOSE t \in ps[s.plan].sel \ s.rec.done :
            \A u \in ps[s.plan].sel \ s.rec.done : t <= u

\* It was there when the current target was chosen.
MarginOK(s, r, M, S, ps) ==
  /\ r.current # 0 /\ ~IsComplete(M[r.current], r) =>
       Margin(ps[r.op], r.current, S)
  /\ s.pc = "mark" /\ r.current = 0 => Margin(ps[s.plan], Due(s, ps), S)
  /\ s.pc = "extend" => s.second \subseteq S

HostsOK ==
  \A t \in Operated :
    /\ marker[t].plan \in 0..Len(plans)
    /\ HostOK(t, marker[t], cont[t], proc[t], plans[marker[t].plan])
    /\ JournalOK(record, t, marker[t], plans)
OrderOK ==
  "drift" \notin faults => \A t \in Operated :
    /\ PlaceOK(t, marker[t], cont[t], proc[t], plans[marker[t].plan])
    /\ DrainOK(t, marker[t], cont[t], proc[t], plans[marker[t].plan])
    /\ CountOK(record.op, t, cont[t], plans)
RunnerOK ==
  /\ ses.pc # "idle" => claimed
  /\ SessionOK(ses, record, plans)
  /\ AnswerOK(ses, record, marker, answer)
  /\ HeardOK(ses, record, proc, answer)
  /\ MarginOK(ses, record, marker, Serving, plans)

ManagedInvariant ==
  /\ HostTypeOK /\ RunTypes /\ PlansOK /\ RecordOK(record, plans)
  /\ HostsOK /\ OrderOK /\ RunnerOK

-----------------------------------------------------------------------------
(* Voting power.  A fold says little to a prover; the number of votes of a   *)
(* set of targets is the same and grows with the set.                        *)

Votes(S) == {w \in S \X Nat : w[2] < Power[w[1]]}

\* A target has as many votes as power.
LEMMA VotesOfOne ==
  ASSUME NEW x \in Targets
  PROVE  IsFiniteSet(Votes({x})) /\ Cardinality(Votes({x})) = Power[x]
<1> DEFINE I == 0..(Power[x] - 1)
           f == [i \in I |-> <<x, i>>]
<1>1. Power[x] \in Nat \ {0}
  BY ManagedAssumption
<1>2. IsFiniteSet(I) /\ Cardinality(I) = Power[x]
  <2> DEFINE a == 0
             b == Power[x] - 1
  <2>1. a \in Int /\ b \in Int /\ ~(a > b) /\ b - a + 1 = Power[x]
    BY <1>1
  <2> HIDE DEF a, b
  <2>2. IsFiniteSet(a..b) /\ Cardinality(a..b) = Power[x]
    BY <2>1, FS_Interval
  <2> QED
    BY <2>2 DEF a, b
<1>3. f \in Bijection(I, Votes({x}))
  <2>1. \A i \in I : f[i] \in Votes({x})
    BY <1>1 DEF Votes
  <2>2. \A w \in Votes({x}) : w[2] \in I /\ f[w[2]] = w
    BY <1>1 DEF Votes
  <2>3. \A i, j \in I : f[i] = f[j] => i = j
    OBVIOUS
  <2> HIDE DEF f
  <2>4. f \in [I -> Votes({x})]
    BY <2>1 DEF f
  <2> QED
    BY <2>2, <2>3, <2>4 DEF Bijection, Injection, Surjection, IsInjective
<1> QED
  BY <1>2, <1>3, FS_Bijection DEF ExistsBijection

\* The votes are of finitely many targets.
LEMMA VotesFinite ==
  ASSUME NEW S \in SUBSET Targets
  PROVE  IsFiniteSet(Votes(S))
<1> DEFINE Bad == {T \in SUBSET Targets : ~IsFiniteSet(Votes(T))}
<1>1. ASSUME Bad # {} PROVE FALSE
  <2>1. /\ Bad \subseteq FiniteSubsetsOf(Targets)
        /\ IsWellFoundedOn(StrictSubsetOrdering(Targets),
                           FiniteSubsetsOf(Targets))
    BY ManagedAssumption, FS_Subset, FS_StrictSubsetOrderingWellFounded
       DEF FiniteSubsetsOf
  <2>2. PICK T \in Bad : \A U \in Bad : ~(<<U, T>> \in StrictSubsetOrdering(Targets))
    BY <1>1, <2>1, WFMin, Zenon
  <2>3. CASE T = {}
    BY <2>3, FS_EmptySet DEF Votes
  <2>4. CASE T # {}
    <3>1. PICK x : x \in T
      BY <2>4
    <3>2. T \ {x} \notin Bad
      BY <2>2, <3>1 DEF StrictSubsetOrdering
    <3>3. Votes(T) = Votes(T \ {x}) \cup Votes({x})
      BY <3>1 DEF Votes
    <3>4. IsFiniteSet(Votes(T \ {x})) /\ IsFiniteSet(Votes({x}))
      BY <3>1, <3>2, VotesOfOne
    <3>5. IsFiniteSet(Votes(T))
      BY <3>3, <3>4, FS_Union, Zenon
    <3> QED
      BY <2>2, <3>5
  <2> QED
    BY <2>3, <2>4
<1> QED
  BY <1>1

\* A target more adds its power.
LEMMA VotesWithOne ==
  ASSUME NEW S \in SUBSET Targets, NEW x \in S
  PROVE  Cardinality(Votes(S)) = Power[x] + Cardinality(Votes(S \ {x}))
<1>1. Votes(S) = Votes(S \ {x}) \cup Votes({x})
  BY DEF Votes
<1>2. Votes(S \ {x}) \cap Votes({x}) = {}
  BY DEF Votes
<1>3. /\ IsFiniteSet(Votes(S \ {x})) /\ IsFiniteSet(Votes({x}))
      /\ Cardinality(Votes({x})) = Power[x] /\ x \in Targets
  BY VotesOfOne, VotesFinite
<1>4. Cardinality(Votes(S)) = Cardinality(Votes(S \ {x}))
          + Cardinality(Votes({x})) - Cardinality({})
  <2> DEFINE A == Votes(S \ {x})
             B == Votes({x})
  <2>1. Cardinality(A \cup B)
          = Cardinality(A) + Cardinality(B) - Cardinality(A \cap B)
    <3> HIDE DEF A, B
    <3> SUFFICES ASSUME IsFiniteSet(A), IsFiniteSet(B)
                 PROVE  Cardinality(A \cup B)
                          = Cardinality(A) + Cardinality(B) - Cardinality(A \cap B)
      BY <1>3 DEF A, B
    <3> QED
      BY FS_Union
  <2> QED
    BY <1>1, <1>2, <2>1, Zenon
<1>5. Cardinality(Votes(S \ {x})) \in Nat
  BY <1>3, FS_CardinalityType
<1>6. Power[x] \in Nat /\ Cardinality({}) = 0
  BY <1>3, FS_EmptySet, ManagedAssumption
<1> QED
  BY <1>3, <1>4, <1>5, <1>6

\* What canWithdrawSelected adds up is the number of votes, in any order.
LEMMA VotingIsVotes ==
  ASSUME NEW S \in SUBSET Targets
  PROVE  Voting(S) = Cardinality(Votes(S))
<1> DEFINE c(s) == CHOOSE x \in s : TRUE
           R(g) == g = [s \in SUBSET S |->
                          IF s = {} THEN 0 ELSE Power[c(s)] + g[s \ {c(s)}]]
           h == [s \in SUBSET S |-> Cardinality(Votes(s))]
           k == CHOOSE g : R(g)
<1>1. R(h)
  <2> SUFFICES ASSUME NEW s \in SUBSET S
               PROVE  Cardinality(Votes(s))
                        = IF s = {} THEN 0 ELSE Power[c(s)] + h[s \ {c(s)}]
    OBVIOUS
  <2>1. CASE s = {}
    BY <2>1, FS_EmptySet DEF Votes
  <2>2. CASE s # {}
    <3>1. c(s) \in s
      BY <2>2
    <3> HIDE DEF c
    <3> QED
      BY <2>2, <3>1, VotesWithOne
  <2> QED
    BY <2>1, <2>2
<1>2. R(k)
  BY <1>1
<1>3. Voting(S) = k[S]
  BY Zenon DEF Voting, FoldSet, MapThenFoldSet
<1> HIDE DEF k
<1>4. \A s \in SUBSET S : k[s] = h[s]
  <2> DEFINE Bad == {s \in SUBSET S : k[s] # h[s]}
  <2>1. ASSUME Bad # {} PROVE FALSE
    <3>1. /\ Bad \subseteq FiniteSubsetsOf(Targets)
          /\ IsWellFoundedOn(StrictSubsetOrdering(Targets),
                             FiniteSubsetsOf(Targets))
      BY ManagedAssumption, FS_Subset, FS_StrictSubsetOrderingWellFounded
         DEF FiniteSubsetsOf
    <3>2. PICK T \in Bad : \A U \in Bad : ~(<<U, T>> \in StrictSubsetOrdering(Targets))
      BY <2>1, <3>1, WFMin, Zenon
    <3>3. /\ k[T] = IF T = {} THEN 0 ELSE Power[c(T)] + k[T \ {c(T)}]
          /\ h[T] = IF T = {} THEN 0 ELSE Power[c(T)] + h[T \ {c(T)}]
      BY <1>1, <1>2, <3>2
    <3>4. T # {} => c(T) \in T
      OBVIOUS
    <3> HIDE DEF c, h, k
    <3>5. T # {} => T \ {c(T)} \notin Bad /\ T \ {c(T)} \in SUBSET S
      <4> SUFFICES ASSUME T # {} PROVE T \ {c(T)} \notin Bad
        BY <3>2
      <4>1. T \in SUBSET Targets /\ T \ {c(T)} \in SUBSET Targets
        BY <3>2
      <4>2. T \ {c(T)} # T
        BY <3>4
      <4>3. <<T \ {c(T)}, T>> \in StrictSubsetOrdering(Targets)
        BY <4>1, <4>2 DEF StrictSubsetOrdering
      <4> QED
        BY <3>2, <4>3, Zenon
    <3> QED
      BY <3>2, <3>3, <3>5
  <2> QED
    BY <2>1
<1> QED
  BY <1>3, <1>4

\* More targets have at least as much power.
LEMMA VotingGrows ==
  ASSUME NEW S \in SUBSET Targets, NEW T \in SUBSET S
  PROVE  Voting(T) \in Nat /\ Voting(S) \in Nat /\ Voting(T) <= Voting(S)
<1>1. Votes(T) \subseteq Votes(S)
  BY DEF Votes
<1> QED
  BY <1>1, VotingIsVotes, VotesFinite, FS_Subset, FS_CardinalityType
-----------------------------------------------------------------------------
(* The order of targets and of components.                                  *)

\* A set of numbers has a least one.
LEMMA LeastIn ==
  ASSUME NEW S \in SUBSET Nat, S # {}
  PROVE  \E x \in S : \A y \in S : x <= y
<1> DEFINE Less == {p \in Nat \X Nat : p[1] < p[2]}
<1>1. IsWellFoundedOn(Less, Nat)
  BY NatLessThanWellFounded, Zenon DEF OpToRel
<1>2. PICK x \in S : \A y \in S : ~(<<y, x>> \in Less)
  BY <1>1, WFMin, Zenon
<1>3. ASSUME NEW y \in S PROVE x <= y
  <2>1. x \in Nat /\ y \in Nat /\ ~(<<y, x>> \in Less)
    BY <1>2, <1>3
  <2> QED
    BY <2>1, SMT
<1> QED
  BY <1>3

\* Components have different ranks.
LEMMA Ranks ==
  ASSUME NEW j \in Components, NEW k \in Components
  PROVE  /\ Rank[j] \in 1..6 /\ (Rank[j] = Rank[k] => j = k)
         /\ j # "end" /\ Rank["drive"] = 2 /\ Rank["tenderdash"] = 3
<1>1. DOMAIN Rank = {"core", "drive", "tenderdash", "dapi", "gateway", "helper"}
  BY DEF Rank
<1>2. /\ j \in {"core", "drive", "tenderdash", "dapi", "gateway", "helper"}
      /\ k \in {"core", "drive", "tenderdash", "dapi", "gateway", "helper"}
  BY <1>1, ManagedHostAssumption
<1> QED
  BY <1>2 DEF Rank

\* The first of a set of components.
LEMMA FirstOf ==
  ASSUME NEW S \in SUBSET Components
  PROVE  /\ S = {} => First(S) = "end"
         /\ S # {} => /\ First(S) \in S /\ First(S) # "end"
                      /\ \A j \in S : Rank[First(S)] <= Rank[j]
<1>1. CASE S = {}
  BY <1>1 DEF First
<1>2. CASE S # {}
  <2> DEFINE R == {Rank[j] : j \in S}
  <2>1. R \in SUBSET Nat /\ R # {}
    BY <1>2, Ranks
  <2>2. PICK x \in R : \A y \in R : x <= y
    BY <2>1, LeastIn, Zenon
  <2>3. \E k \in S : \A j \in S : Rank[k] <= Rank[j]
    BY <2>2
  <2>4. First(S) = CHOOSE k \in S : \A j \in S : Rank[k] <= Rank[j]
    BY <1>2 DEF First
  <2>5. First(S) \in S /\ \A j \in S : Rank[First(S)] <= Rank[j]
    BY <2>3, <2>4, Zenon
  <2> QED
    BY <1>2, <2>5, Ranks
<1> QED
  BY <1>1, <1>2

\* The next target is one that is left.
LEMMA DueIn ==
  ASSUME NEW s, NEW ps, NEW S \in SUBSET Nat, S # {},
         S = ps[s.plan].sel \ s.rec.done
  PROVE  Due(s, ps) \in S
<1>1. PICK x \in S : \A y \in S : x <= y
  BY LeastIn, Zenon
<1> QED
  BY <1>1, Zenon DEF Due

-----------------------------------------------------------------------------
(* Steps.                                                                   *)

\* The variables of the hosts have one value for each host.
LEMMA HostTypes ==
  HostTypeOK <=>
    /\ cont \in [Operated -> Hosts] /\ owned \subseteq Operated
    /\ staged \in [Operated -> SUBSET Nat]
    /\ marker \in [Operated -> Markers] /\ proc \in [Operated -> Procs]
    /\ answer \in [Operated -> Answers]
  BY DEF HostTypeOK, Markers, Procs, Answers

\* The same, after a step.
LEMMA HostTypesNext ==
  ASSUME cont' \in [Operated -> Hosts], owned' \subseteq Operated,
         staged' \in [Operated -> SUBSET Nat],
         marker' \in [Operated -> Markers], proc' \in [Operated -> Procs],
         answer' \in [Operated -> Answers]
  PROVE  HostTypeOK'
  BY DEF HostTypeOK, Markers, Procs, Answers

\* What happened before an older container happened before this one.
LEMMA OlderTwice ==
  ASSUME NEW b \in Hosts, NEW h \in Hosts, NEW g \in Hosts,
         Older(b, h), Older(h, g)
  PROVE  Older(b, g)
<1> SUFFICES ASSUME NEW k \in Components
             PROVE  /\ b[k].id <= g[k].id
                    /\ b[k].id = g[k].id => b[k].img = g[k].img
  BY DEF Older
<1>1. b[k].id \in Nat /\ h[k].id \in Nat /\ g[k].id \in Nat
  BY DEF Hosts, Containers
<1>2. /\ b[k].id <= h[k].id /\ (b[k].id = h[k].id => b[k].img = h[k].img)
      /\ h[k].id <= g[k].id /\ (h[k].id = g[k].id => h[k].img = g[k].img)
  BY DEF Older
<1> QED
  BY <1>1, <1>2

\* A container is as old as itself.
LEMMA OlderSelf == ASSUME NEW h \in Hosts PROVE Older(h, h)
  BY DEF Older, Hosts, Containers

\* A plan that a marker or a record names.
LEMMA PlanType ==
  ASSUME RunTypes, PlansOK, NEW i \in DOMAIN plans
  PROVE  /\ i \in Nat /\ i # 0 /\ plans[i] \in PlanSet /\ plans[i].id = i
         /\ plans[i].changed \subseteq plans[i].scope
         /\ plans[i].scope \subseteq Components /\ plans[i].sel \subseteq Operated
         /\ plans[i].base \in Snapshots
<1>1. plans \in Seq(PlanSet)
  BY DEF RunTypes
<1>2. i \in 1..Len(plans) /\ Len(plans) \in Nat /\ plans[i] \in PlanSet
  BY <1>1
<1>3. plans[i].id = i /\ plans[i].changed \subseteq plans[i].scope
  BY DEF PlansOK
<1> QED
  BY <1>2, <1>3 DEF PlanSet

\* Operated hosts are targets, and 0 stands for none of them.
LEMMA OperatedTargets ==
  /\ Operated \subseteq Targets /\ Operated \subseteq Nat /\ 0 \notin Operated
  BY ManagedAssumption, ManagedHostAssumption

\* A margin only grows with those who serve.
LEMMA MarginGrows ==
  ASSUME NEW p, NEW t, NEW S \in SUBSET Targets, NEW T \in SUBSET Targets,
         S \ {t} \subseteq T, Margin(p, t, S)
  PROVE  Margin(p, t, T)
<1>1. CASE p.kind = "upgrade" /\ p.scope \cap Consensus # {}
  <2> DEFINE a == Voting(S \ {t})
             b == Voting(T \ {t})
             v == Voting(Targets)
  <2>1. a \in Nat /\ b \in Nat /\ a <= b /\ v \in Nat
    <3>1. T \ {t} \in SUBSET Targets /\ S \ {t} \in SUBSET (T \ {t})
      OBVIOUS
    <3> QED
      BY <3>1, VotingGrows
  <2>2. 3 * a > 2 * v
    BY <1>1 DEF Margin
  <2> HIDE DEF a, b, v
  <2>3. 3 * b > 2 * v
    BY <2>1, <2>2
  <2> QED
    BY <2>3 DEF Margin, b, v
<1> QED
  BY <1>1 DEF Margin

\* The same, of all that a session and a record say about the margin.
LEMMA MarginOKGrows ==
  ASSUME NEW s, NEW r, NEW M, NEW ps, NEW S \in SUBSET Targets,
         NEW T \in SUBSET Targets, S \subseteq T, MarginOK(s, r, M, S, ps)
  PROVE  MarginOK(s, r, M, T, ps)
<1>1. ASSUME NEW p, NEW t, Margin(p, t, S) PROVE Margin(p, t, T)
  BY <1>1, MarginGrows
<1> QED
  BY <1>1, Zenon DEF MarginOK

\* Those that serve are targets.
LEMMA ServingType == Serving \subseteq Targets /\ Serving' \subseteq Targets
  BY DEF Serving

\* The parts of the invariant that a session and the chain leave alone.
LEMMA RunMoves ==
  ASSUME ManagedInvariant, NEW s \in SessionSet, NEW r \in RecordSet,
         ses' = s, record' = r,
         UNCHANGED <<cont, marker, answer, imports, plans>>,
         cond' \in [Targets -> Conditions],
         owned' \subseteq Operated, staged' \in [Operated -> SUBSET Nat],
         proc' \in [Operated -> Procs],
         \A t \in Operated :
           proc'[t].step = proc[t].step /\ proc'[t].k = proc[t].k,
         claimed' \in BOOLEAN, since' \subseteq Targets,
         "drift" \in faults <=> "drift" \in faults',
         RecordOK(r, plans), SessionOK(s, r, plans),
         s.pc # "idle" => claimed',
         \A t \in Operated : JournalOK(r, t, marker[t], plans),
         "drift" \notin faults =>
           \A t \in Operated : CountOK(r.op, t, cont[t], plans),
         AnswerOK(s, r, marker, answer), HeardOK(s, r, proc', answer),
         MarginOK(s, r, marker, Serving', plans)
  PROVE  ManagedInvariant'
<1>1. HostTypeOK'
  BY HostTypes, HostTypesNext DEF ManagedInvariant
<1>2. RunTypes' /\ PlansOK' /\ RecordOK(record, plans)'
  BY DEF ManagedInvariant, RunTypes, PlansOK
<1>3. HostsOK'
  <2> SUFFICES ASSUME NEW t \in Operated
               PROVE  HostOK(t, marker[t], cont[t], proc'[t], plans[marker[t].plan])
    BY DEF ManagedInvariant, HostsOK
  <2> QED
    BY DEF ManagedInvariant, HostsOK, HostOK, NoWork, ProcOK, Again
<1>4. OrderOK'
  <2> SUFFICES ASSUME NEW t \in Operated, "drift" \notin faults
               PROVE  /\ PlaceOK(t, marker[t], cont[t], proc'[t],
                                 plans[marker[t].plan])
                      /\ DrainOK(t, marker[t], cont[t], proc'[t],
                                 plans[marker[t].plan])
    BY DEF OrderOK
  <2>1. /\ PlaceOK(t, marker[t], cont[t], proc[t], plans[marker[t].plan])
        /\ DrainOK(t, marker[t], cont[t], proc[t], plans[marker[t].plan])
        /\ proc'[t].step = proc[t].step /\ proc'[t].k = proc[t].k
    BY DEF ManagedInvariant, OrderOK
  <2> QED
    BY <2>1 DEF PlaceOK, Passed, DrainOK, Again
<1>5. RunnerOK'
  BY DEF RunnerOK
<1> QED
  BY <1>1, <1>2, <1>3, <1>4, <1>5 DEF ManagedInvariant

\* The same, where the chain stays as it is.
LEMMA SessionMoves ==
  ASSUME ManagedInvariant, NEW s \in SessionSet, NEW r \in RecordSet,
         ses' = s, record' = r,
         UNCHANGED <<cont, marker, answer, imports, plans, cond>>,
         owned' \subseteq Operated, staged' \in [Operated -> SUBSET Nat],
         proc' \in [Operated -> Procs],
         \A t \in Operated :
           proc'[t].step = proc[t].step /\ proc'[t].k = proc[t].k,
         claimed' \in BOOLEAN, since' \subseteq Targets,
         "drift" \in faults <=> "drift" \in faults',
         RecordOK(r, plans), SessionOK(s, r, plans),
         s.pc # "idle" => claimed',
         \A t \in Operated : JournalOK(r, t, marker[t], plans),
         "drift" \notin faults =>
           \A t \in Operated : CountOK(r.op, t, cont[t], plans),
         AnswerOK(s, r, marker, answer), HeardOK(s, r, proc', answer),
         MarginOK(s, r, marker, Serving', plans)
  PROVE  ManagedInvariant'
<1>1. cond' \in [Targets -> Conditions]
  BY DEF ManagedInvariant, RunTypes
<1> QED
  BY <1>1, RunMoves

\* The parts of the invariant that a change of one host leaves alone.
Becomes(t, h, m, q, a) ==
  /\ cont' = [cont EXCEPT ![t] = h] /\ marker' = [marker EXCEPT ![t] = m]
  /\ proc' = [proc EXCEPT ![t] = q] /\ answer' = [answer EXCEPT ![t] = a]
  /\ UNCHANGED <<owned, staged>>

\* What that makes of the host, and of the others.
LEMMA BecomesAt ==
  ASSUME HostTypeOK, NEW t \in Operated, NEW h, NEW m, NEW q, NEW a,
         Becomes(t, h, m, q, a)
  PROVE  /\ cont'[t] = h /\ marker'[t] = m /\ proc'[t] = q /\ answer'[t] = a
         /\ \A u \in Operated \ {t} :
              /\ cont'[u] = cont[u] /\ marker'[u] = marker[u]
              /\ proc'[u] = proc[u] /\ answer'[u] = answer[u]
  BY HostTypes DEF Becomes

\* A change of one host keeps the invariant, if it keeps that host's part.
LEMMA HostMoves ==
  ASSUME ManagedInvariant, NEW t \in Operated, NEW h \in Hosts,
         NEW m \in Markers, NEW q \in Procs, NEW a \in Answers,
         Becomes(t, h, m, q, a), NEW s \in SessionSet, ses' = s,
         UNCHANGED <<record, claimed, imports, plans>>,
         cond' \in [Targets -> Conditions], since' \subseteq Targets,
         "drift" \in faults => "drift" \in faults',
         Older(cont[t], h), m.plan \in 0..Len(plans),
         HostOK(t, m, h, q, plans[m.plan]),
         JournalOK(record, t, m, plans),
         "drift" \notin faults' =>
           /\ PlaceOK(t, m, h, q, plans[m.plan])
           /\ DrainOK(t, m, h, q, plans[m.plan])
           /\ CountOK(record.op, t, h, plans),
         s.pc # "idle" => claimed, SessionOK(s, record, plans),
         AnswerOK(s, record, marker', answer'),
         HeardOK(s, record, proc', answer'),
         MarginOK(s, record, marker', Serving', plans)
  PROVE  ManagedInvariant'
<1>0. HostTypeOK /\ RunTypes /\ PlansOK /\ RecordOK(record, plans)
  BY DEF ManagedInvariant
<1>1. HostTypeOK'
  <2>1. /\ cont' \in [Operated -> Hosts] /\ marker' \in [Operated -> Markers]
        /\ proc' \in [Operated -> Procs] /\ answer' \in [Operated -> Answers]
        /\ owned' \subseteq Operated /\ staged' \in [Operated -> SUBSET Nat]
    BY <1>0, HostTypes DEF Becomes
  <2> QED
    BY <2>1, HostTypesNext
<1>2. RunTypes' /\ RecordOK(record, plans)'
  BY <1>0 DEF RunTypes
<1>3. PlansOK'
  <2>1. ASSUME NEW b \in Snapshots, \A u \in Operated : Older(b[u], cont[u]),
               NEW u \in Operated
        PROVE  Older(b[u], cont'[u])
    <3>1. b[u] \in Hosts /\ cont[u] \in Hosts /\ cont'[u] \in Hosts
      BY <1>0, <1>1, HostTypes DEF Snapshots, HostTypeOK
    <3>2. CASE u = t
      BY <2>1, <3>1, <3>2, <1>0, BecomesAt, OlderTwice
    <3>3. CASE u # t
      BY <2>1, <3>3, <1>0, BecomesAt
    <3> QED
      BY <3>2, <3>3
  <2>2. \A i \in DOMAIN imports : imports[i] \in Snapshots
    BY <1>0 DEF RunTypes
  <2>3. \A i \in DOMAIN plans : plans[i].base \in Snapshots
    BY <1>0, PlanType
  <2> QED
    BY <1>0, <2>1, <2>2, <2>3 DEF PlansOK
<1>4. HostsOK'
  <2> SUFFICES ASSUME NEW u \in Operated
               PROVE  /\ marker'[u].plan \in 0..Len(plans)
                      /\ HostOK(u, marker'[u], cont'[u], proc'[u],
                                plans[marker'[u].plan])
                      /\ JournalOK(record, u, marker'[u], plans)
    BY DEF HostsOK
  <2>1. CASE u = t
    BY <2>1, <1>0, BecomesAt
  <2>2. CASE u # t
    BY <2>2, <1>0, BecomesAt DEF ManagedInvariant, HostsOK
  <2> QED
    BY <2>1, <2>2
<1>5. OrderOK'
  <2> SUFFICES ASSUME NEW u \in Operated, "drift" \notin faults'
               PROVE  /\ PlaceOK(u, marker'[u], cont'[u], proc'[u],
                                 plans[marker'[u].plan])
                      /\ DrainOK(u, marker'[u], cont'[u], proc'[u],
                                 plans[marker'[u].plan])
                      /\ CountOK(record.op, u, cont'[u], plans)
    BY DEF OrderOK
  <2>1. CASE u = t
    BY <2>1, <1>0, BecomesAt
  <2>2. CASE u # t
    BY <2>2, <1>0, BecomesAt DEF ManagedInvariant, OrderOK
  <2> QED
    BY <2>1, <2>2
<1>6. RunnerOK'
  <2>1. ses.pc # "idle" => claimed
    BY DEF ManagedInvariant, RunnerOK
  <2> QED
    BY DEF RunnerOK
<1> QED
  BY <1>1, <1>2, <1>3, <1>4, <1>5, <1>6 DEF ManagedInvariant

-----------------------------------------------------------------------------
(* Sessions.                                                                *)

\* What is known of the session and the record.
LEMMA RunnerFacts ==
  ASSUME ManagedInvariant
  PROVE  /\ ses \in SessionSet /\ record \in RecordSet /\ HostTypeOK /\ RunTypes
         /\ PlansOK /\ RecordOK(record, plans)
         /\ ses.pc # "idle" => claimed
         /\ claimed \in BOOLEAN /\ since \subseteq Targets
         /\ SessionOK(ses, record, plans)
         /\ AnswerOK(ses, record, marker, answer)
         /\ HeardOK(ses, record, proc, answer)
         /\ MarginOK(ses, record, marker, Serving, plans)
         /\ \A t \in Operated : JournalOK(record, t, marker[t], plans)
         /\ "drift" \notin faults =>
              \A t \in Operated : CountOK(record.op, t, cont[t], plans)
  BY DEF ManagedInvariant, RunTypes, RunnerOK, HostsOK, OrderOK, RecordOK

\* No worker speaks to a session that does not wait for an answer.
LEMMA Unheard ==
  ASSUME ManagedInvariant, ses.pc # "answer" \/ answer[record.current] # "none"
  PROVE  \A t \in Operated : ~proc[t].heard
<1>1. \A t \in Operated : proc[t] \in Procs
  BY RunnerFacts, HostTypes
<1> QED
  BY <1>1, RunnerFacts DEF HeardOK, Procs

\* A step of the session that leaves hosts and chain alone.
LEMMA QuietMoves ==
  ASSUME ManagedInvariant, NEW s \in SessionSet, NEW r \in RecordSet,
         ses' = s, record' = r, Quiet, Outside, claimed' \in BOOLEAN,
         "drift" \in faults <=> "drift" \in faults',
         RecordOK(r, plans), SessionOK(s, r, plans),
         s.pc # "idle" => claimed',
         \A t \in Operated : JournalOK(r, t, marker[t], plans),
         "drift" \notin faults =>
           \A t \in Operated : CountOK(r.op, t, cont[t], plans),
         AnswerOK(s, r, marker, answer), HeardOK(s, r, proc, answer),
         MarginOK(s, r, marker, Serving, plans)
  PROVE  ManagedInvariant'
<1>1. Serving' = Serving
  BY DEF Serving, Healthy, Outside, Quiet, hostVars
<1>2. /\ UNCHANGED <<cont, owned, staged, marker, proc, answer>>
      /\ UNCHANGED <<imports, plans, cond, since>>
  BY DEF Quiet, hostVars, Outside
<1>3. /\ owned' \subseteq Operated /\ staged' \in [Operated -> SUBSET Nat]
      /\ proc' \in [Operated -> Procs] /\ since' \subseteq Targets
  BY <1>2, RunnerFacts, HostTypes
<1> QED
  BY <1>1, <1>2, <1>3, SessionMoves

\* A step that ends the operation, or waits or stops elsewhere.
Away == {"idle", "enroll", "intend", "stage", "interrupt", "release", "complete"}
LEMMA AwayOK ==
  ASSUME NEW s, NEW r, NEW M, NEW A, NEW S, NEW ps, NEW s0,
         s.pc \in Away, MarginOK(s0, r, M, S, ps)
  PROVE  AnswerOK(s, r, M, A) /\ MarginOK(s, r, M, S, ps)
  BY DEF Away, AnswerOK, MarginOK, Replaced, InGate, Sweeps

\* A session that goes away changes nothing else.
LEMMA GivesUp ==
  ASSUME ManagedInvariant, NEW s \in SessionSet, ses' = s, UNCHANGED record,
         Quiet, Outside, claimed' \in BOOLEAN,
         "drift" \in faults <=> "drift" \in faults',
         s.pc \in Away, SessionOK(s, record, plans), s.pc # "idle" => claimed',
         \A t \in Operated : ~proc[t].heard
  PROVE  ManagedInvariant'
<1>1. AnswerOK(s, record, marker, answer) /\ HeardOK(s, record, proc, answer)
      /\ MarginOK(s, record, marker, Serving, plans)
  BY RunnerFacts, AwayOK DEF HeardOK
<1> QED
  BY <1>1, RunnerFacts, QuietMoves

\* What Save makes of the record and of the session.
LEMMA SaveOutcome ==
  ASSUME NEW next \in SessionSet, NEW r \in RecordSet, Save(r, next)
  PROVE  /\ ses' \in SessionSet /\ ("drift" \in faults <=> "drift" \in faults')
         /\ \/ record' = r /\ ses' = [next EXCEPT !.rec = r]
            \/ /\ ses'.pc = "interrupt" /\ ses'.rec = r
               /\ ses'.mutated = next.mutated
               /\ \/ record' = r
                  \/ record' = record /\ ses'.behind = TRUE
<1>1. CASE record' = r /\ ses' = [next EXCEPT !.rec = r] /\ UNCHANGED faults
  BY <1>1 DEF SessionSet
<1>2. ASSUME NEW landed \in BOOLEAN, Fault("save"),
             record' = IF landed THEN r ELSE record,
             ses' = [next EXCEPT !.pc = "interrupt", !.rec = r,
                                 !.behind = ~landed]
      PROVE  /\ ses' \in SessionSet /\ ("drift" \in faults <=> "drift" \in faults')
             /\ ses'.pc = "interrupt" /\ ses'.rec = r
             /\ ses'.mutated = next.mutated
             /\ \/ record' = r
                \/ record' = record /\ ses'.behind = TRUE
  <2> DEFINE s == [next EXCEPT !.pc = "interrupt", !.rec = r, !.behind = ~landed]
  <2>1. s \in SessionSet
    BY DEF SessionSet, SessionPc
  <2>2. s.pc = "interrupt" /\ s.rec = r /\ s.mutated = next.mutated
    BY DEF SessionSet
  <2>3. s.behind = ~landed
    BY DEF SessionSet
  <2>4. "drift" \in faults <=> "drift" \in faults'
    BY <1>2 DEF Fault
  <2> HIDE DEF s
  <2> QED
    BY <1>2, <2>1, <2>2, <2>3, <2>4 DEF s
<1> QED
  BY <1>1, <1>2, Zenon DEF Save

\* A save keeps the invariant, whether it was carried out or not.
LEMMA SaveKeeps ==
  ASSUME ManagedInvariant, NEW next \in SessionSet, NEW r \in RecordSet,
         NEW s \in SessionSet, s = [next EXCEPT !.rec = r], Save(r, next),
         UNCHANGED <<cont, marker, proc, answer, claimed>>, Outside, claimed,
         owned' \subseteq Operated, staged' \in [Operated -> SUBSET Nat],
         RecordOK(r, plans), SessionOK(s, r, plans),
         \A t \in Operated : JournalOK(r, t, marker[t], plans),
         "drift" \notin faults =>
           \A t \in Operated : CountOK(r.op, t, cont[t], plans),
         AnswerOK(s, r, marker, answer), \A t \in Operated : ~proc[t].heard,
         MarginOK(s, r, marker, Serving, plans), next.mutated => r.op # 0
  PROVE  ManagedInvariant'
<1>1. /\ Serving' = Serving /\ UNCHANGED <<imports, plans, cond, since>>
      /\ claimed' \in BOOLEAN /\ since' \subseteq Targets
      /\ proc' \in [Operated -> Procs]
  BY RunnerFacts, HostTypes DEF Serving, Healthy, Outside
<1>2. \A z, y : HeardOK(z, y, proc', answer)
  BY DEF HeardOK
<1>3. ses' \in SessionSet /\ ("drift" \in faults <=> "drift" \in faults')
  BY SaveOutcome
<1>4. CASE record' = r /\ ses' = s
  BY <1>1, <1>2, <1>3, <1>4, SessionMoves
<1>5. CASE ses'.pc = "interrupt" /\ record' = r /\ ses'.rec = r
           /\ ses'.mutated = next.mutated
  <2>1. PICK z \in SessionSet : ses' = z
    BY <1>3
  <2>2. SessionOK(z, r, plans)
    BY <1>5, <2>1 DEF SessionOK, Operating, Preparing, AtWork, Replaced, InGate,
       Sweeps
  <2>3. AnswerOK(z, r, marker, answer) /\ MarginOK(z, r, marker, Serving, plans)
    BY <1>5, <2>1, AwayOK DEF Away
  <2> QED
    BY <1>1, <1>2, <1>3, <1>5, <2>1, <2>2, <2>3, SessionMoves
<1>6. CASE ses'.pc = "interrupt" /\ record' = record /\ ses'.behind = TRUE
  <2>1. PICK z \in SessionSet : ses' = z
    BY <1>3
  <2>2. SessionOK(z, record, plans)
    BY <1>6, <2>1 DEF SessionOK, Operating, Preparing, AtWork, Replaced, InGate,
       Sweeps
  <2>3. /\ AnswerOK(z, record, marker, answer)
        /\ MarginOK(z, record, marker, Serving, plans)
    BY <1>6, <2>1, RunnerFacts, AwayOK DEF Away
  <2> QED
    BY <1>1, <1>2, <1>3, <1>6, <2>1, <2>2, <2>3, RunnerFacts, SessionMoves
<1> QED
  BY <1>4, <1>5, <1>6, SaveOutcome

\* The plan and the current target of the record.
LEMMA CurrentFacts ==
  ASSUME ManagedInvariant
  PROVE  /\ record.op # 0 => /\ record.op \in DOMAIN plans
                             /\ plans[record.op] \in PlanSet
                             /\ plans[record.op].id = record.op
                             /\ plans[record.op].sel \subseteq Operated
         /\ record.current # 0 =>
              /\ record.op # 0 /\ record.phase \in Active
              /\ record.current \in Operated
              /\ record.current \in plans[record.op].sel \ record.done
<1>1. RecordOK(record, plans) /\ RunTypes /\ PlansOK
  BY RunnerFacts
<1>2. record.op # 0 => /\ record.op \in DOMAIN plans
                       /\ plans[record.op] \in PlanSet
                       /\ plans[record.op].id = record.op
                       /\ plans[record.op].sel \subseteq Operated
  BY <1>1, PlanType DEF RecordOK
<1>3. ASSUME record.current # 0
      PROVE  /\ record.op # 0 /\ record.phase \in Active
             /\ record.current \in Operated
             /\ record.current \in plans[record.op].sel \ record.done
  <2>1. record.op # 0
    BY <1>1, <1>3 DEF RecordOK
  <2>2. record.current \in plans[record.op].sel \ record.done
    BY <1>1, <1>3, <2>1 DEF RecordOK
  <2>3. record.current \in Targets \ record.done
    BY <1>2, <2>1, <2>2, OperatedTargets
  <2>4. record.phase \in Active
    BY <1>1, <2>1, <2>3 DEF RecordOK
  <2> QED
    BY <1>2, <2>1, <2>2, <2>4
<1> QED
  BY <1>2, <1>3

\* A session that goes on elsewhere keeps all else.
Alike(z, s) ==
  /\ z.rec = s.rec /\ z.plan = s.plan /\ z.mutated = s.mutated
  /\ z.behind = s.behind /\ z.second = s.second
LEMMA GoesTo ==
  ASSUME NEW s \in SessionSet, NEW pc \in SessionPc
  PROVE  /\ [s EXCEPT !.pc = pc] \in SessionSet
         /\ [s EXCEPT !.pc = pc].pc = pc /\ [s EXCEPT !.pc = pc].gate = s.gate
         /\ Alike([s EXCEPT !.pc = pc], s)
  BY DEF SessionSet, Alike

\* No session is a session.
LEMMA NoSessionType == NoSession \in SessionSet
<1>1. Absent \in RecordSet
  BY DEF Absent, RecordSet, Phases
<1> QED
  BY <1>1 DEF NoSession, SessionSet, SessionPc, Gates

\* Where an error ends the operation, the record is the session's copy, if it
\* may be saved.
Working == {"enroll", "stage", "call", "answer", "ready"} \cup Sweeps
LEMMA FailKeeps ==
  ASSUME ManagedInvariant, Fail, ses.pc \in Working,
         UNCHANGED <<cont, marker, answer, claimed>>, Outside,
         owned' \subseteq Operated, staged' \in [Operated -> SUBSET Nat],
         proc' \in [Operated -> Procs],
         \A t \in Operated : /\ proc'[t].step = proc[t].step
                             /\ proc'[t].k = proc[t].k /\ ~proc'[t].heard,
         "drift" \in faults <=> "drift" \in faults'
  PROVE  ManagedInvariant'
<1> DEFINE s == [ses EXCEPT !.pc = "interrupt"]
<1>1. /\ s \in SessionSet /\ s.pc = "interrupt" /\ Alike(s, ses)
  BY RunnerFacts, GoesTo DEF SessionPc
<1>2. ses' = s /\ record' = record /\ record \in RecordSet
  BY RunnerFacts DEF Fail, Then
<1> HIDE DEF s
<1>3. ses.gate \in Gates
  BY RunnerFacts DEF SessionSet
<1>4. ses.mutated /\ ~ses.behind => record = ses.rec /\ record.op # 0
  BY <1>3, RunnerFacts DEF SessionOK, Operating, Preparing, InGate, Working,
     Sweeps, Gates
<1>5. SessionOK(s, record, plans)
  BY <1>1, <1>4 DEF Alike, SessionOK, Operating, Preparing, AtWork, Replaced,
     InGate, Sweeps
<1>6. /\ AnswerOK(s, record, marker, answer)
      /\ MarginOK(s, record, marker, Serving, plans)
  <2>1. MarginOK(ses, record, marker, Serving, plans) /\ s.pc \in Away
    BY <1>1, RunnerFacts DEF Away
  <2> QED
    BY <2>1, AwayOK
<1>7. HeardOK(s, record, proc', answer)
  BY DEF HeardOK
<1>8. Serving' = Serving /\ UNCHANGED <<imports, plans, cond, since>>
  BY DEF Serving, Healthy, Outside
<1>9. claimed' \in BOOLEAN /\ since' \subseteq Targets /\ claimed'
  BY <1>8, RunnerFacts DEF Working, Sweeps
<1> QED
  BY <1>1, <1>2, <1>5, <1>6, <1>7, <1>8, <1>9, RunnerFacts, SessionMoves

\* The same, when nothing of the hosts changes.
LEMMA FailQuietly ==
  ASSUME ManagedInvariant, Fail, ses.pc \in Working, Quiet, Outside,
         UNCHANGED claimed, \A t \in Operated : ~proc[t].heard,
         "drift" \in faults <=> "drift" \in faults'
  PROVE  ManagedInvariant'
<1>1. UNCHANGED <<cont, owned, staged, marker, proc, answer>>
  BY DEF Quiet, hostVars
<1>2. /\ owned' \subseteq Operated /\ staged' \in [Operated -> SUBSET Nat]
      /\ proc' \in [Operated -> Procs]
  BY <1>1, RunnerFacts, HostTypes
<1> QED
  BY <1>1, <1>2, FailKeeps

\* Faults of one kind are not another's.
LEMMA NoDrift ==
  ASSUME NEW f, Fault(f), f # "drift"
  PROVE  "drift" \in faults <=> "drift" \in faults'
  BY DEF Fault

\* The deferred save says interrupted, if the copy is the record.
LEMMA InterruptStep == ManagedInvariant /\ Interrupt => ManagedInvariant'
<1> SUFFICES ASSUME ManagedInvariant, Interrupt PROVE ManagedInvariant'
  OBVIOUS
<1> DEFINE s == [ses EXCEPT !.pc = "release"]
           r == [ses.rec EXCEPT !.phase = "interrupted"]
<1>1. /\ s \in SessionSet /\ s.pc = "release"
  BY RunnerFacts, GoesTo DEF SessionPc
<1>2. /\ ses' = s /\ ses.pc = "interrupt" /\ Quiet /\ Outside
      /\ claimed' = claimed /\ claimed
  BY RunnerFacts DEF Interrupt, Doing, Then
<1>3. \A t \in Operated : ~proc[t].heard
  BY <1>2, Unheard
<1>4. claimed' \in BOOLEAN
  BY <1>2, RunnerFacts
<1> HIDE DEF s
<1>5. \A y : SessionOK(s, y, plans)
  BY <1>1 DEF SessionOK, Operating, Preparing, AtWork, Replaced, InGate, Sweeps
<1>6. CASE ses.mutated /\ ~ses.behind /\ record' = r /\ UNCHANGED faults
  <2>1. record = ses.rec /\ record.op # 0
    BY <1>2, <1>6, RunnerFacts DEF SessionOK
  <2>2. /\ r \in RecordSet /\ r.op = record.op /\ r.current = record.current
        /\ r.done = record.done /\ r.enrolled = record.enrolled
        /\ r.phase = "interrupted"
    BY <2>1, RunnerFacts DEF RecordSet, Phases
  <2> HIDE DEF r
  <2>3. RecordOK(r, plans)
    BY <2>1, <2>2, RunnerFacts DEF RecordOK, Active
  <2>4. \A t \in Operated : JournalOK(r, t, marker[t], plans)
    BY <2>2, RunnerFacts DEF JournalOK, IsComplete, Active
  <2>5. /\ AnswerOK(s, r, marker, answer)
        /\ MarginOK(s, r, marker, Serving, plans)
    <3>1. MarginOK(ses, record, marker, Serving, plans)
      BY RunnerFacts
    <3> QED
      BY <1>1, <2>2, <3>1 DEF AnswerOK, MarginOK, Replaced, InGate, Sweeps,
         IsComplete
  <2>6. HeardOK(s, r, proc, answer)
    BY <1>3 DEF HeardOK
  <2> QED
    BY <1>1, <1>2, <1>4, <1>5, <1>6, <2>2, <2>3, <2>4, <2>5, <2>6, RunnerFacts,
       QuietMoves
<1>7. CASE UNCHANGED record /\ ("drift" \in faults <=> "drift" \in faults')
  BY <1>1, <1>2, <1>3, <1>4, <1>5, <1>7, GivesUp DEF Away
<1> QED
  BY <1>6, <1>7, NoDrift DEF Interrupt

\* The claim is given back, or stays with nobody.
LEMMA ReleaseStep == ManagedInvariant /\ Release => ManagedInvariant'
<1> SUFFICES ASSUME ManagedInvariant, Release PROVE ManagedInvariant'
  OBVIOUS
<1>1. /\ ses' = NoSession /\ NoSession.pc = "idle" /\ UNCHANGED record
      /\ Quiet /\ Outside /\ ses.pc = "release"
  BY DEF Release, Doing, NoSession
<1>2. claimed' \in BOOLEAN /\ ("drift" \in faults <=> "drift" \in faults')
  BY RunnerFacts, NoDrift DEF Release
<1>3. SessionOK(NoSession, record, plans)
  BY <1>1 DEF SessionOK, Operating, Preparing, AtWork, Replaced, InGate, Sweeps
<1> QED
  BY <1>1, <1>2, <1>3, NoSessionType, Unheard, GivesUp DEF Away

\* An operator takes a dead runner's claim away.
LEMMA UnlockStep == ManagedInvariant /\ Unlock => ManagedInvariant'
<1> SUFFICES ASSUME ManagedInvariant, Unlock PROVE ManagedInvariant'
  OBVIOUS
<1>1. /\ ses' = ses /\ ses.pc = "idle" /\ UNCHANGED <<record, faults>>
      /\ Quiet /\ Outside /\ claimed' = FALSE
  BY DEF Unlock, Doing
<1> QED
  BY <1>1, RunnerFacts, Unheard, GivesUp DEF Away

\* Enrolment begins, or is refused.
LEMMA EnrollStep ==
  ASSUME ManagedInvariant, NEW i \in DOMAIN imports, Enroll(i)
  PROVE  ManagedInvariant'
<1> DEFINE fresh == [Absent EXCEPT !.phase = "enrolling", !.snap = i]
           rec == IF record.phase = "absent" THEN fresh ELSE record
           refused == \/ rec.snap # i /\ rec.phase = "enrolling"
                      \/ rec.op # 0 /\ rec.phase \notin {"complete", "enrolled"}
           copy == [rec EXCEPT !.snap = i]
           s == [NoSession EXCEPT
                   !.pc = IF refused THEN "release" ELSE "enroll",
                   !.rec = copy, !.todo = Operated \ rec.enrolled]
<1>1. /\ ses.pc = "idle" /\ claimed' = TRUE /\ Quiet /\ Outside
      /\ UNCHANGED faults /\ record' = rec /\ ses' = s
  BY DEF Enroll, Acquire, Doing
<1>2. i \in Nat
  BY RunnerFacts DEF RunTypes
<1>3. /\ fresh \in RecordSet /\ fresh.phase = "enrolling" /\ fresh.op = 0
      /\ fresh.current = 0
  BY <1>2 DEF Absent, RecordSet, Phases
<1> HIDE DEF fresh
<1>4. /\ rec \in RecordSet /\ rec.phase # "absent" /\ rec.op = record.op
      /\ rec.current = record.current
  BY <1>3, RunnerFacts DEF RecordOK
<1>5. RecordOK(rec, plans)
  <2>1. CASE record.phase = "absent"
    BY <1>3, <2>1, RunnerFacts DEF RecordOK, Active
  <2>2. CASE record.phase # "absent"
    BY <2>2, RunnerFacts
  <2> QED
    BY <2>1, <2>2
<1>6. \A t \in Operated : JournalOK(rec, t, marker[t], plans)
  <2>1. CASE record.phase = "absent"
    BY <1>3, <2>1, RunnerFacts DEF JournalOK, RecordOK, Active
  <2>2. CASE record.phase # "absent"
    BY <2>2, RunnerFacts
  <2> QED
    BY <2>1, <2>2
<1> HIDE DEF rec
<1>7. copy \in RecordSet /\ copy.snap = i
  BY <1>2, <1>4 DEF RecordSet
<1> HIDE DEF copy
<1>8. s \in SessionSet
  BY <1>4, <1>7, NoSessionType DEF SessionSet, SessionPc, RecordSet
<1>9. s.pc = (IF refused THEN "release" ELSE "enroll") /\ s.rec = copy
  BY DEF NoSession
<1>10. ~s.mutated
  <2>1. s.mutated = NoSession.mutated
    BY DEF NoSession
  <2> QED
    BY <2>1 DEF NoSession
<1>11. s.pc \in {"release", "enroll"} /\ (s.pc = "enroll" => ~refused)
  BY <1>9
<1> HIDE DEF s
<1>12. ~refused => rec.phase \notin Active
  BY <1>5 DEF RecordOK, Active
<1>13. SessionOK(s, rec, plans)
  <2>1. s.pc = "enroll" =>
          /\ ~s.mutated /\ rec.phase \notin Active \cup {"absent"}
          /\ s.rec = [rec EXCEPT !.snap = s.rec.snap]
    BY <1>4, <1>7, <1>9, <1>10, <1>11, <1>12 DEF copy
  <2> QED
    BY <1>11, <2>1 DEF SessionOK, Operating, Preparing, AtWork, Replaced, InGate,
       Sweeps
<1>14. /\ AnswerOK(s, rec, marker, answer)
       /\ MarginOK(s, rec, marker, Serving, plans)
  <2>1. CASE record.phase = "absent"
    BY <1>3, <1>11, <2>1 DEF rec, AnswerOK, MarginOK, Replaced, InGate, Sweeps
  <2>2. CASE record.phase # "absent"
    <3>1. MarginOK(ses, rec, marker, Serving, plans)
      BY <2>2, RunnerFacts DEF rec
    <3> QED
      BY <1>11, <3>1, AwayOK DEF Away
  <2> QED
    BY <2>1, <2>2
<1>15. HeardOK(s, rec, proc, answer)
  BY <1>1, Unheard DEF HeardOK
<1>16. "drift" \notin faults =>
         \A t \in Operated : CountOK(rec.op, t, cont[t], plans)
  BY <1>4, RunnerFacts
<1> QED
  BY <1>1, <1>4, <1>5, <1>6, <1>8, <1>13, <1>14, <1>15, <1>16, QuietMoves

\* A host gets its owner file and the record its name.
LEMMA EnrollHostStep ==
  ASSUME ManagedInvariant, NEW t \in Operated, EnrollHost(t)
  PROVE  ManagedInvariant'
<1>1. /\ ses.pc = "enroll" /\ Outside /\ UNCHANGED claimed /\ claimed
      /\ \A u \in Operated : ~proc[u].heard
  BY RunnerFacts, Unheard DEF EnrollHost, Doing
<1>2. CASE Quiet /\ Fail /\ UNCHANGED faults
  BY <1>1, <1>2, FailQuietly DEF Working
<1>3. ASSUME HostEnroll(t, imports[ses.rec.snap][t])
      PROVE  /\ UNCHANGED <<cont, marker, proc, answer, staged>>
             /\ owned' \subseteq Operated
             /\ staged' \in [Operated -> SUBSET Nat]
             /\ proc' \in [Operated -> Procs]
  BY <1>3, RunnerFacts, HostTypes DEF HostEnroll
<1>4. CASE HostEnroll(t, imports[ses.rec.snap][t]) /\ Fault("lost") /\ Fail
  BY <1>1, <1>3, <1>4, NoDrift, FailKeeps DEF Working
<1> DEFINE r == [ses.rec EXCEPT !.enrolled = @ \cup {t}]
           next == [ses EXCEPT !.todo = @ \ {t}]
           s == [next EXCEPT !.rec = r]
<1>5. CASE HostEnroll(t, imports[ses.rec.snap][t]) /\ Save(r, next)
  <2>1. /\ ~ses.mutated /\ record.phase \notin Active \cup {"absent"}
        /\ ses.rec = [record EXCEPT !.snap = ses.rec.snap]
    BY <1>1, RunnerFacts DEF SessionOK
  <2>2. ses \in SessionSet /\ ses.rec \in RecordSet /\ record \in RecordSet
    BY RunnerFacts DEF SessionSet
  <2>3. /\ r \in RecordSet /\ r.phase = record.phase /\ r.op = record.op
        /\ r.current = record.current /\ r.done = record.done
        /\ r.enrolled = record.enrolled \cup {t}
    BY <2>1, <2>2 DEF RecordSet
  <2> HIDE DEF r
  <2>4. /\ next \in SessionSet /\ next.mutated = ses.mutated
        /\ next.pc = ses.pc
    BY <2>2 DEF SessionSet
  <2> HIDE DEF next
  <2>5. /\ s \in SessionSet /\ s.mutated = next.mutated
        /\ s.pc = next.pc /\ s.rec = r
    BY <2>3, <2>4 DEF SessionSet
  <2> HIDE DEF s
  <2>6. RecordOK(r, plans)
    BY <2>3, RunnerFacts DEF RecordOK
  <2>7. \A u \in Operated : JournalOK(r, u, marker[u], plans)
    BY <2>3, RunnerFacts DEF JournalOK, IsComplete
  <2>8. SessionOK(s, r, plans)
    <3>1. r = [r EXCEPT !.snap = r.snap]
      BY <2>3 DEF RecordSet
    <3> QED
      BY <1>1, <2>1, <2>3, <2>4, <2>5, <3>1 DEF SessionOK, Operating, Preparing,
         AtWork, Replaced, InGate, Sweeps
  <2>9. AnswerOK(s, r, marker, answer) /\ MarginOK(s, r, marker, Serving, plans)
    <3>1. MarginOK(ses, record, marker, Serving, plans)
      BY RunnerFacts
    <3> QED
      BY <1>1, <2>3, <2>4, <2>5, <3>1 DEF AnswerOK, MarginOK, Replaced, InGate,
         Sweeps, IsComplete
  <2>10. "drift" \notin faults =>
           \A u \in Operated : CountOK(r.op, u, cont[u], plans)
    BY <2>3, RunnerFacts
  <2>11. ~next.mutated
    BY <2>1, <2>4
  <2>12. s = [next EXCEPT !.rec = r]
    BY DEF s
  <2> QED
    BY <1>1, <1>3, <1>5, <2>3, <2>4, <2>5, <2>6, <2>7, <2>8, <2>9, <2>10, <2>11,
       <2>12, SaveKeeps
<1> QED
  BY <1>2, <1>4, <1>5 DEF EnrollHost

\* Every host is enrolled.
LEMMA EnrolledStep == ManagedInvariant /\ Enrolled => ManagedInvariant'
<1> SUFFICES ASSUME ManagedInvariant, Enrolled PROVE ManagedInvariant'
  OBVIOUS
<1> DEFINE r == [ses.rec EXCEPT !.phase = "enrolled"]
           next == [ses EXCEPT !.pc = "release"]
           s == [next EXCEPT !.rec = r]
<1>1. /\ ses.pc = "enroll" /\ Quiet /\ Outside /\ UNCHANGED claimed /\ claimed
      /\ Save(r, next) /\ \A t \in Operated : ~proc[t].heard
  BY RunnerFacts, Unheard DEF Enrolled, Doing, Then
<1>2. /\ ~ses.mutated /\ record.phase \notin Active \cup {"absent"}
      /\ ses.rec = [record EXCEPT !.snap = ses.rec.snap]
  BY <1>1, RunnerFacts DEF SessionOK
<1>3. ses \in SessionSet /\ ses.rec \in RecordSet /\ record \in RecordSet
  BY RunnerFacts DEF SessionSet
<1>4. /\ r \in RecordSet /\ r.phase = "enrolled" /\ r.op = record.op
      /\ r.current = record.current /\ r.done = record.done
      /\ r.enrolled = record.enrolled
  BY <1>2, <1>3 DEF RecordSet, Phases
<1> HIDE DEF r
<1>5. next \in SessionSet /\ next.pc = "release" /\ ~next.mutated
  BY <1>2, <1>3, GoesTo DEF Alike, SessionPc
<1> HIDE DEF next
<1>6. s \in SessionSet /\ s.pc = "release" /\ s = [next EXCEPT !.rec = r]
  BY <1>4, <1>5 DEF SessionSet
<1> HIDE DEF s
<1>7. RecordOK(r, plans)
  BY <1>2, <1>4, RunnerFacts DEF RecordOK, Active
<1>8. \A t \in Operated : JournalOK(r, t, marker[t], plans)
  BY <1>2, <1>4, RunnerFacts DEF JournalOK, IsComplete
<1>9. SessionOK(s, r, plans)
  BY <1>6 DEF SessionOK, Operating, Preparing, AtWork, Replaced, InGate, Sweeps
<1>10. AnswerOK(s, r, marker, answer) /\ MarginOK(s, r, marker, Serving, plans)
  <2>1. MarginOK(ses, record, marker, Serving, plans)
    BY RunnerFacts
  <2> QED
    BY <1>4, <1>6, <2>1 DEF AnswerOK, MarginOK, Replaced, InGate, Sweeps, IsComplete
<1>11. "drift" \notin faults =>
         \A t \in Operated : CountOK(r.op, t, cont[t], plans)
  BY <1>4, RunnerFacts
<1>12. /\ UNCHANGED <<cont, marker, proc, answer>> /\ owned' \subseteq Operated
       /\ staged' \in [Operated -> SUBSET Nat]
  BY <1>1, RunnerFacts, HostTypes DEF Quiet, hostVars
<1> QED
  BY <1>1, <1>4, <1>5, <1>6, <1>7, <1>8, <1>9, <1>10, <1>11, <1>12, SaveKeeps

\* A session that moves with the record as it is and the hosts at rest.
LEMMA MovesTo ==
  ASSUME ManagedInvariant, NEW s \in SessionSet, ses' = s, UNCHANGED record,
         Quiet, Outside, UNCHANGED claimed, claimed,
         "drift" \in faults <=> "drift" \in faults',
         SessionOK(s, record, plans), AnswerOK(s, record, marker, answer),
         MarginOK(s, record, marker, Serving, plans),
         \A t \in Operated : ~proc[t].heard
  PROVE  ManagedInvariant'
<1>1. HeardOK(s, record, proc, answer)
  BY DEF HeardOK
<1> QED
  BY <1>1, RunnerFacts, QuietMoves

\* A gate begins, whichever, with what holds at its end.
LEMMA GateType ==
  ASSUME NEW s \in SessionSet, NEW g \in Gates
  PROVE  /\ Gate(s, g) \in SessionSet /\ Gate(s, g).pc = "first"
         /\ Gate(s, g).gate = g /\ Alike(Gate(s, g), s)
  BY DEF Gate, SessionSet, SessionPc, Alike

\* A plan is resumed, replayed, begun or refused.
LEMMA ExecuteStep ==
  ASSUME ManagedInvariant, NEW i \in DOMAIN plans, Execute(i)
  PROVE  ManagedInvariant'
<1> DEFINE p == plans[i]
           s0 == [NoSession EXCEPT !.rec = record, !.plan = i]
           resumes == SamePlan(p)
           stale == \/ record.op # p.prev
                    \/ record.phase \notin {"enrolled", "complete"}
           fresh == Preflight(p)
<1>1. /\ ses.pc = "idle" /\ claimed' = TRUE /\ Quiet /\ Outside
      /\ UNCHANGED <<record, faults>> /\ p.sel \subseteq record.enrolled
      /\ ses' = CASE resumes /\ record.phase = "complete" -> Gate(s0, "replay")
                  [] resumes /\ record.phase # "complete" ->
                       [s0 EXCEPT !.pc = "stage", !.mutated = TRUE, !.todo = p.sel]
                  [] ~resumes /\ (stale \/ ~fresh) -> [s0 EXCEPT !.pc = "release"]
                  [] ~resumes /\ ~stale /\ fresh ->
                       IF p.kind = "upgrade" THEN Gate(s0, "begin")
                                             ELSE [s0 EXCEPT !.pc = "intend"]
  BY DEF Execute, Acquire, Doing
<1>2. /\ i \in Nat /\ i # 0 /\ p.id = i /\ p.sel \subseteq Operated
      /\ record \in RecordSet
  BY RunnerFacts, PlanType
<1>3. resumes <=> record.op = i
  BY <1>2 DEF SamePlan
<1>4. /\ s0 \in SessionSet /\ s0.rec = record /\ s0.plan = i
  BY <1>2, NoSessionType DEF SessionSet
<1>5. ~s0.mutated /\ ~s0.behind
  <2>1. s0.mutated = NoSession.mutated /\ s0.behind = NoSession.behind
    BY DEF NoSession
  <2> QED
    BY <2>1 DEF NoSession
<1> HIDE DEF s0, resumes, fresh, p
<1>6. \A t \in Operated : ~proc[t].heard
  BY <1>1, Unheard
<1>7. MarginOK(ses, record, marker, Serving, plans) /\ claimed' \in BOOLEAN
  BY <1>1, RunnerFacts
<1>8. ASSUME NEW z \in SessionSet, ses' = z, SessionOK(z, record, plans),
             z.pc \in Away \cup {"first"}, z.gate \notin {"after"} \/ z.pc # "first"
      PROVE  ManagedInvariant'
  <2>1. /\ AnswerOK(z, record, marker, answer)
        /\ MarginOK(z, record, marker, Serving, plans)
    BY <1>7, <1>8 DEF AnswerOK, MarginOK, Replaced, InGate, Sweeps, Away
  <2>2. HeardOK(z, record, proc, answer)
    BY <1>6 DEF HeardOK
  <2> QED
    BY <1>1, <1>7, <1>8, <2>1, <2>2, RunnerFacts, QuietMoves
<1>9. CASE resumes /\ record.phase = "complete"
  <2>1. ses' = Gate(s0, "replay")
    BY <1>1, <1>9
  <2> DEFINE z == Gate(s0, "replay")
  <2>2. /\ z \in SessionSet /\ z.pc = "first" /\ z.gate = "replay"
        /\ Alike(z, s0)
    BY <1>4, GateType DEF Gates
  <2> HIDE DEF z
  <2>3. SessionOK(z, record, plans)
    BY <1>2, <1>3, <1>4, <1>5, <1>9, <2>2 DEF SessionOK, Operating, Preparing,
       AtWork, Replaced, InGate, Sweeps, Alike
  <2> QED
    BY <1>8, <2>1, <2>2, <2>3 DEF z
<1>10. CASE resumes /\ record.phase # "complete"
  <2> DEFINE z == [s0 EXCEPT !.pc = "stage", !.mutated = TRUE, !.todo = p.sel]
  <2>1. ses' = z
    BY <1>1, <1>10
  <2>2. z \in SessionSet /\ z.pc = "stage"
    BY <1>2, <1>4 DEF SessionSet, SessionPc
  <2>3. z.mutated /\ z.behind = s0.behind /\ z.rec = s0.rec /\ z.plan = s0.plan
    BY <1>4, Zenon DEF SessionSet
  <2> HIDE DEF z
  <2>4. SessionOK(z, record, plans)
    BY <1>2, <1>3, <1>4, <1>5, <1>10, <2>2, <2>3 DEF SessionOK, Operating,
       Preparing, AtWork, Replaced, InGate, Sweeps
  <2> QED
    BY <1>8, <2>1, <2>2, <2>4 DEF Away
<1>11. CASE ~resumes /\ (stale \/ ~fresh)
  <2> DEFINE z == [s0 EXCEPT !.pc = "release"]
  <2>1. ses' = z
    BY <1>1, <1>11
  <2>2. z \in SessionSet /\ z.pc = "release"
    BY <1>4, GoesTo DEF SessionPc
  <2> HIDE DEF z
  <2>3. SessionOK(z, record, plans)
    BY <2>2 DEF SessionOK, Operating, Preparing, AtWork, Replaced, InGate, Sweeps
  <2> QED
    BY <1>8, <2>1, <2>2, <2>3 DEF Away
<1>12. CASE ~resumes /\ ~stale /\ fresh
  <2>1. /\ record.phase \in {"enrolled", "complete"} /\ plans[i].prev = record.op
        /\ plans[i].sel \subseteq record.enrolled
    BY <1>1, <1>12 DEF p
  <2>2. CASE p.kind = "upgrade"
    <3> DEFINE z == Gate(s0, "begin")
    <3>1. ses' = z
      BY <1>1, <1>12, <2>2
    <3>2. /\ z \in SessionSet /\ z.pc = "first" /\ z.gate = "begin"
          /\ Alike(z, s0)
      BY <1>4, GateType DEF Gates
    <3> HIDE DEF z
    <3>3. SessionOK(z, record, plans)
      BY <1>4, <1>5, <2>1, <3>2 DEF SessionOK, Operating, Preparing, AtWork,
         Replaced, InGate, Sweeps, Alike
    <3> QED
      BY <1>8, <3>1, <3>2, <3>3
  <2>3. CASE p.kind # "upgrade"
    <3> DEFINE z == [s0 EXCEPT !.pc = "intend"]
    <3>1. ses' = z
      BY <1>1, <1>12, <2>3
    <3>2. z \in SessionSet /\ z.pc = "intend" /\ Alike(z, s0)
      BY <1>4, GoesTo DEF SessionPc
    <3> HIDE DEF z
    <3>3. SessionOK(z, record, plans)
      BY <1>4, <1>5, <2>1, <3>2 DEF SessionOK, Operating, Preparing, AtWork,
         Replaced, InGate, Sweeps, Alike
    <3> QED
      BY <1>8, <3>1, <3>2, <3>3 DEF Away
  <2> QED
    BY <2>2, <2>3
<1> QED
  BY <1>9, <1>10, <1>11, <1>12

-----------------------------------------------------------------------------
(* The count of the operations.                                             *)

\* The operations that replaced a container can be counted.
LEMMA ReplacementsFinite ==
  ASSUME RunTypes, NEW op, NEW t, NEW k
  PROVE  /\ IsFiniteSet(Replacements(op, t, k, plans))
         /\ Cardinality(Replacements(op, t, k, plans)) \in Nat
<1> DEFINE a == 1
           b == Len(plans)
<1>1. a \in Int /\ b \in Int /\ DOMAIN plans = a..b
  BY DEF RunTypes
<1> HIDE DEF a, b
<1>2. IsFiniteSet(a..b)
  BY <1>1, FS_Interval
<1>3. Replacements(op, t, k, plans) \subseteq a..b
  BY <1>1 DEF Replacements
<1> QED
  BY <1>2, <1>3, FS_Subset, FS_CardinalityType

\* A later operation counts the earlier ones, and itself.
LEMMA CountGrows ==
  ASSUME RunTypes, PlansOK, NEW op \in Nat, NEW i \in DOMAIN plans, op < i,
         NEW t \in Operated, NEW h \in Hosts, Older(plans[i].base[t], h),
         CountOK(op, t, h, plans)
  PROVE  CountOK(i, t, h, plans)
<1> SUFFICES ASSUME NEW k \in Components
             PROVE  /\ h[k].id <= Cardinality(Replacements(i, t, k, plans))
                    /\ t \in plans[i].sel /\ k \in plans[i].changed =>
                         plans[i].base[t][k].id
                           < Cardinality(Replacements(i, t, k, plans))
  BY DEF CountOK
<1> DEFINE R0 == Replacements(op, t, k, plans)
           R1 == Replacements(i, t, k, plans)
<1>1. /\ i \in Nat /\ plans[i].base \in Snapshots
      /\ DOMAIN plans \subseteq Nat
  BY PlanType
<1>2. /\ IsFiniteSet(R0) /\ IsFiniteSet(R1)
      /\ Cardinality(R0) \in Nat /\ Cardinality(R1) \in Nat
  BY ReplacementsFinite
<1>3. R0 \subseteq R1 /\ i \notin R0
  BY <1>1 DEF Replacements
<1>4. h[k].id <= Cardinality(R0)
  BY DEF CountOK
<1>5. /\ h[k].id \in Nat /\ plans[i].base[t][k].id \in Nat
      /\ plans[i].base[t][k].id <= h[k].id
  BY <1>1 DEF Snapshots, Hosts, Containers, Older
<1>6. t \in plans[i].sel /\ k \in plans[i].changed => i \in R1
  BY <1>1 DEF Replacements
<1> HIDE DEF R0, R1
<1>7. Cardinality(R0) <= Cardinality(R1)
  BY <1>2, <1>3, FS_Subset
<1>8. i \in R1 => Cardinality(R0) < Cardinality(R1)
  <2>1. i \in R1 => R0 # R1
    BY <1>3
  <2>2. R0 # R1 => Cardinality(R0) # Cardinality(R1)
    BY <1>2, <1>3, FS_Subset
  <2> QED
    BY <1>2, <1>7, <2>1, <2>2
<1>9. /\ h[k].id <= Cardinality(R1)
      /\ t \in plans[i].sel /\ k \in plans[i].changed =>
           plans[i].base[t][k].id < Cardinality(R1)
  BY <1>2, <1>4, <1>5, <1>6, <1>7, <1>8
<1> QED
  BY <1>9 DEF R1

\* The record takes the plan: its replacements count from now on.
LEMMA IntendStep == ManagedInvariant /\ Intend => ManagedInvariant'
<1> SUFFICES ASSUME ManagedInvariant, Intend PROVE ManagedInvariant'
  OBVIOUS
<1> DEFINE r == Intended(P)
           next == [ses EXCEPT !.pc = "stage", !.mutated = TRUE, !.todo = P.sel]
           s == [next EXCEPT !.rec = r]
           i == ses.plan
<1>1. /\ ses.pc = "intend" /\ Quiet /\ Outside /\ UNCHANGED claimed /\ claimed
      /\ Save(r, next) /\ \A t \in Operated : ~proc[t].heard
  BY RunnerFacts, Unheard DEF Intend, Doing
<1>2. /\ ~ses.mutated /\ ~ses.behind /\ record = ses.rec
      /\ record.phase \in {"enrolled", "complete"}
      /\ i \in DOMAIN plans /\ plans[i].prev = record.op
      /\ plans[i].sel \subseteq record.enrolled
  BY <1>1, RunnerFacts DEF SessionOK, Preparing
<1>3. /\ ses \in SessionSet /\ record \in RecordSet
      /\ i \in Nat /\ i # 0 /\ plans[i].id = i /\ plans[i].sel \subseteq Operated
      /\ RunTypes /\ PlansOK
  BY <1>2, RunnerFacts, PlanType
<1>4. record.current = 0
  BY <1>2, CurrentFacts DEF Active
<1>5. /\ r \in RecordSet /\ r.phase = "staging" /\ r.op = i
      /\ r.current = record.current /\ r.done = Targets \ plans[i].sel
      /\ r.enrolled = record.enrolled
  BY <1>3 DEF Intended, P, RecordSet, Phases
<1> HIDE DEF r
<1>6. next \in SessionSet /\ next.pc = "stage"
  BY <1>3 DEF SessionSet, SessionPc, P
<1>7. next.mutated /\ next.behind = ses.behind /\ next.plan = i
  BY <1>3, Zenon DEF SessionSet
<1> HIDE DEF next
<1>8. /\ s \in SessionSet /\ s.pc = "stage" /\ s.mutated = next.mutated
      /\ s.behind = next.behind /\ s.plan = i /\ s.rec = r
      /\ s = [next EXCEPT !.rec = r]
  BY <1>5, <1>6, <1>7 DEF SessionSet
<1> HIDE DEF s
<1>9. RecordOK(r, plans)
  BY <1>2, <1>3, <1>4, <1>5 DEF RecordOK, Active
<1>10. \A t \in Operated : JournalOK(r, t, marker[t], plans)
  <2> SUFFICES ASSUME NEW t \in Operated PROVE JournalOK(r, t, marker[t], plans)
    OBVIOUS
  <2>1. marker[t].phase # "applying"
    BY <1>2, RunnerFacts DEF JournalOK, Active
  <2> QED
    BY <1>5, <2>1 DEF JournalOK
<1>11. SessionOK(s, r, plans)
  BY <1>2, <1>3, <1>5, <1>7, <1>8 DEF SessionOK, Operating, Preparing, AtWork,
     Replaced, InGate, Sweeps
<1>12. AnswerOK(s, r, marker, answer) /\ MarginOK(s, r, marker, Serving, plans)
  BY <1>4, <1>5, <1>8 DEF AnswerOK, MarginOK, Replaced, InGate, Sweeps
<1>13. "drift" \notin faults =>
         \A t \in Operated : CountOK(r.op, t, cont[t], plans)
  <2> SUFFICES ASSUME "drift" \notin faults, NEW t \in Operated
               PROVE  CountOK(i, t, cont[t], plans)
    BY <1>5
  <2>1. CountOK(record.op, t, cont[t], plans) /\ cont[t] \in Hosts
    BY RunnerFacts, HostTypes
  <2>2. record.op < i /\ Older(plans[i].base[t], cont[t]) /\ record.op \in Nat
    BY <1>2, <1>3 DEF PlansOK, RecordSet
  <2> QED
    BY <1>2, <1>3, <2>1, <2>2, CountGrows
<1>14. /\ UNCHANGED <<cont, marker, proc, answer>> /\ owned' \subseteq Operated
       /\ staged' \in [Operated -> SUBSET Nat]
  BY <1>1, RunnerFacts, HostTypes DEF Quiet, hostVars
<1>15. next.mutated => r.op # 0
  BY <1>3, <1>5
<1> QED
  BY <1>1, <1>5, <1>6, <1>8, <1>9, <1>10, <1>11, <1>12, <1>13, <1>14, <1>15,
     SaveKeeps

-----------------------------------------------------------------------------
(* The session on its way from host to host.                                *)

\* The plan of a session at work is that of the record.
LEMMA OperatingFacts ==
  ASSUME ManagedInvariant, Operating(ses)
  PROVE  /\ ses.mutated /\ ~ses.behind /\ record = ses.rec
         /\ record.op = ses.plan /\ record.op # 0 /\ P = plans[record.op]
         /\ ses.plan \in DOMAIN plans /\ P.sel \subseteq Operated
         /\ P \in PlanSet /\ P.id = record.op
  BY RunnerFacts, CurrentFacts DEF SessionOK, P

\* The next target is selected, not done, and the current one if there is one.
LEMMA UpcomingIs ==
  ASSUME ManagedInvariant, Operating(ses), ~(P.sel \subseteq record.done)
  PROVE  /\ Upcoming \in P.sel \ record.done /\ Upcoming \in Operated
         /\ record.current # 0 => Upcoming = record.current
         /\ record.current = 0 => Upcoming = Due(ses, plans)
<1>1. /\ record = ses.rec /\ P = plans[ses.plan] /\ P.sel \subseteq Operated
      /\ P = plans[record.op]
  BY OperatingFacts
<1>2. CASE record.current # 0
  BY <1>1, <1>2, CurrentFacts DEF Upcoming
<1>3. CASE record.current = 0
  <2>1. Upcoming = Due(ses, plans)
    BY <1>1, <1>3, Zenon DEF Upcoming, Due, P
  <2>2. P.sel \ record.done \in SUBSET Nat /\ P.sel \ record.done # {}
    BY <1>1, OperatedTargets
  <2>3. Due(ses, plans) \in P.sel \ record.done
    BY <1>1, <2>2, DueIn
  <2> QED
    BY <1>1, <1>3, <2>1, <2>3
<1> QED
  BY <1>2, <1>3

\* A host pulls images.
LEMMA StageStep ==
  ASSUME ManagedInvariant, NEW t \in Operated, Stage(t)
  PROVE  ManagedInvariant'
<1>1. /\ ses.pc = "stage" /\ Outside /\ UNCHANGED claimed /\ claimed
      /\ \A u \in Operated : ~proc[u].heard
  BY RunnerFacts, Unheard DEF Stage, Doing
<1>2. Operating(ses) /\ P \in PlanSet
  BY <1>1, OperatingFacts DEF Operating
<1>3. CASE Quiet /\ Fail /\ UNCHANGED faults
  BY <1>1, <1>3, FailQuietly DEF Working
<1>4. ASSUME HostStage(t, P)
      PROVE  /\ UNCHANGED <<cont, marker, proc, answer, owned>>
             /\ owned' \subseteq Operated
             /\ staged' \in [Operated -> SUBSET Nat]
             /\ proc' \in [Operated -> Procs]
  <2>1. P.id \in Nat
    BY <1>2 DEF PlanSet
  <2> QED
    BY <1>4, <2>1, RunnerFacts, HostTypes DEF HostStage
<1>5. CASE HostStage(t, P) /\ Fault("lost") /\ Fail
  BY <1>1, <1>4, <1>5, NoDrift, FailKeeps DEF Working
<1> DEFINE s == [ses EXCEPT !.todo = @ \ {t}]
<1>6. CASE HostStage(t, P) /\ ses' = s /\ UNCHANGED <<record, faults>>
  <2>1. s \in SessionSet /\ s.pc = ses.pc /\ Alike(s, ses)
    BY RunnerFacts DEF SessionSet, Alike
  <2> HIDE DEF s
  <2>2. SessionOK(s, record, plans)
    BY <1>1, <2>1, RunnerFacts DEF SessionOK, Operating, Preparing, AtWork,
       Replaced, InGate, Sweeps, Alike
  <2>3. /\ AnswerOK(s, record, marker, answer)
        /\ MarginOK(s, record, marker, Serving, plans)
    <3>1. MarginOK(ses, record, marker, Serving, plans) /\ s.pc \in Away
      BY <1>1, <2>1, RunnerFacts DEF Away
    <3> QED
      BY <3>1, AwayOK
  <2>4. HeardOK(s, record, proc', answer)
    BY <1>1, <1>4, <1>6 DEF HeardOK
  <2>5. /\ Serving' = Serving /\ UNCHANGED <<imports, plans, cond, since>>
        /\ since' \subseteq Targets /\ claimed' \in BOOLEAN
    BY <1>1, <1>4, <1>6, RunnerFacts DEF Serving, Healthy, Outside
  <2> QED
    BY <1>1, <1>4, <1>6, <2>1, <2>2, <2>3, <2>4, <2>5, RunnerFacts, SessionMoves
<1> QED
  BY <1>3, <1>5, <1>6 DEF Stage

\* The journalled target, or the next one behind a gate, or the final gate.
LEMMA PickStep == ManagedInvariant /\ Pick => ManagedInvariant'
<1> SUFFICES ASSUME ManagedInvariant, Pick PROVE ManagedInvariant'
  OBVIOUS
<1>1. /\ ses.pc = "stage" /\ Quiet /\ Outside /\ UNCHANGED claimed /\ claimed
      /\ \A t \in Operated : ~proc[t].heard
  BY RunnerFacts, Unheard DEF Pick, Doing
<1>2. /\ ses.mutated /\ ~ses.behind /\ record = ses.rec /\ record.op = ses.plan
      /\ record.op # 0 /\ P = plans[ses.plan] /\ ses \in SessionSet
  BY <1>1, OperatingFacts, RunnerFacts DEF Operating, P
<1>3. CASE Fault("lost") /\ Fail
  BY <1>1, <1>3, NoDrift, FailQuietly DEF Working
<1>4. MarginOK(ses, record, marker, Serving, plans)
  BY RunnerFacts
<1>5. CASE /\ P.sel \subseteq ses.rec.done /\ ses' = Gate(ses, "final")
           /\ UNCHANGED <<record, faults>>
  <2> DEFINE s == Gate(ses, "final")
  <2>1. /\ s \in SessionSet /\ s.pc = "first" /\ s.gate = "final"
        /\ Alike(s, ses)
    BY <1>2, GateType DEF Gates
  <2>2. ses' = s
    BY <1>5
  <2> HIDE DEF s
  <2>3. SessionOK(s, record, plans)
    BY <1>2, <1>5, <2>1 DEF SessionOK, Operating, Preparing, AtWork, Replaced,
       InGate, Sweeps, Alike
  <2>4. /\ AnswerOK(s, record, marker, answer)
        /\ MarginOK(s, record, marker, Serving, plans)
    BY <1>4, <2>1 DEF AnswerOK, MarginOK, Replaced, InGate
  <2> QED
    BY <1>1, <1>5, <2>1, <2>2, <2>3, <2>4, MovesTo
<1>6. CASE /\ ~(P.sel \subseteq ses.rec.done) /\ P.kind = "upgrade"
           /\ ses.rec.current = 0 /\ ses' = Gate(ses, "next")
           /\ UNCHANGED <<record, faults>>
  <2> DEFINE s == Gate(ses, "next")
  <2>1. /\ s \in SessionSet /\ s.pc = "first" /\ s.gate = "next"
        /\ Alike(s, ses)
    BY <1>2, GateType DEF Gates
  <2>2. ses' = s
    BY <1>6
  <2> HIDE DEF s
  <2>3. SessionOK(s, record, plans)
    BY <1>2, <1>6, <2>1 DEF SessionOK, Operating, Preparing, AtWork, Replaced,
       InGate, Sweeps, Alike
  <2>4. /\ AnswerOK(s, record, marker, answer)
        /\ MarginOK(s, record, marker, Serving, plans)
    BY <1>4, <2>1 DEF AnswerOK, MarginOK, Replaced, InGate
  <2> QED
    BY <1>1, <1>6, <2>1, <2>2, <2>3, <2>4, MovesTo
<1>7. CASE /\ ~(P.sel \subseteq ses.rec.done)
           /\ P.kind # "upgrade" \/ ses.rec.current # 0
           /\ ses' = Then("mark") /\ UNCHANGED <<record, faults>>
  <2> DEFINE s == [ses EXCEPT !.pc = "mark"]
  <2>1. s \in SessionSet /\ s.pc = "mark" /\ Alike(s, ses)
    BY <1>2, GoesTo DEF SessionPc
  <2>2. ses' = s
    BY <1>7 DEF Then
  <2> HIDE DEF s
  <2>3. SessionOK(s, record, plans)
    BY <1>2, <1>7, <2>1 DEF SessionOK, Operating, Preparing, AtWork, Replaced,
       InGate, Sweeps, Alike
  <2>4. /\ AnswerOK(s, record, marker, answer)
        /\ MarginOK(s, record, marker, Serving, plans)
    BY <1>2, <1>4, <1>7, <2>1 DEF AnswerOK, MarginOK, Replaced, InGate, Sweeps,
       Margin, Alike
  <2> QED
    BY <1>1, <1>7, <2>1, <2>2, <2>3, <2>4, MovesTo
<1> QED
  BY <1>3, <1>5, <1>6, <1>7 DEF Pick

\* The record names the target before the host is called.
LEMMA MarkStep == ManagedInvariant /\ Mark => ManagedInvariant'
<1> SUFFICES ASSUME ManagedInvariant, Mark PROVE ManagedInvariant'
  OBVIOUS
<1> DEFINE t == Upcoming
           r == [ses.rec EXCEPT !.current = t, !.phase = "applying"]
           next == [ses EXCEPT !.pc = "call"]
           s == [next EXCEPT !.rec = r]
<1>1. /\ ses.pc = "mark" /\ Quiet /\ Outside /\ UNCHANGED claimed /\ claimed
      /\ Save(r, next) /\ \A u \in Operated : ~proc[u].heard
  BY RunnerFacts, Unheard DEF Mark, Doing, Then
<1>2. /\ ses.mutated /\ ~ses.behind /\ record = ses.rec /\ record.op = ses.plan
      /\ record.op # 0 /\ P = plans[ses.plan] /\ ses \in SessionSet
      /\ P = plans[record.op] /\ record \in RecordSet
  BY <1>1, OperatingFacts, RunnerFacts DEF Operating
<1>3. ~(P.sel \subseteq record.done)
  BY <1>1, <1>2, RunnerFacts DEF SessionOK
<1>4. /\ t \in P.sel \ record.done /\ t \in Operated
      /\ record.current # 0 => t = record.current
      /\ record.current = 0 => t = Due(ses, plans)
  BY <1>1, <1>3, UpcomingIs DEF Operating
<1> HIDE DEF t
<1>5. /\ r \in RecordSet /\ r.phase = "applying" /\ r.op = record.op
      /\ r.current = t /\ r.done = record.done /\ r.enrolled = record.enrolled
  BY <1>2, <1>4, OperatedTargets DEF RecordSet, Phases
<1> HIDE DEF r
<1>6. next \in SessionSet /\ next.pc = "call" /\ Alike(next, ses)
  BY <1>2, GoesTo DEF SessionPc
<1> HIDE DEF next
<1>7. /\ s \in SessionSet /\ s.pc = "call" /\ s.mutated = next.mutated
      /\ s.behind = next.behind /\ s.plan = next.plan /\ s.rec = r
      /\ s = [next EXCEPT !.rec = r]
  BY <1>5, <1>6 DEF SessionSet
<1> HIDE DEF s
<1>8. RecordOK(r, plans)
  BY <1>2, <1>4, <1>5, RunnerFacts DEF RecordOK, Active
<1>9. \A u \in Operated : JournalOK(r, u, marker[u], plans)
  <2> SUFFICES ASSUME NEW u \in Operated PROVE JournalOK(r, u, marker[u], plans)
    OBVIOUS
  <2>1. JournalOK(record, u, marker[u], plans) /\ u # 0
    BY RunnerFacts, OperatedTargets
  <2> QED
    BY <1>4, <1>5, <2>1 DEF JournalOK, IsComplete, Active
<1>10. SessionOK(s, r, plans)
  BY <1>2, <1>4, <1>5, <1>6, <1>7, OperatedTargets DEF SessionOK, Operating,
     Preparing, AtWork, Replaced, InGate, Sweeps, Alike
<1>11. AnswerOK(s, r, marker, answer)
  BY <1>7 DEF AnswerOK, Replaced, InGate, Sweeps
<1>12. MarginOK(s, r, marker, Serving, plans)
  <2>1. MarginOK(ses, record, marker, Serving, plans)
    BY RunnerFacts
  <2> QED
    BY <1>1, <1>2, <1>4, <1>5, <1>7, <2>1 DEF MarginOK, IsComplete
<1>13. "drift" \notin faults =>
         \A u \in Operated : CountOK(r.op, u, cont[u], plans)
  BY <1>5, RunnerFacts
<1>14. /\ UNCHANGED <<cont, marker, proc, answer>> /\ owned' \subseteq Operated
       /\ staged' \in [Operated -> SUBSET Nat]
  BY <1>1, RunnerFacts, HostTypes DEF Quiet, hostVars
<1>15. next.mutated => r.op # 0
  BY <1>2, <1>5
<1> QED
  BY <1>1, <1>5, <1>6, <1>7, <1>8, <1>9, <1>10, <1>11, <1>12, <1>13, <1>14,
     <1>15, SaveKeeps

\* A good answer is recorded, an error ends the operation.
LEMMA AnswerStep == ManagedInvariant /\ Answer => ManagedInvariant'
<1> SUFFICES ASSUME ManagedInvariant, Answer PROVE ManagedInvariant'
  OBVIOUS
<1> DEFINE go == IF P.kind = "upgrade" THEN "ready" ELSE "finish"
           r == [ses.rec EXCEPT !.phase = "verifying"]
           next == [ses EXCEPT !.pc = go]
           s == [next EXCEPT !.rec = r]
<1>1. /\ ses.pc = "answer" /\ Quiet /\ Outside /\ UNCHANGED claimed /\ claimed
      /\ answer[ses.rec.current] # "none"
  BY RunnerFacts DEF Answer, Doing
<1>2. /\ ses.mutated /\ ~ses.behind /\ record = ses.rec /\ record.op = ses.plan
      /\ record.op # 0 /\ ses \in SessionSet /\ record \in RecordSet
  BY <1>1, OperatingFacts, RunnerFacts DEF Operating
<1>3. \A t \in Operated : ~proc[t].heard
  BY <1>1, <1>2, Unheard
<1>4. CASE Fail /\ UNCHANGED faults
  BY <1>1, <1>3, <1>4, FailQuietly DEF Working
<1>5. CASE Good(answer[ses.rec.current]) /\ Save(r, next)
  <2>1. IsComplete(marker[record.current], record)
    BY <1>1, <1>2, <1>5, RunnerFacts DEF AnswerOK, Good
  <2>2. record.current # 0
    BY <1>1, RunnerFacts DEF SessionOK, AtWork
  <2>3. /\ r \in RecordSet /\ r.phase = "verifying" /\ r.op = record.op
        /\ r.current = record.current /\ r.done = record.done
        /\ r.enrolled = record.enrolled
    BY <1>2 DEF RecordSet, Phases
  <2> HIDE DEF r
  <2>4. /\ next \in SessionSet /\ next.pc \in {"ready", "finish"}
        /\ Alike(next, ses)
    <3>1. go \in {"ready", "finish"} /\ go \in SessionPc
      BY DEF SessionPc
    <3> HIDE DEF go
    <3> QED
      BY <1>2, <3>1, GoesTo
  <2> HIDE DEF next
  <2>5. /\ s \in SessionSet /\ s.pc = next.pc /\ s.mutated = next.mutated
        /\ s.behind = next.behind /\ s.plan = next.plan /\ s.rec = r
        /\ s = [next EXCEPT !.rec = r]
    BY <2>3, <2>4 DEF SessionSet
  <2> HIDE DEF s
  <2>6. RecordOK(r, plans)
    BY <1>2, <2>3, RunnerFacts DEF RecordOK, Active
  <2>7. \A t \in Operated : JournalOK(r, t, marker[t], plans)
    BY <2>3, RunnerFacts DEF JournalOK, IsComplete, Active
  <2>8. SessionOK(s, r, plans)
    BY <1>2, <2>2, <2>3, <2>4, <2>5 DEF SessionOK, Operating, Preparing, AtWork,
       Replaced, InGate, Sweeps, Alike
  <2>9. AnswerOK(s, r, marker, answer)
    BY <2>1, <2>3, <2>4, <2>5 DEF AnswerOK, IsComplete
  <2>10. MarginOK(s, r, marker, Serving, plans)
    <3>1. MarginOK(ses, record, marker, Serving, plans)
      BY RunnerFacts
    <3> QED
      BY <2>3, <2>4, <2>5, <3>1 DEF MarginOK, IsComplete
  <2>11. "drift" \notin faults =>
           \A t \in Operated : CountOK(r.op, t, cont[t], plans)
    BY <2>3, RunnerFacts
  <2>12. /\ UNCHANGED <<cont, marker, proc, answer>> /\ owned' \subseteq Operated
         /\ staged' \in [Operated -> SUBSET Nat]
    BY <1>1, RunnerFacts, HostTypes DEF Quiet, hostVars
  <2>13. next.mutated => r.op # 0
    BY <1>2, <2>3
  <2> QED
    BY <1>1, <1>3, <1>5, <2>3, <2>4, <2>5, <2>6, <2>7, <2>8, <2>9, <2>10, <2>11,
       <2>12, <2>13, SaveKeeps
<1> QED
  BY <1>4, <1>5 DEF Answer, Then

\* The worker goes on unheard.
LEMMA AnswerLostStep == ManagedInvariant /\ AnswerLost => ManagedInvariant'
<1> SUFFICES ASSUME ManagedInvariant, AnswerLost PROVE ManagedInvariant'
  OBVIOUS
<1> DEFINE t == ses.rec.current
<1>1. /\ ses.pc = "answer" /\ Fail /\ Fault("lost") /\ Outside
      /\ UNCHANGED <<claimed, cont, owned, staged, marker, answer>>
      /\ proc' = [proc EXCEPT ![t].heard = FALSE]
  BY DEF AnswerLost, Doing
<1>2. record = ses.rec /\ record.current # 0
  BY <1>1, OperatingFacts, RunnerFacts DEF Operating, SessionOK, AtWork
<1>3. t \in Operated
  BY <1>2, CurrentFacts
<1>4. /\ proc \in [Operated -> Procs] /\ HeardOK(ses, record, proc, answer)
      /\ owned \subseteq Operated /\ staged \in [Operated -> SUBSET Nat]
  BY RunnerFacts, HostTypes
<1>5. \A u \in Operated \ {t} : ~proc[u].heard
  BY <1>2, <1>4 DEF HeardOK, Procs
<1> DEFINE p == proc[t]
           q == [p EXCEPT !.heard = FALSE]
<1>6. /\ q \in Procs /\ q.step = proc[t].step /\ q.k = proc[t].k
      /\ ~q.heard
  <2>1. p \in Procs
    BY <1>3, <1>4
  <2> HIDE DEF p
  <2>2. q \in Procs /\ q.step = p.step /\ q.k = p.k
    BY <2>1 DEF Procs
  <2>3. ~q.heard
    BY <2>1, Zenon DEF Procs
  <2> QED
    BY <2>2, <2>3 DEF p
<1>7. proc' = [proc EXCEPT ![t] = q]
  BY <1>1
<1> HIDE DEF q, t
<1>8. /\ proc' \in [Operated -> Procs]
      /\ \A u \in Operated : /\ proc'[u].step = proc[u].step
                             /\ proc'[u].k = proc[u].k /\ ~proc'[u].heard
  BY <1>3, <1>4, <1>5, <1>6, <1>7
<1> QED
  BY <1>1, <1>4, <1>8, NoDrift, FailKeeps DEF Working

\* The replaced target serves again, or the operation ends.
LEMMA ReadyStep == ManagedInvariant /\ Ready => ManagedInvariant'
<1> SUFFICES ASSUME ManagedInvariant, Ready PROVE ManagedInvariant'
  OBVIOUS
<1>1. /\ ses.pc = "ready" /\ Quiet /\ Outside /\ claimed
      /\ UNCHANGED <<claimed, record, faults>>
      /\ \A t \in Operated : ~proc[t].heard
  BY RunnerFacts, Unheard DEF Ready, Doing
<1>2. CASE ses' = Then("interrupt")
  BY <1>1, <1>2, FailQuietly DEF Fail, Working
<1>3. CASE ses' = Gate(ses, "after")
  <2> DEFINE s == Gate(ses, "after")
  <2>1. /\ s \in SessionSet /\ s.pc = "first" /\ s.gate = "after"
        /\ Alike(s, ses)
    BY RunnerFacts, GateType DEF Gates
  <2>2. ses' = s
    BY <1>3
  <2> HIDE DEF s
  <2>3. SessionOK(s, record, plans)
    BY <1>1, <2>1, RunnerFacts DEF SessionOK, Operating, Preparing, AtWork,
       Replaced, InGate, Sweeps, Alike
  <2>4. AnswerOK(s, record, marker, answer)
    BY <1>1, <2>1, RunnerFacts DEF AnswerOK, Replaced, InGate
  <2>5. MarginOK(s, record, marker, Serving, plans)
    <3>1. MarginOK(ses, record, marker, Serving, plans)
      BY RunnerFacts
    <3> QED
      BY <2>1, <3>1 DEF MarginOK
  <2> QED
    BY <1>1, <2>1, <2>2, <2>3, <2>4, <2>5, MovesTo
<1> QED
  BY <1>2, <1>3 DEF Ready

\* The target is done, and its marker is complete.
LEMMA FinishStep == ManagedInvariant /\ Finish => ManagedInvariant'
<1> SUFFICES ASSUME ManagedInvariant, Finish PROVE ManagedInvariant'
  OBVIOUS
<1> DEFINE r == Finished(ses.rec)
           next == [ses EXCEPT !.pc = "stage"]
           s == [next EXCEPT !.rec = r]
           c == record.current
<1>1. /\ ses.pc = "finish" /\ Quiet /\ Outside /\ UNCHANGED claimed /\ claimed
      /\ Save(r, next) /\ \A t \in Operated : ~proc[t].heard
  BY RunnerFacts, Unheard DEF Finish, Doing, Then
<1>2. /\ ses.mutated /\ ~ses.behind /\ record = ses.rec /\ record.op = ses.plan
      /\ record.op # 0 /\ ses \in SessionSet /\ record \in RecordSet
  BY <1>1, OperatingFacts, RunnerFacts DEF Operating
<1>3. c # 0 /\ IsComplete(marker[c], record)
  BY <1>1, RunnerFacts DEF SessionOK, AnswerOK, AtWork, Replaced
<1>4. c \in Operated /\ c \in Targets /\ record.phase \in Active
  BY <1>3, CurrentFacts, OperatedTargets
<1>5. /\ r \in RecordSet /\ r.phase = record.phase /\ r.op = record.op
      /\ r.current = 0 /\ r.done = record.done \cup {c}
      /\ r.enrolled = record.enrolled
  BY <1>2, <1>4 DEF RecordSet, Finished
<1> HIDE DEF r
<1>6. next \in SessionSet /\ next.pc = "stage" /\ Alike(next, ses)
  BY <1>2, GoesTo DEF SessionPc
<1> HIDE DEF next
<1>7. /\ s \in SessionSet /\ s.pc = "stage" /\ s.mutated = next.mutated
      /\ s.behind = next.behind /\ s.plan = next.plan /\ s.rec = r
      /\ s = [next EXCEPT !.rec = r]
  BY <1>5, <1>6 DEF SessionSet
<1> HIDE DEF s
<1>8. RecordOK(r, plans)
  BY <1>2, <1>4, <1>5, RunnerFacts DEF RecordOK, Active
<1>9. \A t \in Operated : JournalOK(r, t, marker[t], plans)
  <2> SUFFICES ASSUME NEW t \in Operated PROVE JournalOK(r, t, marker[t], plans)
    OBVIOUS
  <2>1. JournalOK(record, t, marker[t], plans)
    BY RunnerFacts
  <2>2. marker[t].phase # "applying"
    BY <1>3, <2>1 DEF JournalOK, IsComplete
  <2> QED
    BY <1>3, <1>5, <2>1, <2>2 DEF JournalOK, IsComplete
<1>10. SessionOK(s, r, plans)
  BY <1>2, <1>5, <1>6, <1>7 DEF SessionOK, Operating, Preparing, AtWork,
     Replaced, InGate, Sweeps, Alike
<1>11. AnswerOK(s, r, marker, answer) /\ MarginOK(s, r, marker, Serving, plans)
  BY <1>5, <1>7 DEF AnswerOK, MarginOK, Replaced, InGate, Sweeps
<1>12. "drift" \notin faults =>
         \A t \in Operated : CountOK(r.op, t, cont[t], plans)
  BY <1>5, RunnerFacts
<1>13. /\ UNCHANGED <<cont, marker, proc, answer>> /\ owned' \subseteq Operated
       /\ staged' \in [Operated -> SUBSET Nat]
  BY <1>1, RunnerFacts, HostTypes DEF Quiet, hostVars
<1>14. next.mutated => r.op # 0
  BY <1>2, <1>5
<1> QED
  BY <1>1, <1>5, <1>6, <1>7, <1>8, <1>9, <1>10, <1>11, <1>12, <1>13, <1>14,
     SaveKeeps

\* Every target is done.
LEMMA CompletedStep == ManagedInvariant /\ Completed => ManagedInvariant'
<1> SUFFICES ASSUME ManagedInvariant, Completed PROVE ManagedInvariant'
  OBVIOUS
<1> DEFINE r == [ses.rec EXCEPT !.phase = "complete"]
           next == [ses EXCEPT !.pc = "release"]
           s == [next EXCEPT !.rec = r]
<1>1. /\ ses.pc = "complete" /\ Quiet /\ Outside /\ UNCHANGED claimed /\ claimed
      /\ Save(r, next) /\ \A t \in Operated : ~proc[t].heard
  BY RunnerFacts, Unheard DEF Completed, Doing, Then
<1>2. /\ ses.mutated /\ ~ses.behind /\ record = ses.rec /\ record.op = ses.plan
      /\ record.op # 0 /\ ses \in SessionSet /\ record \in RecordSet
      /\ plans[record.op].sel \subseteq Operated
  BY <1>1, OperatingFacts, RunnerFacts DEF Operating, P
<1>3. plans[record.op].sel \subseteq record.done
  BY <1>1, <1>2, RunnerFacts DEF SessionOK
<1>4. record.current = 0 /\ record.done = Targets
  BY <1>2, <1>3, CurrentFacts, RunnerFacts DEF RecordOK, RecordSet
<1>5. /\ r \in RecordSet /\ r.phase = "complete" /\ r.op = record.op
      /\ r.current = record.current /\ r.done = record.done
      /\ r.enrolled = record.enrolled
  BY <1>2 DEF RecordSet, Phases
<1> HIDE DEF r
<1>6. next \in SessionSet /\ next.pc = "release" /\ Alike(next, ses)
  BY <1>2, GoesTo DEF SessionPc
<1> HIDE DEF next
<1>7. /\ s \in SessionSet /\ s.pc = "release"
      /\ s = [next EXCEPT !.rec = r]
  BY <1>5, <1>6 DEF SessionSet
<1> HIDE DEF s
<1>8. RecordOK(r, plans)
  BY <1>2, <1>4, <1>5, RunnerFacts DEF RecordOK, Active
<1>9. \A t \in Operated : JournalOK(r, t, marker[t], plans)
  <2> SUFFICES ASSUME NEW t \in Operated PROVE JournalOK(r, t, marker[t], plans)
    OBVIOUS
  <2>1. JournalOK(record, t, marker[t], plans) /\ t # 0
    BY RunnerFacts, OperatedTargets
  <2>2. marker[t].phase # "applying"
    BY <1>4, <2>1 DEF JournalOK
  <2> QED
    BY <1>5, <2>1, <2>2 DEF JournalOK, IsComplete
<1>10. SessionOK(s, r, plans)
  BY <1>7 DEF SessionOK, Operating, Preparing, AtWork, Replaced, InGate, Sweeps
<1>11. AnswerOK(s, r, marker, answer) /\ MarginOK(s, r, marker, Serving, plans)
  BY <1>4, <1>5, <1>7 DEF AnswerOK, MarginOK, Replaced, InGate, Sweeps
<1>12. "drift" \notin faults =>
         \A t \in Operated : CountOK(r.op, t, cont[t], plans)
  BY <1>5, RunnerFacts
<1>13. /\ UNCHANGED <<cont, marker, proc, answer>> /\ owned' \subseteq Operated
       /\ staged' \in [Operated -> SUBSET Nat]
  BY <1>1, RunnerFacts, HostTypes DEF Quiet, hostVars
<1>14. next.mutated => r.op # 0
  BY <1>2, <1>5
<1> QED
  BY <1>1, <1>5, <1>6, <1>7, <1>8, <1>9, <1>10, <1>11, <1>12, <1>13, <1>14,
     SaveKeeps

\* A deadline ends the operation.
LEMMA TimedOutStep == ManagedInvariant /\ TimedOut => ManagedInvariant'
<1> SUFFICES ASSUME ManagedInvariant, TimedOut PROVE ManagedInvariant'
  OBVIOUS
<1>1. /\ ses.pc \in {"ready", "first", "second", "extend"} /\ Fault("lost")
      /\ Fail /\ Quiet /\ Outside /\ UNCHANGED claimed
  BY DEF TimedOut
<1> QED
  BY <1>1, Unheard, NoDrift, FailQuietly DEF Working, Sweeps

\* The runner dies, and its claim stays.
LEMMA CrashStep == ManagedInvariant /\ Crash => ManagedInvariant'
<1> SUFFICES ASSUME ManagedInvariant, Crash PROVE ManagedInvariant'
  OBVIOUS
<1>1. /\ ses' = NoSession /\ Outside /\ Fault("crash")
      /\ proc' = [t \in Operated |-> [proc[t] EXCEPT !.heard = FALSE]]
      /\ UNCHANGED <<record, claimed, cont, owned, staged, marker, answer>>
  BY DEF Crash
<1>2. /\ proc \in [Operated -> Procs] /\ owned \subseteq Operated
      /\ staged \in [Operated -> SUBSET Nat] /\ record \in RecordSet
      /\ claimed \in BOOLEAN
  BY RunnerFacts, HostTypes
<1>3. ASSUME NEW t \in Operated
      PROVE  /\ proc'[t] \in Procs /\ proc'[t].step = proc[t].step
             /\ proc'[t].k = proc[t].k
  BY <1>1, <1>2 DEF Procs
<1>4. ASSUME NEW t \in Operated PROVE ~proc'[t].heard
  <2>1. proc'[t] = [proc[t] EXCEPT !.heard = FALSE] /\ proc[t] \in Procs
    BY <1>1, <1>2
  <2> QED
    BY <2>1, Zenon DEF Procs
<1>5. proc' \in [Operated -> Procs] /\ HeardOK(NoSession, record, proc', answer)
  BY <1>1, <1>3, <1>4 DEF HeardOK
<1>6. NoSession.pc = "idle"
  BY DEF NoSession
<1>7. SessionOK(NoSession, record, plans)
  BY <1>6 DEF SessionOK, Operating, Preparing, AtWork, Replaced, InGate, Sweeps
<1>8. /\ AnswerOK(NoSession, record, marker, answer)
      /\ MarginOK(NoSession, record, marker, Serving, plans)
  <2>1. MarginOK(ses, record, marker, Serving, plans) /\ NoSession.pc \in Away
    BY <1>6, RunnerFacts DEF Away
  <2> QED
    BY <2>1, AwayOK
<1>9. /\ Serving' = Serving /\ UNCHANGED <<imports, plans, cond, since>>
      /\ since' \subseteq Targets /\ claimed' \in BOOLEAN
  BY <1>1, RunnerFacts DEF Serving, Healthy, Outside
<1>10. "drift" \in faults <=> "drift" \in faults'
  BY <1>1, NoDrift
<1> QED
  BY <1>1, <1>2, <1>3, <1>5, <1>6, <1>7, <1>8, <1>9, <1>10, NoSessionType,
     RunnerFacts, SessionMoves

-----------------------------------------------------------------------------
(* The gates.                                                               *)

\* In a gate the current target, if there is one, is complete.
LEMMA Settled ==
  ASSUME ManagedInvariant, ses.pc \in Sweeps, record.current # 0
  PROVE  /\ IsComplete(marker[record.current], record) /\ ses.gate = "after"
         /\ \A t \in Operated : marker[t].phase # "applying"
<1>1. ses.gate \in Gates \ {"none"} /\ SessionOK(ses, record, plans)
  BY RunnerFacts DEF SessionOK, SessionSet
<1>2. /\ record.phase \in Active
      /\ record.current \in plans[record.op].sel \ record.done
  BY CurrentFacts
<1>3. ses.gate # "final"
  <2>1. SUFFICES ASSUME ses.gate = "final" PROVE FALSE
    OBVIOUS
  <2>2. plans[ses.plan].sel \subseteq record.done /\ record.op = ses.plan
    BY <1>1, <2>1 DEF SessionOK, Operating, InGate
  <2> QED
    BY <1>2, <2>2
<1>4. ses.gate = "after"
  BY <1>1, <1>2, <1>3 DEF SessionOK, Preparing, InGate, Gates, Active
<1>5. IsComplete(marker[record.current], record)
  BY <1>4, RunnerFacts DEF AnswerOK, Replaced, InGate
<1>6. \A t \in Operated : marker[t].phase # "applying"
  BY <1>5, RunnerFacts DEF JournalOK, IsComplete
<1> QED
  BY <1>4, <1>5, <1>6

\* Another sweep of the same gate.
LEMMA SameGate ==
  ASSUME NEW s, NEW z, NEW r, NEW M, NEW A, NEW ps,
         s.pc \in Sweeps, z.pc \in Sweeps, z.gate = s.gate,
         z.rec = s.rec, z.plan = s.plan, z.mutated = s.mutated,
         z.behind = s.behind, SessionOK(s, r, ps), AnswerOK(s, r, M, A)
  PROVE  SessionOK(z, r, ps) /\ AnswerOK(z, r, M, A)
<1>1. /\ Operating(z) <=> Operating(s)
      /\ Preparing(z) <=> Preparing(s)
      /\ Replaced(z) <=> Replaced(s)
      /\ AtWork(z) <=> AtWork(s)
      /\ \A g : InGate(z, g) <=> InGate(s, g)
      /\ z.pc \notin {"enroll", "interrupt", "mark", "complete", "answer"}
      /\ s.pc \notin {"enroll", "interrupt", "mark", "complete", "answer"}
  BY DEF Operating, Preparing, Replaced, AtWork, InGate, Sweeps
<1> QED
  BY <1>1 DEF SessionOK, AnswerOK

\* The first observation of the fleet.
LEMMA FirstSweepStep == ManagedInvariant /\ FirstSweep => ManagedInvariant'
<1> SUFFICES ASSUME ManagedInvariant, FirstSweep PROVE ManagedInvariant'
  OBVIOUS
<1> DEFINE H == {v \in Targets : Healthy(v)}
           s == [ses EXCEPT !.pc = "second", !.first = H]
<1>1. /\ ses.pc = "first" /\ ses' = s /\ Quiet /\ Outside
      /\ UNCHANGED <<record, claimed, faults>> /\ claimed
      /\ \A t \in Operated : ~proc[t].heard
  BY RunnerFacts, Unheard DEF FirstSweep, Doing
<1>2. H \subseteq Targets
  OBVIOUS
<1> HIDE DEF H
<1>3. /\ s \in SessionSet /\ s.pc = "second" /\ s.gate = ses.gate
      /\ s.rec = ses.rec /\ s.plan = ses.plan /\ s.mutated = ses.mutated
      /\ s.behind = ses.behind
  BY <1>2, RunnerFacts DEF SessionSet, SessionPc
<1> HIDE DEF s
<1>4. SessionOK(s, record, plans) /\ AnswerOK(s, record, marker, answer)
  BY <1>1, <1>3, RunnerFacts, SameGate DEF Sweeps
<1>5. MarginOK(s, record, marker, Serving, plans)
  <2>1. MarginOK(ses, record, marker, Serving, plans)
    BY RunnerFacts
  <2> QED
    BY <1>3, <2>1 DEF MarginOK
<1> QED
  BY <1>1, <1>3, <1>4, <1>5, MovesTo

\* The verdict of a gate on the samples z of the session.
LEMMA VerdictIs ==
  ASSUME NEW z \in SessionSet, z.gate # "none"
  PROVE  /\ Verdict(z) \in SessionSet
         /\ Verdict(z).rec = z.rec /\ Verdict(z).plan = z.plan
         /\ Verdict(z).mutated = z.mutated /\ Verdict(z).behind = z.behind
         /\ z.gate = "begin" => Verdict(z).pc \in {"intend", "interrupt"}
         /\ z.gate = "replay" => Verdict(z).pc = "release"
         /\ z.gate = "next" =>
              \/ Verdict(z).pc = "interrupt"
              \/ Verdict(z).pc = "mark" /\ CanWithdraw(P, Upcoming, z.second)
         /\ z.gate = "after" =>
              \/ Verdict(z).pc = "first" /\ Verdict(z).gate = "after"
              \/ Verdict(z).pc \in {"interrupt", "finish"}
         /\ z.gate = "final" =>
              \/ Verdict(z).pc = "first" /\ Verdict(z).gate = "final"
              \/ Verdict(z).pc \in {"interrupt", "complete"}
<1> DEFINE healthy == P.sel \subseteq (z.first \cap z.second) \ z.lag
           sound == P.sel \subseteq z.sound
           gate == IF z.gate \in {"after", "final"} /\ ~healthy
                   THEN z.gate ELSE "none"
           pc == CASE z.gate = "begin" ->
                        IF healthy THEN "intend" ELSE "interrupt"
                   [] z.gate = "replay" -> "release"
                   [] z.gate = "next" ->
                        IF healthy /\ CanWithdraw(P, Upcoming, z.second)
                        THEN "mark" ELSE "interrupt"
                   [] OTHER ->
                        IF ~healthy THEN "first"
                        ELSE IF ~sound THEN "interrupt"
                        ELSE IF z.gate = "after" THEN "finish"
                                                 ELSE "complete"
           v == [z EXCEPT !.first = {}, !.second = {}, !.lag = {}, !.sound = {},
                          !.extra = 0, !.gate = gate, !.pc = pc]
<1>1. Verdict(z) = v
  BY DEF Verdict
<1>2. z.gate \in {"begin", "replay", "next", "after", "final"}
  BY DEF SessionSet, Gates
<1> HIDE DEF healthy, sound
<1>3. /\ z.gate = "begin" => pc \in {"intend", "interrupt"}
      /\ z.gate = "replay" => pc = "release"
      /\ z.gate = "next" =>
           \/ pc = "interrupt"
           \/ pc = "mark" /\ CanWithdraw(P, Upcoming, z.second)
      /\ z.gate = "after" => \/ pc = "first" /\ gate = "after"
                             \/ pc \in {"interrupt", "finish"}
      /\ z.gate = "final" => \/ pc = "first" /\ gate = "final"
                             \/ pc \in {"interrupt", "complete"}
  BY <1>2
<1>4. gate \in Gates /\ pc \in SessionPc
  BY <1>2, <1>3 DEF Gates, SessionPc
<1> HIDE DEF gate, pc
<1>5. /\ v \in SessionSet /\ v.gate = gate /\ v.pc = pc /\ v.rec = z.rec
      /\ v.plan = z.plan /\ v.mutated = z.mutated /\ v.behind = z.behind
  BY <1>4 DEF SessionSet
<1> HIDE DEF v
<1> QED
  BY <1>1, <1>3, <1>5

\* canWithdrawSelected is the margin, of those that were seen.
LEMMA WithdrawMargin ==
  ASSUME NEW p, NEW t, NEW seen \in SUBSET Targets, CanWithdraw(p, t, seen)
  PROVE  Margin(p, t, seen)
<1> DEFINE a == Voting(seen \ {t})
           v == Voting(Targets)
<1>1. a \in Nat /\ v \in Nat
  <2>1. seen \ {t} \in SUBSET Targets /\ Targets \in SUBSET Targets
    OBVIOUS
  <2> QED
    BY <2>1, VotingGrows
<1>2. p.scope \cap Consensus # {} => a > (2 * v) \div 3
  BY DEF CanWithdraw
<1> HIDE DEF a, v
<1>3. p.scope \cap Consensus # {} => 3 * a > 2 * v
  BY <1>1, <1>2
<1> QED
  BY <1>3 DEF Margin, a, v

\* The end of a sweep, with the samples z of targets that serve still.
LEMMA JudgedKeeps ==
  ASSUME ManagedInvariant, ses.pc \in Sweeps, NEW z \in SessionSet,
         z.pc \in Sweeps, z.gate = ses.gate, z.rec = ses.rec,
         z.plan = ses.plan, z.mutated = ses.mutated, z.behind = ses.behind,
         NEW more, Judged(z, more), z.second \subseteq Serving',
         Quiet, UNCHANGED <<record, claimed, faults, imports, plans, cond>>,
         since' \subseteq Targets
  PROVE  ManagedInvariant'
<1> DEFINE v == Verdict(z)
           x == [z EXCEPT !.pc = "extend"]
<1>1. /\ claimed /\ claimed' = claimed /\ z.gate # "none"
      /\ \A t \in Operated : ~proc[t].heard
      /\ UNCHANGED <<cont, owned, staged, marker, proc, answer>>
  BY RunnerFacts, Unheard DEF SessionOK, Sweeps, Quiet, hostVars
<1>2. /\ owned' \subseteq Operated /\ staged' \in [Operated -> SUBSET Nat]
      /\ proc' \in [Operated -> Procs] /\ claimed' \in BOOLEAN
      /\ Serving' \subseteq Targets
  BY <1>1, RunnerFacts, HostTypes, ServingType
<1>3. ASSUME NEW s \in SessionSet, ses' = s, SessionOK(s, record, plans),
             AnswerOK(s, record, marker, answer),
             MarginOK(s, record, marker, Serving', plans)
      PROVE  ManagedInvariant'
  <2>1. HeardOK(s, record, proc', answer)
    BY <1>1 DEF HeardOK
  <2> QED
    BY <1>1, <1>2, <1>3, <2>1, RunnerFacts, SessionMoves
<1>4. record.current # 0 => IsComplete(marker[record.current], record)
  BY Settled
<1>5. SessionOK(z, record, plans) /\ AnswerOK(z, record, marker, answer)
  BY RunnerFacts, SameGate
<1>6. CASE ses' = x
  <2>1. /\ x \in SessionSet /\ x.pc = "extend" /\ x.gate = z.gate
        /\ x.rec = z.rec /\ x.plan = z.plan /\ x.mutated = z.mutated
        /\ x.behind = z.behind /\ x.second = z.second
    BY DEF SessionSet, SessionPc
  <2> HIDE DEF x
  <2>2. SessionOK(x, record, plans) /\ AnswerOK(x, record, marker, answer)
    BY <1>5, <2>1, SameGate DEF Sweeps
  <2>3. MarginOK(x, record, marker, Serving', plans)
    BY <1>4, <2>1 DEF MarginOK
  <2> QED
    BY <1>3, <1>6, <2>1, <2>2, <2>3
<1>7. CASE ses' = v
  <2>1. /\ v \in SessionSet /\ v.rec = z.rec /\ v.plan = z.plan
        /\ v.mutated = z.mutated /\ v.behind = z.behind
    BY <1>1, VerdictIs
  <2>2. z.gate \in {"begin", "replay", "next", "after", "final"}
    BY <1>1 DEF SessionSet, Gates
  <2>3. CASE z.gate \in {"begin", "replay"}
    <3>1. /\ z.gate = "begin" => v.pc \in {"intend", "interrupt"}
          /\ z.gate = "replay" => v.pc = "release"
      BY <1>1, VerdictIs
    <3> HIDE DEF v
    <3>2. SessionOK(v, record, plans)
      BY <1>5, <2>1, <2>3, <3>1 DEF SessionOK, Operating, Preparing, AtWork,
         Replaced, InGate, Sweeps
    <3>3. /\ AnswerOK(v, record, marker, answer)
          /\ MarginOK(v, record, marker, Serving', plans)
      BY <1>4, <2>3, <3>1 DEF AnswerOK, MarginOK, Replaced, InGate, Sweeps
    <3> QED
      BY <1>3, <1>7, <2>1, <3>2, <3>3 DEF v
  <2>4. CASE z.gate = "next"
    <3>1. \/ v.pc = "interrupt"
          \/ v.pc = "mark" /\ CanWithdraw(P, Upcoming, z.second)
      BY <1>1, <2>4, VerdictIs
    <3>2. InGate(ses, "next") /\ Operating(ses)
      BY <2>4 DEF InGate, Operating
    <3>3. /\ record = ses.rec /\ record.op # 0 /\ P = plans[ses.plan]
          /\ record.current = 0 /\ ~(P.sel \subseteq record.done)
      BY <3>2, OperatingFacts, RunnerFacts DEF SessionOK
    <3>4. Upcoming = Due(ses, plans)
      BY <3>2, <3>3, UpcomingIs
    <3> HIDE DEF v
    <3>5. SessionOK(v, record, plans)
      BY <1>5, <2>1, <2>4, <3>1, <3>3 DEF SessionOK, Operating, Preparing, AtWork,
         Replaced, InGate, Sweeps
    <3>6. AnswerOK(v, record, marker, answer)
      BY <3>1 DEF AnswerOK, Replaced, InGate, Sweeps
    <3>7. ASSUME v.pc = "mark" PROVE Margin(plans[v.plan], Due(v, plans), Serving')
      <4>1. z.second \in SUBSET Targets
        BY DEF SessionSet
      <4>2. Margin(P, Upcoming, z.second)
        BY <3>1, <3>7, <4>1, WithdrawMargin
      <4>3. Margin(P, Upcoming, Serving')
        BY <1>2, <4>1, <4>2, MarginGrows
      <4>4. Due(v, plans) = Due(ses, plans)
        BY <2>1 DEF Due
      <4> QED
        BY <2>1, <3>3, <3>4, <4>3, <4>4
    <3>8. MarginOK(v, record, marker, Serving', plans)
      BY <1>4, <3>1, <3>7 DEF MarginOK
    <3> QED
      BY <1>3, <1>7, <2>1, <3>5, <3>6, <3>8 DEF v
  <2>5. CASE z.gate \in {"after", "final"}
    <3>1. /\ z.gate = "after" => \/ v.pc = "first" /\ v.gate = "after"
                                 \/ v.pc \in {"interrupt", "finish"}
          /\ z.gate = "final" => \/ v.pc = "first" /\ v.gate = "final"
                                 \/ v.pc \in {"interrupt", "complete"}
      BY <1>1, VerdictIs
    <3> HIDE DEF v
    <3>2. SessionOK(v, record, plans)
      BY <1>5, <2>1, <2>5, <3>1 DEF SessionOK, Operating, Preparing, AtWork,
         Replaced, InGate, Sweeps
    <3>3. /\ AnswerOK(v, record, marker, answer)
          /\ MarginOK(v, record, marker, Serving', plans)
      BY <1>4, <1>5, <2>5, <3>1 DEF AnswerOK, MarginOK, Replaced, InGate, Sweeps
    <3> QED
      BY <1>3, <1>7, <2>1, <3>2, <3>3 DEF v
  <2> QED
    BY <2>2, <2>3, <2>4, <2>5
<1> QED
  BY <1>6, <1>7 DEF Judged

\* A sweep of S, in which L lag behind.
LEMMA SampledIs ==
  ASSUME ses \in SessionSet, NEW S \in SUBSET Targets, NEW L \in SUBSET Targets
  PROVE  /\ Sampled(S, L) \in SessionSet /\ Sampled(S, L).pc = ses.pc
         /\ Sampled(S, L).gate = ses.gate
         /\ Sampled(S, L).rec = ses.rec /\ Sampled(S, L).plan = ses.plan
         /\ Sampled(S, L).mutated = ses.mutated
         /\ Sampled(S, L).behind = ses.behind
         /\ Sampled(S, L).second
              = (ses.second \ S) \cup {v \in S : Healthy(v)}
<1> DEFINE H == {v \in S : Healthy(v)}
           D == {t \in S \cap P.sel : Sound(t)}
           z == [ses EXCEPT !.second = (@ \ S) \cup H, !.lag = (@ \ S) \cup L,
                            !.sound = (@ \ S) \cup D]
<1>1. Sampled(S, L) = z
  BY DEF Sampled
<1>2. H \subseteq Targets /\ D \subseteq Targets
  OBVIOUS
<1> HIDE DEF H, D
<1>3. /\ z \in SessionSet /\ z.pc = ses.pc /\ z.gate = ses.gate
      /\ z.rec = ses.rec /\ z.plan = ses.plan /\ z.mutated = ses.mutated
      /\ z.behind = ses.behind /\ z.second = (ses.second \ S) \cup H
  BY <1>2 DEF SessionSet
<1> QED
  BY <1>1, <1>3 DEF H

\* The second: who serves now is known.
LEMMA SecondSweepStep ==
  ASSUME ManagedInvariant, NEW L \in Idling(Targets), SecondSweep(L)
  PROVE  ManagedInvariant'
<1> DEFINE z == Sampled(Targets, L)
<1>1. /\ ses.pc = "second" /\ Quiet /\ UNCHANGED <<record, claimed, faults>>
      /\ Judged(z, TRUE) /\ since' = {} /\ UNCHANGED <<imports, plans, cond>>
  BY DEF SecondSweep, Doing
<1>2. L \in SUBSET Targets /\ ses \in SessionSet
  BY RunnerFacts DEF Idling
<1>3. /\ z \in SessionSet /\ z.pc = ses.pc /\ z.gate = ses.gate
      /\ z.rec = ses.rec /\ z.plan = ses.plan /\ z.mutated = ses.mutated
      /\ z.behind = ses.behind
      /\ z.second = (ses.second \ Targets) \cup {v \in Targets : Healthy(v)}
  BY <1>2, SampledIs
<1> HIDE DEF z
<1>4. ses.second \subseteq Targets
  BY <1>2 DEF SessionSet
<1>5. \A v \in Targets : Healthy(v)' <=> Healthy(v)
  BY <1>1 DEF Healthy, Quiet, hostVars
<1>6. z.second \subseteq Serving'
  BY <1>3, <1>4, <1>5 DEF Serving
<1> QED
  BY <1>1, <1>3, <1>6, JudgedKeeps DEF Sweeps

\* What has not advanced is sampled again.
LEMMA ExtendStep == ManagedInvariant /\ Extend => ManagedInvariant'
<1> SUFFICES ASSUME ManagedInvariant, Extend PROVE ManagedInvariant'
  OBVIOUS
<1> DEFINE S == ses.lag \cap P.sel
<1>1. /\ ses.pc = "extend" /\ Quiet /\ UNCHANGED <<record, claimed, faults>>
      /\ since' = since \ S /\ UNCHANGED <<imports, plans, cond>>
  BY DEF Extend, Doing
<1>2. PICK L \in Idling(S) :
        Judged([Sampled(S, L) EXCEPT !.extra = @ + 1], TRUE)
  BY DEF Extend
<1>3. /\ ses \in SessionSet /\ ses.lag \subseteq Targets
      /\ S \in SUBSET Targets /\ L \in SUBSET Targets
  BY RunnerFacts DEF SessionSet, Idling
<1> HIDE DEF S
<1> DEFINE y == Sampled(S, L)
           z == [y EXCEPT !.extra = @ + 1]
<1>4. /\ y \in SessionSet /\ y.pc = ses.pc /\ y.gate = ses.gate
      /\ y.rec = ses.rec /\ y.plan = ses.plan /\ y.mutated = ses.mutated
      /\ y.behind = ses.behind
      /\ y.second = (ses.second \ S) \cup {v \in S : Healthy(v)}
  BY <1>3, SampledIs
<1> HIDE DEF y
<1>5. /\ z \in SessionSet /\ z.pc = ses.pc /\ z.gate = ses.gate
      /\ z.rec = ses.rec /\ z.plan = ses.plan /\ z.mutated = ses.mutated
      /\ z.behind = ses.behind /\ z.second = y.second
  BY <1>4 DEF SessionSet
<1>6. Judged(z, TRUE)
  BY <1>2 DEF y
<1> HIDE DEF z
<1>7. ses.second \subseteq Serving /\ since \subseteq Targets
  BY <1>1, RunnerFacts DEF MarginOK
<1>8. \A v \in Targets : Healthy(v)' <=> Healthy(v)
  BY <1>1 DEF Healthy, Quiet, hostVars
<1>9. z.second \subseteq Serving' /\ since' \subseteq Targets
  BY <1>1, <1>3, <1>4, <1>5, <1>7, <1>8 DEF Serving
<1> QED
  BY <1>1, <1>5, <1>6, <1>9, JudgedKeeps DEF Sweeps

\* The verdict is on what was sampled.
LEMMA NoTimeStep == ManagedInvariant /\ NoTime => ManagedInvariant'
<1> SUFFICES ASSUME ManagedInvariant, NoTime PROVE ManagedInvariant'
  OBVIOUS
<1>1. /\ ses.pc = "extend" /\ Quiet /\ Outside /\ Judged(ses, FALSE)
      /\ UNCHANGED <<record, claimed, faults>>
  BY DEF NoTime, Doing
<1>2. ses.second \subseteq Serving /\ since \subseteq Targets /\ ses \in SessionSet
  BY <1>1, RunnerFacts DEF MarginOK
<1>3. Serving' = Serving /\ UNCHANGED <<imports, plans, cond, since>>
  BY <1>1 DEF Serving, Healthy, Outside, Quiet, hostVars
<1> QED
  BY <1>1, <1>2, <1>3, JudgedKeeps DEF Sweeps

-----------------------------------------------------------------------------
(* What happens around the runner.                                          *)

\* A change of the chain in which nobody stops serving unseen.
LEMMA ChainKeeps ==
  ASSUME ManagedInvariant, Quiet, UNCHANGED <<record, claimed, ses, imports, plans>>,
         cond' \in [Targets -> Conditions], since' \subseteq Targets,
         "drift" \in faults <=> "drift" \in faults', Serving \subseteq Serving'
  PROVE  ManagedInvariant'
<1>1. /\ UNCHANGED <<cont, owned, staged, marker, proc, answer>>
      /\ owned' \subseteq Operated /\ staged' \in [Operated -> SUBSET Nat]
      /\ proc' \in [Operated -> Procs]
  BY RunnerFacts, HostTypes DEF Quiet, hostVars
<1>2. /\ ses' = ses /\ record' = record /\ claimed' = claimed
      /\ MarginOK(ses, record, marker, Serving, plans)
  BY RunnerFacts
<1>3. MarginOK(ses, record, marker, Serving', plans)
  BY <1>2, ServingType, MarginOKGrows
<1> QED
  BY <1>1, <1>2, <1>3, RunnerFacts, RunMoves

\* A failure counts as seen only in the next sweep.
LEMMA NodeFailsStep ==
  ASSUME ManagedInvariant, NEW v \in Targets, NodeFails(v)
  PROVE  ManagedInvariant'
<1>1. /\ Quiet /\ UNCHANGED <<record, claimed, ses, imports, plans>>
      /\ cond' = [cond EXCEPT ![v] = "down"] /\ since' = since \cup {v}
      /\ UNCHANGED cont
  BY DEF NodeFails, Quiet, hostVars
<1>2. cond \in [Targets -> Conditions] /\ since \subseteq Targets
  BY RunnerFacts DEF RunTypes
<1>3. cond' \in [Targets -> Conditions] /\ since' \subseteq Targets
  BY <1>1, <1>2 DEF Conditions
<1>4. Serving \subseteq Serving'
  BY <1>1, <1>2 DEF Serving, Healthy
<1> QED
  BY <1>1, <1>3, <1>4, NoDrift, ChainKeeps DEF NodeFails

\* A validator that is down is banned.
LEMMA BannedStep ==
  ASSUME ManagedInvariant, NEW t \in Operated, Banned(t)
  PROVE  ManagedInvariant'
<1>1. /\ Quiet /\ UNCHANGED <<record, claimed, ses, imports, plans, since, cont>>
      /\ cond[t] = "down" /\ cond' = [cond EXCEPT ![t] = "banned"]
  BY DEF Banned, Quiet, hostVars
<1>2. cond \in [Targets -> Conditions] /\ since \subseteq Targets
  BY RunnerFacts DEF RunTypes
<1>3. cond' \in [Targets -> Conditions] /\ since' \subseteq Targets
  BY <1>1, <1>2 DEF Conditions
<1>4. Serving \subseteq Serving'
  BY <1>1, <1>2 DEF Serving, Healthy
<1> QED
  BY <1>1, <1>3, <1>4, NoDrift, ChainKeeps DEF Banned

\* A node catches up.
LEMMA HealsStep ==
  ASSUME ManagedInvariant, NEW v \in Targets, Heals(v)
  PROVE  ManagedInvariant'
<1>1. /\ Quiet /\ cond' = [cond EXCEPT ![v] = "ok"]
      /\ UNCHANGED <<record, claimed, ses, imports, plans, since, faults, cont>>
  BY DEF Heals, Quiet, hostVars
<1>2. cond \in [Targets -> Conditions] /\ since \subseteq Targets
  BY RunnerFacts DEF RunTypes
<1>3. cond' \in [Targets -> Conditions] /\ since' \subseteq Targets
  BY <1>1, <1>2 DEF Conditions
<1>4. Serving \subseteq Serving'
  BY <1>1, <1>2 DEF Serving, Healthy
<1> QED
  BY <1>1, <1>3, <1>4, ChainKeeps

\* A snapshot is older than what is to come.
LEMMA ImportStep == ManagedInvariant /\ Import => ManagedInvariant'
<1> SUFFICES ASSUME ManagedInvariant, Import PROVE ManagedInvariant'
  OBVIOUS
<1>1. /\ imports' = Append(imports, cont)
      /\ UNCHANGED <<cont, owned, staged, marker, proc, answer>>
      /\ UNCHANGED <<record, claimed, ses, plans, cond, since, faults>>
  BY DEF Import, Quiet, hostVars
<1>2. HostTypeOK' /\ cont \in Snapshots
  BY <1>1, RunnerFacts, HostTypes, HostTypesNext DEF Snapshots
<1>3. RunTypes'
  BY <1>1, <1>2, RunnerFacts DEF RunTypes
<1>4. PlansOK'
  <2>1. \A t \in Operated : Older(cont[t], cont[t])
    BY <1>2, OlderSelf DEF Snapshots
  <2>2. ASSUME NEW i \in DOMAIN imports'
        PROVE  \A t \in Operated : Older(imports'[i][t], cont[t])
    <3>1. /\ imports \in Seq(Snapshots)
          /\ \A j \in DOMAIN imports : \A t \in Operated :
               Older(imports[j][t], cont[t])
      BY RunnerFacts DEF RunTypes, PlansOK
    <3>2. \/ i \in DOMAIN imports /\ imports'[i] = imports[i]
          \/ imports'[i] = cont
      BY <1>1, <2>2, <3>1
    <3> QED
      BY <2>1, <3>1, <3>2
  <2> QED
    BY <1>1, <2>2, RunnerFacts DEF PlansOK
<1>5. RecordOK(record, plans)' /\ HostsOK' /\ OrderOK' /\ RunnerOK'
  <2>1. Serving' = Serving
    BY <1>1 DEF Serving, Healthy
  <2> QED
    BY <1>1, <2>1 DEF ManagedInvariant, HostsOK, OrderOK, RunnerOK
<1> QED
  BY <1>2, <1>3, <1>4, <1>5 DEF ManagedInvariant

\* A new plan changes nothing for those that there were.
LEMMA MakePlanStep ==
  ASSUME ManagedInvariant, NEW i \in DOMAIN imports, MakePlan(i)
  PROVE  ManagedInvariant'
<1> DEFINE n == Len(plans)
           m == Menu[n + 1]
           p == [id |-> n + 1, kind |-> m.kind, scope |-> m.scope,
                 changed |-> m.changed, sel |-> m.sel, base |-> imports[i],
                 prev |-> record.op]
<1>1. /\ plans' = Append(plans, p) /\ n < Len(Menu) /\ ses.pc = "idle"
      /\ UNCHANGED <<cont, owned, staged, marker, proc, answer>>
      /\ UNCHANGED <<record, claimed, ses, imports, cond, since, faults>>
  BY DEF MakePlan, Quiet, hostVars, Doing
<1>2. /\ plans \in Seq(PlanSet) /\ imports \in Seq(Snapshots) /\ n \in Nat
      /\ RunTypes /\ PlansOK /\ RecordOK(record, plans) /\ HostTypeOK
  BY RunnerFacts DEF RunTypes
<1>3. record.op \in Nat /\ (record.op # 0 => record.op \in DOMAIN plans)
      /\ record.op < n + 1
  BY <1>2, CurrentFacts DEF RecordOK, RecordSet
<1>4. m \in Requests /\ m.changed \subseteq m.scope
  BY <1>1, <1>2, ManagedAssumption
<1> HIDE DEF m
<1>5. p \in PlanSet
  BY <1>2, <1>3, <1>4 DEF PlanSet, Requests
<1>6. /\ p.id = n + 1 /\ p.prev = record.op /\ p.changed \subseteq p.scope
      /\ p.base = imports[i]
  BY <1>4
<1> HIDE DEF p
<1>7. /\ \A j \in DOMAIN plans : plans'[j] = plans[j] /\ j < n + 1
      /\ DOMAIN plans' = DOMAIN plans \cup {n + 1} /\ plans'[n + 1] = p
      /\ Len(plans') = n + 1 /\ plans' \in Seq(PlanSet)
      /\ n + 1 \notin DOMAIN plans /\ DOMAIN plans = 1..n
  BY <1>1, <1>2, <1>5
<1> HIDE DEF n
<1>8. HostTypeOK' /\ RunTypes'
  BY <1>1, <1>2, <1>7, HostTypes, HostTypesNext DEF RunTypes
<1>9. PlansOK'
  <2>1. \A t \in Operated : Older(p.base[t], cont[t])
    BY <1>2, <1>6 DEF PlansOK
  <2>2. ASSUME NEW j \in DOMAIN plans'
        PROVE  /\ plans'[j].id = j /\ plans'[j].prev < j
               /\ plans'[j].changed \subseteq plans'[j].scope
               /\ \A t \in Operated : Older(plans'[j].base[t], cont[t])
    <3>1. CASE j \in DOMAIN plans
      BY <1>2, <1>7, <3>1 DEF PlansOK
    <3>2. CASE j = n + 1
      BY <1>3, <1>6, <1>7, <2>1, <3>2
    <3> QED
      BY <1>7, <3>1, <3>2
  <2> QED
    BY <1>1, <1>2, <2>2 DEF PlansOK
<1>10. RecordOK(record, plans)'
  BY <1>1, <1>2, <1>7 DEF RecordOK
<1>11. ASSUME NEW t \in Operated
       PROVE  /\ marker[t].plan \in 0..Len(plans')
              /\ marker[t].plan \in DOMAIN plans \/ marker[t].phase = "none"
              /\ HostOK(t, marker[t], cont[t], proc[t], plans'[marker[t].plan])
              /\ JournalOK(record, t, marker[t], plans')
  <2>1. /\ marker[t].plan \in 0..n /\ JournalOK(record, t, marker[t], plans)
        /\ HostOK(t, marker[t], cont[t], proc[t], plans[marker[t].plan])
    BY DEF ManagedInvariant, HostsOK, n
  <2>2. marker[t].plan \in DOMAIN plans \/ marker[t].phase = "none"
    BY <1>2, <1>7, <2>1 DEF HostOK
  <2>3. HostOK(t, marker[t], cont[t], proc[t], plans'[marker[t].plan])
    <3>1. CASE marker[t].plan \in DOMAIN plans
      BY <1>7, <2>1, <3>1
    <3>2. CASE marker[t].phase = "none"
      <4>1. proc[t].step = "idle"
        BY <2>1, <3>2 DEF HostOK, NoWork
      <4> QED
        BY <2>1, <3>2, <4>1 DEF HostOK, NoWork, MarkerOK, ProcOK, ContOK, Draining
    <3> QED
      BY <2>2, <3>1, <3>2
  <2>4. JournalOK(record, t, marker[t], plans')
    BY <1>3, <1>7, <2>1 DEF JournalOK
  <2> QED
    BY <1>2, <1>7, <2>1, <2>2, <2>3, <2>4
<1>12. HostsOK'
  BY <1>1, <1>11 DEF HostsOK
<1>13. OrderOK'
  <2> SUFFICES ASSUME "drift" \notin faults, NEW t \in Operated
               PROVE  /\ PlaceOK(t, marker[t], cont[t], proc[t],
                                 plans'[marker[t].plan])
                      /\ DrainOK(t, marker[t], cont[t], proc[t],
                                 plans'[marker[t].plan])
                      /\ CountOK(record.op, t, cont[t], plans')
    BY <1>1 DEF OrderOK
  <2>1. /\ PlaceOK(t, marker[t], cont[t], proc[t], plans[marker[t].plan])
        /\ DrainOK(t, marker[t], cont[t], proc[t], plans[marker[t].plan])
        /\ CountOK(record.op, t, cont[t], plans)
        /\ NoWork(marker[t], cont[t], proc[t])
    BY DEF ManagedInvariant, OrderOK, HostsOK, HostOK
  <2>2. CASE marker[t].plan \in DOMAIN plans
    <3>1. plans'[marker[t].plan] = plans[marker[t].plan]
      BY <1>7, <2>2
    <3>2. \A k : Replacements(record.op, t, k, plans')
                   = Replacements(record.op, t, k, plans)
      BY <1>2, <1>3, <1>7 DEF Replacements
    <3> QED
      BY <1>3, <1>7, <2>1, <3>1, <3>2 DEF CountOK
  <2>3. CASE marker[t].phase = "none"
    <3>1. proc[t].step = "idle"
      BY <2>1, <2>3 DEF NoWork
    <3>2. \A k : Replacements(record.op, t, k, plans')
                   = Replacements(record.op, t, k, plans)
      BY <1>2, <1>3, <1>7 DEF Replacements
    <3> QED
      BY <1>3, <1>7, <2>1, <2>3, <3>1, <3>2 DEF CountOK, PlaceOK, DrainOK
  <2> QED
    BY <1>11, <2>2, <2>3
<1>14. RunnerOK'
  <2>1. SessionOK(ses, record, plans')
    BY <1>1 DEF SessionOK, Operating, Preparing, AtWork, Replaced, InGate, Sweeps
  <2>2. MarginOK(ses, record, marker, Serving, plans')
    <3>1. MarginOK(ses, record, marker, Serving, plans)
      BY RunnerFacts
    <3>2. record.current # 0 => plans'[record.op] = plans[record.op]
      BY <1>3, <1>7, CurrentFacts
    <3> QED
      BY <1>1, <3>1, <3>2 DEF MarginOK
  <2>3. Serving' = Serving
    BY <1>1 DEF Serving, Healthy
  <2> QED
    BY <1>1, <2>1, <2>2, <2>3 DEF ManagedInvariant, RunnerOK
<1> QED
  BY <1>8, <1>9, <1>10, <1>12, <1>13, <1>14 DEF ManagedInvariant

-----------------------------------------------------------------------------
(* One container of a host.                                                 *)

\* A value that stays is the one it is replaced by.
LEMMA SameHost ==
  ASSUME HostTypeOK, NEW t \in Operated
  PROVE  /\ cont = [cont EXCEPT ![t] = cont[t]]
         /\ marker = [marker EXCEPT ![t] = marker[t]]
         /\ proc = [proc EXCEPT ![t] = proc[t]]
         /\ answer = [answer EXCEPT ![t] = answer[t]]
  BY HostTypes

\* One container of a host is another one.
LEMMA TouchIs ==
  ASSUME HostTypeOK, NEW t \in Operated, NEW k \in Components,
         NEW c \in Containers, Touch(t, k, c)
  PROVE  \E h \in Hosts :
           /\ cont' = [cont EXCEPT ![t] = h] /\ h[k] = c
           /\ \A j \in Components \ {k} : h[j] = cont[t][j]
<1>1. cont \in [Operated -> Hosts] /\ cont[t] \in Hosts
  BY HostTypes
<1> DEFINE h == [cont[t] EXCEPT ![k] = c]
<1>2. h \in Hosts /\ h[k] = c /\ \A j \in Components \ {k} : h[j] = cont[t][j]
  BY <1>1 DEF Hosts
<1>3. cont' = [cont EXCEPT ![t] = h]
  BY DEF Touch
<1> QED
  BY <1>2, <1>3

\* A container that is stopped.
LEMMA ContainerDown ==
  ASSUME NEW c \in Containers, NEW b, b = [c EXCEPT !.up = FALSE]
  PROVE  /\ b \in Containers /\ b.there = c.there /\ b.id = c.id
         /\ b.img = c.img /\ ~b.up
<1>1. /\ b \in Containers /\ b.there = c.there /\ b.id = c.id
      /\ b.img = c.img
  BY DEF Containers
<1>2. ~b.up
  BY Zenon DEF Containers
<1> QED
  BY <1>1, <1>2

\* Stopping containers disturbs nothing.
LEMMA Stopped ==
  ASSUME NEW t, NEW m \in Markers, NEW h \in Hosts, NEW g \in Hosts, NEW q, NEW p,
         \A j \in Components : /\ g[j].there = h[j].there /\ g[j].id = h[j].id
                               /\ g[j].img = h[j].img /\ (g[j].up => h[j].up),
         HostOK(t, m, h, q, p), m.phase # "none" => p.scope \subseteq Components
  PROVE  /\ HostOK(t, m, g, q, p) /\ Older(h, g)
         /\ PlaceOK(t, m, h, q, p) => PlaceOK(t, m, g, q, p)
         /\ DrainOK(t, m, h, q, p) => DrainOK(t, m, g, q, p)
         /\ \A op, ps : CountOK(op, t, h, ps) => CountOK(op, t, g, ps)
<1>1. HostOK(t, m, g, q, p)
  <2>1. NoWork(m, g, q) /\ MarkerOK(t, m, p) /\ ProcOK(m, q, p)
    BY DEF HostOK, NoWork
  <2>2. \A d \in m.done : d[1] \in Components
    BY DEF Markers
  <2>3. ContOK(t, m, g, p)
    BY <2>2 DEF HostOK, ContOK
  <2> QED
    BY <2>1, <2>3 DEF HostOK
<1>2. Older(h, g)
  BY DEF Older, Hosts, Containers
<1>3. PlaceOK(t, m, h, q, p) => PlaceOK(t, m, g, q, p)
  <2>1. q.step # "idle" => m.phase = "applying"
    BY DEF HostOK, ProcOK
  <2> QED
    BY <2>1 DEF PlaceOK, Passed, InPlace
<1>4. DrainOK(t, m, h, q, p) => DrainOK(t, m, g, q, p)
  <2>1. q.step \in {"drained", "enter", "work", "started"} /\ m.drain =>
          {"drive", "tenderdash"} \subseteq Components
    BY DEF HostOK, ProcOK, MarkerOK
  <2>2. "drive" \in Components => "tenderdash" \in Components
    BY ManagedHostAssumption
  <2>3. m.phase = "applying" /\ InPlace(p, t, h, "drive")
        /\ "drive" \in p.scope => InPlace(p, t, g, "drive")
    BY DEF InPlace
  <2> QED
    BY <2>1, <2>2, <2>3 DEF DrainOK
<1>5. \A op, ps : CountOK(op, t, h, ps) => CountOK(op, t, g, ps)
  BY DEF CountOK
<1> QED
  BY <1>1, <1>2, <1>3, <1>4, <1>5

\* What is known of one host.
LEMMA HostFacts ==
  ASSUME ManagedInvariant, NEW t \in Operated
  PROVE  /\ cont[t] \in Hosts /\ marker[t] \in Markers /\ proc[t] \in Procs
         /\ answer[t] \in Answers /\ marker[t].plan \in 0..Len(plans)
         /\ HostOK(t, marker[t], cont[t], proc[t], plans[marker[t].plan])
         /\ JournalOK(record, t, marker[t], plans)
         /\ "drift" \notin faults =>
              /\ PlaceOK(t, marker[t], cont[t], proc[t], plans[marker[t].plan])
              /\ DrainOK(t, marker[t], cont[t], proc[t], plans[marker[t].plan])
              /\ CountOK(record.op, t, cont[t], plans)
         /\ marker[t].phase # "none" =>
              /\ marker[t].plan \in DOMAIN plans
              /\ plans[marker[t].plan] \in PlanSet
<1>1. /\ cont[t] \in Hosts /\ marker[t] \in Markers /\ proc[t] \in Procs
      /\ answer[t] \in Answers
  BY RunnerFacts, HostTypes
<1>2. /\ marker[t].plan \in 0..Len(plans)
      /\ HostOK(t, marker[t], cont[t], proc[t], plans[marker[t].plan])
      /\ JournalOK(record, t, marker[t], plans)
      /\ "drift" \notin faults =>
              /\ PlaceOK(t, marker[t], cont[t], proc[t], plans[marker[t].plan])
              /\ DrainOK(t, marker[t], cont[t], proc[t], plans[marker[t].plan])
              /\ CountOK(record.op, t, cont[t], plans)
  BY DEF ManagedInvariant, HostsOK, OrderOK
<1>3. plans \in Seq(PlanSet)
  BY RunnerFacts DEF RunTypes
<1>4. marker[t].phase # "none" => marker[t].plan # 0
  BY <1>2 DEF HostOK
<1>5. marker[t].phase # "none" => /\ marker[t].plan \in DOMAIN plans
                                  /\ plans[marker[t].plan] \in PlanSet
  BY <1>2, <1>3, <1>4
<1> QED
  BY <1>1, <1>2, <1>5

\* A workload that is stopped by hand counts as failed.
LEMMA IntendedStopStep ==
  ASSUME ManagedInvariant, NEW t \in Operated, NEW k \in Components,
         IntendedStop(t, k)
  PROVE  ManagedInvariant'
<1> DEFINE c == [cont[t][k] EXCEPT !.up = FALSE]
           p == plans[marker[t].plan]
<1>1. /\ Touch(t, k, c) /\ cond' = [cond EXCEPT ![t] = "down"]
      /\ since' = since \cup {t} /\ ("drift" \in faults <=> "drift" \in faults')
      /\ UNCHANGED <<owned, staged, marker, proc, answer>>
      /\ UNCHANGED <<record, claimed, ses, imports, plans>>
      /\ proc[t].step = "idle" /\ record.phase \notin Active
  BY NoDrift DEF IntendedStop, Free
<1>2. /\ cont[t] \in Hosts /\ cont[t][k] \in Containers /\ HostTypeOK
      /\ HostOK(t, marker[t], cont[t], proc[t], p)
  BY HostFacts, RunnerFacts DEF Hosts
<1>3. /\ c \in Containers /\ c.there = cont[t][k].there /\ c.id = cont[t][k].id
      /\ c.img = cont[t][k].img /\ ~c.up
  BY <1>2, ContainerDown
<1> HIDE DEF c
<1>4. PICK h \in Hosts : /\ cont' = [cont EXCEPT ![t] = h] /\ h[k] = c
                         /\ \A j \in Components \ {k} : h[j] = cont[t][j]
  BY <1>1, <1>2, <1>3, TouchIs
<1>5. \A j \in Components :
        /\ h[j].there = cont[t][j].there /\ h[j].id = cont[t][j].id
        /\ h[j].img = cont[t][j].img /\ (h[j].up => cont[t][j].up)
  BY <1>3, <1>4
<1>6. Becomes(t, h, marker[t], proc[t], answer[t])
  BY <1>1, <1>2, <1>4, SameHost DEF Becomes
<1>7. marker[t].phase # "none" => p.scope \subseteq Components
  BY HostFacts DEF PlanSet
<1>8. /\ HostOK(t, marker[t], h, proc[t], p) /\ Older(cont[t], h)
      /\ PlaceOK(t, marker[t], cont[t], proc[t], p) =>
           PlaceOK(t, marker[t], h, proc[t], p)
      /\ DrainOK(t, marker[t], cont[t], proc[t], p) =>
           DrainOK(t, marker[t], h, proc[t], p)
      /\ \A op, ps : CountOK(op, t, cont[t], ps) => CountOK(op, t, h, ps)
  BY <1>2, <1>5, <1>7, Stopped, HostFacts
<1>9. "drift" \notin faults' =>
        /\ PlaceOK(t, marker[t], h, proc[t], p)
        /\ DrainOK(t, marker[t], h, proc[t], p)
        /\ CountOK(record.op, t, h, plans)
  BY <1>1, <1>8, HostFacts
<1>10. cond' \in [Targets -> Conditions] /\ since' \subseteq Targets
  BY <1>1, RunnerFacts, OperatedTargets DEF RunTypes, Conditions
<1>11. Serving \subseteq Serving'
  <2>1. ASSUME NEW v \in Targets, Healthy(v), v # t PROVE Healthy(v)'
    BY <1>1, <1>4, <2>1, RunnerFacts, HostTypes DEF Healthy, RunTypes
  <2> QED
    BY <1>1, <2>1 DEF Serving
<1>12. MarginOK(ses, record, marker, Serving', plans)
  BY <1>11, RunnerFacts, ServingType, MarginOKGrows
<1>13. UNCHANGED <<record, claimed, imports, plans>> /\ ses' = ses
  BY <1>1
<1>14. /\ marker' = marker /\ proc' = proc /\ answer' = answer
       /\ ("drift" \in faults => "drift" \in faults')
  BY <1>1
<1> QED
  BY <1>6, <1>8, <1>9, <1>10, <1>12, <1>13, <1>14, HostFacts, RunnerFacts,
     HostMoves

\* Who replaces a container breaks the order, and nothing else.
LEMMA DriftStep ==
  ASSUME ManagedInvariant, NEW t \in Operated, NEW k \in Components, Drift(t, k)
  PROVE  ManagedInvariant'
<1>1. PICK img \in {0} \cup {plans[i].id : i \in DOMAIN plans} :
        Touch(t, k, [there |-> TRUE, id |-> cont[t][k].id + 1, img |-> img,
                     up |-> TRUE, run |-> 1])
  BY DEF Drift
<1> DEFINE c == [there |-> TRUE, id |-> cont[t][k].id + 1, img |-> img,
                 up |-> TRUE, run |-> 1]
           p == plans[marker[t].plan]
<1>2. /\ Touch(t, k, c) /\ "drift" \in faults'
      /\ UNCHANGED <<owned, staged, marker, proc, answer>>
      /\ UNCHANGED <<record, claimed, ses, imports, plans, cond, since>>
  BY <1>1 DEF Drift, Outside, Fault
<1>3. /\ cont[t] \in Hosts /\ cont[t][k] \in Containers /\ HostTypeOK
      /\ HostOK(t, marker[t], cont[t], proc[t], p)
  BY HostFacts, RunnerFacts DEF Hosts
<1>4. cont[t][k].id \in Nat
  BY <1>3 DEF Containers
<1>5. img \in Nat
  BY RunnerFacts, PlanType
<1>6. c \in Containers /\ c.id = cont[t][k].id + 1 /\ c.there /\ c.up
  BY <1>4, <1>5 DEF Containers
<1> HIDE DEF c
<1>7. PICK h \in Hosts : /\ cont' = [cont EXCEPT ![t] = h] /\ h[k] = c
                         /\ \A j \in Components \ {k} : h[j] = cont[t][j]
  BY <1>2, <1>3, <1>6, TouchIs
<1>8. Becomes(t, h, marker[t], proc[t], answer[t])
  BY <1>2, <1>3, <1>7, SameHost DEF Becomes
<1>9. Older(cont[t], h)
  BY <1>3, <1>4, <1>6, <1>7 DEF Older, Hosts, Containers
<1>10. HostOK(t, marker[t], h, proc[t], p)
  <2>1. NoWork(marker[t], h, proc[t]) /\ MarkerOK(t, marker[t], p)
        /\ ProcOK(marker[t], proc[t], p)
    BY <1>3, <1>6, <1>7 DEF HostOK, NoWork
  <2>2. \A d \in marker[t].done : d[1] \in Components /\ d[2] \in Nat
    BY HostFacts DEF Markers
  <2>3. ContOK(t, marker[t], h, p)
    <3>1. ASSUME NEW j \in Components, ~h[j].there
          PROVE  h[j] = cont[t][j]
      BY <1>6, <1>7, <3>1
    <3>2. ASSUME NEW d \in marker[t].done, marker[t].phase = "applying"
          PROVE  /\ p.base[t][d[1]].id <= d[2] /\ d[2] <= h[d[1]].id
                 /\ d[2] = h[d[1]].id => h[d[1]].img = Desired(p, t, d[1])
      <4>1. /\ p.base[t][d[1]].id <= d[2] /\ d[2] <= cont[t][d[1]].id
            /\ d[2] = cont[t][d[1]].id => cont[t][d[1]].img = Desired(p, t, d[1])
        BY <1>3, <3>2 DEF HostOK, ContOK
      <4>2. CASE d[1] = k
        BY <1>4, <1>6, <1>7, <2>2, <4>1, <4>2
      <4>3. CASE d[1] # k
        BY <1>7, <2>2, <4>1, <4>3
      <4> QED
        BY <4>2, <4>3
    <3> QED
      BY <1>3, <3>1, <3>2 DEF HostOK, ContOK
  <2> QED
    BY <1>3, <2>1, <2>3 DEF HostOK
<1>11. cond' \in [Targets -> Conditions] /\ since' \subseteq Targets
  BY <1>2, RunnerFacts DEF RunTypes
<1>12. Serving \subseteq Serving'
  <2>1. ASSUME NEW v \in Targets, Healthy(v) PROVE Healthy(v)'
    <3>1. cond'[v] = "ok"
      BY <1>2, <2>1 DEF Healthy
    <3>2. ASSUME v \in Operated, NEW j \in Components
          PROVE  cont'[v][j].there /\ cont'[v][j].up
      <4>1. cont[v][j].there /\ cont[v][j].up
        BY <2>1, <3>2 DEF Healthy
      <4>2. cont'[v][j] = cont[v][j] \/ cont'[v][j] = c
        BY <1>3, <1>7, <3>2, HostTypes
      <4> QED
        BY <1>6, <4>1, <4>2
    <3> QED
      BY <3>1, <3>2 DEF Healthy
  <2> QED
    BY <1>2, <2>1 DEF Serving
<1>13. MarginOK(ses, record, marker, Serving', plans)
  BY <1>12, RunnerFacts, ServingType, MarginOKGrows
<1>14. UNCHANGED <<record, claimed, imports, plans>> /\ ses' = ses
       /\ marker' = marker /\ proc' = proc /\ answer' = answer
  BY <1>2
<1> QED
  BY <1>2, <1>8, <1>9, <1>10, <1>11, <1>13, <1>14, HostFacts, RunnerFacts,
     HostMoves
-----------------------------------------------------------------------------
(* The worker.                                                              *)

\* A worker at work, on a marker that the record names.
LEMMA TurnFacts ==
  ASSUME ManagedInvariant, NEW t \in Operated, ~Free(t)
  PROVE  LET p == plans[marker[t].plan] IN
         /\ marker[t].phase = "applying" /\ marker[t].plan \in DOMAIN plans
         /\ p \in PlanSet /\ p.id = marker[t].plan /\ t \in p.sel
         /\ p.changed \subseteq p.scope /\ p.scope \subseteq Components
         /\ p.base[t] \in Hosts /\ Older(p.base[t], cont[t])
         /\ record.op = marker[t].plan /\ record.current = t
         /\ record.phase \in Active
         /\ proc[t].k \in p.scope \cup {"end"}
         /\ marker[t].drain =>
              {"drive", "tenderdash"} \subseteq Components /\ "drive" \in p.scope
<1>1. /\ HostOK(t, marker[t], cont[t], proc[t], plans[marker[t].plan])
      /\ JournalOK(record, t, marker[t], plans)
  BY HostFacts
<1>2. /\ marker[t].phase = "applying"
      /\ proc[t].k \in plans[marker[t].plan].scope \cup {"end"}
  BY <1>1 DEF Free, HostOK, ProcOK
<1>3. marker[t].plan \in DOMAIN plans
  BY <1>2, HostFacts
<1>4. LET p == plans[marker[t].plan] IN
      /\ p \in PlanSet /\ p.id = marker[t].plan
      /\ p.changed \subseteq p.scope /\ p.scope \subseteq Components
      /\ p.base \in Snapshots
  BY <1>3, RunnerFacts, PlanType
<1>5. /\ plans[marker[t].plan].base[t] \in Hosts
      /\ Older(plans[marker[t].plan].base[t], cont[t])
  BY <1>3, <1>4, RunnerFacts DEF PlansOK, Snapshots
<1>6. /\ t \in plans[marker[t].plan].sel
      /\ marker[t].drain => /\ {"drive", "tenderdash"} \subseteq Components
                            /\ "drive" \in plans[marker[t].plan].scope
  BY <1>1, <1>2 DEF HostOK, MarkerOK
<1>7. /\ record.op = marker[t].plan /\ record.current = t
      /\ record.phase \in Active
  BY <1>1, <1>2 DEF JournalOK
<1> QED
  BY <1>2, <1>3, <1>4, <1>5, <1>6, <1>7

\* A step of a worker, or its end, keeps the invariant if it keeps the host's
\* part: a container is the one that was there or the next one.
LEMMA TurnKeeps ==
  ASSUME ManagedInvariant, NEW t \in Operated, ~Free(t), NEW h \in Hosts,
         NEW m \in Markers, NEW q \in Procs, NEW a \in Answers,
         NEW p, p = plans[marker[t].plan],
         Becomes(t, h, m, q, a),
         UNCHANGED <<record, claimed, ses, imports, plans, since>>,
         cond' \in [Targets -> Conditions],
         \A v \in Targets \ {t} : cond'[v] = cond[v],
         "drift" \in faults <=> "drift" \in faults',
         Older(cont[t], h), m.plan = marker[t].plan,
         m.phase \in {"applying", "complete"},
         HostOK(t, m, h, q, p),
         "drift" \notin faults =>
           /\ PlaceOK(t, m, h, q, p) /\ DrainOK(t, m, h, q, p)
           /\ \A k \in Components :
                \/ h[k].id = cont[t][k].id
                \/ k \in p.changed /\ h[k].id = p.base[t][k].id + 1,
         q.heard => proc[t].heard /\ a = answer[t] /\ q.step # "idle",
         a = "ok" => a = answer[t] \/ m.phase = "complete"
  PROVE  ManagedInvariant'
<1>1. /\ marker[t].phase = "applying" /\ marker[t].plan \in DOMAIN plans
      /\ p \in PlanSet /\ t \in p.sel /\ p.base[t] \in Hosts
      /\ record.op = marker[t].plan /\ record.current = t
      /\ record.phase \in Active /\ HostTypeOK /\ t \notin record.done
      /\ t # 0 /\ record.op # 0
  BY TurnFacts, RunnerFacts, CurrentFacts, OperatedTargets
<1>2. /\ cont'[t] = h /\ marker'[t] = m /\ proc'[t] = q /\ answer'[t] = a
      /\ \A u \in Operated \ {t} :
           /\ cont'[u] = cont[u] /\ marker'[u] = marker[u]
           /\ proc'[u] = proc[u] /\ answer'[u] = answer[u]
  BY <1>1, BecomesAt
<1>3. JournalOK(record, t, m, plans)
  BY <1>1 DEF JournalOK
<1>4. "drift" \notin faults' =>
        /\ PlaceOK(t, m, h, q, p) /\ DrainOK(t, m, h, q, p)
        /\ CountOK(record.op, t, h, plans)
  <2> SUFFICES ASSUME "drift" \notin faults PROVE CountOK(record.op, t, h, plans)
    OBVIOUS
  <2>1. CountOK(record.op, t, cont[t], plans)
    BY HostFacts
  <2> SUFFICES ASSUME NEW k \in Components
               PROVE  h[k].id <= Cardinality(Replacements(record.op, t, k, plans))
    BY <2>1 DEF CountOK
  <2> DEFINE n == Cardinality(Replacements(record.op, t, k, plans))
             b == p.base[t][k].id
  <2>2. \/ h[k].id = cont[t][k].id
        \/ k \in p.changed /\ h[k].id = b + 1
    OBVIOUS
  <2>3. n \in Nat /\ b \in Nat
    BY <1>1, RunnerFacts, ReplacementsFinite DEF Hosts, Containers
  <2>4. k \in p.changed => b < n
    BY <1>1, <2>1 DEF CountOK
  <2>5. cont[t][k].id <= n
    BY <2>1 DEF CountOK
  <2> HIDE DEF n, b
  <2>6. h[k].id <= n
    BY <2>2, <2>3, <2>4, <2>5
  <2> QED
    BY <2>6 DEF n
<1>5. /\ SessionOK(ses, record, plans) /\ AnswerOK(ses, record, marker, answer)
      /\ HeardOK(ses, record, proc, answer) /\ ses \in SessionSet
      /\ MarginOK(ses, record, marker, Serving, plans)
  BY RunnerFacts
<1>6. AnswerOK(ses, record, marker', answer')
  <2>1. ~Replaced(ses) /\ (ses.pc = "answer" => answer[t] # "ok")
    BY <1>1, <1>5 DEF AnswerOK, IsComplete
  <2> QED
    BY <1>1, <1>2, <2>1 DEF AnswerOK, IsComplete
<1>7. HeardOK(ses, record, proc', answer')
  BY <1>1, <1>2, <1>5 DEF HeardOK
<1>8. MarginOK(ses, record, marker', Serving', plans)
  <2>1. Margin(p, t, Serving)
    BY <1>1, <1>5 DEF MarginOK, IsComplete
  <2>2. Serving \ {t} \subseteq Serving'
    BY <1>2 DEF Serving, Healthy
  <2>3. Margin(p, t, Serving')
    BY <2>1, <2>2, ServingType, MarginGrows
  <2>4. ses.pc # "extend"
    BY <1>1, Settled DEF Sweeps
  <2> QED
    BY <1>1, <1>2, <2>3, <2>4 DEF MarginOK
<1>9. since' \subseteq Targets /\ m.plan \in 0..Len(plans)
      /\ ("drift" \in faults => "drift" \in faults')
      /\ (ses.pc # "idle" => claimed) /\ ses' = ses
      /\ UNCHANGED <<record, claimed, imports, plans>>
  BY HostFacts, RunnerFacts
<1> QED
  BY <1>3, <1>4, <1>5, <1>6, <1>7, <1>8, <1>9, HostMoves

\* The end of a worker, as it is.
LEMMA ExitKeeps ==
  ASSUME ManagedInvariant, NEW t \in Operated, ~Free(t), Exit(t, "error"),
         UNCHANGED <<cont, owned, staged, marker>>,
         UNCHANGED <<record, claimed, ses, imports, plans, since>>,
         cond' \in [Targets -> Conditions],
         \A v \in Targets \ {t} : cond'[v] = cond[v],
         "drift" \in faults <=> "drift" \in faults'
  PROVE  ManagedInvariant'
<1> DEFINE p == plans[marker[t].plan]
           a == IF proc[t].heard THEN "error" ELSE answer[t]
<1>1. /\ HostTypeOK /\ cont[t] \in Hosts /\ marker[t] \in Markers
      /\ marker[t].phase = "applying" /\ answer[t] \in Answers
      /\ HostOK(t, marker[t], cont[t], proc[t], p)
      /\ "drift" \notin faults =>
           DrainOK(t, marker[t], cont[t], proc[t], p)
  BY RunnerFacts, TurnFacts, HostFacts
<1>2. Idle \in Procs /\ Idle.step = "idle" /\ ~Idle.heard
  BY DEF Idle, Procs, Steps
<1>3. a \in Answers /\ (a = "ok" => a = answer[t])
  BY <1>1 DEF Answers
<1>4. answer' = [answer EXCEPT ![t] = a]
  BY <1>1, HostTypes DEF Exit
<1> HIDE DEF a
<1>5. Becomes(t, cont[t], marker[t], Idle, a)
  BY <1>1, <1>4, SameHost DEF Becomes, Exit
<1>6. HostOK(t, marker[t], cont[t], Idle, p)
  BY <1>1, <1>2 DEF HostOK, NoWork, ProcOK, Draining
<1>7. "drift" \notin faults =>
        /\ PlaceOK(t, marker[t], cont[t], Idle, p)
        /\ DrainOK(t, marker[t], cont[t], Idle, p)
  BY <1>1, <1>2 DEF PlaceOK, DrainOK
<1>8. Older(cont[t], cont[t])
  BY <1>1, OlderSelf
<1> QED
  BY <1>1, <1>2, <1>3, <1>5, <1>6, <1>7, <1>8, TurnKeeps

\* A worker is killed between two of its effects.
LEMMA KillStep ==
  ASSUME ManagedInvariant, NEW t \in Operated, Kill(t)
  PROVE  ManagedInvariant'
<1>1. /\ ~Free(t) /\ Exit(t, "error") /\ UNCHANGED <<cont, owned, staged, marker>>
      /\ UNCHANGED <<record, claimed, ses, imports, plans, since, cond>>
      /\ ("drift" \in faults <=> "drift" \in faults')
  BY NoDrift DEF Kill, Killed, Outside
<1>2. cond' \in [Targets -> Conditions]
  BY <1>1, RunnerFacts DEF RunTypes
<1> QED
  BY <1>1, <1>2, ExitKeeps
-----------------------------------------------------------------------------
(* The steps of a worker.                                                   *)

\* The rest of such a step.
Beside(t) ==
  /\ UNCHANGED <<record, claimed, ses, imports, plans, since, faults>>
  /\ cond' \in [Targets -> Conditions]
  /\ \A v \in Targets \ {t} : cond'[v] = cond[v]

Like(m, n) == /\ m.plan = n.plan /\ m.phase = n.phase /\ m.done = n.done
              /\ m.drain = n.drain

\* The marker's word about Tenderdash.
LEMMA SetDepIs ==
  ASSUME HostTypeOK, NEW t \in Operated, NEW d \in Dependencies, SetDep(t, d)
  PROVE  \E m \in Markers : /\ marker' = [marker EXCEPT ![t] = m]
                            /\ Like(m, marker[t]) /\ m.dep = d
<1>1. marker \in [Operated -> Markers] /\ marker[t] \in Markers
  BY HostTypes
<1> DEFINE m == [marker[t] EXCEPT !.dep = d]
<1>2. m \in Markers /\ Like(m, marker[t]) /\ m.dep = d
  BY <1>1 DEF Markers, Like
<1>3. marker' = [marker EXCEPT ![t] = m]
  BY DEF SetDep
<1> QED
  BY <1>2, <1>3

\* The process at another step.
LEMMA GoIs ==
  ASSUME HostTypeOK, NEW t \in Operated, NEW step \in Steps, Go(t, step)
  PROVE  \E q \in Procs : /\ proc' = [proc EXCEPT ![t] = q]
                          /\ q.step = step /\ q.k = proc[t].k
                          /\ q.heard = proc[t].heard
<1>1. proc \in [Operated -> Procs] /\ proc[t] \in Procs
  BY HostTypes
<1> DEFINE q == [proc[t] EXCEPT !.step = step]
<1>2. q \in Procs /\ q.step = step /\ q.k = proc[t].k /\ q.heard = proc[t].heard
  BY <1>1 DEF Procs
<1>3. proc' = [proc EXCEPT ![t] = q]
  BY DEF Go
<1> QED
  BY <1>2, <1>3

\* The process at the next component.
LEMMA NextComponentIs ==
  ASSUME HostTypeOK, NEW t \in Operated, NEW p, p.scope \subseteq Components,
         NextComponent(t, p)
  PROVE  \E q \in Procs : /\ proc' = [proc EXCEPT ![t] = q]
                          /\ q.step = "enter" /\ q.k = After(p, proc[t].k)
                          /\ q.heard = proc[t].heard
<1>1. proc \in [Operated -> Procs] /\ proc[t] \in Procs
  BY HostTypes
<1>2. After(p, proc[t].k) \in Components \cup {"end"}
  <2> DEFINE S == {j \in p.scope : Rank[j] > Rank[proc[t].k]}
  <2>1. S \in SUBSET Components /\ After(p, proc[t].k) = First(S)
    BY DEF After
  <2> HIDE DEF S
  <2> QED
    BY <2>1, FirstOf
<1> DEFINE q == [proc[t] EXCEPT !.step = "enter", !.k = After(p, proc[t].k)]
<1>3. /\ q \in Procs /\ q.step = "enter" /\ q.k = After(p, proc[t].k)
      /\ q.heard = proc[t].heard
  BY <1>1, <1>2 DEF Procs, Steps
<1>4. proc' = [proc EXCEPT ![t] = q]
  BY DEF NextComponent
<1> QED
  BY <1>3, <1>4

\* After a component come the ones of higher rank.
LEMMA PassedOn ==
  ASSUME NEW p, p.scope \subseteq Components, NEW k \in p.scope, NEW q, NEW z,
         q.k = k, z.k = After(p, k), z.step # "started"
  PROVE  /\ Passed(z, p) \subseteq Passed(q, p) \cup {k}
         /\ z.k \in p.scope \cup {"end"}
<1> DEFINE S == {j \in p.scope : Rank[j] > Rank[k]}
<1>1. S \in SUBSET Components /\ z.k = First(S) /\ S \subseteq p.scope
  BY DEF After
<1>2. \A j \in p.scope : j \in S <=> Rank[j] > Rank[k]
  OBVIOUS
<1> HIDE DEF S
<1>3. ASSUME NEW j \in Passed(z, p), j # k PROVE j \in Passed(q, p)
  <2>1. j \in p.scope /\ (z.k = "end" \/ Rank[j] < Rank[z.k])
    BY <1>3 DEF Passed
  <2>2. Rank[j] \in Nat /\ Rank[k] \in Nat /\ Rank[j] # Rank[k]
    BY <1>3, <2>1, Ranks
  <2>3. j \notin S
    <3>1. SUFFICES ASSUME j \in S PROVE FALSE
      OBVIOUS
    <3>2. z.k \in S /\ z.k # "end" /\ Rank[z.k] <= Rank[j]
      BY <1>1, <3>1, FirstOf
    <3>3. Rank[z.k] \in Nat
      BY <1>1, <3>2, Ranks
    <3> QED
      BY <2>1, <2>2, <3>2, <3>3
  <2>4. Rank[j] < Rank[k]
    BY <1>2, <2>1, <2>2, <2>3
  <2> QED
    BY <2>1, <2>4 DEF Passed
<1>4. z.k \in p.scope \cup {"end"}
  BY <1>1, FirstOf
<1> QED
  BY <1>3, <1>4

\* A step that moves the process and the marker on, and no container.
LEMMA AdvanceKeeps ==
  ASSUME ManagedInvariant, NEW t \in Operated, ~Free(t),
         NEW p, p = plans[marker[t].plan], NEW m \in Markers, NEW q \in Procs,
         marker' = [marker EXCEPT ![t] = m], Like(m, marker[t]),
         proc' = [proc EXCEPT ![t] = q], q.heard = proc[t].heard,
         q.step # "idle", UNCHANGED <<cont, owned, staged, answer>>, Beside(t),
         ProcOK(m, q, p),
         "drift" \notin faults => /\ \A j \in Passed(q, p) :
                                       InPlace(p, t, cont[t], j)
                                  /\ DrainOK(t, m, cont[t], q, p)
  PROVE  ManagedInvariant'
<1>1. /\ cont[t] \in Hosts /\ answer[t] \in Answers /\ HostTypeOK
      /\ HostOK(t, marker[t], cont[t], proc[t], p)
      /\ marker[t].phase = "applying"
  BY HostFacts, TurnFacts, RunnerFacts
<1>2. Becomes(t, cont[t], m, q, answer[t])
  BY <1>1, SameHost DEF Becomes
<1>3. HostOK(t, m, cont[t], q, p)
  BY <1>1 DEF HostOK, Like, NoWork, MarkerOK, ContOK
<1>4. "drift" \notin faults => /\ PlaceOK(t, m, cont[t], q, p)
                               /\ DrainOK(t, m, cont[t], q, p)
  BY <1>1 DEF PlaceOK, Like
<1>5. Older(cont[t], cont[t]) /\ m.plan = marker[t].plan /\ m.phase = "applying"
  BY <1>1, OlderSelf DEF Like
<1>6. /\ UNCHANGED <<record, claimed, ses, imports, plans, since>>
      /\ ("drift" \in faults <=> "drift" \in faults')
      /\ cond' \in [Targets -> Conditions]
      /\ \A v \in Targets \ {t} : cond'[v] = cond[v]
  BY DEF Beside
<1> QED
  BY <1>1, <1>2, <1>3, <1>4, <1>5, <1>6, TurnKeeps

\* What is behind a worker and in which state its containers are.
LEMMA WorkFacts ==
  ASSUME ManagedInvariant, NEW t \in Operated, ~Free(t),
         NEW p, p = plans[marker[t].plan]
  PROVE  /\ HostTypeOK /\ cont[t] \in Hosts /\ marker[t] \in Markers
         /\ proc[t] \in Procs /\ answer[t] \in Answers
         /\ marker[t].phase = "applying" /\ proc[t].step # "idle"
         /\ HostOK(t, marker[t], cont[t], proc[t], p)
         /\ ProcOK(marker[t], proc[t], p) /\ ContOK(t, marker[t], cont[t], p)
         /\ p.scope \subseteq Components /\ p.changed \subseteq p.scope
         /\ p.base[t] \in Hosts /\ Older(p.base[t], cont[t])
         /\ marker[t].drain =>
              {"drive", "tenderdash"} \subseteq Components /\ "drive" \in p.scope
         /\ "drift" \notin faults =>
              /\ \A j \in Passed(proc[t], p) : InPlace(p, t, cont[t], j)
              /\ DrainOK(t, marker[t], cont[t], proc[t], p)
<1>1. proc[t].step # "idle"
  BY DEF Free
<1>2. HostOK(t, marker[t], cont[t], proc[t], p)
  BY HostFacts
<1>3. ProcOK(marker[t], proc[t], p) /\ ContOK(t, marker[t], cont[t], p)
  BY <1>2 DEF HostOK
<1>4. "drift" \notin faults =>
        /\ \A j \in Passed(proc[t], p) : InPlace(p, t, cont[t], j)
        /\ DrainOK(t, marker[t], cont[t], proc[t], p)
  BY <1>1, HostFacts DEF PlaceOK
<1> QED
  BY <1>1, <1>2, <1>3, <1>4, TurnFacts, HostFacts, RunnerFacts

\* The marker says that Tenderdash goes, before it does.
LEMMA StopRequestedStep ==
  ASSUME ManagedInvariant, NEW t \in Operated, StopRequested(t), Beside(t)
  PROVE  ManagedInvariant'
<1> DEFINE p == plans[marker[t].plan]
<1>1. /\ proc[t].step = "drain" /\ SetDep(t, "stop-requested")
      /\ Go(t, "draining") /\ UNCHANGED <<cont, owned, staged, answer>> /\ ~Free(t)
  BY DEF StopRequested, At, Free
<1>2. PICK m \in Markers : /\ marker' = [marker EXCEPT ![t] = m]
                           /\ Like(m, marker[t]) /\ m.dep = "stop-requested"
  BY <1>1, WorkFacts, SetDepIs DEF Dependencies
<1>3. PICK q \in Procs : /\ proc' = [proc EXCEPT ![t] = q]
                         /\ q.step = "draining" /\ q.k = proc[t].k
                         /\ q.heard = proc[t].heard
  BY <1>1, WorkFacts, GoIs DEF Steps
<1>4. ProcOK(m, q, p) /\ m.drain
  BY <1>1, <1>2, <1>3, WorkFacts DEF ProcOK, Like, Draining, Starting
<1>5. Passed(q, p) \subseteq Passed(proc[t], p)
  BY <1>3 DEF Passed
<1>6. "drift" \notin faults => DrainOK(t, m, cont[t], q, p)
  BY <1>1, <1>2, <1>3, <1>4, WorkFacts DEF DrainOK, Like, Starting
<1> QED
  BY <1>1, <1>2, <1>3, <1>4, <1>5, <1>6, WorkFacts, AdvanceKeeps

\* The marker says that Tenderdash is down.
LEMMA DrainedStep ==
  ASSUME ManagedInvariant, NEW t \in Operated, Drained(t), Beside(t)
  PROVE  ManagedInvariant'
<1> DEFINE p == plans[marker[t].plan]
<1>1. /\ proc[t].step = "drained" /\ SetDep(t, "stopped")
      /\ Go(t, "enter") /\ UNCHANGED <<cont, owned, staged, answer>> /\ ~Free(t)
  BY DEF Drained, At, Free
<1>2. PICK m \in Markers : /\ marker' = [marker EXCEPT ![t] = m]
                           /\ Like(m, marker[t]) /\ m.dep = "stopped"
  BY <1>1, WorkFacts, SetDepIs DEF Dependencies
<1>3. PICK q \in Procs : /\ proc' = [proc EXCEPT ![t] = q]
                         /\ q.step = "enter" /\ q.k = proc[t].k
                         /\ q.heard = proc[t].heard
  BY <1>1, WorkFacts, GoIs DEF Steps
<1>4. ProcOK(m, q, p) /\ m.drain /\ marker[t].dep \notin Starting
  BY <1>1, <1>2, <1>3, WorkFacts DEF ProcOK, Like, Draining
<1>5. Passed(q, p) \subseteq Passed(proc[t], p)
  BY <1>3 DEF Passed
<1>6. "drift" \notin faults => DrainOK(t, m, cont[t], q, p)
  BY <1>1, <1>2, <1>3, <1>4, WorkFacts DEF DrainOK, Like, Starting
<1> QED
  BY <1>1, <1>2, <1>3, <1>4, <1>5, <1>6, WorkFacts, AdvanceKeeps

\* Where Tenderdash is to start again, Drive is in place.
LEMMA DriveFirst ==
  ASSUME ManagedInvariant, NEW t \in Operated, ~Free(t), Restarts(t),
         NEW p, p = plans[marker[t].plan], "drift" \notin faults
  PROVE  InPlace(p, t, cont[t], "drive")
<1>1. /\ "drive" \in p.scope /\ proc[t].k = "tenderdash"
      /\ {"drive", "tenderdash"} \subseteq Components
  BY WorkFacts DEF Restarts
<1>2. "drive" \in Passed(proc[t], p)
  BY <1>1, Ranks DEF Passed
<1> QED
  BY <1>2, WorkFacts

\* Tenderdash is asked to start only where Drive is in place.
LEMMA EnterStep ==
  ASSUME ManagedInvariant, NEW t \in Operated, NEW p, p = plans[marker[t].plan],
         Enter(t, p), Beside(t)
  PROVE  ManagedInvariant'
<1>1. /\ proc[t].step = "enter" /\ proc[t].k # "end" /\ ~Free(t)
      /\ UNCHANGED <<cont, owned, staged>>
  BY DEF Enter, At, Free
<1>2. CASE Exit(t, "error") /\ UNCHANGED marker
  BY <1>1, <1>2, ExitKeeps DEF Beside
<1>3. ASSUME NEW m \in Markers, marker' = [marker EXCEPT ![t] = m],
             Like(m, marker[t]), Go(t, "work"), UNCHANGED answer,
             \/ ~Restarts(t) /\ m.dep = marker[t].dep
             \/ Restarts(t) /\ m.dep = "start-requested"
      PROVE  ManagedInvariant'
  <2>1. PICK q \in Procs : /\ proc' = [proc EXCEPT ![t] = q]
                           /\ q.step = "work" /\ q.k = proc[t].k
                           /\ q.heard = proc[t].heard
    BY <1>1, <1>3, WorkFacts, GoIs DEF Steps
  <2>2. ProcOK(m, q, p)
    BY <1>1, <1>3, <2>1, WorkFacts DEF ProcOK, Like, Draining
  <2>3. Passed(q, p) \subseteq Passed(proc[t], p)
    BY <2>1 DEF Passed
  <2>4. "drift" \notin faults => DrainOK(t, m, cont[t], q, p)
    BY <1>1, <1>3, <2>1, WorkFacts, DriveFirst DEF DrainOK, Like, Starting,
       Again, Restarts
  <2> QED
    BY <1>1, <1>3, <2>1, <2>2, <2>3, <2>4, WorkFacts, AdvanceKeeps
<1>4. CASE /\ IF Restarts(t) THEN SetDep(t, "start-requested")
                             ELSE UNCHANGED marker
           /\ Go(t, "work") /\ UNCHANGED answer
  <2>1. CASE Restarts(t)
    BY <1>1, <1>3, <1>4, <2>1, WorkFacts, SetDepIs DEF Dependencies
  <2>2. CASE ~Restarts(t)
    BY <1>1, <1>3, <1>4, <2>2, WorkFacts, SameHost DEF Like
  <2> QED
    BY <2>1, <2>2
<1> QED
  BY <1>2, <1>4 DEF Enter

\* The marker says that Tenderdash runs, behind Drive.
LEMMA RestartedStep ==
  ASSUME ManagedInvariant, NEW t \in Operated, NEW p, p = plans[marker[t].plan],
         Restarted(t, p), Beside(t)
  PROVE  ManagedInvariant'
<1>1. /\ proc[t].step = "started" /\ SetDep(t, "started") /\ NextComponent(t, p)
      /\ UNCHANGED <<cont, owned, staged, answer>> /\ ~Free(t)
  BY DEF Restarted, At, Free
<1>2. PICK m \in Markers : /\ marker' = [marker EXCEPT ![t] = m]
                           /\ Like(m, marker[t]) /\ m.dep = "started"
  BY <1>1, WorkFacts, SetDepIs DEF Dependencies
<1>3. PICK q \in Procs : /\ proc' = [proc EXCEPT ![t] = q]
                         /\ q.step = "enter" /\ q.k = After(p, proc[t].k)
                         /\ q.heard = proc[t].heard
  BY <1>1, WorkFacts, NextComponentIs
<1>4. Restarts(t) /\ proc[t].k \in p.scope
  BY <1>1, WorkFacts DEF ProcOK, Again, Restarts
<1>5. /\ Passed(q, p) \subseteq Passed(proc[t], p) \cup {proc[t].k}
      /\ q.k \in p.scope \cup {"end"} /\ proc[t].k \in Passed(proc[t], p)
  BY <1>1, <1>3, <1>4, WorkFacts, PassedOn DEF Passed
<1>6. ProcOK(m, q, p)
  BY <1>1, <1>2, <1>3, <1>5, WorkFacts DEF ProcOK, Like, Draining
<1>7. "drift" \notin faults => DrainOK(t, m, cont[t], q, p)
  BY <1>1, <1>2, <1>3, <1>4, WorkFacts, DriveFirst DEF DrainOK, Like, Starting
<1>8. "drift" \notin faults => \A j \in Passed(q, p) : InPlace(p, t, cont[t], j)
  BY <1>1, <1>5, WorkFacts
<1> QED
  BY <1>1, <1>2, <1>3, <1>6, <1>7, <1>8, AdvanceKeeps
\* A step that touches one container, for a process and marker that stay.
LEMMA TouchKeeps ==
  ASSUME ManagedInvariant, NEW t \in Operated, ~Free(t),
         NEW p, p = plans[marker[t].plan], NEW h \in Hosts,
         cont' = [cont EXCEPT ![t] = h],
         UNCHANGED <<owned, staged, marker, answer>>, Beside(t),
         NEW q \in Procs, proc' = [proc EXCEPT ![t] = q],
         q.step # "idle", q.heard = proc[t].heard, Older(cont[t], h),
         HostOK(t, marker[t], h, q, p),
         "drift" \notin faults =>
           /\ \A j \in Passed(q, p) : InPlace(p, t, h, j)
           /\ DrainOK(t, marker[t], h, q, p)
           /\ \A k \in Components :
                \/ h[k].id = cont[t][k].id
                \/ k \in p.changed /\ h[k].id = p.base[t][k].id + 1
  PROVE  ManagedInvariant'
<1>1. /\ marker[t] \in Markers /\ answer[t] \in Answers /\ HostTypeOK
      /\ marker[t].phase = "applying"
  BY WorkFacts
<1>2. Becomes(t, h, marker[t], q, answer[t])
  BY <1>1, SameHost DEF Becomes
<1>3. "drift" \notin faults => /\ PlaceOK(t, marker[t], h, q, p)
                               /\ DrainOK(t, marker[t], h, q, p)
  BY <1>1 DEF PlaceOK
<1>4. /\ UNCHANGED <<record, claimed, ses, imports, plans, since>>
      /\ ("drift" \in faults <=> "drift" \in faults')
      /\ cond' \in [Targets -> Conditions]
      /\ \A v \in Targets \ {t} : cond'[v] = cond[v]
  BY DEF Beside
<1> QED
  BY <1>1, <1>2, <1>3, <1>4, TurnKeeps

\* A container of the host is stopped, and the process goes on as q.
LEMMA StopKeeps ==
  ASSUME ManagedInvariant, NEW t \in Operated, ~Free(t), NEW k \in Components,
         Touch(t, k, [cont[t][k] EXCEPT !.up = FALSE]),
         UNCHANGED <<owned, staged, marker, answer>>, Beside(t),
         NEW q \in Procs, proc' = [proc EXCEPT ![t] = q],
         q.k = proc[t].k, q.heard = proc[t].heard,
         \/ q.step = proc[t].step
         \/ q.step = "drained" /\ proc[t].step = "draining" /\ k = "tenderdash"
  PROVE  ManagedInvariant'
<1> DEFINE p == plans[marker[t].plan]
           c == [cont[t][k] EXCEPT !.up = FALSE]
<1>1. cont[t] \in Hosts /\ cont[t][k] \in Containers /\ HostTypeOK
  BY WorkFacts DEF Hosts
<1>2. /\ c \in Containers /\ c.there = cont[t][k].there /\ c.id = cont[t][k].id
      /\ c.img = cont[t][k].img /\ ~c.up
  BY <1>1, ContainerDown
<1>3. Touch(t, k, c)
  OBVIOUS
<1> HIDE DEF c
<1>4. PICK h \in Hosts : /\ cont' = [cont EXCEPT ![t] = h] /\ h[k] = c
                         /\ \A j \in Components \ {k} : h[j] = cont[t][j]
  BY <1>1, <1>2, <1>3, TouchIs
<1>5. /\ \A j \in Components :
           /\ h[j].there = cont[t][j].there /\ h[j].id = cont[t][j].id
           /\ h[j].img = cont[t][j].img /\ (h[j].up => cont[t][j].up)
      /\ ~h[k].up
  BY <1>2, <1>4
<1>6. /\ HostOK(t, marker[t], h, proc[t], p) /\ Older(cont[t], h)
      /\ "drift" \notin faults => /\ PlaceOK(t, marker[t], h, proc[t], p)
                                  /\ DrainOK(t, marker[t], h, proc[t], p)
  <2>1. /\ HostOK(t, marker[t], cont[t], proc[t], p) /\ marker[t] \in Markers
        /\ cont[t] \in Hosts /\ p.scope \subseteq Components
        /\ "drift" \notin faults =>
             /\ PlaceOK(t, marker[t], cont[t], proc[t], p)
             /\ DrainOK(t, marker[t], cont[t], proc[t], p)
    BY WorkFacts, HostFacts
  <2> HIDE DEF p
  <2> QED
    BY <1>5, <2>1, Stopped
<1>7. /\ proc[t].step # "idle" /\ q.step # "idle"
      /\ marker[t].phase = "applying"
  BY WorkFacts
<1>8. Passed(q, p) \subseteq Passed(proc[t], p)
  BY DEF Passed
<1>9. HostOK(t, marker[t], h, q, p)
  BY <1>6, <1>7 DEF HostOK, NoWork, ProcOK, Draining, Again
<1>10. "drift" \notin faults => /\ \A j \in Passed(q, p) : InPlace(p, t, h, j)
                                /\ DrainOK(t, marker[t], h, q, p)
  <2>1. "drift" \notin faults => \A j \in Passed(q, p) : InPlace(p, t, h, j)
    BY <1>6, <1>7, <1>8 DEF PlaceOK
  <2>2. "drift" \notin faults => DrainOK(t, marker[t], h, q, p)
    BY <1>5, <1>6 DEF DrainOK, Again
  <2> QED
    BY <2>1, <2>2
<1> QED
  BY <1>4, <1>5, <1>6, <1>7, <1>9, <1>10, TouchKeeps

\* Tenderdash is stopped before Drive goes.
LEMMA DependencyStoppedStep ==
  ASSUME ManagedInvariant, NEW t \in Operated, DependencyStopped(t), Beside(t)
  PROVE  ManagedInvariant'
<1>1. /\ proc[t].step = "draining" /\ ~Free(t)
      /\ UNCHANGED <<owned, staged, marker>>
  BY DEF DependencyStopped, At, Free
<1>2. CASE Exit(t, "error") /\ UNCHANGED cont
  BY <1>1, <1>2, ExitKeeps DEF Beside
<1>3. CASE /\ cont' = [cont EXCEPT ![t]["tenderdash"].up = FALSE]
           /\ Go(t, "drained") /\ UNCHANGED answer
  <2>1. "tenderdash" \in Components
    BY <1>1, WorkFacts DEF ProcOK, Draining
  <2>2. PICK q \in Procs : /\ proc' = [proc EXCEPT ![t] = q]
                           /\ q.step = "drained" /\ q.k = proc[t].k
                           /\ q.heard = proc[t].heard
    BY <1>1, <1>3, WorkFacts, GoIs DEF Steps
  <2>3. Touch(t, "tenderdash", [cont[t]["tenderdash"] EXCEPT !.up = FALSE])
    BY <1>3 DEF Touch
  <2> QED
    BY <1>1, <1>3, <2>1, <2>2, <2>3, StopKeeps
<1> QED
  BY <1>2, <1>3 DEF DependencyStopped

\* The container of the snapshot is stopped.
LEMMA StopStep ==
  ASSUME ManagedInvariant, NEW t \in Operated, NEW p, p = plans[marker[t].plan],
         Stop(t, p), Beside(t)
  PROVE  ManagedInvariant'
<1> DEFINE k == proc[t].k
<1>1. /\ proc[t].step = "work" /\ ~Free(t)
      /\ Touch(t, k, [cont[t][k] EXCEPT !.up = FALSE])
      /\ UNCHANGED <<owned, staged, marker, proc, answer>>
  BY DEF Stop, Replaces, At, Free
<1>2. k \in Components
  BY <1>1, WorkFacts DEF ProcOK
<1>3. proc[t] \in Procs /\ proc' = [proc EXCEPT ![t] = proc[t]]
  BY <1>1, WorkFacts, SameHost
<1> QED
  BY <1>1, <1>2, <1>3, StopKeeps

\* A container that is another one's ends the operation.
LEMMA RefuseStep ==
  ASSUME ManagedInvariant, NEW t \in Operated, NEW p, p = plans[marker[t].plan],
         Refuse(t, p), Beside(t)
  PROVE  ManagedInvariant'
<1>1. /\ ~Free(t) /\ Exit(t, "error") /\ UNCHANGED <<cont, owned, staged, marker>>
  BY DEF Refuse, Replaces, At, Free
<1> QED
  BY <1>1, ExitKeeps DEF Beside

\* The container that is removed is the one of the snapshot, which the plan
\* changes, and no record says that it was replaced.
LEMMA RemoveFacts ==
  ASSUME ManagedInvariant, NEW t \in Operated, NEW p, p = plans[marker[t].plan],
         Remove(t, p)
  PROVE  LET k == proc[t].k IN
         /\ k \in p.changed /\ cont[t][k].id = p.base[t][k].id
         /\ ~InPlace(p, t, cont[t], k)
         /\ \A d \in marker[t].done : d[1] # k
<1> DEFINE k == proc[t].k
<1>1. /\ proc[t].step = "work" /\ ~Free(t) /\ cont[t][k].there
      /\ cont[t][k].img # Desired(p, t, k)
      /\ cont[t][k].id = p.base[t][k].id
  BY DEF Remove, Replaces, At, Free, Mine, Wanted
<1>2. k \in p.scope /\ k \in Components
  BY <1>1, WorkFacts DEF ProcOK
<1> HIDE DEF k
<1>3. cont[t][k].img = p.base[t][k].img
  BY <1>1, <1>2, WorkFacts DEF Older
<1>4. k \in p.changed
  BY <1>1, <1>3 DEF Desired
<1>5. ASSUME NEW d \in marker[t].done, d[1] = k PROVE FALSE
  <2>0. ContOK(t, marker[t], cont[t], p) /\ marker[t].phase = "applying"
    BY <1>1, WorkFacts
  <2>1. /\ p.base[t][k].id <= d[2] /\ d[2] <= cont[t][k].id
        /\ d[2] = cont[t][k].id => cont[t][k].img = Desired(p, t, k)
    BY <1>5, <2>0 DEF ContOK
  <2>2. d[2] \in Nat /\ cont[t][k].id \in Nat
    BY <1>1, <1>2, WorkFacts DEF Markers, Hosts, Containers
  <2> QED
    BY <1>1, <2>1, <2>2
<1> QED
  BY <1>1, <1>4, <1>5 DEF InPlace, k

\* A container that is removed.
LEMMA ContainerGone ==
  ASSUME NEW c \in Containers, NEW b, b = [c EXCEPT !.there = FALSE]
  PROVE  /\ b \in Containers /\ b.up = c.up /\ b.id = c.id
         /\ b.img = c.img /\ ~b.there
<1>1. b \in Containers /\ b.up = c.up /\ b.id = c.id /\ b.img = c.img
  BY DEF Containers
<1>2. ~b.there
  BY Zenon DEF Containers
<1> QED
  BY <1>1, <1>2

\* What is removed is recorded nowhere as done, and Tenderdash is down.
LEMMA RemoveStep ==
  ASSUME ManagedInvariant, NEW t \in Operated, NEW p, p = plans[marker[t].plan],
         Remove(t, p), Beside(t)
  PROVE  ManagedInvariant'
<1> DEFINE k == proc[t].k
           c == [cont[t][k] EXCEPT !.there = FALSE]
<1>1. /\ proc[t].step = "work" /\ ~Free(t) /\ Touch(t, k, c) /\ ~cont[t][k].up
      /\ UNCHANGED <<owned, staged, marker, proc, answer>>
  BY DEF Remove, Replaces, At, Free
<1>2. /\ k \in p.changed /\ cont[t][k].id = p.base[t][k].id
      /\ ~InPlace(p, t, cont[t], k)
      /\ \A d \in marker[t].done : d[1] # k
  BY RemoveFacts
<1>3. k \in p.scope /\ k \in Components
  BY <1>1, WorkFacts DEF ProcOK
<1> HIDE DEF k
<1>4. cont[t] \in Hosts /\ cont[t][k] \in Containers /\ HostTypeOK
  BY <1>1, <1>3, WorkFacts DEF Hosts
<1>5. /\ c \in Containers /\ c.up = cont[t][k].up /\ c.id = cont[t][k].id
      /\ c.img = cont[t][k].img /\ ~c.there
  BY <1>4, ContainerGone
<1> HIDE DEF c
<1>6. PICK h \in Hosts : /\ cont' = [cont EXCEPT ![t] = h] /\ h[k] = c
                         /\ \A j \in Components \ {k} : h[j] = cont[t][j]
  BY <1>1, <1>3, <1>4, <1>5, TouchIs
<1>7. \A j \in Components :
        /\ h[j].id = cont[t][j].id /\ h[j].img = cont[t][j].img
        /\ h[j].up = cont[t][j].up
  BY <1>5, <1>6
<1>8. Older(cont[t], h)
  BY <1>4, <1>7 DEF Older, Hosts, Containers
<1>9. HostOK(t, marker[t], h, proc[t], p)
  <2>1. HostOK(t, marker[t], cont[t], proc[t], p) /\ marker[t].phase = "applying"
    BY <1>1, WorkFacts
  <2>2. \A d \in marker[t].done : d[1] \in Components
    BY <1>1, WorkFacts DEF Markers
  <2>3. ContOK(t, marker[t], cont[t], p)
    BY <2>1 DEF HostOK
  <2>4. ASSUME NEW j \in Components, ~h[j].there
        PROVE  /\ j \in p.changed /\ h[j].id = p.base[t][j].id
               /\ \A d \in marker[t].done : d[1] # j
    <3>1. CASE j = k
      BY <1>2, <1>7, <3>1
    <3>2. CASE j # k
      BY <1>6, <2>1, <2>3, <2>4, <3>2 DEF ContOK
    <3> QED
      BY <3>1, <3>2
  <2>5. ASSUME NEW d \in marker[t].done
        PROVE  /\ p.base[t][d[1]].id <= d[2] /\ d[2] <= h[d[1]].id
               /\ d[2] = h[d[1]].id => h[d[1]].img = Desired(p, t, d[1])
    BY <1>7, <2>1, <2>2, <2>3 DEF ContOK
  <2>6. ContOK(t, marker[t], h, p)
    BY <2>1, <2>4, <2>5 DEF ContOK
  <2> QED
    BY <2>1, <2>6 DEF HostOK, NoWork
<1>10. "drift" \notin faults =>
         /\ \A j \in Passed(proc[t], p) : InPlace(p, t, h, j)
         /\ DrainOK(t, marker[t], h, proc[t], p)
  <2> SUFFICES ASSUME "drift" \notin faults
               PROVE  /\ \A j \in Passed(proc[t], p) : InPlace(p, t, h, j)
                      /\ DrainOK(t, marker[t], h, proc[t], p)
    OBVIOUS
  <2>1. /\ \A j \in Passed(proc[t], p) : InPlace(p, t, cont[t], j)
        /\ DrainOK(t, marker[t], cont[t], proc[t], p)
        /\ p.scope \subseteq Components
        /\ marker[t].drain => "tenderdash" \in Components
        /\ marker[t].phase = "applying"
    BY <1>1, WorkFacts
  <2>2. \A j \in Passed(proc[t], p) : InPlace(p, t, h, j)
    BY <1>2, <1>6, <2>1 DEF InPlace, Passed
  <2>3. "drive" \in p.scope =>
          \/ marker[t].drain /\ marker[t].dep \notin Starting
          \/ InPlace(p, t, h, "drive") /\ k # "drive"
    BY <1>2, <1>6, <2>1 DEF DrainOK, InPlace
  <2>4. "drive" \in Components => "tenderdash" \in Components
    BY ManagedHostAssumption
  <2>5. "drive" \in Components /\ ~h["drive"].there => ~h["tenderdash"].up
    <3>1. CASE k = "drive"
      BY <1>1, <1>3, <1>7, <2>1, <2>3, <3>1 DEF DrainOK
    <3>2. CASE k # "drive"
      BY <1>6, <1>7, <2>1, <2>4, <3>2 DEF DrainOK
    <3> QED
      BY <3>1, <3>2
  <2>6. DrainOK(t, marker[t], h, proc[t], p)
    BY <1>7, <2>1, <2>3, <2>5 DEF DrainOK
  <2> QED
    BY <2>2, <2>6
<1>11. proc[t] \in Procs /\ proc' = [proc EXCEPT ![t] = proc[t]]
  BY <1>1, <1>4, WorkFacts, SameHost
<1> QED
  BY <1>1, <1>6, <1>7, <1>8, <1>9, <1>10, <1>11, TouchKeeps
LEMMA CreateStep ==
  ASSUME ManagedInvariant, NEW t \in Operated, NEW p, p = plans[marker[t].plan],
         Create(t, p), Beside(t)
  PROVE  ManagedInvariant'
<1> DEFINE k == proc[t].k
           c == [there |-> TRUE, id |-> cont[t][k].id + 1,
                 img |-> Desired(p, t, k), up |-> FALSE, run |-> 0]
<1>1. /\ proc[t].step = "work" /\ ~Free(t) /\ Touch(t, k, c)
      /\ ~cont[t][k].there
      /\ UNCHANGED <<owned, staged, marker, proc, answer>>
  BY DEF Create, At, Free
<1>2. k \in p.scope /\ k \in Components
  BY <1>1, WorkFacts DEF ProcOK
<1>3. /\ k \in p.changed /\ cont[t][k].id = p.base[t][k].id
      /\ \A d \in marker[t].done : d[1] # k
  <2>1. ContOK(t, marker[t], cont[t], p) /\ marker[t].phase = "applying"
    BY <1>1, WorkFacts
  <2> HIDE DEF k
  <2> QED
    BY <1>1, <1>2, <2>1 DEF ContOK
<1> HIDE DEF k
<1>4. cont[t] \in Hosts /\ cont[t][k] \in Containers /\ HostTypeOK
  BY <1>1, <1>2, WorkFacts DEF Hosts
<1>5. cont[t][k].id \in Nat /\ Desired(p, t, k) \in Nat
  BY <1>1, <1>3, <1>4, TurnFacts DEF Containers, Desired, PlanSet
<1>6. /\ c \in Containers /\ c.id = cont[t][k].id + 1 /\ c.there /\ ~c.up
      /\ c.img = Desired(p, t, k)
  BY <1>5 DEF Containers
<1> HIDE DEF c
<1>7. PICK h \in Hosts : /\ cont' = [cont EXCEPT ![t] = h] /\ h[k] = c
                         /\ \A j \in Components \ {k} : h[j] = cont[t][j]
  BY <1>1, <1>2, <1>4, <1>6, TouchIs
<1>8. Older(cont[t], h)
  BY <1>4, <1>5, <1>6, <1>7 DEF Older, Hosts, Containers
<1>9. HostOK(t, marker[t], h, proc[t], p)
  <2>1. HostOK(t, marker[t], cont[t], proc[t], p) /\ marker[t].phase = "applying"
        /\ ContOK(t, marker[t], cont[t], p)
    BY <1>1, WorkFacts
  <2>2. \A d \in marker[t].done : d[1] \in Components \ {k}
    BY <1>1, <1>3, WorkFacts DEF Markers
  <2>3. ContOK(t, marker[t], h, p)
    <3>1. ASSUME NEW j \in Components, ~h[j].there
          PROVE  h[j] = cont[t][j]
      BY <1>6, <1>7, <3>1
    <3> QED
      BY <1>7, <2>1, <2>2, <3>1 DEF ContOK
  <2> QED
    BY <2>1, <2>3 DEF HostOK, NoWork
<1>10. "drift" \notin faults =>
         /\ \A j \in Passed(proc[t], p) : InPlace(p, t, h, j)
         /\ DrainOK(t, marker[t], h, proc[t], p)
  <2> SUFFICES ASSUME "drift" \notin faults
               PROVE  /\ \A j \in Passed(proc[t], p) : InPlace(p, t, h, j)
                      /\ DrainOK(t, marker[t], h, proc[t], p)
    OBVIOUS
  <2>1. /\ \A j \in Passed(proc[t], p) : InPlace(p, t, cont[t], j)
        /\ DrainOK(t, marker[t], cont[t], proc[t], p)
        /\ p.scope \subseteq Components
        /\ marker[t].drain => "tenderdash" \in Components
    BY <1>1, WorkFacts
  <2>2. \A j \in p.scope : InPlace(p, t, cont[t], j) => InPlace(p, t, h, j)
    BY <1>6, <1>7, <2>1 DEF InPlace
  <2>3. \A j \in Passed(proc[t], p) : InPlace(p, t, h, j)
    BY <2>1, <2>2 DEF Passed
  <2>4. "tenderdash" \in Components /\ ~cont[t]["tenderdash"].up =>
          ~h["tenderdash"].up
    BY <1>6, <1>7
  <2>5. "drive" \in Components /\ ~h["drive"].there => ~h["tenderdash"].up
    BY <1>6, <1>7, <2>1, <2>4, ManagedHostAssumption DEF DrainOK
  <2>6. DrainOK(t, marker[t], h, proc[t], p)
    BY <2>1, <2>2, <2>4, <2>5 DEF DrainOK
  <2> QED
    BY <2>3, <2>6
<1>11. \A j \in Components :
         \/ h[j].id = cont[t][j].id
         \/ j \in p.changed /\ h[j].id = p.base[t][j].id + 1
  BY <1>3, <1>6, <1>7
<1>12. proc[t] \in Procs /\ proc' = [proc EXCEPT ![t] = proc[t]]
  BY <1>1, <1>4, WorkFacts, SameHost
<1> QED
  BY <1>1, <1>7, <1>8, <1>9, <1>10, <1>11, <1>12, TouchKeeps

\* A container that is started.
LEMMA ContainerUp ==
  ASSUME NEW c \in Containers
  PROVE  LET b == [c EXCEPT !.up = TRUE, !.run = @ + 1]
         IN  /\ b \in Containers /\ b.there = c.there /\ b.id = c.id
             /\ b.img = c.img
<1> DEFINE u == TRUE
           n == c.run + 1
           b == [c EXCEPT !.up = u, !.run = n]
<1>1. u \in BOOLEAN /\ n \in Nat
  BY DEF Containers
<1> HIDE DEF u, n
<1>2. /\ b \in Containers /\ b.there = c.there /\ b.id = c.id
      /\ b.img = c.img
  BY <1>1 DEF Containers
<1> QED
  BY <1>2, Zenon DEF u, n

\* No Tenderdash is started while its Drive is gone.
LEMMA StartStep ==
  ASSUME ManagedInvariant, NEW t \in Operated, NEW p, p = plans[marker[t].plan],
         Start(t, p), Beside(t)
  PROVE  ManagedInvariant'
<1> DEFINE k == proc[t].k
           c == [cont[t][k] EXCEPT !.up = TRUE, !.run = @ + 1]
<1>1. /\ proc[t].step = "work" /\ ~Free(t) /\ Touch(t, k, c)
      /\ UNCHANGED <<owned, staged, marker, proc, answer>>
  BY DEF Start, At, Free
<1>2. k \in p.scope /\ k \in Components
  BY <1>1, WorkFacts DEF ProcOK
<1>3. cont[t] \in Hosts /\ cont[t][k] \in Containers /\ HostTypeOK
  BY <1>1, <1>2, WorkFacts DEF Hosts
<1>4. /\ c \in Containers /\ c.there = cont[t][k].there /\ c.id = cont[t][k].id
      /\ c.img = cont[t][k].img
  BY <1>3, ContainerUp
<1> HIDE DEF c
<1>5. PICK h \in Hosts : /\ cont' = [cont EXCEPT ![t] = h] /\ h[k] = c
                         /\ \A j \in Components \ {k} : h[j] = cont[t][j]
  BY <1>1, <1>2, <1>3, <1>4, TouchIs
<1>6. \A j \in Components :
        /\ h[j].there = cont[t][j].there /\ h[j].id = cont[t][j].id
        /\ h[j].img = cont[t][j].img /\ (j # k => h[j].up = cont[t][j].up)
  BY <1>4, <1>5
<1>7. Older(cont[t], h)
  BY <1>3, <1>6 DEF Older, Hosts, Containers
<1>8. HostOK(t, marker[t], h, proc[t], p)
  <2>1. HostOK(t, marker[t], cont[t], proc[t], p) /\ marker[t].phase = "applying"
        /\ ContOK(t, marker[t], cont[t], p)
    BY <1>1, WorkFacts
  <2>2. \A d \in marker[t].done : d[1] \in Components
    BY <1>1, WorkFacts DEF Markers
  <2>3. ContOK(t, marker[t], h, p)
    BY <1>6, <2>1, <2>2 DEF ContOK
  <2> QED
    BY <2>1, <2>3 DEF HostOK, NoWork
<1>9. "drift" \notin faults =>
        /\ \A j \in Passed(proc[t], p) : InPlace(p, t, h, j)
        /\ DrainOK(t, marker[t], h, proc[t], p)
  <2> SUFFICES ASSUME "drift" \notin faults
               PROVE  /\ \A j \in Passed(proc[t], p) : InPlace(p, t, h, j)
                      /\ DrainOK(t, marker[t], h, proc[t], p)
    OBVIOUS
  <2>1. /\ \A j \in Passed(proc[t], p) : InPlace(p, t, cont[t], j)
        /\ DrainOK(t, marker[t], cont[t], proc[t], p)
        /\ p.scope \subseteq Components /\ p.changed \subseteq p.scope
        /\ marker[t].drain => "tenderdash" \in Components
        /\ marker[t].phase = "applying" /\ ContOK(t, marker[t], cont[t], p)
    BY <1>1, WorkFacts
  <2>2. \A j \in p.scope : InPlace(p, t, cont[t], j) <=> InPlace(p, t, h, j)
    BY <1>6, <2>1 DEF InPlace
  <2>3. \A j \in Passed(proc[t], p) : InPlace(p, t, h, j)
    BY <2>1, <2>2 DEF Passed
  <2>4. k = "tenderdash" /\ marker[t].drain => marker[t].dep \in Starting
    BY <1>1, <2>1 DEF DrainOK, Again
  <2>5. marker[t].drain /\ marker[t].dep \notin Starting => ~h["tenderdash"].up
    BY <1>1, <1>6, <2>1, <2>4 DEF DrainOK
  <2>6. "drive" \in Components /\ ~h["drive"].there => ~h["tenderdash"].up
    <3>1. SUFFICES ASSUME "drive" \in Components, ~h["drive"].there
                   PROVE  ~h["tenderdash"].up
      OBVIOUS
    <3>2. ~cont[t]["drive"].there /\ "drive" \in p.scope
      BY <1>6, <2>1, <3>1 DEF ContOK
    <3>3. marker[t].drain /\ marker[t].dep \notin Starting
      BY <2>1, <3>2 DEF DrainOK, InPlace
    <3> QED
      BY <2>5, <3>3
  <2>7. DrainOK(t, marker[t], h, proc[t], p)
    BY <2>1, <2>2, <2>5, <2>6 DEF DrainOK
  <2> QED
    BY <2>3, <2>7
<1>10. proc[t] \in Procs /\ proc' = [proc EXCEPT ![t] = proc[t]]
  BY <1>1, <1>3, WorkFacts, SameHost
<1> QED
  BY <1>1, <1>5, <1>6, <1>7, <1>8, <1>9, <1>10, TouchKeeps

\* The container that runs is recorded as done, with its ID.
LEMMA RecordedStep ==
  ASSUME ManagedInvariant, NEW t \in Operated, NEW p, p = plans[marker[t].plan],
         Recorded(t, p), Beside(t)
  PROVE  ManagedInvariant'
<1> DEFINE k == proc[t].k
           d == <<k, cont[t][k].id>>
           done == {e \in marker[t].done : e[1] # k} \cup {d}
           m == [marker[t] EXCEPT !.done = done]
<1>1. /\ proc[t].step = "work" /\ ~Free(t) /\ cont[t][k].there
      /\ Wanted(t, p, k) /\ UNCHANGED <<cont, owned, staged, answer>>
      /\ marker' = [marker EXCEPT ![t].done = {e \in @ : e[1] # k} \cup {d}]
      /\ IF Restarts(t) THEN Go(t, "started") ELSE NextComponent(t, p)
  BY DEF Recorded, At, Free
<1>2. k \in p.scope /\ k \in Components /\ InPlace(p, t, cont[t], k)
  BY <1>1, WorkFacts DEF ProcOK, InPlace, Wanted
<1> HIDE DEF k
<1>3. /\ cont[t] \in Hosts /\ cont[t][k].id \in Nat /\ HostTypeOK
      /\ marker[t] \in Markers /\ answer[t] \in Answers
      /\ marker[t].phase = "applying"
  BY <1>1, <1>2, WorkFacts DEF Hosts, Containers
<1>4. done \subseteq Components \X Nat
  BY <1>2, <1>3 DEF Markers
<1>5. marker' = [marker EXCEPT ![t] = m]
  BY <1>1, <1>3, HostTypes
<1>6. \A e \in done : e = d \/ e \in marker[t].done
  OBVIOUS
<1>7. \A e \in done : e[1] = k => e = d
  OBVIOUS
<1> HIDE DEF done
<1>8. /\ m \in Markers /\ m.done = done /\ m.plan = marker[t].plan
      /\ m.phase = marker[t].phase /\ m.drain = marker[t].drain
      /\ m.dep = marker[t].dep
  BY <1>3, <1>4 DEF Markers
<1> HIDE DEF m
<1>9. \E q \in Procs :
        /\ proc' = [proc EXCEPT ![t] = q] /\ q.heard = proc[t].heard
        /\ \/ Restarts(t) /\ q.step = "started" /\ q.k = k
           \/ q.step = "enter" /\ q.k = After(p, k)
  BY <1>1, <1>3, WorkFacts, GoIs, NextComponentIs DEF Steps, k
<1>10. PICK q \in Procs :
         /\ proc' = [proc EXCEPT ![t] = q] /\ q.heard = proc[t].heard
         /\ \/ Restarts(t) /\ q.step = "started" /\ q.k = k
            \/ q.step = "enter" /\ q.k = After(p, k)
  BY <1>9
<1>11. /\ Passed(q, p) \subseteq Passed(proc[t], p) \cup {k}
       /\ q.k \in p.scope \cup {"end"}
  <2>1. CASE q.step = "started" /\ q.k = k
    BY <1>2, <2>1 DEF Passed, k
  <2>2. CASE q.step = "enter" /\ q.k = After(p, k)
    BY <1>1, <1>2, <2>2, WorkFacts, PassedOn DEF k
  <2> QED
    BY <1>10, <2>1, <2>2
<1>12. ProcOK(m, q, p) /\ q.step # "idle"
  BY <1>2, <1>3, <1>8, <1>10, <1>11, Ranks DEF ProcOK, Draining, Again, Restarts, k
<1>13. HostOK(t, m, cont[t], q, p)
  <2>1. /\ HostOK(t, marker[t], cont[t], proc[t], p)
        /\ ContOK(t, marker[t], cont[t], p) /\ p.base[t] \in Hosts
        /\ Older(p.base[t], cont[t])
    BY <1>1, WorkFacts
  <2>2. ASSUME NEW j \in Components, ~cont[t][j].there, NEW e \in done
        PROVE  e[1] # j
    <3>1. cont[t][k].there /\ d[1] = k
      BY <1>2 DEF InPlace
    <3>2. e \in marker[t].done => e[1] # j
      BY <1>3, <2>1, <2>2 DEF ContOK
    <3> QED
      BY <1>6, <2>2, <3>1, <3>2
  <2>3. ASSUME NEW e \in done
        PROVE  /\ p.base[t][e[1]].id <= e[2] /\ e[2] <= cont[t][e[1]].id
               /\ e[2] = cont[t][e[1]].id =>
                    cont[t][e[1]].img = Desired(p, t, e[1])
    <3>1. CASE e = d
      <4>1. e[1] = k /\ e[2] = cont[t][k].id
        BY <3>1
      <4>2. /\ p.base[t][k].id <= cont[t][k].id
            /\ cont[t][k].img = Desired(p, t, k)
        BY <1>2, <2>1 DEF Older, InPlace
      <4> QED
        BY <1>3, <4>1, <4>2
    <3>2. CASE e \in marker[t].done
      BY <1>3, <2>1, <3>2 DEF ContOK
    <3> QED
      BY <1>6, <3>1, <3>2
  <2>4. ContOK(t, m, cont[t], p)
    BY <1>8, <2>1, <2>2, <2>3 DEF ContOK
  <2> QED
    BY <1>8, <1>12, <2>1, <2>4, <1>3 DEF HostOK, NoWork, MarkerOK
<1>14. "drift" \notin faults =>
         /\ PlaceOK(t, m, cont[t], q, p) /\ DrainOK(t, m, cont[t], q, p)
  <2>1. "drift" \notin faults => \A j \in Passed(q, p) : InPlace(p, t, cont[t], j)
    BY <1>1, <1>2, <1>11, WorkFacts
  <2>2. "drift" \notin faults => DrainOK(t, m, cont[t], q, p)
    BY <1>1, <1>8, <1>10, WorkFacts DEF DrainOK, Again, Restarts, k
  <2> QED
    BY <1>3, <1>8, <2>1, <2>2 DEF PlaceOK
<1>15. Becomes(t, cont[t], m, q, answer[t])
  BY <1>1, <1>3, <1>5, <1>10, SameHost DEF Becomes
<1>16. Older(cont[t], cont[t])
  BY <1>3, OlderSelf
<1>17. /\ UNCHANGED <<record, claimed, ses, imports, plans, since>>
       /\ ("drift" \in faults <=> "drift" \in faults')
       /\ cond' \in [Targets -> Conditions]
       /\ \A v \in Targets \ {t} : cond'[v] = cond[v]
  BY DEF Beside
<1> QED
  BY <1>1, <1>3, <1>8, <1>10, <1>12, <1>13, <1>14, <1>15, <1>16, <1>17, TurnKeeps
LEMMA CompleteStep ==
  ASSUME ManagedInvariant, NEW t \in Operated, NEW p, p = plans[marker[t].plan],
         Complete(t, p), Beside(t)
  PROVE  ManagedInvariant'
<1> DEFINE m == [marker[t] EXCEPT !.phase = "complete"]
           a == IF proc[t].heard THEN "ok" ELSE answer[t]
<1>1. /\ proc[t].step = "enter" /\ proc[t].k = "end" /\ ~Free(t)
      /\ UNCHANGED <<cont, owned, staged>>
  BY DEF Complete, At, Free
<1>2. CASE UNCHANGED marker /\ Exit(t, "error")
  BY <1>1, <1>2, ExitKeeps DEF Beside
<1>3. CASE /\ Preserved(t, p, p.scope) /\ Exit(t, "ok")
           /\ marker' = [marker EXCEPT ![t].phase = "complete"]
  <2>1. /\ HostTypeOK /\ cont[t] \in Hosts /\ marker[t] \in Markers
        /\ answer[t] \in Answers /\ marker[t].phase = "applying"
        /\ HostOK(t, marker[t], cont[t], proc[t], p) /\ p.scope \subseteq Components
        /\ "drift" \notin faults =>
             /\ \A j \in Passed(proc[t], p) : InPlace(p, t, cont[t], j)
             /\ DrainOK(t, marker[t], cont[t], proc[t], p)
    BY <1>1, WorkFacts
  <2>2. /\ m \in Markers /\ m.phase = "complete" /\ m.plan = marker[t].plan
        /\ m.drain = marker[t].drain
    BY <2>1 DEF Markers
  <2>3. Idle \in Procs /\ Idle.step = "idle" /\ ~Idle.heard
    BY DEF Idle, Procs, Steps
  <2>4. a \in Answers
    BY <2>1 DEF Answers
  <2>5. /\ marker' = [marker EXCEPT ![t] = m] /\ proc' = [proc EXCEPT ![t] = Idle]
        /\ answer' = [answer EXCEPT ![t] = a]
    BY <1>3, <2>1, HostTypes DEF Exit
  <2> HIDE DEF m, a
  <2>6. Becomes(t, cont[t], m, Idle, a)
    BY <1>1, <2>1, <2>5, SameHost DEF Becomes
  <2>7. \A k \in Components : cont[t][k].there
    BY <1>3 DEF Preserved
  <2>8. HostOK(t, m, cont[t], Idle, p)
    <3>1. NoWork(m, cont[t], Idle) /\ MarkerOK(t, m, p) /\ ProcOK(m, Idle, p)
      BY <2>1, <2>2, <2>3 DEF HostOK, NoWork, MarkerOK, ProcOK, Draining
    <3>2. ContOK(t, m, cont[t], p)
      BY <2>2, <2>7 DEF ContOK
    <3> QED
      BY <2>1, <2>2, <3>1, <3>2 DEF HostOK
  <2>9. "drift" \notin faults => /\ PlaceOK(t, m, cont[t], Idle, p)
                                 /\ DrainOK(t, m, cont[t], Idle, p)
    <3>1. Passed(proc[t], p) = p.scope
      BY <1>1 DEF Passed
    <3>2. "drift" \notin faults => PlaceOK(t, m, cont[t], Idle, p)
      BY <2>1, <2>3, <3>1 DEF PlaceOK
    <3>3. "drift" \notin faults => DrainOK(t, m, cont[t], Idle, p)
      BY <2>1, <2>2, <2>3, <2>7 DEF DrainOK
    <3> QED
      BY <3>2, <3>3
  <2>10. /\ Older(cont[t], cont[t]) /\ m.phase \in {"applying", "complete"}
         /\ m.plan = marker[t].plan
    BY <2>1, <2>2, OlderSelf
  <2>11. /\ UNCHANGED <<record, claimed, ses, imports, plans, since>>
         /\ ("drift" \in faults <=> "drift" \in faults')
         /\ cond' \in [Targets -> Conditions]
         /\ \A v \in Targets \ {t} : cond'[v] = cond[v]
    BY DEF Beside
  <2> QED
    BY <1>1, <2>1, <2>2, <2>3, <2>4, <2>6, <2>8, <2>9, <2>10, <2>11, TurnKeeps
<1> QED
  BY <1>2, <1>3 DEF Complete

\* Every step of a worker keeps the invariant.
LEMMA WorkerKeeps ==
  ASSUME ManagedInvariant, NEW t \in Operated, WorkerStep(t)
  PROVE  ManagedInvariant'
<1> DEFINE p == plans[marker[t].plan]
<1>1. Worker(t, p)
  BY DEF WorkerStep
<1>2. Beside(t)
  <2>1. cond \in [Targets -> Conditions] /\ t \in Targets
    BY RunnerFacts, OperatedTargets DEF RunTypes
  <2>2. PICK x \in {"down", cond[t]} : cond' = [cond EXCEPT ![t] = x]
    BY DEF WorkerStep
  <2>3. x \in Conditions
    BY <2>1, <2>2 DEF Conditions
  <2> QED
    BY <2>1, <2>2, <2>3 DEF WorkerStep, Beside
<1> QED
  BY <1>1, <1>2, StopRequestedStep, DependencyStoppedStep, DrainedStep, EnterStep,
     StopStep, RemoveStep, RefuseStep, CreateStep, StartStep, RecordedStep,
     RestartedStep, CompleteStep DEF Worker
-----------------------------------------------------------------------------
(* A worker is called.                                                      *)

\* A session that waits for the answer it began to wait for.
LEMMA Waits ==
  ASSUME ManagedInvariant, ses.pc = "call"
  PROVE  /\ [ses EXCEPT !.pc = "answer"] \in SessionSet
         /\ [ses EXCEPT !.pc = "answer"].pc = "answer"
         /\ SessionOK([ses EXCEPT !.pc = "answer"], record, plans)
         /\ record.current \in Operated /\ record.op # 0 /\ ses.plan = record.op
         /\ ses.rec = record /\ claimed
         /\ plans[record.op] \in PlanSet /\ plans[record.op].id = record.op
         /\ plans[record.op].scope \subseteq Components
         /\ record.op \in DOMAIN plans
         /\ record.current \in plans[record.op].sel \ record.done
         /\ record.phase \in Active /\ \A u \in Operated : ~proc[u].heard
<1> DEFINE s == [ses EXCEPT !.pc = "answer"]
<1>1. s \in SessionSet /\ s.pc = "answer" /\ Alike(s, ses)
  BY RunnerFacts, GoesTo DEF SessionPc
<1>2. SessionOK(ses, record, plans) /\ claimed
  BY RunnerFacts
<1>3. /\ ses.mutated /\ ~ses.behind /\ record = ses.rec /\ record.op = ses.plan
      /\ record.op # 0 /\ record.current # 0
  BY <1>2 DEF SessionOK, Operating, AtWork
<1> HIDE DEF s
<1>4. SessionOK(s, record, plans)
  BY <1>1, <1>3 DEF Alike, SessionOK, Operating, Preparing, AtWork, Replaced,
     InGate, Sweeps
<1>5. \A u \in Operated : ~proc[u].heard
  BY Unheard
<1>6. /\ record.op \in DOMAIN plans /\ plans[record.op] \in PlanSet
      /\ plans[record.op].id = record.op /\ record.current \in Operated
      /\ record.current \in plans[record.op].sel \ record.done
      /\ record.phase \in Active
  BY <1>3, CurrentFacts
<1>7. plans[record.op].scope \subseteq Components
  BY <1>6 DEF PlanSet
<1> QED
  BY <1>1, <1>2, <1>3, <1>4, <1>5, <1>6, <1>7 DEF s

\* A marker that was there or is new, and a process before the first component.
LEMMA SetsOut ==
  ASSUME ManagedInvariant, ses.pc = "call", NEW t, t = record.current,
         NEW p, p = plans[record.op],
         NEW m \in Markers, marker' = [marker EXCEPT ![t] = m],
         m.plan = p.id, m.phase = "applying",
         MarkerOK(t, m, p), ContOK(t, m, cont[t], p),
         "drift" \notin faults =>
           /\ "drive" \in p.scope => \/ m.drain /\ m.dep \notin Starting
                                     \/ InPlace(p, t, cont[t], "drive")
           /\ "drive" \in Components /\ ~cont[t]["drive"].there =>
                ~cont[t]["tenderdash"].up,
         ~IsComplete(marker[t], record),
         proc' = [proc EXCEPT ![t] = [step |-> NextStep(m), k |-> First(p.scope),
                                      heard |-> TRUE]],
         answer' = [answer EXCEPT ![t] = "none"],
         UNCHANGED <<cont, owned, staged>>, Outside,
         UNCHANGED <<record, claimed, faults>>,
         ses' = [ses EXCEPT !.pc = "answer"]
  PROVE  ManagedInvariant'
<1> DEFINE s == [ses EXCEPT !.pc = "answer"]
           q == [step |-> NextStep(m), k |-> First(p.scope), heard |-> TRUE]
<1>1. /\ s \in SessionSet /\ s.pc = "answer" /\ SessionOK(s, record, plans)
      /\ t \in Operated /\ record.op # 0 /\ claimed /\ p.id = record.op
      /\ p.scope \subseteq Components /\ record.op \in DOMAIN plans
      /\ t \in p.sel \ record.done /\ record.phase \in Active
      /\ \A u \in Operated : ~proc[u].heard
  BY Waits
<1>2. /\ cont[t] \in Hosts /\ HostTypeOK /\ Older(cont[t], cont[t])
      /\ m.plan \in 0..Len(plans) /\ m.plan = record.op
  <2>1. cont[t] \in Hosts /\ HostTypeOK /\ plans \in Seq(PlanSet)
    BY <1>1, HostFacts, RunnerFacts DEF RunTypes
  <2> QED
    BY <1>1, <2>1, OlderSelf
<1>3. First(p.scope) \in p.scope \cup {"end"}
  BY <1>1, FirstOf
<1>4. NextStep(m) \in {"drain", "enter"}
  BY DEF NextStep
<1>5. /\ q \in Procs /\ q.step = NextStep(m) /\ q.k = First(p.scope)
  BY <1>1, <1>3, <1>4 DEF Procs, Steps
<1>6. "none" \in Answers
  BY DEF Answers
<1> HIDE DEF s, q
<1>7. Becomes(t, cont[t], m, q, "none")
  BY <1>1, <1>2, SameHost DEF Becomes, q
<1>8. HostOK(t, m, cont[t], q, p)
  <2>1. q.step = "drain" => m.drain /\ m.dep \notin Starting
    BY <1>5 DEF NextStep, Starting
  <2>2. ProcOK(m, q, p)
    BY <1>3, <1>4, <1>5, <2>1 DEF ProcOK, Draining
  <2> QED
    BY <1>1, <1>2, <2>2 DEF HostOK, NoWork
<1>9. Passed(q, p) = {}
  <2>1. SUFFICES ASSUME NEW j \in Passed(q, p) PROVE FALSE
    OBVIOUS
  <2>2. /\ j \in p.scope /\ (q.k = "end" \/ Rank[j] < Rank[q.k])
    BY <1>4, <1>5 DEF Passed
  <2>3. q.k # "end" /\ Rank[q.k] <= Rank[j] /\ q.k \in p.scope
    BY <1>1, <1>5, <2>2, FirstOf
  <2>4. Rank[j] \in Nat /\ Rank[q.k] \in Nat
    BY <1>1, <2>2, <2>3, Ranks
  <2> QED
    BY <2>2, <2>3, <2>4
<1>10. "drift" \notin faults' =>
         /\ PlaceOK(t, m, cont[t], q, p) /\ DrainOK(t, m, cont[t], q, p)
         /\ CountOK(record.op, t, cont[t], plans)
  <2>1. PlaceOK(t, m, cont[t], q, p)
    BY <1>9 DEF PlaceOK
  <2>2. q.step = "enter" /\ m.drain => m.dep \in Starting
    BY <1>5 DEF NextStep, Starting
  <2>3. "drift" \notin faults => DrainOK(t, m, cont[t], q, p)
    BY <1>4, <1>5, <2>2 DEF DrainOK
  <2> QED
    BY <1>1, <2>1, <2>3, HostFacts
<1>11. JournalOK(record, t, m, plans)
  BY <1>1, <1>2 DEF JournalOK
<1>12. /\ cont' = cont /\ marker'[t] = m /\ answer'[t] = "none" /\ proc'[t] = q
       /\ \A u \in Operated \ {t} : /\ marker'[u] = marker[u]
                                    /\ proc'[u] = proc[u]
  BY <1>1, <1>2, <1>7, BecomesAt
<1>13. AnswerOK(s, record, marker', answer')
  BY <1>1, <1>12 DEF AnswerOK, Replaced, InGate, Sweeps
<1>14. HeardOK(s, record, proc', answer')
  BY <1>1, <1>4, <1>5, <1>12 DEF HeardOK
<1>15. MarginOK(s, record, marker', Serving', plans)
  <2>1. Serving' = Serving
    BY <1>12 DEF Serving, Healthy, Outside
  <2>2. MarginOK(ses, record, marker, Serving, plans)
    BY RunnerFacts
  <2> QED
    BY <1>1, <2>1, <2>2 DEF MarginOK
<1>16. /\ cond' \in [Targets -> Conditions] /\ since' \subseteq Targets
       /\ UNCHANGED <<record, claimed, imports, plans>> /\ ses' = s
       /\ ("drift" \in faults => "drift" \in faults')
  BY RunnerFacts DEF Outside, RunTypes, s
<1> QED
  BY <1>1, <1>2, <1>5, <1>6, <1>7, <1>8, <1>10, <1>11, <1>13, <1>14, <1>15, <1>16,
     HostMoves

\* An answer at once: the marker is complete, or the guard refuses.
LEMMA AnsweredAtOnce ==
  ASSUME ManagedInvariant, ses.pc = "call", NEW t, t = record.current,
         NEW a \in Answers, a = "ok" => IsComplete(marker[t], record),
         answer' = [answer EXCEPT ![t] = a],
         UNCHANGED <<cont, owned, staged, marker, proc>>, Outside,
         UNCHANGED <<record, claimed, faults>>,
         ses' = [ses EXCEPT !.pc = "answer"]
  PROVE  ManagedInvariant'
<1> DEFINE s == [ses EXCEPT !.pc = "answer"]
           p == plans[marker[t].plan]
<1>1. /\ s \in SessionSet /\ s.pc = "answer" /\ SessionOK(s, record, plans)
      /\ t \in Operated /\ claimed /\ \A u \in Operated : ~proc[u].heard
  BY Waits
<1>2. /\ cont[t] \in Hosts /\ marker[t] \in Markers /\ proc[t] \in Procs
      /\ HostTypeOK /\ Older(cont[t], cont[t])
      /\ marker[t].plan \in 0..Len(plans)
      /\ HostOK(t, marker[t], cont[t], proc[t], p)
      /\ JournalOK(record, t, marker[t], plans)
      /\ "drift" \notin faults' =>
           /\ PlaceOK(t, marker[t], cont[t], proc[t], p)
           /\ DrainOK(t, marker[t], cont[t], proc[t], p)
           /\ CountOK(record.op, t, cont[t], plans)
  BY <1>1, HostFacts, RunnerFacts, OlderSelf
<1> HIDE DEF s
<1>3. Becomes(t, cont[t], marker[t], proc[t], a)
  BY <1>1, <1>2, SameHost DEF Becomes
<1>4. answer'[t] = a /\ marker' = marker /\ proc' = proc
  BY <1>1, <1>2, <1>3, BecomesAt
<1>5. AnswerOK(s, record, marker', answer') /\ HeardOK(s, record, proc', answer')
  BY <1>1, <1>4 DEF AnswerOK, Replaced, InGate, Sweeps, HeardOK
<1>6. MarginOK(s, record, marker', Serving', plans)
  <2>1. Serving' = Serving
    BY DEF Serving, Healthy, Outside
  <2>2. MarginOK(ses, record, marker, Serving, plans)
    BY RunnerFacts
  <2> QED
    BY <1>1, <1>4, <2>1, <2>2 DEF MarginOK
<1>7. /\ cond' \in [Targets -> Conditions] /\ since' \subseteq Targets
      /\ UNCHANGED <<record, claimed, imports, plans>> /\ ses' = s
      /\ ("drift" \in faults => "drift" \in faults')
  BY RunnerFacts DEF Outside, RunTypes, s
<1> QED
  BY <1>1, <1>2, <1>3, <1>5, <1>6, <1>7, HostMoves

\* A call resumes the marker or writes one, is answered at once or refused.
LEMMA CallStep == ManagedInvariant /\ Call => ManagedInvariant'
<1> SUFFICES ASSUME ManagedInvariant, Call PROVE ManagedInvariant'
  OBVIOUS
<1> DEFINE t == record.current
           p == plans[record.op]
<1>1. ses.pc = "call" /\ Outside /\ UNCHANGED <<record, claimed, faults>>
  BY DEF Call, Doing
<1>2. /\ ses.rec = record /\ ses.plan = record.op /\ t \in Operated /\ record.op # 0
      /\ p.id = record.op /\ t \in p.sel \ record.done
      /\ p.scope \subseteq Components /\ p \in PlanSet
      /\ \A u \in Operated : ~proc[u].heard
  BY <1>1, Waits
<1>3. P = p
  BY <1>2 DEF P
<1>4. CASE Quiet /\ Fail
  BY <1>1, <1>2, <1>4, FailQuietly DEF Working
<1>5. CASE Apply(t, p) /\ ses' = Then("answer")
  <2>1. /\ UNCHANGED <<cont, owned, staged>> /\ ses' = [ses EXCEPT !.pc = "answer"]
        /\ cont[t] \in Hosts /\ marker[t] \in Markers /\ HostTypeOK
        /\ HostOK(t, marker[t], cont[t], proc[t], plans[marker[t].plan])
    BY <1>2, <1>5, HostFacts, RunnerFacts DEF Apply, Then
  <2>2. CASE Resumes(t, p)
    <3>1. /\ marker[t].plan = record.op /\ marker[t].phase # "none"
      BY <1>2, <2>1, <2>2 DEF Resumes, HostOK
    <3>2. marker' = [marker EXCEPT ![t] = marker[t]] /\ marker' = marker
      BY <1>2, <1>5, <2>1, <2>2, SameHost DEF Apply
    <3>3. CASE ~Guard(t, p) \/ marker[t].phase = "complete"
      <4> DEFINE a == IF Guard(t, p) THEN "ok" ELSE "error"
      <4>1. UNCHANGED proc /\ answer' = [answer EXCEPT ![t] = a]
        BY <1>5, <2>2, <3>3 DEF Apply
      <4>2. a \in Answers /\ (a = "ok" => IsComplete(marker[t], record))
        BY <3>1, <3>3 DEF Answers, IsComplete
      <4> HIDE DEF a
      <4> QED
        BY <1>1, <2>1, <3>2, <4>1, <4>2, AnsweredAtOnce
    <3>4. CASE ~(~Guard(t, p) \/ marker[t].phase = "complete")
      <4>1. marker[t].phase = "applying"
        BY <2>1, <3>1, <3>4 DEF Markers
      <4>2. MarkerOK(t, marker[t], p) /\ ContOK(t, marker[t], cont[t], p)
        BY <2>1, <3>1 DEF HostOK
      <4>3. "drift" \notin faults => DrainOK(t, marker[t], cont[t], proc[t], p)
        BY <1>2, <3>1, HostFacts
      <4>4. "drift" \notin faults =>
              /\ "drive" \in p.scope =>
                   \/ marker[t].drain /\ marker[t].dep \notin Starting
                   \/ InPlace(p, t, cont[t], "drive")
              /\ "drive" \in Components /\ ~cont[t]["drive"].there =>
                   ~cont[t]["tenderdash"].up
        BY <4>1, <4>3 DEF DrainOK
      <4>5. ~IsComplete(marker[t], record) /\ marker[t].plan = p.id
        BY <1>2, <3>1, <4>1 DEF IsComplete
      <4>6. /\ proc' = [proc EXCEPT ![t] =
                 [step |-> NextStep(marker[t]), k |-> First(p.scope),
                  heard |-> TRUE]]
            /\ answer' = [answer EXCEPT ![t] = "none"]
        BY <1>5, <2>2, <3>4 DEF Apply
      <4> QED
        BY <1>1, <2>1, <3>2, <4>1, <4>2, <4>4, <4>5, <4>6, SetsOut
    <3> QED
      BY <3>3, <3>4
  <2>3. CASE ~Resumes(t, p)
    <3> DEFINE m == NewMarker(t, p)
               dr == Drains(t, p)
    <3>1. /\ MayBegin(t, p) /\ marker' = [marker EXCEPT ![t] = m]
          /\ proc' = [proc EXCEPT ![t] =
               [step |-> NextStep(m), k |-> First(p.scope), heard |-> TRUE]]
          /\ answer' = [answer EXCEPT ![t] = "none"]
      BY <1>5, <2>3 DEF Apply
    <3>2. dr \in BOOLEAN
      BY DEF Drains
    <3>3. m = [plan |-> p.id, phase |-> "applying", done |-> {},
               drain |-> dr, dep |-> "none"]
      BY DEF NewMarker
    <3> HIDE DEF m, dr
    <3>4. /\ m \in Markers /\ m.plan = p.id /\ m.phase = "applying"
          /\ m.done = {} /\ m.drain = dr /\ m.dep = "none"
      BY <1>2, <3>2, <3>3 DEF Markers, Dependencies, PlanSet
    <3>5. \A k \in Components : cont[t][k].there
      BY <3>1 DEF MayBegin, Preserved
    <3>6. MarkerOK(t, m, p)
      BY <1>2, <3>4 DEF MarkerOK, Drains, dr
    <3>7. ContOK(t, m, cont[t], p)
      BY <3>4, <3>5 DEF ContOK
    <3>8. "drive" \in p.scope => \/ m.drain /\ m.dep \notin Starting
                                 \/ InPlace(p, t, cont[t], "drive")
      <4>1. SUFFICES ASSUME "drive" \in p.scope, ~dr
                     PROVE  InPlace(p, t, cont[t], "drive")
        BY <3>4 DEF Starting
      <4>2. {"drive", "tenderdash"} \subseteq Components
        BY <1>2, <4>1, ManagedHostAssumption
      <4>3. Wanted(t, p, "drive")
        BY <4>1, <4>2 DEF Drains, dr
      <4> QED
        BY <3>5, <4>2, <4>3 DEF InPlace, Wanted
    <3>9. ~IsComplete(marker[t], record)
      BY <1>2, <2>3 DEF Resumes, IsComplete
    <3> QED
      BY <1>1, <2>1, <3>1, <3>4, <3>5, <3>6, <3>7, <3>8, <3>9, SetsOut
  <2> QED
    BY <2>2, <2>3
<1> QED
  BY <1>2, <1>3, <1>4, <1>5 DEF Call
-----------------------------------------------------------------------------
(* The invariant.                                                           *)

\* It holds at first.
LEMMA InitHolds == Init => ManagedInvariant
<1> SUFFICES ASSUME Init PROVE ManagedInvariant
  OBVIOUS
<1>1. /\ record = Absent /\ claimed = FALSE /\ ses = NoSession
      /\ imports = <<>> /\ plans = <<>> /\ since = {} /\ faults = {}
      /\ cond \in [Targets -> Conditions] /\ HostInit
  BY DEF Init, Conditions
<1>2. /\ \A t \in Operated : /\ cont[t] = Original /\ marker[t] = NoMarker
                             /\ proc[t] = Idle /\ answer[t] = "none"
      /\ Original \in Hosts /\ NoMarker \in Markers /\ Idle \in Procs
      /\ "none" \in Answers
  BY <1>1 DEF HostInit, Original, NoMarker, Idle, Hosts, Containers, Markers,
     Procs, Steps, Answers, Dependencies
<1>3. \A k \in Components : Original[k].there /\ Original[k].id = 0
  BY DEF Original
<1>4. /\ NoMarker.phase = "none" /\ NoMarker.plan = 0 /\ Idle.step = "idle"
      /\ ~Idle.heard
  BY DEF NoMarker, Idle
<1>5. /\ Absent.op = 0 /\ Absent.current = 0 /\ Absent.phase = "absent"
      /\ Absent \in RecordSet /\ NoSession.pc = "idle"
  BY DEF Absent, RecordSet, Phases, NoSession
<1>6. HostTypeOK
  BY <1>1, <1>2, HostTypes DEF HostInit
<1>7. RunTypes /\ PlansOK
  <2>1. /\ imports \in Seq(Snapshots) /\ plans \in Seq(PlanSet)
        /\ DOMAIN imports = {} /\ DOMAIN plans = {}
    BY <1>1
  <2>2. ses \in SessionSet /\ claimed \in BOOLEAN /\ since \subseteq Targets
    BY <1>1, NoSessionType
  <2>3. RunTypes
    BY <1>1, <2>1, <2>2 DEF RunTypes
  <2> QED
    BY <2>1, <2>3 DEF PlansOK
<1>8. RecordOK(record, plans)
  BY <1>1, <1>5 DEF RecordOK, Active
<1>9. HostsOK
  <2> SUFFICES ASSUME NEW t \in Operated
               PROVE  /\ 0 \in 0..Len(plans)
                      /\ HostOK(t, NoMarker, Original, Idle, plans[0])
                      /\ JournalOK(record, t, NoMarker, plans)
    BY <1>2, <1>4 DEF HostsOK
  <2>1. 0 \in 0..Len(plans)
    BY <1>1
  <2>2. HostOK(t, NoMarker, Original, Idle, plans[0])
    BY <1>3, <1>4 DEF HostOK, NoWork, MarkerOK, ProcOK, ContOK, Draining
  <2>3. JournalOK(record, t, NoMarker, plans)
    BY <1>1, <1>4, <1>5 DEF JournalOK
  <2> QED
    BY <2>1, <2>2, <2>3
<1>10. OrderOK
  <2> SUFFICES ASSUME NEW t \in Operated
               PROVE  /\ PlaceOK(t, NoMarker, Original, Idle, plans[0])
                      /\ DrainOK(t, NoMarker, Original, Idle, plans[0])
                      /\ CountOK(0, t, Original, plans)
    BY <1>1, <1>2, <1>4, <1>5 DEF OrderOK
  <2>1. CountOK(0, t, Original, plans)
    <3> SUFFICES ASSUME NEW k \in Components
                 PROVE  0 <= Cardinality(Replacements(0, t, k, plans))
      BY <1>3 DEF CountOK
    <3>1. Cardinality(Replacements(0, t, k, plans)) \in Nat
      BY <1>7, ReplacementsFinite
    <3> QED
      BY <3>1
  <2> QED
    BY <1>3, <1>4, <2>1 DEF PlaceOK, DrainOK
<1>11. RunnerOK
  <2>1. SessionOK(ses, record, plans)
    BY <1>1, <1>5 DEF SessionOK, Operating, Preparing, AtWork, Replaced, InGate,
       Sweeps
  <2>2. AnswerOK(ses, record, marker, answer) /\ HeardOK(ses, record, proc, answer)
    BY <1>1, <1>2, <1>4, <1>5 DEF AnswerOK, HeardOK, Replaced, InGate, Sweeps
  <2>3. MarginOK(ses, record, marker, Serving, plans)
    BY <1>1, <1>5 DEF MarginOK
  <2> QED
    BY <1>1, <1>5, <2>1, <2>2, <2>3 DEF RunnerOK
<1> QED
  BY <1>6, <1>7, <1>8, <1>9, <1>10, <1>11 DEF ManagedInvariant

\* Every step keeps it.
LEMMA NextKeeps == ManagedInvariant /\ [Next]_vars => ManagedInvariant'
<1> SUFFICES ASSUME ManagedInvariant, [Next]_vars PROVE ManagedInvariant'
  OBVIOUS
<1>1. CASE Session
  BY <1>1, EnrollHostStep, StageStep, EnrolledStep, IntendStep, PickStep, MarkStep,
     CallStep, AnswerStep, ReadyStep, FirstSweepStep, SecondSweepStep, ExtendStep,
     FinishStep, CompletedStep, InterruptStep, ReleaseStep DEF Session
<1>2. CASE Operator
  BY <1>2, ImportStep, EnrollStep, MakePlanStep, ExecuteStep, UnlockStep DEF Operator
<1>3. CASE World
  BY <1>3, AnswerLostStep, TimedOutStep, NoTimeStep, CrashStep, KillStep, BannedStep,
     IntendedStopStep, DriftStep, NodeFailsStep, HealsStep DEF World
<1>4. CASE \E t \in Operated : WorkerStep(t)
  BY <1>4, WorkerKeeps
<1>5. CASE UNCHANGED vars
  BY <1>5 DEF vars, hostVars, runVars, ManagedInvariant, HostTypeOK, RunTypes,
     PlansOK, HostsOK, OrderOK, RunnerOK, Serving, Healthy
<1> QED
  BY <1>1, <1>2, <1>3, <1>4, <1>5 DEF Next

\* The invariant holds in every state of every run, with any number of targets
\* and plans and with any faults.
THEOREM ManagedInvariance == Spec => []ManagedInvariant
  BY InitHolds, NextKeeps, PTL DEF Spec

-----------------------------------------------------------------------------
(* The properties.                                                          *)

\* Types, and what Record.Validate asks of a record (store.go 38-64): an
\* operation that is unfinished has a plan, enrolled targets, and a current
\* target that is not done; a complete one has none.
THEOREM ManagedTypes == Spec => []TypeOK
<1>1. ManagedInvariant => TypeOK
  <2> SUFFICES ASSUME ManagedInvariant PROVE TypeOK
    OBVIOUS
  <2>1. /\ HostTypeOK /\ record \in RecordSet /\ RecordOK(record, plans)
        /\ ses \in SessionSet /\ (ses.pc # "idle" => claimed)
        /\ claimed \in BOOLEAN /\ RunTypes
    BY RunnerFacts
  <2>2. record.phase = "complete" => record.current = 0
    BY CurrentFacts DEF Active
  <2>3. record.phase \in Active =>
          /\ record.op \in DOMAIN plans
          /\ Targets \ record.done \subseteq record.enrolled
          /\ record.current # 0 => record.current \in record.enrolled \ record.done
    BY <2>1 DEF RecordOK
  <2>4. \A t \in Operated : marker[t].plan # 0 => marker[t].plan \in DOMAIN plans
    <3>1. plans \in Seq(PlanSet)
      BY <2>1 DEF RunTypes
    <3> QED
      BY <3>1, HostFacts
  <2>5. record.phase \in Phases /\ record.enrolled \subseteq Operated
    BY <2>1 DEF RecordSet
  <2>6. ses.pc \in SessionPc
    BY <2>1 DEF SessionSet
  <2> QED
    BY <2>1, <2>2, <2>3, <2>4, <2>5, <2>6 DEF TypeOK, RunTypes
<1> QED
  BY <1>1, ManagedInvariance, PTL

\* runner.go 306-330, worker.py 494-529: what a session finds after another was
\* broken off is one marker, named by the record, from which every container can
\* be put back, and Tenderdash is down where its Drive is gone.
THEOREM OperationIsResumable == Spec => []Resumable
<1>1. ManagedInvariant => Resumable
  <2> SUFFICES ASSUME ManagedInvariant PROVE OneApplying /\ Recoverable
    BY DEF Resumable
  <2>1. OneApplying
    <3>1. ASSUME NEW t \in Operated, marker[t].phase = "applying"
          PROVE  /\ record.op = marker[t].plan /\ record.current = t
                 /\ record.phase \in Active
      BY <3>1, HostFacts DEF JournalOK
    <3> QED
      BY <3>1 DEF OneApplying, Unfinished
  <2>2. ASSUME NEW t \in Operated, NEW k \in Components, ~cont[t][k].there
        PROVE  /\ Unfinished(t) /\ k \in plans[marker[t].plan].scope
               /\ \A d \in marker[t].done : d[1] # k
               /\ k = "drive" /\ "drift" \notin faults => ~cont[t]["tenderdash"].up
    <3> DEFINE p == plans[marker[t].plan]
    <3>1. HostOK(t, marker[t], cont[t], proc[t], p)
      BY HostFacts
    <3>2. marker[t].phase # "none"
      BY <2>2, <3>1 DEF HostOK, NoWork
    <3>3. /\ marker[t].phase = "applying" /\ k \in p.changed
          /\ \A d \in marker[t].done : d[1] # k
      BY <2>2, <3>1, <3>2 DEF HostOK, ContOK
    <3>4. p.changed \subseteq p.scope
      BY <3>2, HostFacts, RunnerFacts, PlanType
    <3>5. k = "drive" /\ "drift" \notin faults => ~cont[t]["tenderdash"].up
      BY <2>2, HostFacts DEF DrainOK
    <3> QED
      BY <3>3, <3>4, <3>5 DEF Unfinished
  <2> QED
    BY <2>1, <2>2 DEF Recoverable
<1> QED
  BY <1>1, ManagedInvariance, PTL

\* runner.go 306-315, 424, health.go 252: while a consensus service of a
\* validator is being replaced, the others hold over two thirds of the power, but
\* for what has failed since it was seen, whatever the powers are.
THEOREM QuorumIsKept == Spec => []QuorumGate
<1>1. ManagedInvariant => QuorumGate
  <2> SUFFICES ASSUME ManagedInvariant, NEW t \in Operated,
                      marker[t].phase = "applying",
                      plans[marker[t].plan].kind = "upgrade",
                      plans[marker[t].plan].scope \cap Consensus # {}
               PROVE  3 * Voting({v \in Targets \ {t} : Healthy(v) \/ v \in since})
                        > 2 * Voting(Targets)
    BY DEF QuorumGate, Unfinished, Consensus
  <2>1. record.op = marker[t].plan /\ record.current = t /\ t # 0
    BY HostFacts, OperatedTargets DEF JournalOK
  <2>2. Margin(plans[record.op], t, Serving)
    BY <2>1, RunnerFacts DEF MarginOK, IsComplete
  <2>3. Serving \ {t} = {v \in Targets \ {t} : Healthy(v) \/ v \in since}
    BY DEF Serving
  <2>4. 3 * Voting(Serving \ {t}) > 2 * Voting(Targets)
    BY <2>1, <2>2 DEF Margin
  <2> QED
    BY <2>3, <2>4
<1> QED
  BY <1>1, ManagedInvariance, PTL

\* runner.go 337-343: when the record says complete, every container in scope
\* is the desired one on every host of the plan, and no container was replaced
\* more often than the operations so far called for.
THEOREM CompleteMeansDone == Spec => []CompleteIsReal
<1>1. ManagedInvariant => CompleteIsReal
  <2> SUFFICES ASSUME ManagedInvariant, "drift" \notin faults
               PROVE  /\ record.phase = "complete" =>
                           \A t \in plans[record.op].sel :
                             /\ IsComplete(marker[t], record)
                             /\ \A k \in plans[record.op].scope :
                                  Wanted(t, plans[record.op], k)
                      /\ \A t \in Operated, k \in Components :
                           cont[t][k].id <=
                             Cardinality(Replacements(record.op, t, k, plans))
    BY DEF CompleteIsReal, IsComplete, Replacements
  <2>1. ASSUME record.phase = "complete", NEW t \in plans[record.op].sel
        PROVE  /\ IsComplete(marker[t], record)
               /\ \A k \in plans[record.op].scope : Wanted(t, plans[record.op], k)
    <3>1. /\ record.op # 0 /\ record.done = Targets
      BY <2>1, RunnerFacts DEF RecordOK, Active
    <3>2. t \in Operated /\ t \in plans[record.op].sel \cap record.done
      BY <3>1, CurrentFacts, OperatedTargets
    <3>3. IsComplete(marker[t], record)
      BY <3>1, <3>2, RunnerFacts DEF JournalOK
    <3>4. \A k \in plans[record.op].scope : InPlace(plans[record.op], t, cont[t], k)
      BY <3>2, <3>3, HostFacts DEF PlaceOK, IsComplete
    <3> QED
      BY <3>3, <3>4 DEF InPlace, Wanted
  <2>2. \A t \in Operated, k \in Components :
          cont[t][k].id <= Cardinality(Replacements(record.op, t, k, plans))
    BY HostFacts DEF CountOK
  <2> QED
    BY <2>1, <2>2
<1> QED
  BY <1>1, ManagedInvariance, PTL

\* Sessions, and what happens around them, remove no container.
LEMMA SessionRemovesNothing ==
  ASSUME Session \/ Operator
  PROVE  UNCHANGED cont
<1>1. ASSUME NEW t \in Operated, EnrollHost(t) \/ Stage(t) PROVE UNCHANGED cont
  BY <1>1 DEF EnrollHost, Stage, HostEnroll, HostStage, Quiet, hostVars
<1>2. CASE \/ Enrolled \/ Intend \/ Pick \/ Mark \/ Answer \/ Ready \/ FirstSweep
           \/ (\E L \in Idling(Targets) : SecondSweep(L)) \/ Extend
           \/ Finish \/ Completed \/ Interrupt \/ Release
  BY <1>2 DEF Enrolled, Intend, Pick, Mark, Answer, Ready, FirstSweep, SecondSweep,
     Extend, Finish, Completed, Interrupt, Release, Quiet, hostVars
<1>3. CASE Call
  BY <1>3 DEF Call, Apply, Quiet, hostVars
<1>4. CASE Operator
  BY <1>4 DEF Operator, Import, Enroll, MakePlan, Execute, Unlock, Quiet, hostVars
<1> QED
  BY <1>1, <1>2, <1>3, <1>4 DEF Session

\* One container of one host changes, and stays there.
LEMMA TouchLeaves ==
  ASSUME HostTypeOK, NEW u \in Operated, NEW j \in Components, NEW c,
         Touch(u, j, c), cont[u][j].there => c.there,
         NEW t \in Operated, NEW k \in Components, cont[t][k].there
  PROVE  cont'[t][k].there
<1>1. cont \in [Operated -> Hosts] /\ cont[t] \in Hosts /\ cont[u] \in Hosts
  BY HostTypes
<1>2. \/ cont'[t][k] = cont[t][k]
      \/ t = u /\ k = j /\ cont'[t][k] = c
  BY <1>1 DEF Touch, Hosts
<1> QED
  BY <1>2

\* Nor do faults and the chain.
LEMMA WorldRemovesNothing ==
  ASSUME HostTypeOK, World, NEW t \in Operated, NEW k \in Components,
         cont[t][k].there
  PROVE  cont'[t][k].there
<1>1. CASE AnswerLost \/ TimedOut \/ NoTime \/ Crash
  BY <1>1 DEF AnswerLost, TimedOut, NoTime, Crash, Quiet, hostVars
<1>2. ASSUME NEW u \in Operated, Kill(u) \/ Banned(u) PROVE UNCHANGED cont
  BY <1>2 DEF Kill, Killed, Banned, Quiet, hostVars
<1>3. ASSUME NEW u \in Operated, NEW j \in Components, IntendedStop(u, j)
      PROVE  cont'[t][k].there
  <2> DEFINE c == [cont[u][j] EXCEPT !.up = FALSE]
  <2>1. cont[u][j] \in Containers /\ Touch(u, j, c)
    BY <1>3, HostTypes DEF IntendedStop, Hosts
  <2>2. c.there = cont[u][j].there
    BY <2>1, ContainerDown
  <2> HIDE DEF c
  <2> QED
    BY <2>1, <2>2, TouchLeaves
<1>4. ASSUME NEW u \in Operated, NEW j \in Components, Drift(u, j)
      PROVE  cont'[t][k].there
  <2>1. PICK img : Touch(u, j, [there |-> TRUE, id |-> cont[u][j].id + 1,
                                img |-> img, up |-> TRUE, run |-> 1])
    BY <1>4 DEF Drift
  <2> DEFINE c == [there |-> TRUE, id |-> cont[u][j].id + 1, img |-> img,
                   up |-> TRUE, run |-> 1]
  <2>2. c.there /\ Touch(u, j, c)
    BY <2>1
  <2> HIDE DEF c
  <2> QED
    BY <2>2, TouchLeaves
<1>5. ASSUME NEW v \in Targets, NodeFails(v) \/ Heals(v) PROVE UNCHANGED cont
  BY <1>5 DEF NodeFails, Heals, Quiet, hostVars
<1> QED
  BY <1>1, <1>2, <1>3, <1>4, <1>5 DEF World

\* A worker removes the container of the snapshot and no other.
LEMMA WorkerRemoves ==
  ASSUME ManagedInvariant, NEW u \in Operated, WorkerStep(u),
         NEW t \in Operated, NEW k \in Components,
         cont[t][k].there, ~cont'[t][k].there
  PROVE  cont[t][k].id = plans[marker[t].plan].base[t][k].id
<1> DEFINE p == plans[marker[u].plan]
           j == proc[u].k
<1>1. HostTypeOK /\ Worker(u, p) /\ cont \in [Operated -> Hosts]
      /\ cont[u] \in Hosts /\ cont[t] \in Hosts
  BY RunnerFacts, HostTypes DEF WorkerStep
<1>2. cont' # cont
  OBVIOUS
<1>3. ~(\/ StopRequested(u) \/ Drained(u) \/ Enter(u, p) \/ Refuse(u, p)
        \/ Recorded(u, p) \/ Restarted(u, p) \/ Complete(u, p))
  BY <1>2 DEF StopRequested, Drained, Enter, Refuse, Recorded, Restarted, Complete
<1>4. ASSUME Stop(u, p) \/ Remove(u, p) \/ Create(u, p) \/ Start(u, p)
      PROVE  ~Free(u) /\ j \in Components
  <2>1. proc[u].step = "work" /\ ~Free(u)
    BY <1>4 DEF Stop, Remove, Create, Start, Replaces, At, Free
  <2> QED
    BY <2>1, WorkFacts DEF ProcOK
<1>5. ~DependencyStopped(u)
  <2>1. SUFFICES ASSUME DependencyStopped(u) PROVE FALSE
    OBVIOUS
  <2>2. /\ proc[u].step = "draining" /\ ~Free(u)
        /\ cont' = [cont EXCEPT ![u]["tenderdash"].up = FALSE]
    BY <1>2, <2>1 DEF DependencyStopped, At, Free
  <2>3. "tenderdash" \in Components
    BY <2>2, WorkFacts DEF ProcOK, Draining
  <2> DEFINE c == [cont[u]["tenderdash"] EXCEPT !.up = FALSE]
  <2>4. cont[u]["tenderdash"] \in Containers /\ Touch(u, "tenderdash", c)
    BY <1>1, <2>2, <2>3 DEF Touch, Hosts
  <2>5. c.there = cont[u]["tenderdash"].there
    BY <2>4, ContainerDown
  <2> HIDE DEF c
  <2> QED
    BY <1>1, <2>3, <2>4, <2>5, TouchLeaves
<1>6. ~Stop(u, p)
  <2>1. SUFFICES ASSUME Stop(u, p) PROVE FALSE
    OBVIOUS
  <2> DEFINE c == [cont[u][j] EXCEPT !.up = FALSE]
  <2>2. cont[u][j] \in Containers /\ Touch(u, j, c) /\ j \in Components
    BY <1>1, <1>4, <2>1 DEF Stop, Hosts
  <2>3. c.there = cont[u][j].there
    BY <2>2, ContainerDown
  <2> HIDE DEF c, j
  <2> QED
    BY <1>1, <2>2, <2>3, TouchLeaves
<1>7. ~Create(u, p)
  <2>1. SUFFICES ASSUME Create(u, p) PROVE FALSE
    OBVIOUS
  <2> DEFINE c == [there |-> TRUE, id |-> cont[u][j].id + 1,
                   img |-> Desired(p, u, j), up |-> FALSE, run |-> 0]
  <2>2. c.there /\ Touch(u, j, c) /\ j \in Components
    BY <1>4, <2>1 DEF Create
  <2> HIDE DEF c, j
  <2> QED
    BY <1>1, <2>2, TouchLeaves
<1>8. ~Start(u, p)
  <2>1. SUFFICES ASSUME Start(u, p) PROVE FALSE
    OBVIOUS
  <2> DEFINE c == [cont[u][j] EXCEPT !.up = TRUE, !.run = @ + 1]
  <2>2. cont[u][j] \in Containers /\ Touch(u, j, c) /\ j \in Components
    BY <1>1, <1>4, <2>1 DEF Start, Hosts
  <2>3. c.there = cont[u][j].there
    BY <2>2, ContainerUp
  <2> HIDE DEF c, j
  <2> QED
    BY <1>1, <2>2, <2>3, TouchLeaves
<1>9. Remove(u, p)
  BY <1>1, <1>3, <1>5, <1>6, <1>7, <1>8 DEF Worker
<1>10. t = u /\ k = j
  <2>1. Touch(u, j, [cont[u][j] EXCEPT !.there = FALSE])
    BY <1>9 DEF Remove
  <2> QED
    BY <1>1, <1>4, <1>9, <2>1 DEF Touch, Hosts
<1> QED
  BY <1>9, <1>10 DEF Remove, Mine

\* worker.py 514-520: a container that is removed is the one of the snapshot
\* that was reviewed; one that someone else put there is never removed.
THEOREM ForeignIsKept == Spec => ForeignKept
<1>1. ASSUME ManagedInvariant, [Next]_vars
      PROVE  \A t \in Operated, k \in Components :
               cont[t][k].there /\ ~cont'[t][k].there =>
                 cont[t][k].id = plans[marker[t].plan].base[t][k].id
  <2> SUFFICES ASSUME NEW t \in Operated, NEW k \in Components,
                      cont[t][k].there, ~cont'[t][k].there
               PROVE  cont[t][k].id = plans[marker[t].plan].base[t][k].id
    OBVIOUS
  <2>1. ~(Session \/ Operator)
    BY SessionRemovesNothing
  <2>2. ~World
    BY <1>1, RunnerFacts, WorldRemovesNothing
  <2>3. ~UNCHANGED vars
    BY DEF vars, hostVars
  <2>4. PICK u \in Operated : WorkerStep(u)
    BY <1>1, <2>1, <2>2, <2>3 DEF Next
  <2> QED
    BY <1>1, <2>4, WorkerRemoves
<1> QED
  BY <1>1, ManagedInvariance, PTL DEF Spec, ForeignKept
=============================================================================
