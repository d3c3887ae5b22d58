----------------------------- MODULE JournalInv -----------------------------
(***************************************************************************)
(* The inductive invariant of Journal.  The properties of Journal speak of  *)
(* the table and of the runners' belief; what keeps them true is which late *)
(* calls and answers can still be on the wire, and what those carry.        *)
(***************************************************************************)
EXTENDS Journal

Acquiring == {"start", "putting", "reading", "claiming"}
SaveCalls   == {m \in calls : m.op = "save"}
SaveReplies == {r \in replies : r.op = "save"}

\* Before the first PutItem the table is empty.
NoRecordYet == plan = NoPlan => owner = NoOwner /\ rev = 0 /\ data = {}

\* A release is on the wire only for a runner past its work.
ReleaseOnlyAfter ==
  \A m \in calls : m.op = "release" => pc[m.owner] \in {"releasing"} \cup Stopped

\* Attempts and answers of an Acquire outlive it only when the runner stopped
\* without taking an answer.
AcquireOnlyIn ==
  \A m \in calls \cup replies :
       /\ m.op = "put"   => pc[m.owner] \in {"putting"} \cup Stopped
       /\ m.op = "claim" => pc[m.owner] \in {"claiming"} \cup Stopped

\* A runner still acquiring, and one whose Acquire may still land late, never
\* wrote: a claim that lands late finds no late checkpoint to let through.
NoWriteBeforeClaim ==
  /\ \A m \in SaveCalls \cup SaveReplies : pc[m.owner] \notin Acquiring
  /\ \A m \in calls \cup replies : m.op \in {"put", "claim"} =>
       \A s \in SaveCalls : s.owner # m.owner

\* The answer a runner is about to take still describes the item.
AnswerCurrent ==
  \A r \in replies : r.ok =>
    /\ r.op = "put" /\ pc[r.owner] = "putting" =>
         owner = r.owner /\ plan = PlanOf[r.owner] /\ rev = 0 /\ data = {}
    /\ r.op = "claim" /\ pc[r.owner] = "claiming" =>
         owner = r.owner /\ plan = PlanOf[r.owner] /\ rev = r.rev /\ data = r.data

\* Late checkpoints of a runner are steps of one chain that ends in its copy.
SavesBelowLocal ==
  \A m \in SaveCalls :
    /\ m.rev <= local[m.owner].rev
    /\ m.rev = local[m.owner].rev => m.data = local[m.owner].data

SavesChain ==
  \A m, n \in SaveCalls : m.owner = n.owner =>
    /\ m.rev = n.rev => m.data = n.data
    /\ n.rev = m.rev + 1 => n.data = m.data \cup {<<n.owner, n.rev>>}

\* The checkpoint that the condition lets through next extends the item.
NextSaveExtends ==
  \A m \in SaveCalls :
    owner = m.owner /\ m.rev = rev + 1 => m.data = data \cup {<<m.owner, m.rev>>}

\* A holder's copy is the item, or ahead of it by unserved checkpoints.
HolderAhead ==
  \A o \in Runners : Holding(o) =>
    /\ rev <= local[o].rev
    /\ rev = local[o].rev => data = local[o].data

\* An acknowledged revision has been reached.
AckReached ==
  \A r \in SaveReplies : Holding(r.owner) => r.rev <= rev

\* The checkpoint in progress carries its own mark.
OwnMark ==
  \A o \in Runners : pc[o] = "saving" => <<o, local[o].rev>> \in local[o].data

Safe == ClaimExcludes /\ HolderSeesLatest /\ AckedDurable

Wire ==
  /\ NoRecordYet /\ ReleaseOnlyAfter /\ AcquireOnlyIn /\ NoWriteBeforeClaim
  /\ AnswerCurrent /\ SavesBelowLocal /\ SavesChain /\ NextSaveExtends
  /\ HolderAhead /\ AckReached /\ OwnMark

\* Everything above: the inductive invariant.  It is what the code relies on
\* when it treats a nil answer of Acquire or Save as "the item is mine and is
\* what I sent", with retries of every call still under way.
JournalInvariant == TypeOK /\ Safe /\ Wire
=============================================================================
