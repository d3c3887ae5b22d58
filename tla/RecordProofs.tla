----------------------------- MODULE RecordProofs -----------------------------
(***************************************************************************)
(* Proofs about the shared record.  First what its claim and its revision   *)
(* keep (Journal), for any number of runners, plans and checkpoints: the    *)
(* invariant of JournalInv is inductive, and the properties of Journal and  *)
(* the refinement of ClaimedRecord follow.                                  *)
(*                                                                          *)
(* Then what provisioning, whose sessions exclude each other by that, makes *)
(* of it (Provision), for any number of targets and of allocations: an      *)
(* instance is launched once and an address allocated once however often    *)
(* sessions are cut off, what is ready is there, and what is released was   *)
(* dead, stays dead and leaves nothing behind.                              *)
(***************************************************************************)
EXTENDS JournalInv, Provision, FiniteSetTheorems, WellFoundedInduction, TLAPS

-----------------------------------------------------------------------------
(* Journal.                                                                 *)


\* The next record is a record, one revision further.
LEMMA NextRecordType ==
  ASSUME TypeOK, NEW o \in Runners
  PROVE  /\ NextRecord(o) \in Records
         /\ NextRecord(o).rev = local[o].rev + 1
         /\ NextRecord(o).data = local[o].data \cup {<<o, local[o].rev + 1>>}
         /\ local[o].rev \in Nat
         /\ local[o].data \subseteq Checkpoint
  BY DEF TypeOK, NextRecord, Records, Checkpoint

\* What a call on the wire carries.
LEMMA CallType ==
  ASSUME TypeOK, NEW m \in calls
  PROVE  /\ m.op \in {"put", "claim", "save", "release"}
         /\ m.owner \in Runners
         /\ m.rev \in Nat
         /\ m.data \subseteq Checkpoint
  BY DEF TypeOK, Calls

\* What an answer carries.
LEMMA ReplyType ==
  ASSUME TypeOK, NEW r \in replies
  PROVE  /\ r.op \in {"put", "claim", "save"}
         /\ r.owner \in Runners
         /\ r.rev \in Nat
         /\ r.data \subseteq Checkpoint
         /\ r.ok \in BOOLEAN
  BY DEF TypeOK, Replies

\* Serving a call touches the wire, and nothing of the runners.
LEMMA AnswerType ==
  ASSUME TypeOK, NEW m \in calls, m.op # "release",
         NEW n \in Nat, NEW d \in SUBSET Checkpoint, NEW ok \in BOOLEAN,
         \/ Answer(m, {Reply(m, n, d, ok)})
         \/ Answer(m, {})
  PROVE  /\ calls' \subseteq Calls
         /\ replies' \subseteq Replies
         /\ pc' \in [Runners -> PCs]
         /\ local' \in [Runners -> Records]
         /\ acked' \in [Runners -> SUBSET Checkpoint]
<1>1. Reply(m, n, d, ok) \in Replies
  BY CallType DEF Reply, Replies
<1> QED
  BY <1>1 DEF Answer, TypeOK

\* The variables keep their types.
LEMMA TypeStep == TypeOK /\ [Next]_vars => TypeOK'
<1> SUFFICES ASSUME TypeOK, [Next]_vars PROVE TypeOK'
  OBVIOUS
<1>1. ASSUME NEW m \in calls, ServePut(m) PROVE TypeOK'
  <2>1. /\ 0 \in Nat /\ {} \in SUBSET Checkpoint
        /\ TRUE \in BOOLEAN /\ FALSE \in BOOLEAN
        /\ m.op # "release" /\ m.owner \in Runners
    BY <1>1, CallType DEF ServePut, PutCondition
  <2>2. /\ calls' \subseteq Calls
        /\ replies' \subseteq Replies
        /\ pc' \in [Runners -> PCs]
        /\ local' \in [Runners -> Records]
        /\ acked' \in [Runners -> SUBSET Checkpoint]
    BY <1>1, <2>1, AnswerType DEF ServePut, PutCondition, Refuse
  <2>3. /\ plan' \in {NoPlan} \cup {PlanOf[o] : o \in Runners}
        /\ owner' \in Runners \cup {NoOwner}
        /\ rev' \in Nat
        /\ data' \subseteq Checkpoint
    BY <1>1, <2>1 DEF ServePut, PutCondition, Refuse, TypeOK, item
  <2> QED
    BY <2>2, <2>3 DEF TypeOK
<1>2. ASSUME NEW m \in calls, ServeClaim(m) PROVE TypeOK'
  BY <1>2, CallType, AnswerType DEF ServeClaim, ClaimCondition, Refuse, TypeOK, item
<1>3. ASSUME NEW m \in calls, ServeSave(m) PROVE TypeOK'
  BY <1>3, CallType, AnswerType DEF ServeSave, Refuse, TypeOK, item, SaveCondition
<1>4. ASSUME NEW m \in calls, ServeRelease(m) PROVE TypeOK'
  BY <1>4 DEF ServeRelease, HolderCondition, Refuse, Answer, Reply, TypeOK, Calls, Replies, item
<1>5. ASSUME NEW o \in Runners, Start(o) PROVE TypeOK'
  BY <1>5 DEF Start, GoTo, Send, Call, TypeOK, Calls, PCs, item
<1>6. ASSUME NEW o \in Runners, Created(o) PROVE TypeOK'
  BY <1>6 DEF Created, GoTo, Settle, OwnCall, OwnReplies, TypeOK, PCs, Records, item
<1>7. ASSUME NEW o \in Runners, Read(o) PROVE TypeOK'
  BY <1>7 DEF Read, GoTo, Send, Call, TypeOK, Calls, PCs, Stopped, item
<1>8. ASSUME NEW o \in Runners, Claimed(o) PROVE TypeOK'
  <2>1. local' \in [Runners -> Records]
    BY <1>8, ReplyType DEF Claimed, OwnReplies, TypeOK, Records
  <2> QED
    BY <1>8, <2>1 DEF Claimed, GoTo, Settle, OwnCall, OwnReplies, TypeOK, PCs,
                      Stopped, item
<1>9. ASSUME NEW o \in Runners, pc[o] \in {"working", "failed"}, SendSave(o),
             \E p \in {"saving", "interrupting"} : GoTo(o, p)
      PROVE  TypeOK'
  <2>1. local' \in [Runners -> Records] /\ local'[o] \in Records
    BY <1>9, NextRecordType DEF SendSave, TypeOK
  <2>2. calls' \subseteq Calls
    BY <1>9, <2>1 DEF SendSave, Send, Call, TypeOK, Calls, Records
  <2> QED
    BY <1>9, <2>1, <2>2 DEF SendSave, GoTo, TypeOK, PCs, item
<1>10. ASSUME NEW o \in Runners, Saved(o) PROVE TypeOK'
  BY <1>10 DEF Saved, GoTo, OwnReplies, TypeOK, PCs, Records, Checkpoint, item
<1>11. ASSUME NEW o \in Runners, NEW p \in PCs, GoTo(o, p),
              UNCHANGED <<item, local, calls, replies, acked>>
       PROVE  TypeOK'
  BY <1>11 DEF GoTo, TypeOK, item
<1>12. ASSUME NEW o \in Runners, SendRelease(o) PROVE TypeOK'
  BY <1>12 DEF SendRelease, GoTo, Send, Call, TypeOK, Calls, PCs, item
<1>13. ASSUME NEW o \in Runners, Unlock(o) PROVE TypeOK'
  BY <1>13 DEF Unlock, Send, Call, TypeOK, Calls, item
<1>14. CASE UNCHANGED vars
  BY <1>14 DEF vars, TypeOK
<1> QED
  BY <1>1, <1>2, <1>3, <1>4, <1>5, <1>6, <1>7, <1>8, <1>9, <1>10, <1>11, <1>12,
     <1>13, <1>14
     DEF Next, Serve, Runner, AcquireTimeout, SaveProgress, SaveFailed,
         RemoteFailure, Interrupt, InterruptDone, Finish, ReleaseDone, Crash,
         PCs, Stopped

\* A refused call changes nothing but the wire.
LEMMA RefuseKeeps ==
  ASSUME JournalInvariant, TypeOK',
         NEW m \in calls, m.op # "release",
         Refuse(m, {}) \/ Refuse(m, {Reply(m, 0, {}, FALSE)})
  PROVE  Safe' /\ Wire'
<1> USE DEF Refuse, Answer, Reply, item
<1>1. ClaimExcludes' /\ HolderSeesLatest' /\ AckedDurable'
  BY DEF JournalInvariant, Safe, Wire, TypeOK, ClaimExcludes, Holding,
         HolderSeesLatest, AckedDurable
<1>2. NoRecordYet' /\ ReleaseOnlyAfter' /\ AcquireOnlyIn'
  BY DEF JournalInvariant, Safe, Wire, TypeOK, NoRecordYet, ReleaseOnlyAfter,
         Stopped, AcquireOnlyIn
<1>3. NoWriteBeforeClaim' /\ AnswerCurrent'
  BY DEF JournalInvariant, Safe, Wire, TypeOK, NoWriteBeforeClaim, SaveCalls,
         SaveReplies, Acquiring, AnswerCurrent
<1>4. SavesBelowLocal' /\ SavesChain' /\ NextSaveExtends'
  BY DEF JournalInvariant, Safe, Wire, TypeOK, SavesBelowLocal, SaveCalls,
         SavesChain, NextSaveExtends
<1>5. HolderAhead' /\ AckReached' /\ OwnMark'
  BY DEF JournalInvariant, Safe, Wire, TypeOK, HolderAhead, Holding,
         AckReached, SaveReplies, OwnMark
<1> QED
  BY <1>1, <1>2, <1>3, <1>4, <1>5 DEF Safe, Wire

\* The first PutItem: nobody holds the claim of a record that does not exist.
LEMMA PutKeeps ==
  ASSUME JournalInvariant, TypeOK',
         NEW m \in calls, ServePut(m), plan = NoPlan
  PROVE  Safe' /\ Wire'
<1> USE DEF ServePut, PutCondition, Answer, Reply
<1>a. \A o \in Runners : ~Holding(o)
  BY JournalAssumption DEF JournalInvariant, Safe, ClaimExcludes
<1>1. HolderSeesLatest'
  BY <1>a
     DEF JournalInvariant, Safe, Wire, TypeOK, HolderSeesLatest, Holding
<1>2. AckedDurable'
  BY DEF JournalInvariant, Safe, Wire, TypeOK, AckedDurable, NoRecordYet
<1>3. ClaimExcludes'
  BY JournalAssumption
     DEF JournalInvariant, Safe, Wire, TypeOK, ClaimExcludes, Holding
<1>4. NoRecordYet' /\ ReleaseOnlyAfter' /\ AcquireOnlyIn'
  BY JournalAssumption
     DEF JournalInvariant, Safe, Wire, TypeOK, NoRecordYet, ReleaseOnlyAfter,
         Stopped, AcquireOnlyIn
<1>5. NoWriteBeforeClaim' /\ AnswerCurrent'
  BY ReplyType, JournalAssumption
     DEF JournalInvariant, Safe, Wire, TypeOK, NoWriteBeforeClaim, SaveCalls,
         SaveReplies, Acquiring, AnswerCurrent
<1>6. NextSaveExtends'
  BY DEF JournalInvariant, Safe, Wire, TypeOK, NextSaveExtends, SaveCalls,
         NoWriteBeforeClaim
<1>7. SavesBelowLocal' /\ SavesChain'
  BY DEF JournalInvariant, Safe, Wire, TypeOK, SavesBelowLocal, SaveCalls,
         SavesChain
<1>8. HolderAhead'
  BY <1>a
     DEF JournalInvariant, Safe, Wire, TypeOK, HolderAhead, Holding
<1>9. AckReached'
  BY <1>a, ReplyType
     DEF JournalInvariant, Safe, Wire, TypeOK, AckReached, SaveReplies, Holding
<1>10. OwnMark'
  BY DEF JournalInvariant, Safe, Wire, TypeOK, OwnMark
<1> QED
  BY <1>1, <1>2, <1>3, <1>4, <1>5, <1>6, <1>7, <1>8, <1>9, <1>10 DEF Safe, Wire

\* A granted claim: the claimer has no checkpoint on the wire.
LEMMA ClaimKeeps ==
  ASSUME JournalInvariant, TypeOK',
         NEW m \in calls, ServeClaim(m),
         plan = PlanOf[m.owner], owner = NoOwner
  PROVE  Safe' /\ Wire'
<1> USE DEF ServeClaim, ClaimCondition, Answer, Reply
<1>1. ClaimExcludes' /\ HolderSeesLatest' /\ AckedDurable'
  BY JournalAssumption
     DEF JournalInvariant, Safe, Wire, TypeOK, ClaimExcludes, Holding,
         HolderSeesLatest, AckedDurable
<1>2. NoRecordYet' /\ ReleaseOnlyAfter' /\ AcquireOnlyIn'
  BY JournalAssumption
     DEF JournalInvariant, Safe, Wire, TypeOK, NoRecordYet, ReleaseOnlyAfter,
         Stopped, AcquireOnlyIn
<1>3. NoWriteBeforeClaim' /\ AnswerCurrent'
  BY ReplyType, JournalAssumption
     DEF JournalInvariant, Safe, Wire, TypeOK, NoWriteBeforeClaim, SaveCalls,
         SaveReplies, Acquiring, AnswerCurrent
<1>4. NextSaveExtends'
  BY DEF JournalInvariant, Safe, Wire, TypeOK, NextSaveExtends, SaveCalls,
         NoWriteBeforeClaim
<1>5. SavesBelowLocal' /\ SavesChain'
  BY DEF JournalInvariant, Safe, Wire, TypeOK, SavesBelowLocal, SaveCalls,
         SavesChain
<1>6. HolderAhead' /\ AckReached' /\ OwnMark'
  BY DEF JournalInvariant, Safe, Wire, TypeOK, HolderAhead, Holding,
         AckReached, SaveReplies, OwnMark
<1> QED
  BY <1>1, <1>2, <1>3, <1>4, <1>5, <1>6 DEF Safe, Wire

\* An accepted checkpoint is the holder's, and extends the item by one step of
\* the holder's chain or repeats the last one.
LEMMA JournalSaveKeeps ==
  ASSUME JournalInvariant, TypeOK',
         NEW m \in calls, ServeSave(m), SaveCondition(m)
  PROVE  Safe' /\ Wire'
<1> USE DEF ServeSave, SaveCondition, Answer, Reply
<1>a. /\ m \in SaveCalls
      /\ \/ m.rev = rev /\ m.data = data
         \/ m.rev = rev + 1 /\ m.data = data \cup {<<m.owner, m.rev>>}
      /\ m.rev <= local[m.owner].rev
      /\ m.rev = local[m.owner].rev => m.data = local[m.owner].data
  <2>1. m \in SaveCalls /\ m.owner \in Runners
    BY CallType DEF JournalInvariant, SaveCalls
  <2>2. owner = m.owner /\ (m.rev = rev + 1 \/ (m.rev = rev /\ m.data = data))
    OBVIOUS
  <2>3. m.rev = rev + 1 => m.data = data \cup {<<m.owner, m.rev>>}
    BY <2>1, <2>2 DEF JournalInvariant, Wire, NextSaveExtends
  <2>4. /\ m.rev <= local[m.owner].rev
        /\ m.rev = local[m.owner].rev => m.data = local[m.owner].data
    BY <2>1 DEF JournalInvariant, Wire, SavesBelowLocal
  <2> QED
    BY <2>1, <2>2, <2>3, <2>4
<1>1. HolderSeesLatest'
  BY <1>a
     DEF JournalInvariant, Safe, Wire, TypeOK, HolderSeesLatest, ClaimExcludes,
         Holding
<1>2. AckedDurable'
  BY <1>a
     DEF JournalInvariant, Safe, Wire, TypeOK, AckedDurable
<1>3. ClaimExcludes'
  BY DEF JournalInvariant, Safe, Wire, TypeOK, ClaimExcludes, Holding
<1>4. NoRecordYet' /\ ReleaseOnlyAfter' /\ AcquireOnlyIn'
  BY CallType, JournalAssumption
     DEF JournalInvariant, Safe, Wire, TypeOK, NoRecordYet, ReleaseOnlyAfter,
         Stopped, AcquireOnlyIn
<1>5. AnswerCurrent'
  BY <1>a
     DEF JournalInvariant, Safe, Wire, TypeOK, AnswerCurrent,
         NoWriteBeforeClaim, SaveCalls
<1>6. NoWriteBeforeClaim'
  BY DEF JournalInvariant, Safe, Wire, TypeOK, NoWriteBeforeClaim, SaveCalls,
         SaveReplies, Acquiring
<1>7. NextSaveExtends'
  BY <1>a
     DEF JournalInvariant, Safe, Wire, TypeOK, NextSaveExtends, SaveCalls,
         SavesChain
<1>8. SavesBelowLocal' /\ SavesChain'
  BY DEF JournalInvariant, Safe, Wire, TypeOK, SavesBelowLocal, SaveCalls,
         SavesChain
<1>9. HolderAhead'
  BY <1>a
     DEF JournalInvariant, Safe, Wire, TypeOK, HolderAhead, Holding,
         ClaimExcludes
<1>10. AckReached' /\ OwnMark'
  BY ReplyType
     DEF JournalInvariant, Safe, Wire, TypeOK, AckReached, SaveReplies,
         Holding, OwnMark
<1> QED
  BY <1>1, <1>2, <1>3, <1>4, <1>5, <1>6, <1>7, <1>8, <1>9, <1>10 DEF Safe, Wire

\* A release is served for a runner past its work only.
LEMMA ReleaseKeeps ==
  ASSUME JournalInvariant, TypeOK',
         NEW m \in calls, ServeRelease(m)
  PROVE  Safe' /\ Wire'
<1> USE DEF ServeRelease, HolderCondition, Refuse, Answer, item
<1>1. ClaimExcludes'
  BY DEF JournalInvariant, Safe, Wire, TypeOK, ClaimExcludes, Holding,
         ReleaseOnlyAfter, Stopped
<1>2. HolderSeesLatest' /\ AckedDurable'
  BY DEF JournalInvariant, Safe, Wire, TypeOK, HolderSeesLatest, AckedDurable
<1>3. NoRecordYet' /\ ReleaseOnlyAfter' /\ AcquireOnlyIn'
  BY DEF JournalInvariant, Safe, Wire, TypeOK, NoRecordYet, ReleaseOnlyAfter,
         Stopped, AcquireOnlyIn
<1>4. AnswerCurrent'
  BY DEF JournalInvariant, Safe, Wire, TypeOK, AnswerCurrent, ReleaseOnlyAfter,
         Stopped
<1>5. NoWriteBeforeClaim'
  BY DEF JournalInvariant, Safe, Wire, TypeOK, NoWriteBeforeClaim, SaveCalls,
         SaveReplies, Acquiring
<1>6. SavesBelowLocal' /\ SavesChain' /\ NextSaveExtends'
  BY CallType, JournalAssumption
     DEF JournalInvariant, Safe, Wire, TypeOK, SavesBelowLocal, SaveCalls,
         SavesChain, NextSaveExtends
<1>7. HolderAhead' /\ AckReached' /\ OwnMark'
  BY DEF JournalInvariant, Safe, Wire, TypeOK, HolderAhead, Holding,
         AckReached, SaveReplies, OwnMark
<1> QED
  BY <1>1, <1>2, <1>3, <1>4, <1>5, <1>6, <1>7 DEF Safe, Wire

\* Starting sends the conditional PutItem, or reads.
LEMMA StartKeeps ==
  ASSUME JournalInvariant, TypeOK',
         NEW o \in Runners, Start(o)
  PROVE  Safe' /\ Wire'
<1> USE DEF Start, GoTo, Send, Call, item
<1>1. ClaimExcludes' /\ HolderSeesLatest' /\ AckedDurable'
  BY DEF JournalInvariant, Safe, Wire, TypeOK, ClaimExcludes, Holding,
         HolderSeesLatest, AckedDurable
<1>2. NoRecordYet' /\ ReleaseOnlyAfter' /\ AcquireOnlyIn'
  BY CallType, ReplyType
     DEF JournalInvariant, Safe, Wire, TypeOK, NoRecordYet, ReleaseOnlyAfter,
         Stopped, AcquireOnlyIn
<1>3. AnswerCurrent'
  BY ReplyType
     DEF JournalInvariant, Safe, Wire, TypeOK, AnswerCurrent, AcquireOnlyIn,
         Stopped
<1>4. NoWriteBeforeClaim'
  BY CallType, ReplyType
     DEF JournalInvariant, Safe, Wire, TypeOK, NoWriteBeforeClaim, SaveCalls,
         SaveReplies, Acquiring
<1>5. SavesBelowLocal' /\ SavesChain' /\ NextSaveExtends'
  BY DEF JournalInvariant, Safe, Wire, TypeOK, SavesBelowLocal, SaveCalls,
         SavesChain, NextSaveExtends
<1>6. HolderAhead' /\ AckReached' /\ OwnMark'
  BY ReplyType
     DEF JournalInvariant, Safe, Wire, TypeOK, HolderAhead, Holding,
         AckReached, SaveReplies, OwnMark
<1> QED
  BY <1>1, <1>2, <1>3, <1>4, <1>5, <1>6 DEF Safe, Wire

\* Taking the answer of PutItem.
LEMMA CreatedKeeps ==
  ASSUME JournalInvariant, TypeOK',
         NEW o \in Runners, Created(o)
  PROVE  Safe' /\ Wire'
<1> USE DEF Created, GoTo, Settle, OwnCall, OwnReplies, item
<1>a. /\ local' = [local EXCEPT ![o] = [rev |-> 0, data |-> {}]]
      /\ \/ pc' = [pc EXCEPT ![o] = "reading"]
         \/ /\ pc' = [pc EXCEPT ![o] = "working"]
            /\ owner = o /\ plan = PlanOf[o] /\ rev = 0 /\ data = {}
  BY DEF JournalInvariant, Wire, AnswerCurrent
<1>b. \A x \in Runners : x # o => local'[x] = local[x] /\ pc'[x] = pc[x]
  BY DEF JournalInvariant, TypeOK
<1>1. ClaimExcludes'
  BY <1>a
     DEF JournalInvariant, Safe, Wire, TypeOK, ClaimExcludes, Holding
<1>2. HolderSeesLatest'
  <2> SUFFICES ASSUME NEW x \in Runners, pc'[x] = "working"
               PROVE  local'[x] = [rev |-> rev', data |-> data']
    BY DEF HolderSeesLatest
  <2>1. rev' = rev /\ data' = data /\ o \in DOMAIN local /\ o \in DOMAIN pc
    BY DEF JournalInvariant, TypeOK
  <2>2. CASE x = o
    <3>1. pc' # [pc EXCEPT ![o] = "reading"]
      BY <2>1, <2>2
    <3>2. rev' = 0 /\ data' = {}
      BY <1>a, <2>1, <3>1
    <3>3. local'[o] = [rev |-> 0, data |-> {}]
      BY <1>a, <2>1
    <3> QED
      BY <2>2, <3>2, <3>3
  <2>3. CASE x # o
    BY <1>b, <2>1, <2>3 DEF JournalInvariant, Safe, HolderSeesLatest
  <2> QED
    BY <2>2, <2>3
<1>3. AckedDurable'
  BY DEF JournalInvariant, Safe, Wire, TypeOK, AckedDurable
<1>4. NoRecordYet' /\ ReleaseOnlyAfter' /\ AcquireOnlyIn'
  BY CallType, ReplyType
     DEF JournalInvariant, Safe, Wire, TypeOK, NoRecordYet, ReleaseOnlyAfter,
         Stopped, AcquireOnlyIn
<1>5. NoWriteBeforeClaim' /\ AnswerCurrent'
  BY CallType, ReplyType
     DEF JournalInvariant, Safe, Wire, TypeOK, NoWriteBeforeClaim, SaveCalls,
         SaveReplies, Acquiring, AnswerCurrent
<1>6. SavesBelowLocal'
  BY DEF JournalInvariant, Safe, Wire, TypeOK, SavesBelowLocal, SaveCalls,
         NoWriteBeforeClaim, Acquiring, SaveReplies
<1>7. SavesChain' /\ NextSaveExtends'
  BY DEF JournalInvariant, Safe, Wire, TypeOK, SavesChain, SaveCalls,
         NextSaveExtends
<1>8. HolderAhead'
  BY <1>a
     DEF JournalInvariant, Safe, Wire, TypeOK, HolderAhead, Holding
<1>9. AckReached'
  BY ReplyType
     DEF JournalInvariant, Safe, Wire, TypeOK, AckReached, SaveReplies,
         Holding, NoWriteBeforeClaim, Acquiring, SaveCalls
<1>10. OwnMark'
  BY DEF JournalInvariant, Safe, Wire, TypeOK, OwnMark
<1> QED
  BY <1>1, <1>2, <1>3, <1>4, <1>5, <1>6, <1>7, <1>8, <1>9, <1>10 DEF Safe, Wire

\* The read changes nothing, and the claim is sent.
LEMMA ReadKeeps ==
  ASSUME JournalInvariant, TypeOK',
         NEW o \in Runners, Read(o)
  PROVE  Safe' /\ Wire'
<1> USE DEF Read, GoTo, Send, Call, item
<1>1. ClaimExcludes' /\ HolderSeesLatest' /\ AckedDurable'
  BY DEF JournalInvariant, Safe, Wire, TypeOK, ClaimExcludes, Holding,
         HolderSeesLatest, AckedDurable
<1>2. NoRecordYet' /\ ReleaseOnlyAfter' /\ AcquireOnlyIn'
  BY CallType, ReplyType
     DEF JournalInvariant, Safe, Wire, TypeOK, NoRecordYet, ReleaseOnlyAfter,
         Stopped, AcquireOnlyIn
<1>3. AnswerCurrent'
  BY ReplyType
     DEF JournalInvariant, Safe, Wire, TypeOK, AnswerCurrent, AcquireOnlyIn,
         Stopped
<1>4. NoWriteBeforeClaim'
  BY CallType, ReplyType
     DEF JournalInvariant, Safe, Wire, TypeOK, NoWriteBeforeClaim, SaveCalls,
         SaveReplies, Acquiring
<1>5. SavesBelowLocal' /\ SavesChain' /\ NextSaveExtends'
  BY DEF JournalInvariant, Safe, Wire, TypeOK, SavesBelowLocal, SaveCalls,
         SavesChain, NextSaveExtends
<1>6. HolderAhead' /\ AckReached' /\ OwnMark'
  BY ReplyType
     DEF JournalInvariant, Safe, Wire, TypeOK, HolderAhead, Holding,
         AckReached, SaveReplies, OwnMark
<1> QED
  BY <1>1, <1>2, <1>3, <1>4, <1>5, <1>6 DEF Safe, Wire

\* Taking the answer of the claim.
LEMMA ClaimedKeeps ==
  ASSUME JournalInvariant, TypeOK',
         NEW o \in Runners, Claimed(o)
  PROVE  Safe' /\ Wire'
<1> USE DEF Claimed, GoTo, Settle, OwnCall, OwnReplies, item
<1>a. \/ pc' = [pc EXCEPT ![o] = "stopped"] /\ UNCHANGED local
      \/ /\ pc' = [pc EXCEPT ![o] = "working"]
         /\ owner = o /\ plan = PlanOf[o]
         /\ local' = [local EXCEPT ![o] = [rev |-> rev, data |-> data]]
  BY DEF JournalInvariant, Wire, AnswerCurrent
<1>1. ClaimExcludes'
  BY <1>a
     DEF JournalInvariant, Safe, Wire, TypeOK, ClaimExcludes, Holding
<1>2. HolderSeesLatest'
  BY <1>a
     DEF JournalInvariant, Safe, Wire, TypeOK, HolderSeesLatest
<1>3. AckedDurable'
  BY DEF JournalInvariant, Safe, Wire, TypeOK, AckedDurable
<1>4. NoRecordYet' /\ ReleaseOnlyAfter' /\ AcquireOnlyIn'
  BY CallType, ReplyType
     DEF JournalInvariant, Safe, Wire, TypeOK, NoRecordYet, ReleaseOnlyAfter,
         Stopped, AcquireOnlyIn
<1>5. NoWriteBeforeClaim' /\ AnswerCurrent'
  BY CallType, ReplyType
     DEF JournalInvariant, Safe, Wire, TypeOK, NoWriteBeforeClaim, SaveCalls,
         SaveReplies, Acquiring, AnswerCurrent
<1>6. SavesBelowLocal'
  BY CallType
     DEF JournalInvariant, Safe, Wire, TypeOK, SavesBelowLocal, SaveCalls,
         NoWriteBeforeClaim, Acquiring, SaveReplies
<1>7. SavesChain' /\ NextSaveExtends'
  BY DEF JournalInvariant, Safe, Wire, TypeOK, SavesChain, SaveCalls,
         NextSaveExtends
<1>8. HolderAhead'
  BY <1>a
     DEF JournalInvariant, Safe, Wire, TypeOK, HolderAhead, Holding
<1>9. AckReached'
  BY ReplyType
     DEF JournalInvariant, Safe, Wire, TypeOK, AckReached, SaveReplies,
         Holding, NoWriteBeforeClaim, Acquiring, SaveCalls
<1>10. OwnMark'
  BY DEF JournalInvariant, Safe, Wire, TypeOK, OwnMark
<1> QED
  BY <1>1, <1>2, <1>3, <1>4, <1>5, <1>6, <1>7, <1>8, <1>9, <1>10 DEF Safe, Wire

\* Sending a checkpoint, or the record of an interruption.
LEMMA SendSaveKeeps ==
  ASSUME JournalInvariant, TypeOK',
         NEW o \in Runners, SaveProgress(o) \/ Interrupt(o)
  PROVE  Safe' /\ Wire'
<1> USE DEF SaveProgress, Interrupt, SendSave, GoTo, Send, Call, item
<1>a. /\ local' = [local EXCEPT ![o] = NextRecord(o)]
      /\ NextRecord(o) \in Records
      /\ NextRecord(o).rev = local[o].rev + 1
      /\ NextRecord(o).data = local[o].data \cup {<<o, local[o].rev + 1>>}
      /\ local'[o] = NextRecord(o)
      /\ local[o].rev \in Nat
  BY NextRecordType DEF JournalInvariant, TypeOK
<1>c. calls' = calls \cup {Call("save", o, local[o].rev + 1, NextRecord(o).data)}
  BY <1>a
<1>b. SaveCalls' = SaveCalls \cup {Call("save", o, local[o].rev + 1, NextRecord(o).data)}
  BY <1>c DEF SaveCalls
<1>1. ClaimExcludes' /\ HolderSeesLatest' /\ AckedDurable'
  BY DEF JournalInvariant, Safe, Wire, TypeOK, ClaimExcludes, Holding,
         HolderSeesLatest, AckedDurable
<1>2. NoRecordYet' /\ ReleaseOnlyAfter' /\ AcquireOnlyIn'
  BY CallType, ReplyType
     DEF JournalInvariant, Safe, Wire, TypeOK, NoRecordYet, ReleaseOnlyAfter,
         Stopped, AcquireOnlyIn
<1>3. NoWriteBeforeClaim'
  BY <1>b, CallType, ReplyType
     DEF JournalInvariant, Safe, Wire, TypeOK, NoWriteBeforeClaim, SaveCalls,
         SaveReplies, Acquiring, AcquireOnlyIn, Stopped
<1>4. AnswerCurrent'
  BY ReplyType
     DEF JournalInvariant, Safe, Wire, TypeOK, AnswerCurrent
<1>5. SavesBelowLocal'
  BY <1>a, <1>b, CallType
     DEF JournalInvariant, Safe, Wire, TypeOK, SavesBelowLocal, SaveCalls
<1>6. SavesChain'
  BY <1>a, <1>b, CallType
     DEF JournalInvariant, Safe, Wire, TypeOK, SavesChain, SaveCalls,
         SavesBelowLocal
<1>7. NextSaveExtends'
  BY <1>a, <1>b, CallType
     DEF JournalInvariant, Safe, Wire, TypeOK, NextSaveExtends, SaveCalls,
         HolderAhead, Holding, ClaimExcludes
<1>8. HolderAhead'
  BY <1>a
     DEF JournalInvariant, Safe, Wire, TypeOK, HolderAhead, Holding
<1>9. OwnMark'
  BY <1>a, <1>b, CallType
     DEF JournalInvariant, Safe, Wire, TypeOK, OwnMark, SavesBelowLocal
<1>10. AckReached'
  BY ReplyType
     DEF JournalInvariant, Safe, Wire, TypeOK, AckReached, SaveReplies, Holding
<1> QED
  BY <1>1, <1>2, <1>3, <1>4, <1>5, <1>6, <1>7, <1>8, <1>9, <1>10 DEF Safe, Wire

\* A nil answer of Save: the item is the runner's copy.
LEMMA SavedKeeps ==
  ASSUME JournalInvariant, TypeOK',
         NEW o \in Runners, Saved(o)
  PROVE  Safe' /\ Wire'
<1> USE DEF Saved, GoTo, OwnReplies, item
<1>a. /\ owner = o
      /\ local[o].rev = rev
      /\ local[o].data = data
      /\ <<o, local[o].rev>> \in data
  <2>1. Holding(o) /\ TypeOK /\ local[o].rev \in Nat /\ rev \in Nat
    BY DEF Holding, JournalInvariant, TypeOK, Records
  <2>2. PICK r \in SaveReplies : r.owner = o /\ r.rev = local[o].rev
    BY DEF SaveReplies
  <2>3. r.rev <= rev
    BY <2>1, <2>2 DEF JournalInvariant, Wire, AckReached
  <2>4. local[o].rev = rev /\ local[o].data = data
    BY <2>1, <2>2, <2>3 DEF JournalInvariant, Wire, HolderAhead
  <2> QED
    BY <2>1, <2>4 DEF JournalInvariant, Safe, Wire, ClaimExcludes, OwnMark
<1>1. HolderSeesLatest'
  BY <1>a
     DEF JournalInvariant, Safe, Wire, TypeOK, HolderSeesLatest, Records
<1>2. AckedDurable'
  BY <1>a
     DEF JournalInvariant, Safe, Wire, TypeOK, AckedDurable
<1>3. ClaimExcludes'
  BY DEF JournalInvariant, Safe, Wire, TypeOK, ClaimExcludes, Holding
<1>4. NoRecordYet' /\ ReleaseOnlyAfter' /\ AcquireOnlyIn'
  BY DEF JournalInvariant, Safe, Wire, TypeOK, NoRecordYet, ReleaseOnlyAfter,
         Stopped, AcquireOnlyIn
<1>5. NoWriteBeforeClaim' /\ AnswerCurrent'
  BY DEF JournalInvariant, Safe, Wire, TypeOK, NoWriteBeforeClaim, SaveCalls,
         SaveReplies, Acquiring, AnswerCurrent
<1>6. SavesBelowLocal' /\ SavesChain' /\ NextSaveExtends'
  BY DEF JournalInvariant, Safe, Wire, TypeOK, SavesBelowLocal, SaveCalls,
         SavesChain, NextSaveExtends
<1>7. HolderAhead' /\ AckReached' /\ OwnMark'
  BY DEF JournalInvariant, Safe, Wire, TypeOK, HolderAhead, Holding,
         AckReached, SaveReplies, OwnMark
<1> QED
  BY <1>1, <1>2, <1>3, <1>4, <1>5, <1>6, <1>7 DEF Safe, Wire

\* Steps that change only where a runner stands.
LEMMA StepKeeps ==
  ASSUME JournalInvariant, TypeOK',
         NEW o \in Runners, AcquireTimeout(o) \/ SaveFailed(o) \/
         RemoteFailure(o) \/ ReleaseDone(o) \/ Crash(o)
  PROVE  Safe' /\ Wire'
<1> USE DEF AcquireTimeout, SaveFailed, RemoteFailure, ReleaseDone, Crash,
            GoTo, item
<1>1. ClaimExcludes' /\ HolderSeesLatest' /\ AckedDurable'
  BY DEF JournalInvariant, Safe, Wire, TypeOK, ClaimExcludes, Holding,
         HolderSeesLatest, AckedDurable
<1>2. NoRecordYet' /\ ReleaseOnlyAfter' /\ AcquireOnlyIn'
  BY CallType, ReplyType
     DEF JournalInvariant, Safe, Wire, TypeOK, NoRecordYet, ReleaseOnlyAfter,
         Stopped, AcquireOnlyIn
<1>3. NoWriteBeforeClaim' /\ AnswerCurrent'
  BY CallType, ReplyType
     DEF JournalInvariant, Safe, Wire, TypeOK, NoWriteBeforeClaim, SaveCalls,
         SaveReplies, Acquiring, AnswerCurrent
<1>4. SavesBelowLocal' /\ SavesChain' /\ NextSaveExtends'
  BY DEF JournalInvariant, Safe, Wire, TypeOK, SavesBelowLocal, SaveCalls,
         SavesChain, NextSaveExtends
<1>5. HolderAhead' /\ AckReached' /\ OwnMark'
  BY ReplyType
     DEF JournalInvariant, Safe, Wire, TypeOK, HolderAhead, Holding,
         AckReached, SaveReplies, OwnMark
<1> QED
  BY <1>1, <1>2, <1>3, <1>4, <1>5 DEF Safe, Wire

\* Giving up.
LEMMA SendReleaseKeeps ==
  ASSUME JournalInvariant, TypeOK',
         NEW o \in Runners, InterruptDone(o) \/ Finish(o)
  PROVE  Safe' /\ Wire'
<1> USE DEF InterruptDone, Finish, SendRelease, GoTo, Send, Call, item
<1>1. ClaimExcludes' /\ HolderSeesLatest' /\ AckedDurable'
  BY DEF JournalInvariant, Safe, Wire, TypeOK, ClaimExcludes, Holding,
         HolderSeesLatest, AckedDurable
<1>2. NoRecordYet' /\ ReleaseOnlyAfter' /\ AcquireOnlyIn'
  BY CallType, ReplyType
     DEF JournalInvariant, Safe, Wire, TypeOK, NoRecordYet, ReleaseOnlyAfter,
         Stopped, AcquireOnlyIn
<1>3. NoWriteBeforeClaim' /\ AnswerCurrent'
  BY CallType, ReplyType
     DEF JournalInvariant, Safe, Wire, TypeOK, NoWriteBeforeClaim, SaveCalls,
         SaveReplies, Acquiring, AnswerCurrent
<1>4. SavesBelowLocal' /\ SavesChain' /\ NextSaveExtends'
  BY DEF JournalInvariant, Safe, Wire, TypeOK, SavesBelowLocal, SaveCalls,
         SavesChain, NextSaveExtends
<1>5. HolderAhead' /\ AckReached' /\ OwnMark'
  BY ReplyType
     DEF JournalInvariant, Safe, Wire, TypeOK, HolderAhead, Holding,
         AckReached, SaveReplies, OwnMark
<1> QED
  BY <1>1, <1>2, <1>3, <1>4, <1>5 DEF Safe, Wire

\* The operator's unlock of a stopped runner.
LEMMA UnlockKeeps ==
  ASSUME JournalInvariant, TypeOK',
         NEW o \in Runners, Unlock(o)
  PROVE  Safe' /\ Wire'
<1> USE DEF Unlock, Send, Call, item
<1>1. ClaimExcludes' /\ HolderSeesLatest' /\ AckedDurable'
  BY DEF JournalInvariant, Safe, Wire, TypeOK, ClaimExcludes, Holding,
         HolderSeesLatest, AckedDurable
<1>2. NoRecordYet' /\ ReleaseOnlyAfter' /\ AcquireOnlyIn'
  BY DEF JournalInvariant, Safe, Wire, TypeOK, NoRecordYet, ReleaseOnlyAfter,
         Stopped, AcquireOnlyIn
<1>3. NoWriteBeforeClaim' /\ AnswerCurrent'
  BY DEF JournalInvariant, Safe, Wire, TypeOK, NoWriteBeforeClaim, SaveCalls,
         SaveReplies, Acquiring, AnswerCurrent
<1>4. SavesBelowLocal' /\ SavesChain' /\ NextSaveExtends'
  BY DEF JournalInvariant, Safe, Wire, TypeOK, SavesBelowLocal, SaveCalls,
         SavesChain, NextSaveExtends
<1>5. HolderAhead' /\ AckReached' /\ OwnMark'
  BY DEF JournalInvariant, Safe, Wire, TypeOK, HolderAhead, Holding,
         AckReached, SaveReplies, OwnMark
<1> QED
  BY <1>1, <1>2, <1>3, <1>4, <1>5 DEF Safe, Wire

-----------------------------------------------------------------------------
(* The theorems.                                                            *)

LEMMA InitInvariant == Init => JournalInvariant
  BY DEF Init, JournalInvariant, TypeOK, Safe, Wire, Records, PCs, ClaimExcludes,
         HolderSeesLatest, AckedDurable, NoRecordYet, ReleaseOnlyAfter,
         AcquireOnlyIn, NoWriteBeforeClaim, AnswerCurrent, SavesBelowLocal,
         SavesChain, NextSaveExtends, HolderAhead, AckReached, OwnMark, Holding,
         SaveCalls, SaveReplies

\* Serving any call keeps the invariant.
LEMMA ServeKeeps ==
  ASSUME JournalInvariant, TypeOK', NEW m \in calls, Serve(m)
  PROVE  Safe' /\ Wire'
<1>1. CASE ServePut(m)
  BY <1>1, PutKeeps, RefuseKeeps DEF ServePut, PutCondition
<1>2. CASE ServeClaim(m)
  BY <1>2, ClaimKeeps, RefuseKeeps DEF ServeClaim, ClaimCondition
<1>3. CASE ServeSave(m)
  BY <1>3, JournalSaveKeeps, RefuseKeeps DEF ServeSave
<1>4. CASE ServeRelease(m)
  BY <1>4, ReleaseKeeps
<1> QED
  BY <1>1, <1>2, <1>3, <1>4 DEF Serve

\* The invariant is inductive.
LEMMA Inductive == JournalInvariant /\ [Next]_vars => JournalInvariant'
<1> SUFFICES ASSUME JournalInvariant, [Next]_vars PROVE JournalInvariant'
  OBVIOUS
<1>1. TypeOK'
  BY TypeStep DEF JournalInvariant
<1>2. ASSUME NEW m \in calls, Serve(m) PROVE Safe' /\ Wire'
  BY <1>1, <1>2, ServeKeeps
<1>3. ASSUME NEW o \in Runners, Runner(o) \/ Crash(o) PROVE Safe' /\ Wire'
  BY <1>1, <1>3, StartKeeps, CreatedKeeps, ReadKeeps, ClaimedKeeps,
     SendSaveKeeps, SavedKeeps, StepKeeps, SendReleaseKeeps DEF Runner
<1>4. ASSUME NEW o \in Runners, Unlock(o) PROVE Safe' /\ Wire'
  BY <1>1, <1>4, UnlockKeeps
<1>5. CASE UNCHANGED vars
  BY <1>5 DEF vars, JournalInvariant, TypeOK, Safe, Wire, ClaimExcludes,
         HolderSeesLatest, AckedDurable, NoRecordYet, ReleaseOnlyAfter,
         AcquireOnlyIn, NoWriteBeforeClaim, AnswerCurrent, SavesBelowLocal,
         SavesChain, NextSaveExtends, HolderAhead, AckReached, OwnMark, Holding,
         SaveCalls, SaveReplies
<1> QED
  BY <1>1, <1>2, <1>3, <1>4, <1>5 DEF Next, JournalInvariant

\* The invariant holds in every reachable state of the journal and its users,
\* for any number of runners.
THEOREM InvariantHolds == Spec => []JournalInvariant
  BY InitInvariant, Inductive, PTL DEF Spec

\* Mutual exclusion: a runner that works, checkpoints or records its failure
\* owns the item (Dynamo.Acquire, claim and Release).
THEOREM ClaimExcludesHolds == Spec => []ClaimExcludes
<1>1. JournalInvariant => ClaimExcludes
  BY DEF JournalInvariant, Safe
<1> QED
  BY <1>1, InvariantHolds, PTL

\* The holder's copy is the durable record between two checkpoints.
THEOREM HolderSeesLatestHolds == Spec => []HolderSeesLatest
<1>1. JournalInvariant => HolderSeesLatest
  BY DEF JournalInvariant, Safe
<1> QED
  BY <1>1, InvariantHolds, PTL

\* A checkpoint that Save acknowledged is never lost (Dynamo.save).
THEOREM AckedDurableHolds == Spec => []AckedDurable
<1>1. JournalInvariant => AckedDurable
  BY DEF JournalInvariant, Safe
<1> QED
  BY <1>1, InvariantHolds, PTL

\* Every step is a step of the abstract record, or leaves the record alone.
LEMMA StepImplements ==
  ASSUME JournalInvariant, [Next]_vars
  PROVE  [C!ANext]_(C!avars)
<1> USE DEF C!ANext, C!avars, C!Create, C!Claim, C!Commit, C!GiveUp
<1>1. ASSUME NEW m \in calls, Serve(m) PROVE C!ANext \/ UNCHANGED item
  <2>1. m.owner \in Runners /\ m.rev \in Nat /\ rev \in Nat
    BY CallType DEF JournalInvariant, TypeOK
  <2>2. CASE ServePut(m)
    BY <2>1, <2>2 DEF ServePut, PutCondition, Refuse, JournalInvariant, Wire, NoRecordYet, item
  <2>3. CASE ServeClaim(m)
    BY <2>1, <2>3 DEF ServeClaim, ClaimCondition, Refuse, item
  <2>4. CASE ServeSave(m)
    <3>1. CASE SaveCondition(m) /\ m.rev = rev + 1
      <4>1. m \in SaveCalls
        BY <2>4 DEF ServeSave, SaveCalls
      <4>2. m.data = data \cup {<<m.owner, rev + 1>>}
        BY <4>1, <3>1 DEF JournalInvariant, Wire, NextSaveExtends, SaveCondition
      <4> QED
        BY <2>1, <2>4, <3>1, <4>2 DEF ServeSave, SaveCondition
    <3>2. CASE ~(SaveCondition(m) /\ m.rev = rev + 1)
      BY <2>4, <3>2 DEF ServeSave, SaveCondition, Refuse, item
    <3> QED
      BY <3>1, <3>2
  <2>5. CASE ServeRelease(m)
    BY <2>1, <2>5 DEF ServeRelease, HolderCondition, Refuse, item
  <2> QED
    BY <1>1, <2>2, <2>3, <2>4, <2>5 DEF Serve
<1>2. ASSUME NEW o \in Runners, Runner(o) \/ Crash(o) \/ Unlock(o)
      PROVE  UNCHANGED item
  BY <1>2 DEF Runner, Crash, Unlock, Start, Created, Read, Claimed, AcquireTimeout,
         SaveProgress, SendSave, Saved, SaveFailed, RemoteFailure, Interrupt,
         InterruptDone, SendRelease, Finish, ReleaseDone
<1> QED
  BY <1>1, <1>2 DEF Next, vars, item

\* Table, network, retries, crashes and unlocks together behave as one record
\* with a claim and a history (the refinement of ClaimedRecord).
THEOREM ImplementsRecordHolds == Spec => ImplementsRecord
<1>1. Init => C!AInit
  BY DEF Init, C!AInit
<1>2. JournalInvariant /\ [Next]_vars => [C!ANext]_(C!avars)
  BY StepImplements
<1> QED
  BY <1>1, <1>2, InvariantHolds, PTL DEF Spec, ImplementsRecord, C!ASpec

\* No checkpoint that reached the table is dropped, by whatever call, late or
\* repeated (the condition expression of Dynamo.save).
THEOREM NoLostUpdateHolds == Spec => NoLostUpdate
<1>1. JournalInvariant /\ [Next]_vars => [data \subseteq data' /\ rev <= rev']_vars
  <2> SUFFICES ASSUME JournalInvariant, [Next]_vars
               PROVE  data \subseteq data' /\ rev <= rev'
    OBVIOUS
  <2>1. rev \in Nat
    BY DEF JournalInvariant, TypeOK
  <2> QED
    BY <2>1, StepImplements
       DEF C!ANext, C!avars, C!Create, C!Claim, C!Commit, C!GiveUp
<1> QED
  BY <1>1, InvariantHolds, PTL DEF Spec, NoLostUpdate

\* A claim is never stolen and a record never changes plan.
THEOREM NoStealHolds == Spec => NoSteal
<1>1. JournalInvariant /\ [Next]_vars =>
        [ /\ owner # NoOwner => owner' \in {owner, NoOwner}
          /\ plan # NoPlan => plan' = plan ]_vars
  <2> SUFFICES ASSUME JournalInvariant, [Next]_vars
               PROVE  /\ owner # NoOwner => owner' \in {owner, NoOwner}
                      /\ plan # NoPlan => plan' = plan
    OBVIOUS
  <2>1. plan = NoPlan => owner = NoOwner
    BY DEF JournalInvariant, Wire, NoRecordYet
  <2> QED
    BY <2>1, StepImplements
       DEF C!ANext, C!avars, C!Create, C!Claim, C!Commit, C!GiveUp
<1> QED
  BY <1>1, InvariantHolds, PTL DEF Spec, NoSteal

\* Both: what the table keeps, whoever writes to it.
THEOREM RecordKeptHolds == Spec => RecordKept
  BY NoLostUpdateHolds, NoStealHolds, PTL DEF RecordKept

-----------------------------------------------------------------------------
(* Provision.                                                               *)
(*                                                                          *)
(* The inductive invariant.  Its parts speak of one target: a is its address *)
(* in a record and nd its node there, v its instance and e its addresses in *)
(* EC2, n the calls that launched it, q what the session saw of its address. *)

Snapshots == [id : 0..MaxAlloc, attached : BOOLEAN]
Alive  == {"running", "stopped"}
Dead   == {"terminated", "purged"}

\* The addresses that exist or may yet, those that no read shows, the others.
Held(e)   == {k \in Ids : e[k] \in {"flying", "hidden", "visible", "attached"}}
Coming(e) == {k \in Ids : e[k] \in {"flying", "hidden"}}
There(e)  == {k \in Ids : e[k] \in {"visible", "attached"}}

\* One launch, one address, and an attached one is on a live instance.
CloudOK(v, e, n) ==
  /\ n <= 1
  /\ \A j, k \in Held(e) : j = k
  /\ \A k \in Ids : e[k] = "attached" => v \in Alive

\* What a record says of a target is known of EC2, and all there is to know.
TargetOK(a, nd, v, e, n) ==
  /\ nd = "pending" => n = 0 /\ v = "none"
  /\ Held(e) # {} => a.phase # "none"
  /\ a.phase \in {"none", "allocating"} <=> a.id = 0
  /\ a.phase \in {"releasing", "released"} => Held(e) \subseteq {a.id} /\ Coming(e) = {}

OnInstance(a, v, e) == v \in Alive => e[a.id] = "attached"

\* What "compute-ready" says of a target.
ReadyOK(a, nd, v, e) ==
  /\ nd = "present" /\ v \in Alive \cup Dead
  /\ public => /\ a.phase \in {"associated", "releasing", "released"}
               /\ OnInstance(a, v, e)

\* A record that a session may write, in the cloud V, E after L launches.
RecordOK(r, V, E, L) ==
  /\ r \in ProvisionRecords
  /\ \A t \in Targets :
       /\ TargetOK(r.addr[t], r.node[t], V[t], E[t], L[t])
       /\ r.phase = "compute-ready" => ReadyOK(r.addr[t], r.node[t], V[t], E[t])
       /\ r.phase = "addresses-released" => Held(E[t]) = {}

\* The steps of Execute, those that follow the launches, those of ensureAddresses,
\* and those of ReleaseAddresses once all was surveyed.
Starting   == {"discovering", "scoping", "launching", "running"}
Launching  == {"scoping", "launching", "running"}
Addressing == {"preparing", "addressing", "allocating", "associating", "rechecking"}
OneByOne   == Addressing \ {"preparing"}
Executing  == Starting \cup {"polling"} \cup Addressing
Withdrawal == {"releasing", "deleting", "verifying"}

\* The session's copy differs from the record in instances that turned up.
CopyOK ==
  /\ copy.phase = durable.phase /\ copy.addr = durable.addr
  /\ \A t \in Targets : copy.node[t] = "pending" <=> durable.node[t] = "pending"
  /\ doing \notin Executing => copy = durable
  /\ doing \in Executing => durable.phase = "provisioning" /\ Withdrawn(durable) = {}
  /\ durable.phase = "addresses-released" => doing = "idle"

\* After discover, what is not present was never launched.
LaunchOK ==
  /\ doing \in Launching => \A t \in Targets : copy.node[t] # "present" => launches[t] = 0
  /\ doing = "running" => at \in Targets /\ copy.node[at] = "launching"
  /\ doing \in {"polling"} \cup Addressing => Present(copy) = Targets

\* An intent grows stale when nothing of it can turn up any more.
StaleOK(t) ==
  t \in stale => /\ Coming(eip[t]) = {}
                 /\ doing = "addressing" /\ seen[t].id = 0 => There(eip[t]) = {}

\* What the snapshot says of an address is so, as long as its instance lives.
SnapshotOK(a, q, v, e) ==
  /\ q.id # 0 => a.phase # "none" /\ a.id \in {0, q.id}
  /\ q.attached => q.id # 0 /\ (v \in Alive => e[q.id] = "attached")

AddressingOK ==
  /\ doing \in Addressing => public /\ \A t \in Targets : vm[t] \in Alive \cup Dead
  /\ doing \in OneByOne =>
       \A t \in Targets : t < at =>
         durable.addr[t].phase = "associated"
         /\ OnInstance(durable.addr[t], vm[t], eip[t])
  /\ doing = "addressing" =>
       \A t \in Targets : SnapshotOK(durable.addr[t], seen[t], vm[t], eip[t])
  /\ doing \in {"allocating", "associating", "rechecking"} => at \in Targets
  /\ doing = "allocating" =>
       /\ durable.addr[at].phase = "allocating" /\ at \notin stale
       /\ Held(eip[at]) = {}
  /\ doing = "associating" => durable.addr[at].id # 0

\* What the survey found: the one address of a target, or that it has none.
SurveyOK(a, q, e) ==
  /\ q.id = 0 /\ a.phase # "none" =>
       a.phase \in {"releasing", "released"} /\ Held(e) = {}
  /\ q.id # 0 => Held(e) \subseteq {q.id} /\ Coming(e) = {} /\ a.id \in {0, q.id}

WithdrawalOK ==
  /\ doing \in Withdrawal =>
       \A t \in Targets : /\ vm[t] \in Dead
                          /\ SurveyOK(durable.addr[t], seen[t], eip[t])
                          /\ t < at => Held(eip[t]) = {}
  /\ doing \in {"deleting", "verifying"} =>
       /\ at \in Targets /\ seen[at].id # 0
       /\ durable.addr[at].phase = "releasing" /\ durable.addr[at].id = seen[at].id
  /\ leaving # {} => \A t \in Targets : vm[t] \in Dead

ProvisionInvariant ==
  /\ ProvisionTypeOK
  /\ RecordOK(durable, vm, eip, launches)
  /\ \A t \in Targets : CloudOK(vm[t], eip[t], launches[t]) /\ StaleOK(t)
  /\ CopyOK /\ LaunchOK /\ AddressingOK /\ WithdrawalOK

-----------------------------------------------------------------------------
(* Lemmas: types, sets of addresses, records.                              *)

\* The parts of TypeOK: EC2, the session and what it knows.
CloudTypes ==
  /\ vm \in [Targets -> VmStates] /\ eip \in [Targets -> [Ids -> EipStates]]
  /\ joining \subseteq Targets /\ leaving \subseteq Targets
  /\ launches \in [Targets -> 0..CallBound]
SessionTypes ==
  /\ public \in BOOLEAN /\ durable \in ProvisionRecords /\ copy \in ProvisionRecords
  /\ doing \in Steps /\ at \in 1..(N + 1) /\ seen \in [Targets -> Snapshots]
  /\ stale \subseteq Targets

LEMMA TypeParts == ProvisionTypeOK <=> CloudTypes /\ SessionTypes
  BY DEF ProvisionTypeOK, CloudTypes, SessionTypes, Snapshots

LEMMA TypesNext ==
  ASSUME CloudTypes', SessionTypes'
  PROVE  ProvisionTypeOK'
  BY DEF ProvisionTypeOK, CloudTypes, SessionTypes, Snapshots

\* The first of the targets that are left, and of the identities that are free.
LEMMA MinIn ==
  ASSUME NEW S \in SUBSET Nat, S # {}
  PROVE  Min(S) \in S
<1> DEFINE Less == {p \in Nat \X Nat : p[1] < p[2]}
<1>1. IsWellFoundedOn(Less, Nat)
  BY NatLessThanWellFounded, Zenon DEF OpToRel
<1>2. PICK x \in S : \A y \in S : ~(<<y, x>> \in Less)
  BY <1>1, WFMin, Zenon
<1>3. ASSUME NEW y \in S PROVE x <= y
  <2>1. x \in Nat /\ y \in Nat /\ ~(<<y, x>> \in Less)
    BY <1>2, <1>3
  <2> QED
    BY <2>1, SMT
<1> QED
  BY <1>2, <1>3 DEF Min

LEMMA AddressSets ==
  /\ \A t : /\ Shown(t) = There(eip[t]) /\ InFlight(t) = Coming(eip[t])
            /\ Holds(t) = Held(eip[t])
  /\ \A e : Held(e) = There(e) \cup Coming(e)
<1>1. ASSUME NEW t
      PROVE  Shown(t) = There(eip[t]) /\ InFlight(t) = Coming(eip[t])
  BY DEF Shown, There, InFlight, Coming
<1>2. ASSUME NEW e PROVE Held(e) = There(e) \cup Coming(e)
  BY DEF Held, There, Coming
<1> QED
  BY <1>1, <1>2 DEF Holds

\* Where one address is visible, it is all there is.
LEMMA OneThere ==
  ASSUME NEW v, NEW e, NEW n, CloudOK(v, e, n), NEW k \in There(e)
  PROVE  Held(e) = {k} /\ There(e) = {k} /\ Coming(e) = {}
<1>1. Held(e) = There(e) \cup Coming(e)
  BY AddressSets
<1>2. \A j \in Held(e) : j = k
  BY <1>1 DEF CloudOK
<1>3. k \notin Coming(e)
  BY DEF There, Coming
<1> QED
  BY <1>1, <1>2, <1>3

LEMMA RecordFacts ==
  ASSUME NEW r \in ProvisionRecords
  PROVE  /\ r.phase \in Phases /\ r.node \in [Targets -> NodePhases]
         /\ r.addr \in [Targets -> Address]
         /\ \A t \in Targets : /\ r.addr[t] \in Address
                               /\ r.addr[t].phase \in AddrPhases
                               /\ r.addr[t].id \in 0..MaxAlloc
  BY DEF ProvisionRecords, Address

\* A record that differs in its phase, or in one node or address.
LEMMA PhaseRecord ==
  ASSUME NEW r \in ProvisionRecords, NEW p \in Phases
  PROVE  LET x == [r EXCEPT !.phase = p] IN
         x \in ProvisionRecords /\ x.phase = p /\ x.node = r.node /\ x.addr = r.addr
  BY DEF ProvisionRecords

LEMMA NodeRecord ==
  ASSUME NEW r \in ProvisionRecords, NEW t \in Targets, NEW p \in NodePhases
  PROVE  LET x == [r EXCEPT !.node[t] = p] IN
         /\ x \in ProvisionRecords /\ x.phase = r.phase /\ x.addr = r.addr
         /\ x.node[t] = p /\ \A u \in Targets \ {t} : x.node[u] = r.node[u]
  BY DEF ProvisionRecords

LEMMA AddrRecord ==
  ASSUME SessionTypes, NEW t \in Targets, NEW p \in AddrPhases,
         NEW k \in 0..MaxAlloc
  PROVE  /\ SetAddr(t, p, k) \in ProvisionRecords /\ SetAddr(t, p, k).phase = copy.phase
         /\ SetAddr(t, p, k).node = copy.node
         /\ SetAddr(t, p, k).addr[t] = [phase |-> p, id |-> k]
         /\ \A u \in Targets \ {t} : SetAddr(t, p, k).addr[u] = copy.addr[u]
<1>1. [phase |-> p, id |-> k] \in Address
  BY DEF Address
<1> DEFINE a == [phase |-> p, id |-> k]
<1>2. SetAddr(t, p, k) = [copy EXCEPT !.addr[t] = a]
  BY DEF SetAddr
<1> HIDE DEF a
<1>3. /\ SetAddr(t, p, k) \in ProvisionRecords /\ SetAddr(t, p, k).phase = copy.phase
      /\ SetAddr(t, p, k).node = copy.node /\ SetAddr(t, p, k).addr[t] = a
      /\ \A u \in Targets \ {t} : SetAddr(t, p, k).addr[u] = copy.addr[u]
  BY <1>1, <1>2 DEF SessionTypes, ProvisionRecords, a
<1> QED
  BY <1>3 DEF a

\* What may be saved may be saved as interrupted.
LEMMA InterruptedOK ==
  ASSUME NEW r, NEW V, NEW E, NEW L, RecordOK(r, V, E, L)
  PROVE  /\ RecordOK(Interrupted(r), V, E, L) /\ Interrupted(r).addr = r.addr
         /\ Interrupted(r).phase \in {"interrupted", "addresses-released"}
<1>1. CASE r.phase = "addresses-released"
  BY <1>1 DEF Interrupted
<1>2. CASE r.phase # "addresses-released"
  <2> DEFINE x == [r EXCEPT !.phase = "interrupted"]
  <2>1. Interrupted(r) = x /\ r \in ProvisionRecords /\ "interrupted" \in Phases
    BY <1>2 DEF Interrupted, RecordOK, Phases
  <2>2. x \in ProvisionRecords /\ x.phase = "interrupted" /\ x.node = r.node /\ x.addr = r.addr
    BY <2>1, PhaseRecord
  <2> HIDE DEF x
  <2> QED
    BY <2>1, <2>2 DEF RecordOK
<1> QED
  BY <1>1, <1>2

\* The session's copy may be saved at any time.
LEMMA CopyIsOK ==
  ASSUME ProvisionInvariant
  PROVE  RecordOK(copy, vm, eip, launches)
<1>1. /\ RecordOK(durable, vm, eip, launches) /\ CopyOK /\ SessionTypes
  BY TypeParts DEF ProvisionInvariant
<1>2. CASE doing \notin Executing
  BY <1>1, <1>2 DEF CopyOK
<1>3. CASE doing \in Executing
  <2>1. copy.phase = "provisioning" /\ copy.addr = durable.addr
    BY <1>1, <1>3 DEF CopyOK
  <2>2. ASSUME NEW t \in Targets
        PROVE  TargetOK(copy.addr[t], copy.node[t], vm[t], eip[t], launches[t])
    BY <1>1, <2>1, <2>2 DEF RecordOK, CopyOK, TargetOK
  <2> QED
    BY <1>1, <2>1, <2>2 DEF RecordOK, SessionTypes
<1> QED
  BY <1>2, <1>3

-----------------------------------------------------------------------------
(* Lemmas: how a session ends and how it goes on.                          *)

\* What holds of EC2 after a step, whatever the session does.
Calm ==
  /\ CloudTypes' /\ UNCHANGED public /\ stale' \subseteq stale
  /\ \A t \in Targets : CloudOK(vm'[t], eip'[t], launches'[t])
  /\ \A t \in stale' : Coming(eip'[t]) = {}
  /\ leaving' # {} => \A t \in Targets : vm'[t] \in Dead

\* Whether addresses are asked for is part of the plan and does not change.
LEMMA RecordNext ==
  ASSUME RecordOK(durable', vm', eip', launches'), UNCHANGED public
  PROVE  RecordOK(durable, vm, eip, launches)'
  BY DEF RecordOK, ReadyOK

LEMMA IdleKeeps ==
  ASSUME ProvisionInvariant, Calm, Idle, RecordOK(durable', vm', eip', launches')
  PROVE  ProvisionInvariant'
<1>1. SessionTypes /\ CloudTypes'
  BY TypeParts DEF ProvisionInvariant, Calm
<1>2. durable' \in ProvisionRecords /\ copy' = durable' /\ doing' = "idle" /\ at' = 1
      /\ seen' = Unseen
  BY DEF Idle, RecordOK
<1>3. SessionTypes'
  <2>1. Unseen \in [Targets -> Snapshots]
    BY ProvisionAssumption DEF Unseen, Snapshots
  <2> QED
    BY <1>1, <1>2, <2>1, ProvisionAssumption DEF SessionTypes, Steps, Calm
<1>4. ProvisionTypeOK'
  BY <1>1, <1>3, TypesNext
<1>5. RecordOK(durable, vm, eip, launches)'
  BY RecordNext DEF Calm
<1>6. \A t \in Targets : CloudOK(vm[t], eip[t], launches[t])' /\ StaleOK(t)'
  BY <1>2 DEF Calm, StaleOK
<1>7. CopyOK'
  BY <1>2 DEF CopyOK, Executing, Starting, Addressing
<1>8. LaunchOK' /\ AddressingOK'
  BY <1>2 DEF LaunchOK, AddressingOK, Launching, Addressing, OneByOne
<1>9. WithdrawalOK'
  BY <1>2 DEF WithdrawalOK, Withdrawal, Calm
<1> QED
  BY <1>4, <1>5, <1>6, <1>7, <1>8, <1>9 DEF ProvisionInvariant

\* A session ends in mid-air, with or without a trace.
LEMMA EndKeeps ==
  ASSUME ProvisionInvariant, Calm, End,
         RecordOK(durable, vm', eip', launches'),
         RecordOK(copy, vm', eip', launches')
  PROVE  ProvisionInvariant'
<1>1. Idle /\ durable' \in {durable, Interrupted(copy)}
  BY DEF End
<1>2. RecordOK(durable', vm', eip', launches')
  BY <1>1, InterruptedOK
<1> QED
  BY <1>1, <1>2, IdleKeeps

LEMMA SaveAndEndKeeps ==
  ASSUME ProvisionInvariant, Calm, NEW r, SaveAndEnd(r),
         RecordOK(durable, vm', eip', launches'),
         RecordOK(r, vm', eip', launches')
  PROVE  ProvisionInvariant'
<1>1. Idle /\ durable' \in {durable, r, Interrupted(r)}
  BY DEF SaveAndEnd
<1>2. RecordOK(durable', vm', eip', launches')
  BY <1>1, InterruptedOK
<1> QED
  BY <1>1, <1>2, IdleKeeps

\* The session after a step that did not end it.
Onward ==
  /\ SessionTypes' /\ RecordOK(durable', vm', eip', launches')
  /\ \A t \in Targets : StaleOK(t)'
  /\ CopyOK' /\ LaunchOK' /\ AddressingOK' /\ WithdrawalOK'

LEMMA OnwardKeeps ==
  ASSUME Calm, Onward
  PROVE  ProvisionInvariant'
<1>1. ProvisionTypeOK'
  BY TypesNext DEF Calm, Onward
<1>2. RecordOK(durable, vm, eip, launches)'
  BY RecordNext DEF Calm, Onward
<1>3. \A t \in Targets : CloudOK(vm[t], eip[t], launches[t])'
  BY DEF Calm
<1> QED
  BY <1>1, <1>2, <1>3 DEF Onward, ProvisionInvariant

\* A checkpoint: the session goes on, or ends.
LEMMA SaveKeeps ==
  ASSUME ProvisionInvariant, Calm, NEW r, NEW next, NEW i, Save(r, next, i),
         RecordOK(durable, vm', eip', launches'),
         RecordOK(r, vm', eip', launches'),
         durable' = r /\ copy' = r /\ doing' = next /\ at' = i /\ seen' = seen => Onward
  PROVE  ProvisionInvariant'
  BY SaveAndEndKeeps, OnwardKeeps DEF Save

\* A step that calls nothing leaves EC2 as it is.
LEMMA NoCallIsCalm ==
  ASSUME ProvisionInvariant, NoCall, UNCHANGED public, stale' \subseteq stale
  PROVE  /\ Calm /\ UNCHANGED <<vm, eip, joining, leaving, launches>>
         /\ RecordOK(durable, vm', eip', launches')
         /\ RecordOK(copy, vm', eip', launches')
<1>1. UNCHANGED <<vm, eip, joining, leaving, launches>>
  BY DEF NoCall, cloud
<1>2. CloudTypes /\ stale \subseteq Targets
  BY TypeParts DEF ProvisionInvariant, SessionTypes
<1>3. Calm
  BY <1>1, <1>2 DEF Calm, ProvisionInvariant, CloudTypes, StaleOK, WithdrawalOK
<1> QED
  BY <1>1, <1>3, CopyIsOK DEF ProvisionInvariant

-----------------------------------------------------------------------------
(* EC2 by itself, and what a call does to it.                              *)

\* A target after such a step, and before: nothing is made, nothing comes back.
Settles(v, e, w, f) ==
  /\ Held(f) \subseteq Held(e) /\ Coming(f) \subseteq Coming(e)
  /\ v = "none" => w = "none"
  /\ v \in Dead => w \in Dead
  /\ v \in Alive \cup Dead => w \in Alive \cup Dead
  /\ \A k \in Ids : e[k] = "attached" /\ w \in Alive => f[k] = "attached"
  /\ \A k \in Ids : f[k] = "attached" => w \in Alive

Settled == \A t \in Targets : Settles(vm[t], eip[t], vm'[t], eip'[t])

LEMMA TargetSettles ==
  ASSUME NEW a, NEW nd, NEW v, NEW e, NEW w, NEW f, NEW n, Settles(v, e, w, f)
  PROVE  /\ CloudOK(v, e, n) => CloudOK(w, f, n)
         /\ TargetOK(a, nd, v, e, n) => TargetOK(a, nd, w, f, n)
         /\ There(f) # {} => There(e) \cup Coming(e) # {}
<1>1. CloudOK(v, e, n) => CloudOK(w, f, n)
  BY DEF Settles, CloudOK
<1>2. TargetOK(a, nd, v, e, n) => TargetOK(a, nd, w, f, n)
  BY DEF Settles, TargetOK
<1>3. There(f) # {} => There(e) \cup Coming(e) # {}
  BY AddressSets DEF Settles
<1> QED
  BY <1>1, <1>2, <1>3

\* An address stays on its instance for as long as that lives.
LEMMA InstanceSettles ==
  ASSUME NEW a, NEW v, NEW e, NEW w, NEW f, Settles(v, e, w, f),
         v \in Alive \cup Dead, OnInstance(a, v, e), a.id \in Ids
  PROVE  OnInstance(a, w, f)
<1>1. w \in Alive => v \in Alive
  BY DEF Settles, Alive, Dead
<1> QED
  BY <1>1 DEF Settles, OnInstance

LEMMA RecordSettles ==
  ASSUME Settled, launches' = launches, NEW r, RecordOK(r, vm, eip, launches)
  PROVE  RecordOK(r, vm', eip', launches')
<1>1. ASSUME NEW t \in Targets
      PROVE  /\ TargetOK(r.addr[t], r.node[t], vm'[t], eip'[t], launches'[t])
             /\ r.phase = "compute-ready" =>
                  ReadyOK(r.addr[t], r.node[t], vm'[t], eip'[t])
             /\ r.phase = "addresses-released" => Held(eip'[t]) = {}
  <2>1. /\ Settles(vm[t], eip[t], vm'[t], eip'[t])
        /\ TargetOK(r.addr[t], r.node[t], vm[t], eip[t], launches[t])
        /\ r.addr[t] \in Address
    BY <1>1, RecordFacts DEF Settled, RecordOK
  <2>2. TargetOK(r.addr[t], r.node[t], vm'[t], eip'[t], launches'[t])
    BY <2>1, TargetSettles
  <2>3. ASSUME r.phase = "compute-ready"
        PROVE  ReadyOK(r.addr[t], r.node[t], vm'[t], eip'[t])
    <3>1. ReadyOK(r.addr[t], r.node[t], vm[t], eip[t])
      BY <1>1, <2>3 DEF RecordOK
    <3>2. public => r.addr[t].id \in Ids
      BY <2>1, <3>1, ProvisionAssumption DEF ReadyOK, TargetOK, Address, Ids
    <3>3. public => OnInstance(r.addr[t], vm'[t], eip'[t])
      BY <2>1, <3>1, <3>2, InstanceSettles DEF ReadyOK
    <3>4. vm'[t] \in Alive \cup Dead
      BY <2>1, <3>1 DEF ReadyOK, Settles
    <3> QED
      BY <3>1, <3>3, <3>4 DEF ReadyOK
  <2>4. r.phase = "addresses-released" => Held(eip'[t]) = {}
    BY <1>1, <2>1 DEF RecordOK, Settles
  <2> QED
    BY <2>2, <2>3, <2>4
<1> QED
  BY <1>1 DEF RecordOK

LEMMA SettledIsCalm ==
  ASSUME ProvisionInvariant, Settled, CloudTypes', launches' = launches,
         UNCHANGED <<public, stale>>,
         leaving' # {} => leaving # {} \/ \A t \in Targets : vm'[t] \in Dead
  PROVE  /\ Calm /\ RecordOK(durable, vm', eip', launches')
         /\ RecordOK(copy, vm', eip', launches')
<1>1. \A t \in Targets : CloudOK(vm'[t], eip'[t], launches'[t])
  BY TargetSettles DEF ProvisionInvariant, Settled
<1>2. \A t \in stale' : Coming(eip'[t]) = {}
  BY TypeParts DEF ProvisionInvariant, SessionTypes, StaleOK, Settled, Settles
<1>3. leaving' # {} => \A t \in Targets : vm'[t] \in Dead
  BY DEF ProvisionInvariant, WithdrawalOK, Settled, Settles
<1>4. Calm
  BY <1>1, <1>2, <1>3 DEF Calm
<1> QED
  BY <1>4, CopyIsOK, RecordSettles DEF ProvisionInvariant

\* The steps of a session that has been left alone, in a settled EC2.
LEMMA SettledSession ==
  ASSUME ProvisionInvariant, Settled, launches' = launches,
         UNCHANGED <<public, durable, copy, doing, at, seen, stale>>,
         leaving' # {} => leaving # {} \/ \A t \in Targets : vm'[t] \in Dead
  PROVE  /\ SessionTypes' /\ \A t \in Targets : StaleOK(t)'
         /\ CopyOK' /\ LaunchOK' /\ AddressingOK' /\ WithdrawalOK'
<1>1. SessionTypes /\ RecordOK(durable, vm, eip, launches)
  BY TypeParts DEF ProvisionInvariant
<1>2. SessionTypes'
  BY <1>1 DEF SessionTypes
<1>3. ASSUME NEW t \in Targets PROVE StaleOK(t)'
  <2>1. StaleOK(t) /\ Settles(vm[t], eip[t], vm'[t], eip'[t])
    BY <1>3 DEF ProvisionInvariant, Settled
  <2>2. There(eip'[t]) # {} => There(eip[t]) \cup Coming(eip[t]) # {}
    BY <2>1, TargetSettles
  <2> QED
    BY <2>1, <2>2 DEF StaleOK, Settles
<1>4. CopyOK' /\ LaunchOK'
  BY DEF ProvisionInvariant, CopyOK, LaunchOK, Present, Withdrawn
<1>5. AddressingOK'
  <2>1. AddressingOK
    BY DEF ProvisionInvariant
  <2>2. doing \in Addressing => \A t \in Targets : vm'[t] \in Alive \cup Dead
    BY <2>1 DEF AddressingOK, Settled, Settles
  <2>3. ASSUME doing \in OneByOne, NEW t \in Targets, t < at
        PROVE  durable.addr[t].phase = "associated"
               /\ OnInstance(durable.addr[t], vm'[t], eip'[t])
    <3>1. /\ durable.addr[t].phase = "associated" /\ vm[t] \in Alive \cup Dead
          /\ OnInstance(durable.addr[t], vm[t], eip[t])
      BY <2>1, <2>3 DEF AddressingOK, OneByOne
    <3>2. durable.addr[t].id \in Ids
      BY <1>1, <3>1, RecordFacts DEF RecordOK, TargetOK, Ids
    <3> QED
      BY <3>1, <3>2, InstanceSettles DEF Settled
  <2>4. ASSUME doing = "addressing", NEW t \in Targets
        PROVE  SnapshotOK(durable.addr[t], seen[t], vm'[t], eip'[t])
    <3>1. /\ SnapshotOK(durable.addr[t], seen[t], vm[t], eip[t])
          /\ vm[t] \in Alive \cup Dead /\ Settles(vm[t], eip[t], vm'[t], eip'[t])
      BY <2>1, <2>4 DEF AddressingOK, Addressing, Settled
    <3>2. seen[t].id # 0 => seen[t].id \in Ids
      BY <1>1 DEF SessionTypes, Snapshots, Ids
    <3>3. vm'[t] \in Alive => vm[t] \in Alive
      BY <3>1 DEF Settles, Alive, Dead
    <3> QED
      BY <3>1, <3>2, <3>3 DEF SnapshotOK, Settles
  <2>5. doing = "allocating" => Held(eip'[at]) = {}
    BY <2>1 DEF AddressingOK, Settled, Settles
  <2> QED
    BY <2>1, <2>2, <2>3, <2>4, <2>5 DEF AddressingOK
<1>6. WithdrawalOK'
  <2>1. WithdrawalOK
    BY DEF ProvisionInvariant
  <2>2. ASSUME doing \in Withdrawal, NEW t \in Targets
        PROVE  /\ vm'[t] \in Dead /\ SurveyOK(durable.addr[t], seen[t], eip'[t])
               /\ t < at => Held(eip'[t]) = {}
    <3>1. /\ vm[t] \in Dead /\ SurveyOK(durable.addr[t], seen[t], eip[t])
          /\ t < at => Held(eip[t]) = {}
      BY <2>1, <2>2 DEF WithdrawalOK
    <3>2. /\ vm[t] \in Dead => vm'[t] \in Dead
          /\ Held(eip'[t]) \subseteq Held(eip[t])
          /\ Coming(eip'[t]) \subseteq Coming(eip[t])
      BY <2>2 DEF Settled, Settles
    <3> QED
      BY <3>1, <3>2 DEF SurveyOK
  <2>3. leaving' # {} => \A t \in Targets : vm'[t] \in Dead
    BY <2>1 DEF WithdrawalOK, Settled, Settles
  <2> QED
    BY <2>1, <2>2, <2>3 DEF WithdrawalOK
<1> QED
  BY <1>2, <1>3, <1>4, <1>5, <1>6

LEMMA SettledKeeps ==
  ASSUME ProvisionInvariant, Settled, CloudTypes', launches' = launches,
         UNCHANGED <<public, durable, copy, doing, at, seen, stale>>,
         leaving' # {} => leaving # {} \/ \A t \in Targets : vm'[t] \in Dead
  PROVE  ProvisionInvariant'
<1>1. Calm /\ RecordOK(durable, vm', eip', launches')
  BY SettledIsCalm
<1>2. Onward
  BY <1>1, SettledSession DEF Onward
<1> QED
  BY <1>1, <1>2, OnwardKeeps

LEMMA SameSettles ==
  ASSUME NEW v, NEW e, NEW n, CloudOK(v, e, n)
  PROVE  Settles(v, e, v, e)
  BY DEF CloudOK, Settles

\* An address that shows, is given up by EC2, attached or released.
LEMMA AddressSettles ==
  ASSUME NEW v, NEW e \in [Ids -> EipStates], NEW n, CloudOK(v, e, n),
         NEW k \in Ids, NEW x \in EipStates,
         \/ e[k] = "flying" /\ x \in {"hidden", "none"}
         \/ e[k] = "hidden" /\ x = "visible"
         \/ e[k] = "visible" /\ x = "attached" /\ v \in Alive
         \/ e[k] = "visible" /\ x = "released"
  PROVE  Settles(v, e, v, [e EXCEPT ![k] = x])
<1> DEFINE f == [e EXCEPT ![k] = x]
<1>1. f[k] = x /\ \A j \in Ids \ {k} : f[j] = e[j]
  OBVIOUS
<1> HIDE DEF f
<1>2. Held(f) \subseteq Held(e) /\ Coming(f) \subseteq Coming(e)
  BY <1>1 DEF Held, Coming
<1>3. \A j \in Ids : e[j] = "attached" => f[j] = "attached"
  BY <1>1
<1>4. \A j \in Ids : f[j] = "attached" => v \in Alive
  BY <1>1 DEF CloudOK
<1>5. Settles(v, e, v, f)
  BY <1>2, <1>3, <1>4 DEF Settles
<1> QED
  BY <1>5 DEF f

\* A step that concerns one target.
LEMMA OneSettles ==
  ASSUME ProvisionInvariant, NEW t \in Targets,
         \A u \in Targets \ {t} : vm'[u] = vm[u] /\ eip'[u] = eip[u],
         Settles(vm[t], eip[t], vm'[t], eip'[t])
  PROVE  Settled
<1>1. ASSUME NEW u \in Targets PROVE Settles(vm[u], eip[u], vm'[u], eip'[u])
  BY <1>1, SameSettles DEF ProvisionInvariant
<1> QED
  BY <1>1 DEF Settled

\* SetEip, with the rest of EC2 unchanged.
LEMMA SetEipSettles ==
  ASSUME ProvisionInvariant, NEW t \in Targets, NEW k \in Ids, NEW x \in EipStates,
         SetEip(t, k, x), vm' = vm,
         \/ eip[t][k] = "flying" /\ x \in {"hidden", "none"}
         \/ eip[t][k] = "hidden" /\ x = "visible"
         \/ eip[t][k] = "visible" /\ x = "attached" /\ vm[t] \in Alive
         \/ eip[t][k] = "visible" /\ x = "released"
  PROVE  Settled /\ eip' \in [Targets -> [Ids -> EipStates]]
<1>1. eip \in [Targets -> [Ids -> EipStates]] /\ eip' = [eip EXCEPT ![t][k] = x]
  BY TypeParts DEF ProvisionInvariant, CloudTypes, SetEip
<1>2. /\ eip[t] \in [Ids -> EipStates] /\ eip'[t] = [eip[t] EXCEPT ![k] = x]
      /\ \A u \in Targets \ {t} : eip'[u] = eip[u]
      /\ eip' \in [Targets -> [Ids -> EipStates]]
  BY <1>1
<1>3. Settles(vm[t], eip[t], vm'[t], eip'[t])
  <2>1. CloudOK(vm[t], eip[t], launches[t])
    BY DEF ProvisionInvariant
  <2>2. Settles(vm[t], eip[t], vm[t], [eip[t] EXCEPT ![k] = x])
    BY <1>2, <2>1, AddressSettles
  <2> QED
    BY <1>2, <2>2
<1> QED
  BY <1>2, <1>3, OneSettles

LEMMA StaySettled ==
  ASSUME ProvisionInvariant, vm' = vm, eip' = eip
  PROVE  Settled
  BY SameSettles DEF ProvisionInvariant, Settled

\* The operator's termination detaches the address.
LEMMA TerminatedSettles ==
  ASSUME NEW v, NEW e \in [Ids -> EipStates], NEW n, CloudOK(v, e, n), v # "none",
         NEW f, f = [k \in Ids |-> IF e[k] = "attached" THEN "visible" ELSE e[k]]
  PROVE  Settles(v, e, "terminated", f) /\ f \in [Ids -> EipStates]
<1>1. \A k \in Ids : f[k] = (IF e[k] = "attached" THEN "visible" ELSE e[k])
  OBVIOUS
<1>2. f \in [Ids -> EipStates]
  BY DEF EipStates
<1>3. Held(f) \subseteq Held(e) /\ Coming(f) \subseteq Coming(e)
  BY <1>1 DEF Held, Coming
<1>4. \A k \in Ids : f[k] # "attached"
  BY <1>1
<1> QED
  BY <1>2, <1>3, <1>4 DEF Settles, Alive, Dead

\* What EC2 does by itself, and its operator.
LEMMA Ec2Settles ==
  ASSUME ProvisionInvariant, NEW t \in Targets, Ec2(t), UNCHANGED public
  PROVE  /\ UNCHANGED <<public, durable, copy, doing, at, seen, stale, launches>>
         /\ Settled /\ CloudTypes' /\ leaving' \subseteq leaving
<1>1. /\ UNCHANGED <<public, durable, copy, doing, at, seen, stale>>
      /\ launches' = launches /\ CloudTypes /\ CloudOK(vm[t], eip[t], launches[t])
      /\ vm \in [Targets -> VmStates] /\ eip \in [Targets -> [Ids -> EipStates]]
  BY TypeParts DEF Ec2, Undisturbed, ProvisionInvariant, CloudTypes
<1>2. CASE InstanceAppears(t)
  <2>1. PICK w \in VmStates :
          /\ SetVm(t, w) /\ UNCHANGED <<eip, joining, leaving>>
          /\ \/ vm[t] = "flying" /\ w \in {"hidden", "none"}
             \/ vm[t] = "hidden" /\ w = "pending"
             \/ vm[t] = "pending" /\ w = "running"
    BY <1>2 DEF InstanceAppears, VmStates
  <2>2. /\ vm' \in [Targets -> VmStates] /\ vm'[t] = w
        /\ \A u \in Targets \ {t} : vm'[u] = vm[u]
    BY <1>1, <2>1 DEF SetVm
  <2>3. Settles(vm[t], eip[t], w, eip[t])
    BY <1>1, <2>1 DEF Settles, CloudOK, Alive, Dead
  <2> QED
    BY <1>1, <2>1, <2>2, <2>3, OneSettles DEF CloudTypes
<1>3. CASE AddressAppears(t)
  <2>1. PICK k \in Ids, x \in EipStates :
          /\ SetEip(t, k, x) /\ UNCHANGED <<vm, joining, leaving>>
          /\ \/ eip[t][k] = "flying" /\ x \in {"hidden", "none"}
             \/ eip[t][k] = "hidden" /\ x = "visible"
    BY <1>3 DEF AddressAppears, EipStates
  <2> QED
    BY <1>1, <2>1, SetEipSettles DEF CloudTypes
<1>4. CASE LateAssociation(t)
  <2>1. /\ joining' = joining \ {t} /\ UNCHANGED <<vm, leaving>>
        /\ \/ eip' = eip
           \/ /\ vm[t] \in Alive
              /\ \E k \in Ids : eip[t][k] = "visible" /\ SetEip(t, k, "attached")
    BY <1>4 DEF LateAssociation, Alive
  <2>2. Settled /\ eip' \in [Targets -> [Ids -> EipStates]]
    BY <1>1, <2>1, StaySettled, SetEipSettles DEF EipStates
  <2> QED
    BY <1>1, <2>1, <2>2 DEF CloudTypes
<1>5. CASE LateRelease(t)
  <2>1. /\ leaving' = leaving \ {t} /\ UNCHANGED <<vm, joining>>
        /\ \/ eip' = eip
           \/ \E k \in Ids : eip[t][k] = "visible" /\ SetEip(t, k, "released")
    BY <1>5 DEF LateRelease
  <2>2. Settled /\ eip' \in [Targets -> [Ids -> EipStates]]
    BY <1>1, <2>1, StaySettled, SetEipSettles DEF EipStates
  <2> QED
    BY <1>1, <2>1, <2>2 DEF CloudTypes
<1>6. CASE Console(t)
  <2> DEFINE f == [k \in Ids |-> IF eip[t][k] = "attached" THEN "visible"
                                ELSE eip[t][k]]
  <2>1. PICK w \in VmStates :
          /\ SetVm(t, w) /\ UNCHANGED <<joining, leaving>>
          /\ \/ vm[t] \in Alive /\ w \in Alive /\ eip' = eip
             \/ vm[t] = "terminated" /\ w = "purged" /\ eip' = eip
             \/ /\ vm[t] # "none" /\ w = "terminated"
                /\ eip' = [eip EXCEPT ![t] = f]
    BY <1>6 DEF Console, VmStates, Alive
  <2>2. /\ vm' \in [Targets -> VmStates] /\ vm'[t] = w
        /\ \A u \in Targets \ {t} : vm'[u] = vm[u]
    BY <1>1, <2>1 DEF SetVm
  <2>3. CASE eip' = eip /\ w # "terminated"
    <3>1. Settles(vm[t], eip[t], w, eip[t])
      BY <1>1, <2>1, <2>3 DEF Settles, CloudOK, Alive, Dead
    <3> QED
      BY <1>1, <2>1, <2>2, <2>3, <3>1, OneSettles DEF CloudTypes
  <2>4. CASE /\ vm[t] # "none" /\ w = "terminated"
             /\ eip' = [eip EXCEPT ![t] = f]
    <3>1. Settles(vm[t], eip[t], "terminated", f) /\ f \in [Ids -> EipStates]
      <4>1. eip[t] \in [Ids -> EipStates]
        BY <1>1
      <4> QED
        BY <1>1, <2>4, <4>1, TerminatedSettles
    <3> HIDE DEF f
    <3>2. /\ eip' \in [Targets -> [Ids -> EipStates]] /\ eip'[t] = f
          /\ \A u \in Targets \ {t} : eip'[u] = eip[u]
      BY <1>1, <2>4, <3>1
    <3> QED
      BY <1>1, <2>1, <2>2, <2>4, <3>1, <3>2, OneSettles DEF CloudTypes
  <2> QED
    BY <2>1, <2>3, <2>4 DEF Alive
<1> QED
  BY <1>2, <1>3, <1>4, <1>5, <1>6 DEF Ec2

LEMMA Ec2Step ==
  ASSUME ProvisionInvariant, NEW t \in Targets, Ec2(t), UNCHANGED public
  PROVE  ProvisionInvariant'
  BY Ec2Settles, SettledKeeps

\* Time passes since an intent: nothing of it is under way any more.
LEMMA AgeStep ==
  ASSUME ProvisionInvariant, NEW t \in Targets, Age(t), UNCHANGED public
  PROVE  ProvisionInvariant'
<1>1. /\ doing # "allocating" /\ Coming(eip[t]) = {}
      /\ doing = "addressing" /\ seen[t].id = 0 => There(eip[t]) = {}
      /\ stale' = stale \cup {t}
      /\ UNCHANGED <<vm, eip, joining, leaving, durable, copy, doing, at, seen, launches>>
  BY AddressSets DEF Age, cloud
<1>2. ProvisionTypeOK'
  BY <1>1 DEF ProvisionInvariant, ProvisionTypeOK
<1>3. \A u \in Targets : StaleOK(u)'
  BY <1>1 DEF ProvisionInvariant, StaleOK
<1>4. RecordOK(durable, vm, eip, launches)'
  BY <1>1 DEF ProvisionInvariant, RecordOK, ReadyOK
<1>5. CopyOK' /\ LaunchOK' /\ WithdrawalOK'
  BY <1>1 DEF ProvisionInvariant, CopyOK, LaunchOK, WithdrawalOK, Present, Withdrawn
<1>6. AddressingOK'
  BY <1>1 DEF ProvisionInvariant, AddressingOK
<1> QED
  BY <1>1, <1>2, <1>3, <1>4, <1>5, <1>6 DEF ProvisionInvariant

-----------------------------------------------------------------------------
(* Execute: up to the launches.                                            *)

\* A session fails or is killed.
LEMMA FailStep ==
  ASSUME ProvisionInvariant, Fail \/ Kill, UNCHANGED public
  PROVE  ProvisionInvariant'
<1>1. NoCall /\ UNCHANGED stale
  BY DEF Fail, Kill
<1>2. /\ Calm /\ RecordOK(durable, vm', eip', launches')
      /\ RecordOK(copy, vm', eip', launches')
  BY <1>1, NoCallIsCalm
<1>3. CASE Fail
  BY <1>2, <1>3, EndKeeps DEF Fail
<1>4. CASE Kill
  BY <1>2, <1>4, IdleKeeps DEF Kill
<1> QED
  BY <1>3, <1>4

LEMMA BeginStep ==
  ASSUME ProvisionInvariant, Begin, UNCHANGED public
  PROVE  ProvisionInvariant'
<1> DEFINE r == [durable EXCEPT !.phase = "provisioning"]
<1>1. /\ doing = "idle" /\ Withdrawn(durable) = {} /\ Save(r, "discovering", at)
      /\ NoCall /\ UNCHANGED stale
  BY DEF Begin
<1>2. /\ Calm /\ UNCHANGED <<vm, eip, joining, leaving, launches>>
      /\ RecordOK(durable, vm', eip', launches') /\ SessionTypes
  BY <1>1, NoCallIsCalm, TypeParts DEF ProvisionInvariant
<1>3. /\ r \in ProvisionRecords /\ r.phase = "provisioning" /\ r.node = durable.node
      /\ r.addr = durable.addr
  BY <1>2, PhaseRecord DEF SessionTypes, Phases
<1> HIDE DEF r
<1>4. RecordOK(r, vm', eip', launches')
  BY <1>2, <1>3 DEF RecordOK
<1>5. ASSUME durable' = r, copy' = r, doing' = "discovering", at' = at, seen' = seen
      PROVE  Onward
  <2>1. SessionTypes'
    BY <1>1, <1>2, <1>3, <1>5 DEF SessionTypes, Steps
  <2>2. \A t \in Targets : StaleOK(t)'
    BY <1>1, <1>2, <1>5 DEF ProvisionInvariant, StaleOK
  <2>3. CopyOK'
    BY <1>1, <1>3, <1>5 DEF CopyOK, Executing, Starting, Withdrawn
  <2>4. LaunchOK' /\ AddressingOK' /\ WithdrawalOK'
    BY <1>2, <1>5 DEF ProvisionInvariant, LaunchOK, AddressingOK, WithdrawalOK,
       Launching, Addressing, OneByOne, Withdrawal
  <2> QED
    BY <1>4, <1>5, <2>1, <2>2, <2>3, <2>4 DEF Onward
<1> QED
  BY <1>1, <1>2, <1>4, <1>5, SaveKeeps

\* What is visible is present; the rest of a record is as it was.
LEMMA ReconciledFacts ==
  ASSUME NEW r \in ProvisionRecords
  PROVE  /\ Reconciled(r) \in ProvisionRecords /\ Reconciled(r).phase = r.phase
         /\ Reconciled(r).addr = r.addr
         /\ \A t \in Targets :
              Reconciled(r).node[t] = (IF Visible(t) THEN "present" ELSE r.node[t])
<1> DEFINE nd == [t \in Targets |-> IF Visible(t) THEN "present" ELSE r.node[t]]
<1>1. nd \in [Targets -> NodePhases]
  BY DEF ProvisionRecords, NodePhases
<1>2. \A t \in Targets : nd[t] = (IF Visible(t) THEN "present" ELSE r.node[t])
  OBVIOUS
<1>3. Reconciled(r) = [r EXCEPT !.node = nd]
  BY DEF Reconciled
<1> HIDE DEF nd
<1>4. /\ Reconciled(r) \in ProvisionRecords /\ Reconciled(r).phase = r.phase
      /\ Reconciled(r).addr = r.addr /\ Reconciled(r).node = nd
  BY <1>1, <1>3 DEF ProvisionRecords
<1> QED
  BY <1>2, <1>4

\* Once a session has claimed no outcome is unknown, what is not present was never
\* launched.
LEMMA DiscoverStep ==
  ASSUME ProvisionInvariant, Discover, UNCHANGED public
  PROVE  ProvisionInvariant'
<1>1. /\ doing = "discovering" /\ OutcomeKnown(copy) /\ copy' = Reconciled(copy)
      /\ doing' = "scoping" /\ NoCall /\ UNCHANGED <<durable, at, seen, stale>>
  BY DEF Discover
<1>2. /\ Calm /\ UNCHANGED <<vm, eip, joining, leaving, launches>>
      /\ RecordOK(durable, vm', eip', launches') /\ SessionTypes /\ CopyOK
      /\ RecordOK(durable, vm, eip, launches)
  BY <1>1, NoCallIsCalm, TypeParts DEF ProvisionInvariant
<1>3. /\ copy' \in ProvisionRecords /\ copy'.phase = copy.phase
      /\ copy'.addr = copy.addr
      /\ \A t \in Targets :
           copy'.node[t] = (IF Visible(t) THEN "present" ELSE copy.node[t])
  BY <1>1, <1>2, ReconciledFacts DEF SessionTypes
<1>4. \A t \in Targets : Visible(t) <=> copy.node[t] # "pending"
  BY <1>1 DEF OutcomeKnown
<1>5. SessionTypes'
  BY <1>1, <1>2, <1>3 DEF SessionTypes, Steps, Calm
<1>6. \A t \in Targets : StaleOK(t)'
  BY <1>1, <1>2 DEF ProvisionInvariant, StaleOK
<1>7. CopyOK'
  BY <1>1, <1>2, <1>3, <1>4 DEF CopyOK, Executing, Starting, Withdrawn
<1>8. LaunchOK'
  <2>1. ASSUME NEW t \in Targets, copy'.node[t] # "present" PROVE launches'[t] = 0
    <3>1. copy.node[t] = "pending"
      BY <1>3, <1>4, <2>1
    <3>2. durable.node[t] = "pending"
      BY <1>2, <3>1, <2>1 DEF CopyOK
    <3> QED
      BY <1>2, <2>1, <3>2 DEF RecordOK, TargetOK
  <2> QED
    BY <1>1, <2>1 DEF LaunchOK, Addressing
<1>9. AddressingOK' /\ WithdrawalOK'
  BY <1>1, <1>2 DEF ProvisionInvariant, AddressingOK, WithdrawalOK, Addressing,
     OneByOne, Withdrawal
<1> QED
  <2>1. RecordOK(durable', vm', eip', launches')
    BY <1>1, <1>2
  <2> QED
    BY <1>2, <1>5, <1>6, <1>7, <1>8, <1>9, <2>1, OnwardKeeps DEF Onward

\* The copy after a checkpoint that was acknowledged.
LEMMA CopySaved ==
  ASSUME NEW r, durable' = r, copy' = r,
         r.phase = "provisioning", Withdrawn(r) = {}
  PROVE  CopyOK'
  BY DEF CopyOK

LEMMA ScopeStep ==
  ASSUME ProvisionInvariant, Scope, UNCHANGED public
  PROVE  ProvisionInvariant'
<1>1. /\ doing = "scoping" /\ Save(copy, "launching", at)
      /\ NoCall /\ UNCHANGED stale
  BY DEF Scope
<1>2. /\ Calm /\ UNCHANGED <<vm, eip, joining, leaving, launches>>
      /\ RecordOK(durable, vm', eip', launches')
      /\ RecordOK(copy, vm', eip', launches') /\ SessionTypes /\ CopyOK
  BY <1>1, NoCallIsCalm, TypeParts DEF ProvisionInvariant
<1>3. ASSUME durable' = copy, copy' = copy, doing' = "launching", at' = at,
             seen' = seen
      PROVE  Onward
  <2>1. SessionTypes'
    BY <1>1, <1>2, <1>3 DEF SessionTypes, Steps
  <2>2. \A t \in Targets : StaleOK(t)'
    BY <1>1, <1>2, <1>3 DEF ProvisionInvariant, StaleOK
  <2>3. CopyOK'
    BY <1>1, <1>2, <1>3, CopySaved DEF CopyOK, Executing, Starting, Withdrawn
  <2>4. LaunchOK'
    BY <1>1, <1>2, <1>3 DEF ProvisionInvariant, LaunchOK, Launching, Addressing
  <2>5. AddressingOK' /\ WithdrawalOK'
    BY <1>2, <1>3 DEF ProvisionInvariant, AddressingOK, WithdrawalOK,
       Addressing, OneByOne, Withdrawal
  <2>6. RecordOK(durable', vm', eip', launches')
    BY <1>2, <1>3
  <2> QED
    BY <2>1, <2>2, <2>3, <2>4, <2>5, <2>6 DEF Onward
<1> QED
  BY <1>1, <1>2, <1>3, SaveKeeps

\* The intent of a launch: of a target that was never launched.
LEMMA LaunchStep ==
  ASSUME ProvisionInvariant, Launch, UNCHANGED public
  PROVE  ProvisionInvariant'
<1> DEFINE i == Min(Targets \ Present(copy))
           r == [copy EXCEPT !.node[i] = "launching"]
<1>1. /\ doing = "launching" /\ Save(r, "running", i) /\ NoCall /\ UNCHANGED stale
  BY DEF Launch
<1>2. i \in Targets /\ copy.node[i] # "present"
  <2>1. Targets \ Present(copy) \in SUBSET Nat /\ Targets \ Present(copy) # {}
    BY DEF Launch, Targets, Present
  <2>2. i \in Targets \ Present(copy)
    BY <2>1, MinIn
  <2> QED
    BY <2>2 DEF Present
<1> HIDE DEF i
<1>3. /\ Calm /\ UNCHANGED <<vm, eip, joining, leaving, launches>>
      /\ RecordOK(durable, vm', eip', launches')
      /\ RecordOK(copy, vm', eip', launches') /\ SessionTypes /\ CopyOK
  BY <1>1, NoCallIsCalm, TypeParts DEF ProvisionInvariant
<1>4. /\ r \in ProvisionRecords /\ r.phase = copy.phase /\ r.addr = copy.addr
      /\ r.node[i] = "launching" /\ \A u \in Targets \ {i} : r.node[u] = copy.node[u]
  <2>1. copy \in ProvisionRecords /\ i \in Targets /\ "launching" \in NodePhases
    BY <1>2, <1>3 DEF SessionTypes, NodePhases
  <2> QED
    BY <2>1, NodeRecord
<1>5. /\ copy.phase = "provisioning" /\ Withdrawn(r) = {}
  BY <1>1, <1>3, <1>4 DEF CopyOK, Executing, Starting, Withdrawn
<1> HIDE DEF r
<1>6. RecordOK(r, vm', eip', launches')
  <2>1. ASSUME NEW t \in Targets
        PROVE  TargetOK(r.addr[t], r.node[t], vm'[t], eip'[t], launches'[t])
    <3>1. TargetOK(copy.addr[t], copy.node[t], vm'[t], eip'[t], launches'[t])
      BY <1>3, <2>1 DEF RecordOK
    <3>2. r.node[t] = "pending" => copy.node[t] = "pending"
      BY <1>4, <2>1
    <3> QED
      BY <1>4, <3>1, <3>2 DEF TargetOK
  <2> QED
    BY <1>4, <1>5, <2>1 DEF RecordOK
<1>7. ASSUME durable' = r, copy' = r, doing' = "running", at' = i, seen' = seen
      PROVE  Onward
  <2>1. SessionTypes'
    <3>1. i \in 1..(N + 1)
      BY <1>2, ProvisionAssumption DEF Targets
    <3> QED
      BY <1>1, <1>3, <1>4, <1>7, <3>1 DEF SessionTypes, Steps
  <2>2. \A t \in Targets : StaleOK(t)'
    BY <1>1, <1>3, <1>7 DEF ProvisionInvariant, StaleOK
  <2>3. CopyOK'
    BY <1>4, <1>5, <1>7, CopySaved
  <2>4. LaunchOK'
    <3>1. \A t \in Targets : r.node[t] # "present" => launches'[t] = 0
      BY <1>1, <1>2, <1>3, <1>4 DEF ProvisionInvariant, LaunchOK, Launching
    <3> QED
      BY <1>2, <1>4, <1>7, <3>1 DEF LaunchOK, Addressing
  <2>5. AddressingOK' /\ WithdrawalOK'
    BY <1>3, <1>7 DEF ProvisionInvariant, AddressingOK, WithdrawalOK,
       Addressing, OneByOne, Withdrawal
  <2>6. RecordOK(durable', vm', eip', launches')
    BY <1>6, <1>7
  <2> QED
    BY <2>1, <2>2, <2>3, <2>4, <2>5, <2>6 DEF Onward
<1> QED
  BY <1>1, <1>3, <1>6, <1>7, SaveKeeps

\* What a call of RunInstances does to EC2 and to its count.
RanOK(v) ==
  /\ vm' = [vm EXCEPT ![at] = IF @ = "none" THEN v ELSE @]
  /\ launches' = [launches EXCEPT ![at] = @ + 1]
  /\ UNCHANGED <<eip, joining, leaving, stale>>

\* The one call that a target gets: its intent is on record, and no other made it.
LEMMA RanFacts ==
  ASSUME ProvisionInvariant, UNCHANGED public, doing = "running",
         NEW v \in {"none", "flying", "hidden"}, RanOK(v)
  PROVE  /\ Calm /\ RecordOK(durable, vm', eip', launches')
         /\ RecordOK(copy, vm', eip', launches')
<1>1. /\ SessionTypes /\ CloudTypes /\ CopyOK /\ LaunchOK
      /\ RecordOK(durable, vm, eip, launches) /\ RecordOK(copy, vm, eip, launches)
  BY TypeParts, CopyIsOK DEF ProvisionInvariant
<1>2. /\ at \in Targets /\ copy.node[at] = "launching" /\ launches[at] = 0
  BY <1>1 DEF LaunchOK, Launching
<1>3. vm \in [Targets -> VmStates] /\ launches \in [Targets -> 0..CallBound]
  BY <1>1 DEF CloudTypes
<1>4. /\ vm' \in [Targets -> VmStates]
      /\ vm'[at] = (IF vm[at] = "none" THEN v ELSE vm[at])
      /\ \A t \in Targets \ {at} : vm'[t] = vm[t]
  BY <1>2, <1>3 DEF RanOK, VmStates
<1>5. /\ launches'[at] = 1 /\ \A t \in Targets \ {at} : launches'[t] = launches[t]
      /\ launches' \in [Targets -> 0..CallBound]
  BY <1>2, <1>3 DEF RanOK, CallBound
<1>6. CloudTypes' /\ UNCHANGED <<eip, leaving, stale>>
  BY <1>1, <1>4, <1>5 DEF CloudTypes, RanOK
<1>7. ASSUME NEW t \in Targets
      PROVE  /\ CloudOK(vm'[t], eip'[t], launches'[t])
             /\ t \in stale' => Coming(eip'[t]) = {}
             /\ vm[t] \in Dead => vm'[t] \in Dead
  <2>1. CloudOK(vm[t], eip[t], launches[t]) /\ StaleOK(t)
    BY <1>7 DEF ProvisionInvariant
  <2>2. vm'[t] = vm[t] \/ vm[t] = "none"
    BY <1>4, <1>7
  <2>3. launches'[t] <= 1
    BY <1>5, <1>7, <2>1 DEF CloudOK
  <2>4. \A k \in Ids : eip'[t][k] = "attached" => vm'[t] \in Alive
    BY <1>6, <2>1, <2>2 DEF CloudOK, Alive
  <2>5. CloudOK(vm'[t], eip'[t], launches'[t])
    BY <1>6, <2>1, <2>3, <2>4 DEF CloudOK
  <2> QED
    BY <1>6, <2>1, <2>2, <2>5 DEF StaleOK, Dead
<1>8. Calm
  <2>1. \A t \in stale' : Coming(eip'[t]) = {}
    BY <1>1, <1>6, <1>7 DEF SessionTypes
  <2>2. leaving' # {} => \A t \in Targets : vm'[t] \in Dead
    BY <1>6, <1>7 DEF ProvisionInvariant, WithdrawalOK
  <2> QED
    BY <1>6, <1>7, <2>1, <2>2 DEF Calm
<1>9. ASSUME NEW r, RecordOK(r, vm, eip, launches), r.phase = "provisioning",
             r.node[at] # "pending"
      PROVE  RecordOK(r, vm', eip', launches')
  <2>1. ASSUME NEW t \in Targets
        PROVE  TargetOK(r.addr[t], r.node[t], vm'[t], eip'[t], launches'[t])
    <3>1. TargetOK(r.addr[t], r.node[t], vm[t], eip[t], launches[t])
      BY <1>9, <2>1 DEF RecordOK
    <3>2. r.node[t] = "pending" => vm'[t] = vm[t] /\ launches'[t] = launches[t]
      BY <1>4, <1>5, <1>9, <2>1
    <3> QED
      BY <1>6, <3>1, <3>2 DEF TargetOK
  <2> QED
    BY <1>9, <2>1 DEF RecordOK
<1>10. /\ durable.phase = "provisioning" /\ copy.phase = "provisioning"
       /\ durable.node[at] # "pending" /\ copy.node[at] # "pending"
  BY <1>1, <1>2 DEF CopyOK, Executing, Starting
<1> QED
  BY <1>1, <1>8, <1>9, <1>10

LEMMA RunStep ==
  ASSUME ProvisionInvariant, Run, UNCHANGED public
  PROVE  ProvisionInvariant'
<1> DEFINE r == [copy EXCEPT !.node[at] = "present"]
<1>1. /\ doing = "running"
      /\ \/ RanOK("hidden") /\ Save(r, "launching", at)
         \/ End /\ \E v \in {"none", "flying", "hidden"} : RanOK(v)
  BY DEF Run, RanOK, SetVm
<1>2. CASE RanOK("hidden") /\ Save(r, "launching", at)
  <2>1. /\ Calm /\ RecordOK(durable, vm', eip', launches')
        /\ RecordOK(copy, vm', eip', launches')
    BY <1>1, <1>2, RanFacts
  <2>2. /\ SessionTypes /\ CopyOK /\ LaunchOK /\ at \in Targets
        /\ \A t \in Targets : StaleOK(t)
    BY <1>1, TypeParts DEF ProvisionInvariant, LaunchOK
  <2>3. /\ r \in ProvisionRecords /\ r.phase = copy.phase /\ r.addr = copy.addr
        /\ r.node[at] = "present"
        /\ \A u \in Targets \ {at} : r.node[u] = copy.node[u]
    <3>1. copy \in ProvisionRecords /\ at \in Targets /\ "present" \in NodePhases
      BY <2>2 DEF SessionTypes, NodePhases
    <3> QED
      BY <3>1, NodeRecord
  <2>4. copy.phase = "provisioning" /\ Withdrawn(r) = {}
    BY <1>1, <2>2, <2>3 DEF CopyOK, Executing, Starting, Withdrawn
  <2> HIDE DEF r
  <2>5. RecordOK(r, vm', eip', launches')
    <3>1. ASSUME NEW t \in Targets
          PROVE  TargetOK(r.addr[t], r.node[t], vm'[t], eip'[t], launches'[t])
      <4>1. TargetOK(copy.addr[t], copy.node[t], vm'[t], eip'[t], launches'[t])
        BY <2>1, <3>1 DEF RecordOK
      <4>2. r.node[t] = "pending" => copy.node[t] = "pending"
        BY <2>3, <3>1
      <4> QED
        BY <2>3, <4>1, <4>2 DEF TargetOK
    <3> QED
      BY <2>3, <2>4, <3>1 DEF RecordOK
  <2>6. ASSUME durable' = r, copy' = r, doing' = "launching", at' = at, seen' = seen
        PROVE  Onward
    <3>1. UNCHANGED <<eip, stale, public>> /\ leaving' = leaving
      BY <1>2 DEF RanOK
    <3>2. SessionTypes'
      BY <2>2, <2>3, <2>6, <3>1 DEF SessionTypes, Steps
    <3>3. \A t \in Targets : StaleOK(t)'
      BY <2>2, <2>6, <3>1 DEF StaleOK
    <3>4. CopyOK'
      BY <2>3, <2>4, <2>6, CopySaved
    <3>5. LaunchOK'
      <4>1. launches' = [launches EXCEPT ![at] = @ + 1]
            /\ launches \in [Targets -> 0..CallBound]
        BY <1>2, TypeParts DEF RanOK, ProvisionInvariant, CloudTypes
      <4>2. \A t \in Targets : r.node[t] # "present" => launches'[t] = 0
        BY <1>1, <2>2, <2>3, <4>1 DEF LaunchOK, Launching
      <4> QED
        BY <2>6, <4>2 DEF LaunchOK, Addressing
    <3>6. AddressingOK' /\ WithdrawalOK'
      BY <2>1, <2>6 DEF AddressingOK, WithdrawalOK, Addressing, OneByOne, Withdrawal,
         Calm
    <3>7. RecordOK(durable', vm', eip', launches')
      BY <2>5, <2>6
    <3> QED
      BY <3>2, <3>3, <3>4, <3>5, <3>6, <3>7 DEF Onward
  <2> QED
    BY <1>2, <2>1, <2>5, <2>6, SaveKeeps
<1>3. CASE End /\ \E v \in {"none", "flying", "hidden"} : RanOK(v)
  BY <1>1, <1>3, RanFacts, EndKeeps
<1> QED
  BY <1>1, <1>2, <1>3

LEMMA LaunchedStep ==
  ASSUME ProvisionInvariant, Launched, UNCHANGED public
  PROVE  ProvisionInvariant'
<1>1. /\ doing = "launching" /\ Present(copy) = Targets /\ doing' = "polling"
      /\ NoCall /\ UNCHANGED <<durable, copy, at, seen, stale>>
  BY DEF Launched
<1>2. /\ Calm /\ UNCHANGED <<vm, eip, joining, leaving, launches>>
      /\ RecordOK(durable, vm', eip', launches') /\ SessionTypes /\ CopyOK
  BY <1>1, NoCallIsCalm, TypeParts DEF ProvisionInvariant
<1>3. SessionTypes'
  BY <1>1, <1>2 DEF SessionTypes, Steps, Calm
<1>4. \A t \in Targets : StaleOK(t)'
  BY <1>1, <1>2 DEF ProvisionInvariant, StaleOK
<1>5. CopyOK'
  BY <1>1, <1>2 DEF CopyOK, Executing, Starting, Withdrawn
<1>6. LaunchOK'
  BY <1>1 DEF LaunchOK, Launching, Present
<1>7. AddressingOK' /\ WithdrawalOK'
  BY <1>1, <1>2 DEF ProvisionInvariant, AddressingOK, WithdrawalOK, Addressing,
     OneByOne, Withdrawal
<1>8. RecordOK(durable', vm', eip', launches')
  BY <1>1, <1>2
<1> QED
  BY <1>2, <1>3, <1>4, <1>5, <1>6, <1>7, <1>8, OnwardKeeps DEF Onward

\* A round of the wait: nothing new, or all instances run.
LEMMA PollStep ==
  ASSUME ProvisionInvariant, Poll, UNCHANGED public
  PROVE  ProvisionInvariant'
<1> DEFINE r == Reconciled(copy)
           x == [r EXCEPT !.phase = "compute-ready"]
<1>1. /\ doing = "polling" /\ NoCall /\ UNCHANGED stale
      /\ \/ Save(r, "polling", at)
         \/ /\ AllRunning /\ public
            /\ copy' = r /\ doing' = "preparing" /\ UNCHANGED <<durable, at, seen>>
         \/ AllRunning /\ ~public /\ SaveAndEnd(x)
  BY DEF Poll
<1>2. /\ Calm /\ UNCHANGED <<vm, eip, joining, leaving, launches>>
      /\ RecordOK(durable, vm', eip', launches')
      /\ RecordOK(copy, vm', eip', launches')
      /\ SessionTypes /\ CopyOK /\ LaunchOK /\ \A t \in Targets : StaleOK(t)
  BY <1>1, NoCallIsCalm, TypeParts DEF ProvisionInvariant
<1>3. \A t \in Targets : copy.node[t] = "present"
  BY <1>1, <1>2 DEF LaunchOK, Present
<1>4. /\ r \in ProvisionRecords /\ r.phase = copy.phase /\ r.addr = copy.addr
      /\ \A t \in Targets : r.node[t] = "present"
  BY <1>2, <1>3, ReconciledFacts DEF SessionTypes
<1>5. /\ copy.phase = "provisioning" /\ durable.phase = "provisioning"
      /\ copy.addr = durable.addr /\ Withdrawn(r) = {}
      /\ \A t \in Targets : durable.node[t] # "pending"
  BY <1>1, <1>2, <1>3, <1>4 DEF CopyOK, Executing, Withdrawn
<1> HIDE DEF r
<1>6. RecordOK(r, vm', eip', launches')
  <2>1. ASSUME NEW t \in Targets
        PROVE  TargetOK(r.addr[t], r.node[t], vm'[t], eip'[t], launches'[t])
    BY <1>2, <1>4, <2>1 DEF RecordOK, TargetOK
  <2> QED
    BY <1>4, <1>5, <2>1 DEF RecordOK
<1>7. CASE Save(r, "polling", at)
  <2>1. ASSUME durable' = r, copy' = r, doing' = "polling", at' = at, seen' = seen
        PROVE  Onward
    <3>1. SessionTypes'
      BY <1>1, <1>2, <1>4, <2>1 DEF SessionTypes, Steps
    <3>2. \A t \in Targets : StaleOK(t)'
      BY <1>1, <1>2, <2>1 DEF StaleOK
    <3>3. CopyOK'
      BY <1>4, <1>5, <2>1, CopySaved
    <3>4. LaunchOK'
      BY <1>4, <2>1 DEF LaunchOK, Launching, Present
    <3>5. AddressingOK' /\ WithdrawalOK'
      BY <1>2, <2>1 DEF AddressingOK, WithdrawalOK, Addressing, OneByOne,
         Withdrawal, Calm
    <3>6. RecordOK(durable', vm', eip', launches')
      BY <1>6, <2>1
    <3> QED
      BY <3>1, <3>2, <3>3, <3>4, <3>5, <3>6 DEF Onward
  <2> QED
    BY <1>2, <1>6, <1>7, <2>1, SaveKeeps
<1>8. CASE /\ AllRunning /\ public
           /\ copy' = r /\ doing' = "preparing" /\ UNCHANGED <<durable, at, seen>>
  <2>1. SessionTypes'
    BY <1>1, <1>2, <1>4, <1>8 DEF SessionTypes, Steps
  <2>2. \A t \in Targets : StaleOK(t)'
    BY <1>1, <1>2, <1>8 DEF StaleOK
  <2>3. CopyOK'
    BY <1>1, <1>2, <1>4, <1>5, <1>8 DEF CopyOK, Executing, Addressing, Withdrawn
  <2>4. LaunchOK'
    BY <1>4, <1>8 DEF LaunchOK, Launching, Present
  <2>5. AddressingOK'
    BY <1>2, <1>8 DEF AddressingOK, OneByOne, Addressing, AllRunning, Alive, Calm
  <2>6. WithdrawalOK'
    BY <1>2, <1>8 DEF WithdrawalOK, Withdrawal, Calm
  <2>7. RecordOK(durable', vm', eip', launches')
    BY <1>2, <1>8
  <2> QED
    BY <1>2, <2>1, <2>2, <2>3, <2>4, <2>5, <2>6, <2>7, OnwardKeeps DEF Onward
<1>9. CASE AllRunning /\ ~public /\ SaveAndEnd(x)
  <2>1. x \in ProvisionRecords /\ x.phase = "compute-ready" /\ x.node = r.node /\ x.addr = r.addr
    BY <1>4, PhaseRecord DEF Phases
  <2> HIDE DEF x
  <2>2. \A t \in Targets : vm'[t] \in Alive
    BY <1>2, <1>9 DEF AllRunning, Alive
  <2>3. RecordOK(x, vm', eip', launches')
    BY <1>4, <1>6, <1>9, <2>1, <2>2 DEF RecordOK, ReadyOK
  <2> QED
    BY <1>2, <1>9, <2>3, SaveAndEndKeeps
<1> QED
  BY <1>1, <1>7, <1>8, <1>9

-----------------------------------------------------------------------------
(* Execute: addresses.                                                     *)

\* What the snapshot of a target is.
LEMMA SnapshotFacts ==
  ASSUME ProvisionInvariant
  PROVE  /\ Snapshot \in [Targets -> Snapshots]
         /\ \A t \in Targets :
              /\ Snapshot[t].id = 0 => Snapshot[t].attached = FALSE
                                       /\ There(eip[t]) = {}
              /\ Snapshot[t].id # 0 =>
                   /\ Snapshot[t].id \in There(eip[t])
                   /\ Snapshot[t].attached = (eip[t][Snapshot[t].id] = "attached")
<1>1. ASSUME NEW t \in Targets
      PROVE  LET q == Snapshot[t] IN
             /\ q \in Snapshots
             /\ q.id = 0 => q.attached = FALSE /\ There(eip[t]) = {}
             /\ q.id # 0 => /\ q.id \in There(eip[t])
                            /\ q.attached = (eip[t][q.id] = "attached")
  <2>1. Shown(t) = There(eip[t]) /\ Shown(t) \subseteq Ids
    BY AddressSets DEF There
  <2>2. CASE Shown(t) = {}
    <3>1. Snapshot[t] = [id |-> 0, attached |-> FALSE]
      BY <1>1, <2>2 DEF Snapshot
    <3> QED
      BY <2>1, <2>2, <3>1, ProvisionAssumption DEF Snapshots
  <2>3. CASE Shown(t) # {}
    <3> DEFINE k == CHOOSE k \in Shown(t) : TRUE
           b == (eip[t][k] = "attached")
    <3>1. k \in Shown(t)
      BY <2>3
    <3>2. Snapshot[t] = [id |-> k, attached |-> b]
      BY <1>1, <2>3 DEF Snapshot
    <3>3. b = (eip[t][k] = "attached") /\ b \in BOOLEAN
      OBVIOUS
    <3> HIDE DEF k, b
    <3>4. k \in Ids /\ k # 0 /\ k \in 0..MaxAlloc
      BY <2>1, <3>1, ProvisionAssumption DEF Ids
    <3>5. Snapshot[t].id = k /\ Snapshot[t].attached = b
      BY <3>2
    <3>6. Snapshot[t] \in Snapshots
      BY <3>2, <3>3, <3>4 DEF Snapshots
    <3> QED
      BY <2>1, <3>1, <3>3, <3>4, <3>5, <3>6
  <2> QED
    BY <2>2, <2>3
<1>2. Snapshot \in [Targets -> Snapshots]
  <2>1. Snapshot = [t \in Targets |-> Snapshot[t]]
    BY DEF Snapshot
  <2> QED
    BY <1>1, <2>1
<1> QED
  BY <1>1, <1>2

LEMMA PrepareStep ==
  ASSUME ProvisionInvariant, Prepare, UNCHANGED public
  PROVE  ProvisionInvariant'
<1>1. /\ doing \in {"preparing", "rechecking"} /\ AddressScopeOK(copy, Targets)
      /\ seen' = Snapshot /\ at' = (IF doing = "preparing" THEN 1 ELSE at)
      /\ doing' = "addressing" /\ NoCall /\ UNCHANGED <<durable, copy, stale>>
  BY DEF Prepare
<1>2. /\ Calm /\ UNCHANGED <<vm, eip, joining, leaving, launches>>
      /\ RecordOK(durable, vm', eip', launches') /\ SessionTypes /\ CopyOK
      /\ LaunchOK /\ AddressingOK
      /\ \A t \in Targets : CloudOK(vm[t], eip[t], launches[t]) /\ StaleOK(t)
  BY <1>1, NoCallIsCalm, TypeParts DEF ProvisionInvariant
<1>3. copy.addr = durable.addr
  BY <1>2 DEF CopyOK
<1>4. /\ seen' \in [Targets -> Snapshots] /\ at' \in 1..(N + 1)
      /\ at' = 1 \/ (at' = at /\ doing = "rechecking")
  BY <1>1, <1>2, SnapshotFacts, ProvisionAssumption DEF SessionTypes
<1>5. SessionTypes'
  BY <1>1, <1>2, <1>4 DEF SessionTypes, Steps, Calm
<1>6. \A t \in Targets : StaleOK(t)'
  BY <1>1, <1>2, SnapshotFacts DEF StaleOK
<1>7. CopyOK' /\ LaunchOK'
  BY <1>1, <1>2 DEF CopyOK, LaunchOK, Executing, Addressing, Launching, Withdrawn,
     Present
<1>8. AddressingOK'
  <2>1. public' /\ \A t \in Targets : vm'[t] \in Alive \cup Dead
    BY <1>1, <1>2 DEF AddressingOK, Addressing
  <2>2. ASSUME NEW t \in Targets, t < at'
        PROVE  durable'.addr[t].phase = "associated"
               /\ OnInstance(durable'.addr[t], vm'[t], eip'[t])
    BY <1>1, <1>2, <1>4, <2>2 DEF AddressingOK, OneByOne, Addressing, Targets
  <2>3. ASSUME NEW t \in Targets
        PROVE  SnapshotOK(durable.addr[t], seen'[t], vm[t], eip[t])
    <3>1. CASE seen'[t].id = 0
      BY <1>1, <2>3, <3>1, SnapshotFacts DEF SnapshotOK
    <3>2. CASE seen'[t].id # 0
      <4> DEFINE k == seen'[t].id
      <4>1. k \in There(eip[t]) /\ seen'[t].attached = (eip[t][k] = "attached")
        BY <1>1, <2>3, <3>2, SnapshotFacts
      <4>2. k \in Shown(t)
        BY <4>1, AddressSets
      <4>3. durable.addr[t].phase # "none" /\ durable.addr[t].id \in {0, k}
        BY <1>1, <1>3, <2>3, <4>2 DEF AddressScopeOK
      <4> QED
        BY <3>2, <4>1, <4>3 DEF SnapshotOK
    <3> QED
      BY <3>1, <3>2
  <2> QED
    BY <1>1, <1>2, <2>1, <2>2, <2>3 DEF AddressingOK
<1>9. WithdrawalOK' /\ RecordOK(durable', vm', eip', launches')
  BY <1>1, <1>2 DEF WithdrawalOK, Withdrawal, Calm
<1> QED
  BY <1>2, <1>5, <1>6, <1>7, <1>8, <1>9, OnwardKeeps DEF Onward

\* A record with another address for the target at hand.
LEMMA AddrSaved ==
  ASSUME ProvisionInvariant, doing \in OneByOne, at \in Targets,
         NEW p \in AddrPhases \ {"releasing", "released"}, NEW k \in 0..MaxAlloc,
         p \in {"none", "allocating"} <=> k = 0,
         p = "none" => Held(eip'[at]) = {},
         RecordOK(copy, vm', eip', launches'), NEW r, r = SetAddr(at, p, k)
  PROVE  /\ r \in ProvisionRecords /\ r.phase = "provisioning" /\ r.node = copy.node
         /\ Withdrawn(r) = {} /\ r.addr[at] = [phase |-> p, id |-> k]
         /\ \A u \in Targets \ {at} : r.addr[u] = durable.addr[u]
         /\ RecordOK(r, vm', eip', launches')
<1> DEFINE a == [phase |-> p, id |-> k]
<1>1. SessionTypes /\ CopyOK
  BY TypeParts DEF ProvisionInvariant
<1>2. copy.phase = "provisioning" /\ copy.addr = durable.addr /\ Withdrawn(durable) = {}
  BY <1>1 DEF CopyOK, Executing, OneByOne
<1>3. /\ r \in ProvisionRecords /\ r.phase = "provisioning" /\ r.node = copy.node
      /\ r.addr[at] = a /\ \A u \in Targets \ {at} : r.addr[u] = durable.addr[u]
  BY <1>1, <1>2, AddrRecord
<1>4. a.phase = p /\ a.id = k
  OBVIOUS
<1> HIDE DEF a
<1>5. Withdrawn(r) = {}
  BY <1>2, <1>3, <1>4 DEF Withdrawn
<1>6. ASSUME NEW t \in Targets
      PROVE  TargetOK(r.addr[t], r.node[t], vm'[t], eip'[t], launches'[t])
  <2>1. TargetOK(copy.addr[t], copy.node[t], vm'[t], eip'[t], launches'[t])
    BY <1>6 DEF RecordOK
  <2>2. CASE t = at
    BY <1>3, <1>4, <2>1, <2>2 DEF TargetOK
  <2>3. CASE t # at
    BY <1>2, <1>3, <1>6, <2>1, <2>3
  <2> QED
    BY <2>2, <2>3
<1>7. RecordOK(r, vm', eip', launches')
  BY <1>3, <1>6 DEF RecordOK
<1> QED
  BY <1>3, <1>5, <1>7 DEF a

\* The session after such a checkpoint: the targets before it are done.
LEMMA AddressOnward ==
  ASSUME ProvisionInvariant, Calm, at \in Targets, doing \in OneByOne, doing' \in OneByOne,
         NEW r, r.phase = "provisioning", r.node = copy.node, Withdrawn(r) = {},
         \A u \in Targets \ {at} : r.addr[u] = durable.addr[u] /\ eip'[u] = eip[u],
         RecordOK(r, vm', eip', launches'),
         vm' = vm, durable' = r, copy' = r, seen' = seen, at' \in {at, at + 1},
         \A t \in Targets : StaleOK(t)',
         doing' = "addressing" =>
           doing = "addressing" /\ SnapshotOK(r.addr[at], seen[at], vm[at], eip'[at]),
         doing' = "allocating" =>
           r.addr[at].phase = "allocating" /\ at \notin stale' /\ Held(eip'[at]) = {},
         doing' = "associating" => r.addr[at].id # 0,
         at' = at + 1 =>
           /\ doing' = "addressing" /\ r.addr[at].phase = "associated"
           /\ OnInstance(r.addr[at], vm[at], eip'[at])
  PROVE  Onward
<1>1. SessionTypes /\ CopyOK /\ LaunchOK /\ AddressingOK /\ UNCHANGED public
      /\ stale' \subseteq stale
  BY TypeParts DEF ProvisionInvariant, Calm
<1>2. SessionTypes'
  <2>1. at' \in 1..(N + 1)
    BY ProvisionAssumption DEF Targets
  <2>2. r \in ProvisionRecords /\ doing' \in Steps
    BY DEF RecordOK, OneByOne, Addressing, Steps
  <2> QED
    BY <1>1, <2>1, <2>2 DEF SessionTypes
<1>3. CopyOK'
  BY CopySaved
<1>4. LaunchOK'
  BY <1>1 DEF LaunchOK, OneByOne, Addressing, Launching, Present
<1>5. AddressingOK'
  <2>1. public' /\ \A t \in Targets : vm'[t] \in Alive \cup Dead
    BY <1>1 DEF AddressingOK, OneByOne
  <2>2. ASSUME NEW t \in Targets, t < at'
        PROVE  durable'.addr[t].phase = "associated"
               /\ OnInstance(durable'.addr[t], vm'[t], eip'[t])
    <3>1. t < at \/ (t = at /\ at' = at + 1)
      BY <2>2 DEF Targets
    <3>2. CASE t < at
      <4>1. t # at
        BY <3>2 DEF Targets
      <4> QED
        BY <1>1, <2>2, <3>2, <4>1 DEF AddressingOK
    <3>3. CASE t = at /\ at' = at + 1
      BY <3>3
    <3> QED
      BY <3>1, <3>2, <3>3
  <2>3. ASSUME doing' = "addressing", NEW t \in Targets
        PROVE  SnapshotOK(durable'.addr[t], seen'[t], vm'[t], eip'[t])
    <3>1. CASE t = at
      BY <2>3, <3>1
    <3>2. CASE t # at
      <4>1. SnapshotOK(durable.addr[t], seen[t], vm[t], eip[t])
        BY <1>1, <2>3 DEF AddressingOK
      <4> QED
        BY <2>3, <3>2, <4>1
    <3> QED
      BY <3>1, <3>2
  <2>4. at' = at \/ doing' = "addressing"
    OBVIOUS
  <2>5. doing' \in {"allocating", "associating", "rechecking"} => at' = at
    BY <2>4
  <2> QED
    BY <2>1, <2>2, <2>3, <2>5 DEF AddressingOK
<1>6. WithdrawalOK'
  BY DEF WithdrawalOK, Withdrawal, OneByOne, Addressing, Calm
<1> QED
  BY <1>2, <1>3, <1>4, <1>5, <1>6 DEF Onward

\* An intent: there is no address, and none is under way.
LEMMA IntendStep ==
  ASSUME ProvisionInvariant, Intend, UNCHANGED public
  PROVE  ProvisionInvariant'
<1> DEFINE r == SetAddr(at, "allocating", 0)
<1>1. /\ doing = "addressing" /\ at <= N /\ seen[at].id = 0 /\ MayAllocate(at)
      /\ Save(r, "allocating", at) /\ stale' = stale \ {at} /\ NoCall
  BY DEF Intend
<1>2. /\ Calm /\ UNCHANGED <<vm, eip, joining, leaving, launches>>
      /\ RecordOK(durable, vm', eip', launches')
      /\ RecordOK(copy, vm', eip', launches') /\ SessionTypes /\ CopyOK
  BY <1>1, NoCallIsCalm, TypeParts DEF ProvisionInvariant
<1>3. at \in Targets /\ doing \in OneByOne
  BY <1>1, <1>2, ProvisionAssumption DEF SessionTypes, Targets, OneByOne, Addressing
<1>4. /\ r.phase = "provisioning" /\ r.node = copy.node /\ Withdrawn(r) = {}
      /\ r.addr[at] = [phase |-> "allocating", id |-> 0]
      /\ \A u \in Targets \ {at} : r.addr[u] = durable.addr[u]
      /\ RecordOK(r, vm', eip', launches')
  BY <1>2, <1>3, AddrSaved, ProvisionAssumption DEF AddrPhases
<1>5. Held(eip[at]) = {}
  <2>1. /\ StaleOK(at)
        /\ TargetOK(copy.addr[at], copy.node[at], vm'[at], eip'[at], launches'[at])
    BY <1>2, <1>3 DEF ProvisionInvariant, RecordOK
  <2>2. CASE copy.addr[at].phase = "none"
    BY <1>2, <2>1, <2>2 DEF TargetOK
  <2>3. CASE at \in stale
    BY <1>1, <2>1, <2>3, AddressSets DEF StaleOK
  <2> QED
    BY <1>1, <2>2, <2>3 DEF MayAllocate
<1>6. r.addr[at].phase = "allocating"
  BY <1>4
<1> HIDE DEF r
<1>7. ASSUME durable' = r, copy' = r, doing' = "allocating", at' = at, seen' = seen
      PROVE  Onward
  <2>1. \A t \in Targets : StaleOK(t)'
    BY <1>1, <1>2, <1>7 DEF ProvisionInvariant, StaleOK
  <2>2. at # at + 1
    BY <1>3 DEF Targets
  <2> QED
    BY <1>1, <1>2, <1>3, <1>4, <1>5, <1>6, <1>7, <2>1, <2>2, AddressOnward
       DEF OneByOne, Addressing
<1> QED
  BY <1>1, <1>2, <1>4, <1>7, SaveKeeps

\* A lost allocation that shows is the one there is.
LEMMA AdoptStep ==
  ASSUME ProvisionInvariant, Adopt, UNCHANGED public
  PROVE  ProvisionInvariant'
<1> DEFINE k == seen[at].id
           r == SetAddr(at, "allocated", k)
<1>1. /\ doing = "addressing" /\ at <= N /\ k # 0 /\ stale' = stale \ {at}
      /\ Save(r, "addressing", at) /\ NoCall
  BY DEF Adopt
<1>2. /\ Calm /\ UNCHANGED <<vm, eip, joining, leaving, launches>>
      /\ RecordOK(durable, vm', eip', launches')
      /\ RecordOK(copy, vm', eip', launches') /\ SessionTypes /\ CopyOK
  BY <1>1, NoCallIsCalm, TypeParts DEF ProvisionInvariant
<1>3. at \in Targets /\ doing \in OneByOne /\ k \in 0..MaxAlloc
  BY <1>1, <1>2, ProvisionAssumption
     DEF SessionTypes, Targets, OneByOne, Addressing, Snapshots
<1> HIDE DEF k
<1>4. /\ r.phase = "provisioning" /\ r.node = copy.node /\ Withdrawn(r) = {}
      /\ r.addr[at] = [phase |-> "allocated", id |-> k]
      /\ \A u \in Targets \ {at} : r.addr[u] = durable.addr[u]
      /\ RecordOK(r, vm', eip', launches')
  BY <1>1, <1>2, <1>3, AddrSaved DEF AddrPhases
<1>5. r.addr[at].phase = "allocated" /\ r.addr[at].id = k
  BY <1>4
<1>6. SnapshotOK(r.addr[at], seen[at], vm[at], eip[at])
  BY <1>1, <1>3, <1>5 DEF ProvisionInvariant, AddressingOK, SnapshotOK, k
<1> HIDE DEF r
<1>7. ASSUME durable' = r, copy' = r, doing' = "addressing", at' = at, seen' = seen
      PROVE  Onward
  <2>1. \A t \in Targets : StaleOK(t)'
    BY <1>1, <1>2, <1>7 DEF ProvisionInvariant, StaleOK
  <2>2. at # at + 1
    BY <1>3 DEF Targets
  <2> QED
    BY <1>1, <1>2, <1>3, <1>4, <1>6, <1>7, <2>1, <2>2, AddressOnward
<1> QED
  BY <1>1, <1>2, <1>4, <1>7, SaveKeeps

\* An address in the snapshot that is not only intended is the recorded one.
LEMMA SeenIsRecorded ==
  ASSUME ProvisionInvariant, doing = "addressing", at \in Targets,
         seen[at].id # 0, copy.addr[at].phase # "allocating"
  PROVE  /\ copy.addr[at].id = seen[at].id /\ seen[at].id \in Ids
         /\ copy.addr[at] = durable.addr[at]
         /\ copy.addr[at].phase \in AddrPhases \ {"none", "allocating"}
<1>1. /\ SessionTypes /\ CopyOK
      /\ SnapshotOK(durable.addr[at], seen[at], vm[at], eip[at])
  BY TypeParts DEF ProvisionInvariant, AddressingOK
<1>2. /\ copy.addr = durable.addr /\ durable.addr[at] \in Address
      /\ seen[at].id \in Ids
  BY <1>1, RecordFacts DEF CopyOK, SessionTypes, Snapshots, Ids
<1>3. TargetOK(durable.addr[at], durable.node[at], vm[at], eip[at], launches[at])
  BY DEF ProvisionInvariant, RecordOK
<1> QED
  BY <1>1, <1>2, <1>3 DEF SnapshotOK, TargetOK, Address

LEMMA AttachStep ==
  ASSUME ProvisionInvariant, Attach, UNCHANGED public
  PROVE  ProvisionInvariant'
<1> DEFINE k == copy.addr[at].id
           r == SetAddr(at, "associating", k)
<1>1. /\ doing = "addressing" /\ at <= N /\ seen[at].id # 0
      /\ copy.addr[at].phase # "allocating"
      /\ Save(r, "associating", at) /\ NoCall /\ UNCHANGED stale
  BY DEF Attach
<1>2. /\ Calm /\ UNCHANGED <<vm, eip, joining, leaving, launches>>
      /\ RecordOK(durable, vm', eip', launches')
      /\ RecordOK(copy, vm', eip', launches') /\ SessionTypes /\ CopyOK
  BY <1>1, NoCallIsCalm, TypeParts DEF ProvisionInvariant
<1>3. at \in Targets /\ doing \in OneByOne
  BY <1>1, <1>2, ProvisionAssumption DEF SessionTypes, Targets, OneByOne, Addressing
<1>4. k # 0 /\ k \in 0..MaxAlloc
  BY <1>1, <1>3, SeenIsRecorded, ProvisionAssumption DEF Ids
<1> HIDE DEF k
<1>5. /\ r.phase = "provisioning" /\ r.node = copy.node /\ Withdrawn(r) = {}
      /\ r.addr[at] = [phase |-> "associating", id |-> k]
      /\ \A u \in Targets \ {at} : r.addr[u] = durable.addr[u]
      /\ RecordOK(r, vm', eip', launches')
  BY <1>1, <1>2, <1>3, <1>4, AddrSaved DEF AddrPhases
<1>6. r.addr[at].id # 0
  BY <1>4, <1>5
<1> HIDE DEF r
<1>7. ASSUME durable' = r, copy' = r, doing' = "associating", at' = at, seen' = seen
      PROVE  Onward
  <2>1. \A t \in Targets : StaleOK(t)'
    BY <1>1, <1>2, <1>7 DEF ProvisionInvariant, StaleOK
  <2>2. at # at + 1
    BY <1>3 DEF Targets
  <2> QED
    BY <1>1, <1>2, <1>3, <1>5, <1>6, <1>7, <2>1, <2>2, AddressOnward
       DEF OneByOne, Addressing
<1> QED
  BY <1>1, <1>2, <1>5, <1>7, SaveKeeps

LEMMA AssociatedStep ==
  ASSUME ProvisionInvariant, Associated, UNCHANGED public
  PROVE  ProvisionInvariant'
<1> DEFINE k == copy.addr[at].id
           r == SetAddr(at, "associated", k)
<1>1. /\ doing = "addressing" /\ at <= N /\ seen[at].attached
      /\ copy.addr[at].phase # "allocating"
      /\ Save(r, "addressing", at + 1) /\ NoCall /\ UNCHANGED stale
  BY DEF Associated
<1>2. /\ Calm /\ UNCHANGED <<vm, eip, joining, leaving, launches>>
      /\ RecordOK(durable, vm', eip', launches')
      /\ RecordOK(copy, vm', eip', launches') /\ SessionTypes /\ CopyOK
  BY <1>1, NoCallIsCalm, TypeParts DEF ProvisionInvariant
<1>3. at \in Targets /\ doing \in OneByOne
  BY <1>1, <1>2, ProvisionAssumption DEF SessionTypes, Targets, OneByOne, Addressing
<1>4. /\ SnapshotOK(durable.addr[at], seen[at], vm[at], eip[at])
      /\ k = seen[at].id /\ k # 0 /\ k \in 0..MaxAlloc
  <2>1. SnapshotOK(durable.addr[at], seen[at], vm[at], eip[at])
    BY <1>1, <1>3 DEF ProvisionInvariant, AddressingOK
  <2>2. seen[at].id # 0
    BY <1>1, <2>1 DEF SnapshotOK
  <2> QED
    BY <1>1, <1>3, <2>1, <2>2, SeenIsRecorded, ProvisionAssumption DEF Ids
<1> HIDE DEF k
<1>5. /\ r.phase = "provisioning" /\ r.node = copy.node /\ Withdrawn(r) = {}
      /\ r.addr[at] = [phase |-> "associated", id |-> k]
      /\ \A u \in Targets \ {at} : r.addr[u] = durable.addr[u]
      /\ RecordOK(r, vm', eip', launches')
  BY <1>1, <1>2, <1>3, <1>4, AddrSaved DEF AddrPhases
<1>6. r.addr[at].phase = "associated" /\ r.addr[at].id = k
  BY <1>5
<1>7. /\ SnapshotOK(r.addr[at], seen[at], vm[at], eip[at])
      /\ OnInstance(r.addr[at], vm[at], eip[at])
  BY <1>1, <1>4, <1>6 DEF SnapshotOK, OnInstance
<1> HIDE DEF r
<1>8. ASSUME durable' = r, copy' = r, doing' = "addressing", at' = at + 1, seen' = seen
      PROVE  Onward
  <2>1. \A t \in Targets : StaleOK(t)'
    BY <1>1, <1>2, <1>8 DEF ProvisionInvariant, StaleOK
  <2>2. at # at + 1
    BY <1>3 DEF Targets
  <2> QED
    BY <1>1, <1>2, <1>3, <1>5, <1>6, <1>7, <1>8, <2>1, <2>2, AddressOnward
<1> QED
  BY <1>1, <1>2, <1>5, <1>8, SaveKeeps

\* What AllocateAddress does to EC2: the address of an intent, if any.
MadeOK(k, x) ==
  /\ eip' = [eip EXCEPT ![at][k] = x]
  /\ UNCHANGED <<vm, joining, leaving, stale, launches>>

\* An intent that is being acted on has no address yet.
LEMMA MadeFacts ==
  ASSUME ProvisionInvariant, UNCHANGED public, doing = "allocating",
         NEW k \in Ids, NEW x \in {"flying", "hidden"}, MadeOK(k, x)
  PROVE  /\ Calm /\ RecordOK(durable, vm', eip', launches')
         /\ RecordOK(copy, vm', eip', launches')
         /\ \A u \in Targets \ {at} : eip'[u] = eip[u]
<1>1. /\ SessionTypes /\ CloudTypes /\ CopyOK /\ AddressingOK
      /\ RecordOK(durable, vm, eip, launches) /\ RecordOK(copy, vm, eip, launches)
  BY TypeParts, CopyIsOK DEF ProvisionInvariant
<1>2. /\ at \in Targets /\ durable.addr[at].phase = "allocating" /\ at \notin stale
      /\ Held(eip[at]) = {}
  BY <1>1 DEF AddressingOK
<1>3. /\ eip \in [Targets -> [Ids -> EipStates]] /\ x \in EipStates
  BY <1>1 DEF CloudTypes, EipStates
<1>4. /\ eip' \in [Targets -> [Ids -> EipStates]]
      /\ eip'[at] = [eip[at] EXCEPT ![k] = x] /\ eip[at] \in [Ids -> EipStates]
      /\ \A u \in Targets \ {at} : eip'[u] = eip[u]
  BY <1>2, <1>3 DEF MadeOK
<1>5. eip'[at][k] = x /\ \A j \in Ids \ {k} : eip'[at][j] = eip[at][j]
  BY <1>4
<1>6. UNCHANGED <<vm, joining, leaving, stale, launches>> /\ CloudTypes'
  BY <1>1, <1>4 DEF MadeOK, CloudTypes
<1>7. Held(eip'[at]) \subseteq {k} /\ \A j \in Ids : eip'[at][j] # "attached"
  BY <1>2, <1>5 DEF Held
<1>8. ASSUME NEW t \in Targets PROVE CloudOK(vm'[t], eip'[t], launches'[t])
  <2>1. CloudOK(vm[t], eip[t], launches[t])
    BY <1>8 DEF ProvisionInvariant
  <2> QED
    BY <1>4, <1>6, <1>7, <1>8, <2>1 DEF CloudOK
<1>9. \A t \in stale' : Coming(eip'[t]) = {}
  BY <1>1, <1>2, <1>4, <1>6 DEF ProvisionInvariant, StaleOK, SessionTypes
<1>10. Calm
  BY <1>6, <1>8, <1>9 DEF Calm, ProvisionInvariant, WithdrawalOK
<1>11. /\ copy.addr = durable.addr /\ copy.phase = "provisioning"
       /\ durable.phase = "provisioning"
  BY <1>1 DEF CopyOK, Executing, Addressing
<1>12. ASSUME NEW r, RecordOK(r, vm, eip, launches), r.phase = "provisioning",
              r.addr = durable.addr
       PROVE  RecordOK(r, vm', eip', launches')
  <2>1. ASSUME NEW t \in Targets
        PROVE  TargetOK(r.addr[t], r.node[t], vm'[t], eip'[t], launches'[t])
    <3>1. TargetOK(r.addr[t], r.node[t], vm[t], eip[t], launches[t])
      BY <1>12, <2>1 DEF RecordOK
    <3> QED
      BY <1>2, <1>4, <1>6, <1>12, <2>1, <3>1 DEF TargetOK
  <2> QED
    BY <1>12, <2>1 DEF RecordOK
<1> QED
  BY <1>1, <1>4, <1>10, <1>11, <1>12

\* A call without an address in EC2: it was rejected, or is lost.
LEMMA NotMadeFacts ==
  ASSUME ProvisionInvariant, eip' = eip,
         UNCHANGED <<public, vm, joining, leaving, stale, launches>>
  PROVE  /\ Calm /\ RecordOK(durable, vm', eip', launches')
         /\ RecordOK(copy, vm', eip', launches')
  BY NoCallIsCalm DEF NoCall, cloud

LEMMA AllocateStep ==
  ASSUME ProvisionInvariant, Allocate, UNCHANGED public
  PROVE  ProvisionInvariant'
<1>1. PICK k \in Ids : Free(at) # {} => Min(Free(at)) = k
  <2>1. Free(at) \in SUBSET Nat /\ Free(at) \subseteq Ids /\ 1 \in Ids
    BY ProvisionAssumption DEF Free, Ids
  <2> QED
    BY <2>1, MinIn
<1> DEFINE r == SetAddr(at, "allocated", k)
<1>2. /\ doing = "allocating" /\ UNCHANGED <<vm, joining, leaving, stale, launches>>
      /\ \/ SetEip(at, k, "hidden") /\ Save(r, "rechecking", at)
         \/ eip' = eip /\ End
         \/ End /\ \E v \in {"flying", "hidden"} : SetEip(at, k, v)
         \/ eip' = eip /\ SaveAndEnd(SetAddr(at, "none", 0))
  BY <1>1 DEF Allocate
<1>3. /\ SessionTypes /\ at \in Targets /\ doing \in OneByOne /\ Held(eip[at]) = {}
      /\ \A t \in Targets : StaleOK(t)
  BY <1>2, TypeParts DEF ProvisionInvariant, AddressingOK, OneByOne, Addressing
<1>4. CASE SetEip(at, k, "hidden") /\ Save(r, "rechecking", at)
  <2>1. /\ Calm /\ RecordOK(durable, vm', eip', launches')
        /\ RecordOK(copy, vm', eip', launches')
        /\ \A u \in Targets \ {at} : eip'[u] = eip[u]
    BY <1>2, <1>4, MadeFacts DEF MadeOK, SetEip
  <2>2. k \in 0..MaxAlloc /\ k # 0
    BY ProvisionAssumption DEF Ids
  <2>3. /\ r.phase = "provisioning" /\ r.node = copy.node /\ Withdrawn(r) = {}
        /\ r.addr[at] = [phase |-> "allocated", id |-> k]
        /\ \A u \in Targets \ {at} : r.addr[u] = durable.addr[u]
        /\ RecordOK(r, vm', eip', launches')
    BY <1>3, <2>1, <2>2, AddrSaved DEF AddrPhases
  <2> HIDE DEF r
  <2>4. ASSUME durable' = r, copy' = r, doing' = "rechecking", at' = at, seen' = seen
        PROVE  Onward
    <3>1. \A t \in Targets : StaleOK(t)'
      BY <1>2, <2>1, <2>4 DEF StaleOK, Calm
    <3>2. at # at + 1
      BY <1>3 DEF Targets
    <3> QED
      BY <1>2, <1>3, <2>1, <2>3, <2>4, <3>1, <3>2, AddressOnward
         DEF OneByOne, Addressing
  <2> QED
    BY <1>4, <2>1, <2>3, <2>4, SaveKeeps
<1>5. CASE eip' = eip /\ End
  BY <1>2, <1>5, NotMadeFacts, EndKeeps
<1>6. CASE End /\ \E v \in {"flying", "hidden"} : SetEip(at, k, v)
  <2>1. \E v \in {"flying", "hidden"} : MadeOK(k, v)
    BY <1>2, <1>6 DEF MadeOK, SetEip
  <2> QED
    BY <1>2, <1>6, <2>1, MadeFacts, EndKeeps
<1>7. CASE eip' = eip /\ SaveAndEnd(SetAddr(at, "none", 0))
  <2>1. /\ Calm /\ RecordOK(durable, vm', eip', launches')
        /\ RecordOK(copy, vm', eip', launches')
    BY <1>2, <1>7, NotMadeFacts
  <2>2. RecordOK(SetAddr(at, "none", 0), vm', eip', launches')
    <3>1. "none" \in AddrPhases \ {"releasing", "released"} /\ 0 \in 0..MaxAlloc
      BY ProvisionAssumption DEF AddrPhases
    <3>2. Held(eip'[at]) = {}
      BY <1>3, <1>7
    <3> QED
      BY <1>3, <2>1, <3>1, <3>2, AddrSaved
  <2> QED
    BY <1>7, <2>1, <2>2, SaveAndEndKeeps
<1> QED
  BY <1>2, <1>4, <1>5, <1>6, <1>7

LEMMA AssociateStep ==
  ASSUME ProvisionInvariant, Associate, UNCHANGED public
  PROVE  ProvisionInvariant'
<1> DEFINE k == copy.addr[at].id
<1>1. /\ doing = "associating" /\ UNCHANGED <<vm, leaving, stale, launches>>
      /\ \/ /\ vm[at] = "running" /\ eip[at][k] = "visible"
            /\ SetEip(at, k, "attached") /\ UNCHANGED joining
         \/ joining' = joining \cup {at} /\ UNCHANGED eip
         \/ UNCHANGED <<eip, joining>>
      /\ \/ doing' = "rechecking" /\ UNCHANGED <<durable, copy, at, seen>>
         \/ End
  BY DEF Associate
<1>2. /\ SessionTypes /\ CloudTypes /\ CopyOK /\ LaunchOK /\ AddressingOK
      /\ RecordOK(durable, vm, eip, launches) /\ \A t \in Targets : StaleOK(t)
  BY TypeParts DEF ProvisionInvariant
<1>3. at \in Targets /\ k \in Ids
  BY <1>1, <1>2, RecordFacts DEF AddressingOK, CopyOK, SessionTypes, Ids
<1> HIDE DEF k
<1>4. Settled /\ eip' \in [Targets -> [Ids -> EipStates]]
  <2>1. CASE vm[at] = "running" /\ eip[at][k] = "visible" /\ SetEip(at, k, "attached")
    BY <1>1, <1>3, <2>1, SetEipSettles DEF EipStates, Alive
  <2>2. CASE eip' = eip
    BY <1>1, <1>2, <2>2, StaySettled DEF CloudTypes
  <2> QED
    BY <1>1, <2>1, <2>2
<1>5. CloudTypes' /\ launches' = launches /\ UNCHANGED <<public, stale, leaving>>
  BY <1>1, <1>2, <1>3, <1>4 DEF CloudTypes
<1>6. /\ Calm /\ RecordOK(durable, vm', eip', launches')
      /\ RecordOK(copy, vm', eip', launches')
  BY <1>4, <1>5, SettledIsCalm
<1>7. CASE End
  BY <1>6, <1>7, EndKeeps
<1>8. CASE doing' = "rechecking" /\ UNCHANGED <<durable, copy, at, seen>>
  <2>1. SessionTypes'
    BY <1>2, <1>5, <1>8 DEF SessionTypes, Steps
  <2>2. \A t \in Targets : StaleOK(t)'
    BY <1>5, <1>6, <1>8 DEF StaleOK, Calm
  <2>3. CopyOK' /\ LaunchOK'
    BY <1>1, <1>2, <1>5, <1>8 DEF CopyOK, LaunchOK, Executing, Addressing, Launching,
       Present, Withdrawn
  <2>4. AddressingOK'
    <3>1. public' /\ \A t \in Targets : vm'[t] \in Alive \cup Dead
      BY <1>1, <1>2, <1>5 DEF AddressingOK, Addressing
    <3>2. ASSUME NEW t \in Targets, t < at
          PROVE  durable.addr[t].phase = "associated"
                 /\ OnInstance(durable.addr[t], vm'[t], eip'[t])
      <4>1. /\ durable.addr[t].phase = "associated" /\ vm[t] \in Alive \cup Dead
            /\ OnInstance(durable.addr[t], vm[t], eip[t])
        BY <1>1, <1>2, <3>2 DEF AddressingOK, OneByOne, Addressing
      <4>2. durable.addr[t].id \in Ids
        BY <1>2, <3>2, <4>1, RecordFacts DEF RecordOK, TargetOK, Ids
      <4> QED
        BY <1>4, <3>2, <4>1, <4>2, InstanceSettles DEF Settled
    <3> QED
      BY <1>3, <1>8, <3>1, <3>2 DEF AddressingOK
  <2>5. WithdrawalOK'
    BY <1>6, <1>8 DEF WithdrawalOK, Withdrawal, Calm
  <2>6. RecordOK(durable', vm', eip', launches')
    BY <1>6, <1>8
  <2> QED
    BY <1>6, <2>1, <2>2, <2>3, <2>4, <2>5, <2>6, OnwardKeeps DEF Onward
<1> QED
  BY <1>1, <1>7, <1>8

\* Every target has its address by now.
LEMMA ReadyStep ==
  ASSUME ProvisionInvariant, Ready, UNCHANGED public
  PROVE  ProvisionInvariant'
<1> DEFINE x == [copy EXCEPT !.phase = "compute-ready"]
<1>1. doing = "addressing" /\ at = N + 1 /\ SaveAndEnd(x) /\ NoCall /\ UNCHANGED stale
  BY DEF Ready
<1>2. /\ Calm /\ UNCHANGED <<vm, eip, joining, leaving, launches>>
      /\ RecordOK(durable, vm', eip', launches')
      /\ RecordOK(copy, vm', eip', launches')
      /\ SessionTypes /\ CopyOK /\ LaunchOK /\ AddressingOK
  BY <1>1, NoCallIsCalm, TypeParts DEF ProvisionInvariant
<1>3. /\ x \in ProvisionRecords /\ x.phase = "compute-ready" /\ x.node = copy.node
      /\ x.addr = copy.addr
  BY <1>2, PhaseRecord DEF SessionTypes, Phases
<1> HIDE DEF x
<1>4. ASSUME NEW t \in Targets
      PROVE  ReadyOK(x.addr[t], x.node[t], vm'[t], eip'[t])
  <2>1. copy.node[t] = "present" /\ vm[t] \in Alive \cup Dead
    BY <1>1, <1>2, <1>4 DEF LaunchOK, AddressingOK, Addressing, Present
  <2>2. /\ durable.addr[t].phase = "associated"
        /\ OnInstance(durable.addr[t], vm[t], eip[t])
    BY <1>1, <1>2, <1>4, ProvisionAssumption
       DEF AddressingOK, OneByOne, Addressing, Targets
  <2> QED
    BY <1>2, <1>3, <2>1, <2>2 DEF ReadyOK, CopyOK
<1>5. RecordOK(x, vm', eip', launches')
  BY <1>2, <1>3, <1>4 DEF RecordOK
<1> QED
  BY <1>1, <1>2, <1>5, SaveAndEndKeeps

-----------------------------------------------------------------------------
(* ReleaseAddresses.                                                       *)

LEMMA BeginCleanupStep ==
  ASSUME ProvisionInvariant, BeginCleanup, UNCHANGED public
  PROVE  ProvisionInvariant'
<1>1. /\ doing = "idle" /\ durable.phase # "addresses-released" /\ copy' = durable
      /\ doing' = "surveying" /\ NoCall /\ UNCHANGED <<durable, at, seen, stale>>
  BY DEF BeginCleanup
<1>2. /\ Calm /\ UNCHANGED <<vm, eip, joining, leaving, launches>>
      /\ RecordOK(durable, vm', eip', launches') /\ SessionTypes
      /\ \A t \in Targets : StaleOK(t)
  BY <1>1, NoCallIsCalm, TypeParts DEF ProvisionInvariant
<1>3. SessionTypes' /\ \A t \in Targets : StaleOK(t)'
  BY <1>1, <1>2 DEF SessionTypes, Steps, Calm, StaleOK
<1>4. CopyOK' /\ LaunchOK' /\ AddressingOK'
  BY <1>1 DEF CopyOK, LaunchOK, AddressingOK, Executing, Starting, Launching,
     Addressing, OneByOne
<1>5. WithdrawalOK' /\ RecordOK(durable', vm', eip', launches')
  BY <1>1, <1>2 DEF WithdrawalOK, Withdrawal, Calm
<1> QED
  BY <1>2, <1>3, <1>4, <1>5, OnwardKeeps DEF Onward

\* The address of each target is known, or its release has begun and it is gone.
LEMMA SurveyStep ==
  ASSUME ProvisionInvariant, Survey, UNCHANGED public
  PROVE  ProvisionInvariant'
<1>1. /\ doing = "surveying" /\ \A t \in Targets : Gone(t) /\ Resolved(t)
      /\ seen' = Snapshot /\ doing' = "releasing" /\ at' = 1
      /\ NoCall /\ UNCHANGED <<durable, copy, stale>>
  BY DEF Survey
<1>2. /\ Calm /\ UNCHANGED <<vm, eip, joining, leaving, launches>>
      /\ RecordOK(durable, vm, eip, launches) /\ SessionTypes /\ CopyOK
      /\ RecordOK(durable, vm', eip', launches')
      /\ \A t \in Targets : CloudOK(vm[t], eip[t], launches[t]) /\ StaleOK(t)
  BY <1>1, NoCallIsCalm, TypeParts DEF ProvisionInvariant
<1>3. SessionTypes'
  BY <1>1, <1>2, SnapshotFacts, ProvisionAssumption DEF SessionTypes, Steps, Calm
<1>4. \A t \in Targets : StaleOK(t)'
  BY <1>1, <1>2 DEF StaleOK
<1>5. CopyOK' /\ LaunchOK' /\ AddressingOK'
  BY <1>1, <1>2 DEF CopyOK, LaunchOK, AddressingOK, Executing, Starting, Launching,
     Addressing, OneByOne
<1>6. copy = durable
  BY <1>1, <1>2 DEF CopyOK, Executing, Starting, Addressing
<1>7. ASSUME NEW t \in Targets
      PROVE  vm[t] \in Dead /\ SurveyOK(durable.addr[t], seen'[t], eip[t])
  <2> DEFINE k == seen'[t].id
  <2>1. vm[t] \in Dead
    BY <1>1, <1>7 DEF Gone, Dead
  <2>2. Shown(t) = There(eip[t]) /\ Held(eip[t]) = There(eip[t]) \cup Coming(eip[t])
    BY AddressSets
  <2>3. TargetOK(durable.addr[t], durable.node[t], vm[t], eip[t], launches[t])
    BY <1>2, <1>7 DEF RecordOK
  <2>4. CASE k = 0
    <3>1. There(eip[t]) = {}
      BY <1>1, <1>7, <2>4, SnapshotFacts
    <3>2. ASSUME durable.addr[t].phase # "none"
          PROVE  durable.addr[t].phase \in {"releasing", "released"}
                 /\ Held(eip[t]) = {}
      <4>1. t \in Withdrawn(durable)
        BY <1>1, <1>6, <1>7, <2>2, <3>1, <3>2 DEF Resolved
      <4>2. durable.addr[t].phase \in {"releasing", "released"}
        BY <4>1 DEF Withdrawn
      <4> QED
        BY <2>2, <2>3, <3>1, <4>2 DEF TargetOK
    <3> QED
      BY <2>1, <2>4, <3>2 DEF SurveyOK
  <2>5. CASE k # 0
    <3>1. k \in There(eip[t])
      BY <1>1, <1>7, <2>5, SnapshotFacts
    <3>2. Held(eip[t]) = {k} /\ There(eip[t]) = {k} /\ Coming(eip[t]) = {}
      BY <1>2, <1>7, <3>1, OneThere
    <3>3. durable.addr[t].id \in {0, k}
      BY <1>1, <1>6, <1>7, <2>2, <3>2 DEF Resolved
    <3> QED
      BY <2>1, <2>5, <3>2, <3>3 DEF SurveyOK
  <2> QED
    BY <2>4, <2>5
<1>8. WithdrawalOK'
  <2>1. \A t \in Targets : ~(t < at')
    BY <1>1 DEF Targets
  <2> QED
    BY <1>1, <1>2, <1>7, <2>1 DEF WithdrawalOK, Calm
<1>9. RecordOK(durable', vm', eip', launches')
  BY <1>1, <1>2
<1> QED
  BY <1>2, <1>3, <1>4, <1>5, <1>8, <1>9, OnwardKeeps DEF Onward

LEMMA SkipReleaseStep ==
  ASSUME ProvisionInvariant, SkipRelease, UNCHANGED public
  PROVE  ProvisionInvariant'
<1>1. /\ doing = "releasing" /\ at <= N /\ copy.addr[at].phase = "none" /\ at' = at + 1
      /\ NoCall /\ UNCHANGED <<durable, copy, doing, seen, stale>>
  BY DEF SkipRelease
<1>2. /\ Calm /\ UNCHANGED <<vm, eip, joining, leaving, launches>>
      /\ RecordOK(durable, vm, eip, launches) /\ SessionTypes /\ CopyOK
      /\ RecordOK(durable, vm', eip', launches') /\ WithdrawalOK
      /\ \A t \in Targets : StaleOK(t)
  BY <1>1, NoCallIsCalm, TypeParts DEF ProvisionInvariant
<1>3. at \in Targets /\ at' \in 1..(N + 1) /\ copy = durable
  BY <1>1, <1>2, ProvisionAssumption
     DEF SessionTypes, Targets, CopyOK, Executing, Starting, Addressing
<1>4. SessionTypes'
  BY <1>1, <1>2, <1>3 DEF SessionTypes, Calm
<1>5. \A t \in Targets : StaleOK(t)'
  BY <1>1, <1>2 DEF StaleOK
<1>6. CopyOK' /\ LaunchOK' /\ AddressingOK'
  BY <1>1, <1>2 DEF CopyOK, LaunchOK, AddressingOK, Executing, Starting, Launching,
     Addressing, OneByOne
<1>7. Held(eip[at]) = {}
  BY <1>1, <1>2, <1>3 DEF RecordOK, TargetOK
<1>8. WithdrawalOK'
  <2>1. \A t \in Targets : t < at' => t < at \/ t = at
    BY <1>1, <1>3 DEF Targets
  <2> QED
    BY <1>1, <1>2, <1>7, <2>1 DEF WithdrawalOK, Withdrawal
<1>9. RecordOK(durable', vm', eip', launches')
  BY <1>1, <1>2
<1> QED
  BY <1>2, <1>4, <1>5, <1>6, <1>8, <1>9, OnwardKeeps DEF Onward

\* The record of a release: what the survey found is all that there is.
LEMMA ReleaseSaved ==
  ASSUME ProvisionInvariant, doing \in Withdrawal, at \in Targets,
         UNCHANGED <<vm, eip, launches>>,
         NEW p \in {"releasing", "released"}, NEW k \in 0..MaxAlloc, k # 0,
         Held(eip[at]) \subseteq {k}, Coming(eip[at]) = {}
  PROVE  LET r == SetAddr(at, p, k) IN
         /\ r \in ProvisionRecords /\ RecordOK(r, vm', eip', launches')
         /\ r.phase # "addresses-released"
         /\ r.addr[at].phase = p /\ r.addr[at].id = k
         /\ \A u \in Targets \ {at} : r.addr[u] = durable.addr[u]
<1> DEFINE r == SetAddr(at, p, k)
           a == [phase |-> p, id |-> k]
<1>1. /\ SessionTypes /\ CopyOK /\ WithdrawalOK /\ RecordOK(durable, vm, eip, launches)
  BY TypeParts DEF ProvisionInvariant
<1>2. copy = durable /\ durable.phase # "addresses-released"
  BY <1>1 DEF CopyOK, Withdrawal, Executing, Starting, Addressing
<1>3. p \in AddrPhases
  BY DEF AddrPhases
<1>4. /\ r \in ProvisionRecords /\ r.phase = durable.phase /\ r.node = durable.node
      /\ r.addr[at] = a /\ \A u \in Targets \ {at} : r.addr[u] = durable.addr[u]
  BY <1>1, <1>2, <1>3, AddrRecord
<1>5. a.phase = p /\ a.id = k
  OBVIOUS
<1> HIDE DEF r, a
<1>6. ASSUME NEW t \in Targets
      PROVE  /\ TargetOK(r.addr[t], r.node[t], vm[t], eip[t], launches[t])
             /\ r.phase = "compute-ready" =>
                  ReadyOK(r.addr[t], r.node[t], vm[t], eip[t])
  <2>1. /\ TargetOK(durable.addr[t], durable.node[t], vm[t], eip[t], launches[t])
        /\ durable.phase = "compute-ready" =>
             ReadyOK(durable.addr[t], durable.node[t], vm[t], eip[t])
    BY <1>1, <1>6 DEF RecordOK
  <2>2. CASE t = at
    <3>1. TargetOK(r.addr[t], r.node[t], vm[t], eip[t], launches[t])
      BY <1>4, <1>5, <2>1, <2>2 DEF TargetOK
    <3>2. vm[t] \in Dead /\ vm[t] \notin Alive
      BY <1>1, <1>6 DEF WithdrawalOK, Alive, Dead
    <3> QED
      BY <1>4, <1>5, <2>1, <2>2, <3>1, <3>2 DEF ReadyOK, OnInstance
  <2>3. CASE t # at
    BY <1>4, <1>6, <2>1, <2>3
  <2> QED
    BY <2>2, <2>3
<1>7. RecordOK(r, vm', eip', launches')
  BY <1>2, <1>4, <1>6 DEF RecordOK
<1>8. /\ r.phase # "addresses-released" /\ r.addr[at].phase = p /\ r.addr[at].id = k
  BY <1>2, <1>4, <1>5
<1> QED
  BY <1>4, <1>7, <1>8 DEF r

\* The session after such a checkpoint.
LEMMA ReleaseOnward ==
  ASSUME ProvisionInvariant, Calm, UNCHANGED <<vm, eip, leaving>>,
         doing \in Withdrawal, doing' \in {"releasing", "deleting"}, at \in Targets,
         NEW r \in ProvisionRecords, RecordOK(r, vm', eip', launches'),
         r.phase # "addresses-released",
         \A u \in Targets \ {at} : r.addr[u] = durable.addr[u],
         SurveyOK(r.addr[at], seen[at], eip[at]),
         durable' = r, copy' = r, seen' = seen, at' \in {at, at + 1},
         at' = at + 1 => Held(eip[at]) = {},
         doing' = "deleting" =>
           /\ at' = at /\ seen[at].id # 0
           /\ r.addr[at].phase = "releasing" /\ r.addr[at].id = seen[at].id
  PROVE  Onward
<1>1. SessionTypes /\ WithdrawalOK /\ UNCHANGED public /\ stale' \subseteq stale
  BY TypeParts DEF ProvisionInvariant, Calm
<1>2. SessionTypes'
  <2>1. at' \in 1..(N + 1)
    BY ProvisionAssumption DEF Targets
  <2> QED
    BY <1>1, <2>1 DEF SessionTypes, Steps
<1>3. \A t \in Targets : StaleOK(t)'
  BY DEF StaleOK, Calm
<1>4. CopyOK' /\ LaunchOK' /\ AddressingOK'
  BY DEF CopyOK, LaunchOK, AddressingOK, Executing, Starting, Launching,
     Addressing, OneByOne
<1>5. WithdrawalOK'
  <2>1. ASSUME NEW t \in Targets
        PROVE  /\ vm[t] \in Dead /\ SurveyOK(r.addr[t], seen[t], eip[t])
               /\ t < at' => Held(eip[t]) = {}
    <3>1. /\ vm[t] \in Dead /\ SurveyOK(durable.addr[t], seen[t], eip[t])
          /\ t < at => Held(eip[t]) = {}
      BY <1>1, <2>1 DEF WithdrawalOK
    <3>2. t < at' => t < at \/ (t = at /\ at' = at + 1)
      BY <2>1 DEF Targets
    <3>3. SurveyOK(r.addr[t], seen[t], eip[t])
      BY <2>1, <3>1
    <3> QED
      BY <3>1, <3>2, <3>3
  <2> QED
    BY <1>1, <2>1 DEF WithdrawalOK, Withdrawal
<1> QED
  BY <1>2, <1>3, <1>4, <1>5 DEF Onward

LEMMA IntendReleaseStep ==
  ASSUME ProvisionInvariant, IntendRelease, UNCHANGED public
  PROVE  ProvisionInvariant'
<1> DEFINE k == seen[at].id
           r == SetAddr(at, "releasing", k)
<1>1. /\ doing = "releasing" /\ at <= N /\ copy.addr[at].phase # "none" /\ k # 0
      /\ Save(SetAddr(at, "releasing", IF copy.addr[at].phase = "allocating" THEN k
                                       ELSE copy.addr[at].id), "deleting", at)
      /\ stale' = stale \ {at} /\ NoCall
  BY DEF IntendRelease
<1>2. /\ Calm /\ UNCHANGED <<vm, eip, joining, leaving, launches>>
      /\ RecordOK(durable, vm, eip, launches) /\ SessionTypes /\ CopyOK /\ WithdrawalOK
      /\ RecordOK(durable, vm', eip', launches')
  BY <1>1, NoCallIsCalm, TypeParts DEF ProvisionInvariant
<1>3. at \in Targets /\ k \in 0..MaxAlloc /\ doing \in Withdrawal /\ copy = durable
  BY <1>1, <1>2, ProvisionAssumption
     DEF SessionTypes, Targets, Snapshots, Withdrawal, CopyOK, Executing, Starting,
         Addressing
<1>4. SurveyOK(durable.addr[at], seen[at], eip[at])
  BY <1>2, <1>3 DEF WithdrawalOK
<1>5. Save(r, "deleting", at)
  <2>1. copy.addr[at].phase # "allocating" => copy.addr[at].id = k
    BY <1>1, <1>2, <1>3, <1>4 DEF RecordOK, TargetOK, SurveyOK
  <2> QED
    BY <1>1, <2>1
<1>6. Held(eip[at]) \subseteq {k} /\ Coming(eip[at]) = {}
  BY <1>1, <1>4 DEF SurveyOK
<1> HIDE DEF k
<1>7. /\ r \in ProvisionRecords /\ RecordOK(r, vm', eip', launches')
      /\ r.phase # "addresses-released"
      /\ r.addr[at].phase = "releasing" /\ r.addr[at].id = k
      /\ \A u \in Targets \ {at} : r.addr[u] = durable.addr[u]
  BY <1>1, <1>2, <1>3, <1>6, ReleaseSaved
<1>8. SurveyOK(r.addr[at], seen[at], eip[at])
  BY <1>1, <1>6, <1>7 DEF SurveyOK, k
<1> HIDE DEF r
<1>9. ASSUME durable' = r, copy' = r, doing' = "deleting", at' = at, seen' = seen
      PROVE  Onward
  <2>1. at # at + 1
    BY <1>3 DEF Targets
  <2>2. seen[at].id # 0 /\ r.addr[at].id = seen[at].id
    BY <1>1, <1>7 DEF k
  <2> QED
    BY <1>2, <1>3, <1>7, <1>8, <1>9, <2>1, <2>2, ReleaseOnward
<1> QED
  BY <1>2, <1>5, <1>7, <1>9, SaveKeeps

\* A release that takes effect, now or later, is of a target whose instance, as
\* every other, is gone.
LEMMA DeleteSettles ==
  ASSUME ProvisionInvariant, Delete, UNCHANGED public
  PROVE  /\ Settled /\ launches' = launches /\ Calm
         /\ RecordOK(durable, vm', eip', launches')
         /\ RecordOK(copy, vm', eip', launches')
<1> DEFINE k == seen[at].id
<1>1. /\ doing = "deleting" /\ UNCHANGED <<vm, joining, stale, launches>>
      /\ \/ eip[at][k] = "visible" /\ SetEip(at, k, "released") /\ UNCHANGED leaving
         \/ leaving' = leaving \cup {at} /\ UNCHANGED eip
         \/ UNCHANGED <<eip, leaving>>
      /\ \/ doing' = "verifying" /\ UNCHANGED <<durable, copy, at, seen>>
         \/ End
  BY DEF Delete
<1>2. /\ SessionTypes /\ CloudTypes /\ CopyOK /\ WithdrawalOK
      /\ \A t \in Targets : StaleOK(t)
  BY TypeParts DEF ProvisionInvariant
<1>3. at \in Targets /\ k \in Ids
  BY <1>1, <1>2 DEF WithdrawalOK, SessionTypes, Snapshots, Ids
<1> HIDE DEF k
<1>4. Settled /\ eip' \in [Targets -> [Ids -> EipStates]]
  <2>1. CASE eip[at][k] = "visible" /\ SetEip(at, k, "released")
    BY <1>1, <1>3, <2>1, SetEipSettles DEF EipStates
  <2>2. CASE eip' = eip
    BY <1>1, <1>2, <2>2, StaySettled DEF CloudTypes
  <2> QED
    BY <1>1, <2>1, <2>2
<1>5. CloudTypes' /\ launches' = launches /\ UNCHANGED <<public, stale>>
  BY <1>1, <1>2, <1>3, <1>4 DEF CloudTypes
<1>6. \A t \in Targets : vm'[t] \in Dead
  BY <1>1, <1>2 DEF WithdrawalOK, Withdrawal
<1>7. /\ Calm /\ RecordOK(durable, vm', eip', launches')
      /\ RecordOK(copy, vm', eip', launches')
  BY <1>4, <1>5, <1>6, SettledIsCalm
<1> QED
  BY <1>4, <1>5, <1>7

LEMMA DeleteStep ==
  ASSUME ProvisionInvariant, Delete, UNCHANGED public
  PROVE  ProvisionInvariant'
<1>1. /\ doing = "deleting" /\ UNCHANGED <<vm, stale, public>>
      /\ \/ doing' = "verifying" /\ UNCHANGED <<durable, copy, at, seen>>
         \/ End
  BY DEF Delete
<1>2. /\ SessionTypes /\ CopyOK /\ WithdrawalOK /\ \A t \in Targets : StaleOK(t)
  BY TypeParts DEF ProvisionInvariant
<1>3. /\ Settled /\ Calm /\ RecordOK(durable, vm', eip', launches')
      /\ RecordOK(copy, vm', eip', launches')
  BY DeleteSettles
<1>4. at \in Targets /\ \A t \in Targets : vm'[t] \in Dead
  BY <1>1, <1>2 DEF WithdrawalOK, Withdrawal
<1>5. CASE End
  BY <1>3, <1>5, EndKeeps
<1>6. CASE doing' = "verifying" /\ UNCHANGED <<durable, copy, at, seen>>
  <2>1. SessionTypes' /\ \A t \in Targets : StaleOK(t)'
    BY <1>1, <1>2, <1>3, <1>6 DEF SessionTypes, Steps, StaleOK, Calm
  <2>2. CopyOK' /\ LaunchOK' /\ AddressingOK'
    BY <1>1, <1>2, <1>6 DEF CopyOK, LaunchOK, AddressingOK, Executing, Starting,
       Launching, Addressing, OneByOne
  <2>3. WithdrawalOK'
    <3>1. ASSUME NEW t \in Targets
          PROVE  /\ SurveyOK(durable.addr[t], seen[t], eip'[t])
                 /\ t < at => Held(eip'[t]) = {}
      <4>1. /\ SurveyOK(durable.addr[t], seen[t], eip[t])
            /\ t < at => Held(eip[t]) = {}
        BY <1>1, <1>2, <3>1 DEF WithdrawalOK, Withdrawal
      <4>2. /\ Held(eip'[t]) \subseteq Held(eip[t])
            /\ Coming(eip'[t]) \subseteq Coming(eip[t])
        BY <1>3, <3>1 DEF Settled, Settles
      <4> QED
        BY <4>1, <4>2 DEF SurveyOK
    <3>2. /\ seen[at].id # 0 /\ durable.addr[at].phase = "releasing"
          /\ durable.addr[at].id = seen[at].id
      BY <1>1, <1>2 DEF WithdrawalOK
    <3> QED
      BY <1>4, <1>6, <3>1, <3>2 DEF WithdrawalOK
  <2>4. RecordOK(durable', vm', eip', launches')
    BY <1>3, <1>6
  <2> QED
    BY <1>3, <2>1, <2>2, <2>3, <2>4, OnwardKeeps DEF Onward
<1> QED
  BY <1>1, <1>5, <1>6

\* Nothing is left of an address whose release is recorded.
LEMMA RecordReleasedStep ==
  ASSUME ProvisionInvariant, RecordReleased, UNCHANGED public
  PROVE  ProvisionInvariant'
<1> DEFINE k == copy.addr[at].id
           r == SetAddr(at, "released", k)
<1>1. /\ at <= N /\ NoCall /\ UNCHANGED stale
      /\ \/ doing = "verifying" /\ ProvenAbsent(at, k)
         \/ doing = "releasing" /\ copy.addr[at].phase # "none" /\ seen[at].id = 0
      /\ Save(r, "releasing", at + 1)
  BY DEF RecordReleased
<1>2. /\ Calm /\ UNCHANGED <<vm, eip, joining, leaving, launches>>
      /\ RecordOK(durable, vm, eip, launches) /\ SessionTypes /\ CopyOK /\ WithdrawalOK
      /\ RecordOK(durable, vm', eip', launches')
  BY <1>1, NoCallIsCalm, TypeParts DEF ProvisionInvariant
<1>3. at \in Targets /\ doing \in Withdrawal /\ copy = durable
  BY <1>1, <1>2, ProvisionAssumption
     DEF SessionTypes, Targets, Withdrawal, CopyOK, Executing, Starting, Addressing
<1>4. /\ SurveyOK(durable.addr[at], seen[at], eip[at])
      /\ TargetOK(durable.addr[at], durable.node[at], vm[at], eip[at], launches[at])
      /\ durable.addr[at].id \in 0..MaxAlloc
  BY <1>2, <1>3, RecordFacts DEF WithdrawalOK, RecordOK
<1>5. k # 0 /\ Held(eip[at]) = {} /\ seen[at].id \in {0, k}
  <2>1. CASE doing = "verifying" /\ ProvenAbsent(at, k)
    <3>1. seen[at].id = k /\ k # 0 /\ k \notin There(eip[at])
      BY <1>2, <1>3, <2>1, AddressSets DEF WithdrawalOK, ProvenAbsent
    <3>2. Held(eip[at]) \subseteq {k} /\ Coming(eip[at]) = {}
      BY <1>4, <3>1 DEF SurveyOK
    <3>3. Held(eip[at]) = There(eip[at]) \cup Coming(eip[at])
      BY AddressSets
    <3> QED
      BY <3>1, <3>2, <3>3
  <2>2. CASE doing = "releasing" /\ copy.addr[at].phase # "none" /\ seen[at].id = 0
    BY <1>3, <1>4, <2>2 DEF SurveyOK, TargetOK
  <2> QED
    BY <1>1, <2>1, <2>2
<1>6. k \in 0..MaxAlloc /\ Coming(eip[at]) = {}
  BY <1>3, <1>4, <1>5, AddressSets
<1> HIDE DEF k
<1>7. /\ r \in ProvisionRecords /\ RecordOK(r, vm', eip', launches')
      /\ r.phase # "addresses-released"
      /\ r.addr[at].phase = "released" /\ r.addr[at].id = k
      /\ \A u \in Targets \ {at} : r.addr[u] = durable.addr[u]
  BY <1>2, <1>3, <1>5, <1>6, ReleaseSaved
<1>8. SurveyOK(r.addr[at], seen[at], eip[at])
  BY <1>5, <1>6, <1>7 DEF SurveyOK
<1> HIDE DEF r
<1>9. ASSUME durable' = r, copy' = r, doing' = "releasing", at' = at + 1, seen' = seen
      PROVE  Onward
  BY <1>2, <1>3, <1>5, <1>7, <1>8, <1>9, ReleaseOnward
<1> QED
  BY <1>1, <1>2, <1>7, <1>9, SaveKeeps

LEMMA RetireStep ==
  ASSUME ProvisionInvariant, Retire, UNCHANGED public
  PROVE  ProvisionInvariant'
<1> DEFINE x == [copy EXCEPT !.phase = "addresses-released"]
<1>1. doing = "releasing" /\ at = N + 1 /\ SaveAndEnd(x) /\ NoCall /\ UNCHANGED stale
  BY DEF Retire
<1>2. /\ Calm /\ UNCHANGED <<vm, eip, joining, leaving, launches>>
      /\ RecordOK(durable, vm', eip', launches')
      /\ RecordOK(copy, vm', eip', launches') /\ SessionTypes /\ WithdrawalOK
  BY <1>1, NoCallIsCalm, TypeParts DEF ProvisionInvariant
<1>3. /\ x \in ProvisionRecords /\ x.phase = "addresses-released" /\ x.node = copy.node
      /\ x.addr = copy.addr
  BY <1>2, PhaseRecord DEF SessionTypes, Phases
<1> HIDE DEF x
<1>4. \A t \in Targets : Held(eip'[t]) = {}
  BY <1>1, <1>2, ProvisionAssumption DEF WithdrawalOK, Withdrawal, Targets
<1>5. RecordOK(x, vm', eip', launches')
  BY <1>2, <1>3, <1>4 DEF RecordOK
<1> QED
  BY <1>1, <1>2, <1>5, SaveAndEndKeeps

-----------------------------------------------------------------------------
(* The invariant.                                                          *)

LEMMA ProvisionBegins ==
  ASSUME ProvisionInit
  PROVE  ProvisionInvariant
<1> DEFINE nd == [t \in Targets |-> "pending"]
           ad == [t \in Targets |-> NoAddress]
<1>1. /\ public \in BOOLEAN /\ vm = [t \in Targets |-> "none"]
      /\ eip = [t \in Targets |-> [k \in Ids |-> "none"]]
      /\ joining = {} /\ leaving = {} /\ stale = {}
      /\ durable = [phase |-> "pending", node |-> nd, addr |-> ad]
      /\ copy = durable /\ doing = "idle" /\ at = 1 /\ seen = Unseen
      /\ launches = [t \in Targets |-> 0]
  BY DEF ProvisionInit
<1>2. NoAddress \in Address /\ NoAddress.phase = "none" /\ NoAddress.id = 0
  BY ProvisionAssumption DEF NoAddress, Address, AddrPhases
<1>3. /\ nd \in [Targets -> NodePhases] /\ ad \in [Targets -> Address]
      /\ \A t \in Targets : nd[t] = "pending" /\ ad[t] = NoAddress
  BY <1>2 DEF NodePhases
<1> HIDE DEF nd, ad
<1>4. /\ durable \in ProvisionRecords /\ durable.phase = "pending"
      /\ durable.node = nd /\ durable.addr = ad
  BY <1>1, <1>3 DEF ProvisionRecords, Phases
<1>5. CloudTypes
  BY <1>1 DEF CloudTypes, VmStates, EipStates, CallBound
<1>6. SessionTypes
  <2>1. Unseen \in [Targets -> Snapshots]
    BY ProvisionAssumption DEF Unseen, Snapshots
  <2> QED
    BY <1>1, <1>4, <2>1, ProvisionAssumption DEF SessionTypes, Steps
<1>7. ASSUME NEW t \in Targets
      PROVE  /\ vm[t] = "none" /\ launches[t] = 0
             /\ \A k \in Ids : eip[t][k] = "none"
             /\ Held(eip[t]) = {} /\ Coming(eip[t]) = {}
  BY <1>1, <1>7 DEF Held, Coming
<1>8. RecordOK(durable, vm, eip, launches)
  <2>1. ASSUME NEW t \in Targets
        PROVE  TargetOK(durable.addr[t], durable.node[t], vm[t], eip[t], launches[t])
    BY <1>2, <1>3, <1>4, <1>7, <2>1 DEF TargetOK
  <2> QED
    BY <1>4, <2>1 DEF RecordOK
<1>9. \A t \in Targets : CloudOK(vm[t], eip[t], launches[t]) /\ StaleOK(t)
  BY <1>1, <1>7 DEF CloudOK, StaleOK
<1>10. CopyOK /\ LaunchOK /\ AddressingOK /\ WithdrawalOK
  BY <1>1, <1>4 DEF CopyOK, LaunchOK, AddressingOK, WithdrawalOK, Executing, Starting,
     Launching, Addressing, OneByOne, Withdrawal
<1>11. ProvisionTypeOK
  BY <1>5, <1>6, TypeParts
<1> QED
  BY <1>8, <1>9, <1>10, <1>11 DEF ProvisionInvariant

LEMMA ProvisionStutters ==
  ASSUME ProvisionInvariant, UNCHANGED provisionVars
  PROVE  ProvisionInvariant'
<1>1. UNCHANGED <<public, vm, eip, joining, leaving, durable, copy, doing, at, seen,
                  stale, launches>>
  BY DEF provisionVars
<1>2. CloudTypes
  BY TypeParts DEF ProvisionInvariant
<1>3. CloudTypes'
  BY <1>1, <1>2 DEF CloudTypes
<1> QED
  BY <1>1, <1>3, StaySettled, SettledKeeps

LEMMA ProvisionStep ==
  ASSUME ProvisionInvariant, ProvisionNext
  PROVE  ProvisionInvariant'
<1>1. UNCHANGED public
  BY DEF ProvisionNext
<1>2. CASE Execute
  BY <1>1, <1>2, BeginStep, DiscoverStep, ScopeStep, LaunchStep, RunStep, LaunchedStep,
     PollStep, PrepareStep, IntendStep, AllocateStep, AdoptStep, AttachStep,
     AssociateStep, AssociatedStep, ReadyStep DEF Execute
<1>3. CASE ReleaseAddresses
  BY <1>1, <1>3, BeginCleanupStep, SurveyStep, SkipReleaseStep, IntendReleaseStep,
     DeleteStep, RecordReleasedStep, RetireStep DEF ReleaseAddresses
<1>4. CASE Fail \/ Kill
  BY <1>1, <1>4, FailStep
<1>5. CASE \E t \in Targets : Ec2(t) \/ Age(t)
  BY <1>1, <1>5, Ec2Step, AgeStep
<1> QED
  BY <1>2, <1>3, <1>4, <1>5 DEF ProvisionNext

\* What every session relies on when it starts from the record alone, whatever EC2
\* did meanwhile.  (internal/provision: Execute, ReleaseAddresses.)
THEOREM ProvisionInvariance == ProvisionSpec => []ProvisionInvariant
<1>1. ProvisionInit => ProvisionInvariant
  BY ProvisionBegins
<1>2. ProvisionInvariant /\ [ProvisionNext]_provisionVars => ProvisionInvariant'
  BY ProvisionStep, ProvisionStutters
<1> QED
  BY <1>1, <1>2, PTL DEF ProvisionSpec

-----------------------------------------------------------------------------
(* What follows from it.                                                    *)

\* Every value stays of its type.
THEOREM ProvisionTypes == ProvisionSpec => []ProvisionTypeOK
<1>1. ProvisionInvariant => ProvisionTypeOK
  BY DEF ProvisionInvariant
<1> QED
  BY <1>1, ProvisionInvariance, PTL

\* No target is launched twice, and no instance or address is missing from the
\* record.  (Execute: the intent checkpoints, and reconcile before the first
\* launch.)
THEOREM LaunchesAreKnown == ProvisionSpec => []LaunchesKnown
<1>1. ASSUME ProvisionInvariant PROVE LaunchesKnown
  <2>1. ASSUME NEW t \in Targets
        PROVE  /\ launches[t] <= 1
               /\ vm[t] # "none" \/ launches[t] > 0 => durable.node[t] # "pending"
               /\ Holds(t) # {} => durable.addr[t].phase # "none"
    <3>1. /\ CloudOK(vm[t], eip[t], launches[t])
          /\ TargetOK(durable.addr[t], durable.node[t], vm[t], eip[t], launches[t])
      BY <1>1, <2>1 DEF ProvisionInvariant, RecordOK
    <3> QED
      BY <3>1, AddressSets DEF CloudOK, TargetOK
  <2> QED
    BY <2>1 DEF LaunchesKnown, LaunchedOnce, Journaled
<1> QED
  BY <1>1, ProvisionInvariance, PTL

\* No target has two addresses, however many AllocateAddress calls went unanswered,
\* and a retired allocation has none.  (ensureAddresses, ReleaseAddresses.)
THEOREM AddressesAreKept == ProvisionSpec => []AddressesKept
<1>1. ASSUME ProvisionInvariant PROVE AddressesKept
  <2>1. ASSUME NEW t \in Targets PROVE Cardinality(Holds(t)) <= 1
    <3>1. \A j, k \in Held(eip[t]) : j = k
      BY <1>1, <2>1 DEF ProvisionInvariant, CloudOK
    <3>2. Holds(t) = Held(eip[t])
      BY AddressSets
    <3>3. CASE Held(eip[t]) = {}
      BY <3>2, <3>3, FS_EmptySet
    <3>4. CASE Held(eip[t]) # {}
      <4>1. PICK k \in Held(eip[t]) : TRUE
        BY <3>4
      <4>2. Held(eip[t]) = {k}
        BY <3>1, <4>1
      <4>3. Cardinality({k}) = 1
        BY FS_Singleton
      <4> QED
        BY <3>2, <4>2, <4>3
    <3> QED
      BY <3>3, <3>4
  <2>2. ASSUME durable.phase = "addresses-released", NEW t \in Targets
        PROVE  Holds(t) = {}
    BY <1>1, <2>2, AddressSets DEF ProvisionInvariant, RecordOK
  <2> QED
    BY <2>1, <2>2 DEF AddressesKept, OneAddress, NothingLeaks
<1> QED
  BY <1>1, ProvisionInvariance, PTL

\* What the record calls ready came up, with its address on it until the instance
\* is terminated.  (The end of Execute's wait loop.)
THEOREM ReadyStaysReal == ProvisionSpec => []ReadyIsReal
<1>1. ASSUME ProvisionInvariant PROVE ReadyIsReal
  <2>1. ASSUME durable.phase = "compute-ready", NEW t \in Targets
        PROVE  ReadyOK(durable.addr[t], durable.node[t], vm[t], eip[t])
    BY <1>1, <2>1 DEF ProvisionInvariant, RecordOK
  <2> QED
    BY <2>1 DEF ReadyIsReal, ReadyOK, OnInstance, Alive, Dead
<1> QED
  BY <1>1, ProvisionInvariance, PTL

\* A call that gives an address another state than "released" releases none.
LEMMA NoneReleased ==
  ASSUME CloudTypes, NEW t \in Targets, NEW k \in Ids, NEW x, x # "released",
         SetEip(t, k, x), NEW u \in Targets, NEW j \in Ids,
         eip'[u][j] = "released"
  PROVE  eip[u][j] = "released"
<1>1. eip \in [Targets -> [Ids -> EipStates]] /\ eip' = [eip EXCEPT ![t][k] = x]
  BY DEF CloudTypes, SetEip
<1>2. /\ eip'[t] = [eip[t] EXCEPT ![k] = x] /\ eip[t] \in [Ids -> EipStates]
      /\ u # t => eip'[u] = eip[u]
  BY <1>1
<1>3. eip'[t][k] = x /\ (j # k => eip'[t][j] = eip[t][j])
  BY <1>2
<1> QED
  BY <1>2, <1>3

\* An address is released by a call that was sent, now or before.
LEMMA WhoReleases ==
  ASSUME ProvisionInvariant, ProvisionNext, NEW u \in Targets, NEW j \in Ids,
         eip[u][j] # "released", eip'[u][j] = "released"
  PROVE  doing = "deleting" \/ leaving # {}
<1>1. /\ CloudTypes /\ SessionTypes /\ AddressingOK /\ CopyOK
      /\ RecordOK(durable, vm, eip, launches)
  BY TypeParts DEF ProvisionInvariant
<1>2. eip' # eip
  OBVIOUS
<1>3. CASE Allocate
  <2>1. doing = "allocating" /\ at \in Targets
    BY <1>1, <1>3 DEF Allocate, AddressingOK
  <2>2. Free(at) # {} => Min(Free(at)) \in Ids
    <3>1. Free(at) \in SUBSET Nat /\ Free(at) \subseteq Ids
      BY DEF Free, Ids
    <3> QED
      BY <3>1, MinIn
  <2>3. Free(at) # {} /\ \E v \in {"flying", "hidden"} : SetEip(at, Min(Free(at)), v)
    BY <1>2, <1>3 DEF Allocate
  <2> QED
    BY <1>1, <2>1, <2>2, <2>3, NoneReleased
<1>4. CASE Associate
  <2>1. doing = "associating" /\ SetEip(at, copy.addr[at].id, "attached")
    BY <1>2, <1>4 DEF Associate
  <2>2. at \in Targets /\ copy.addr[at].id \in Ids
    BY <1>1, <2>1, RecordFacts DEF AddressingOK, CopyOK, RecordOK, Ids
  <2> QED
    BY <1>1, <2>1, <2>2, NoneReleased
<1>5. CASE Delete
  BY <1>5 DEF Delete
<1>6. ASSUME NEW t \in Targets, Ec2(t) PROVE leaving # {}
  <2>1. CASE InstanceAppears(t)
    BY <1>2, <2>1 DEF InstanceAppears
  <2>2. CASE AddressAppears(t)
    <3>1. \E k \in Ids, x \in {"hidden", "none", "visible"} : SetEip(t, k, x)
      BY <2>2 DEF AddressAppears
    <3> QED
      BY <1>1, <3>1, NoneReleased
  <2>3. CASE LateAssociation(t)
    <3>1. \E k \in Ids : SetEip(t, k, "attached")
      BY <1>2, <2>3 DEF LateAssociation
    <3> QED
      BY <1>1, <3>1, NoneReleased
  <2>4. CASE LateRelease(t)
    BY <2>4 DEF LateRelease
  <2>5. CASE Console(t)
    <3> DEFINE f == [k \in Ids |-> IF eip[t][k] = "attached" THEN "visible"
                                   ELSE eip[t][k]]
    <3>1. eip' = [eip EXCEPT ![t] = f]
      BY <1>2, <2>5 DEF Console
    <3>2. f[j] = "released" => eip[t][j] = "released"
      OBVIOUS
    <3> HIDE DEF f
    <3>3. eip'[t] = f /\ (u # t => eip'[u] = eip[u])
      BY <1>1, <3>1 DEF CloudTypes
    <3> QED
      BY <3>2, <3>3
  <2> QED
    BY <1>6, <2>1, <2>2, <2>3, <2>4, <2>5 DEF Ec2
<1>7. CASE \E t \in Targets : Age(t)
  BY <1>2, <1>7 DEF Age, cloud
<1>8. CASE NoCall
  BY <1>2, <1>8 DEF NoCall, cloud
<1>9. Allocate \/ Associate \/ Delete \/ (\E t \in Targets : Ec2(t) \/ Age(t)) \/ NoCall
  <2>1. CASE Execute
    BY <1>2, <2>1 DEF Execute, Begin, Discover, Scope, Launch, Run, Launched, Poll,
       Prepare, Intend, Adopt, Attach, Associated, Ready
  <2>2. CASE ReleaseAddresses
    BY <2>2 DEF ReleaseAddresses, BeginCleanup, Survey, SkipRelease, IntendRelease,
       RecordReleased, Retire
  <2> QED
    BY <2>1, <2>2 DEF ProvisionNext, Fail, Kill
<1> QED
  BY <1>3, <1>4, <1>5, <1>6, <1>7, <1>8, <1>9

\* What is released is released when all instances are gone for good.
LEMMA ReleasesDead ==
  ASSUME ProvisionInvariant, ProvisionNext, NEW u \in Targets, NEW j \in Ids,
         eip[u][j] # "released", eip'[u][j] = "released"
  PROVE  \A t \in Targets : /\ vm[t] \in {"terminated", "purged"}
                            /\ \A k \in Ids : eip[t][k] # "attached"
<1>1. \A t \in Targets : vm[t] \in Dead
  BY WhoReleases DEF ProvisionInvariant, WithdrawalOK, Withdrawal
<1>2. \A t \in Targets : CloudOK(vm[t], eip[t], launches[t])
  BY DEF ProvisionInvariant
<1> QED
  BY <1>1, <1>2 DEF CloudOK, Alive, Dead

\* Once a release is on record, a session creates nothing: it refuses, or releases.
LEMMA OnlyReleases ==
  ASSUME ProvisionInvariant, ProvisionNext, Withdrawn(durable) # {}
  PROVE  /\ copy = durable \/ doing = "idle"
         /\ \/ ReleaseAddresses \/ Fail \/ Kill
            \/ \E t \in Targets : Ec2(t) \/ Age(t)
<1>1. doing \notin Executing /\ copy = durable
  BY DEF ProvisionInvariant, CopyOK
<1>2. ~Execute
  BY <1>1 DEF Execute, Begin, Discover, Scope, Launch, Run, Launched, Poll, Prepare,
     Intend, Allocate, Adopt, Attach, Associate, Associated, Ready, Executing, Starting,
     Addressing
<1> QED
  BY <1>1, <1>2 DEF ProvisionNext

LEMMA InterruptedWithdrawn ==
  ASSUME NEW r \in ProvisionRecords
  PROVE  Withdrawn(Interrupted(r)) = Withdrawn(r)
<1>1. Interrupted(r).addr = r.addr
  BY PhaseRecord DEF Interrupted, Phases
<1> QED
  BY <1>1 DEF Withdrawn

\* A release on record stays there.
LEMMA WithdrawnStays ==
  ASSUME ProvisionInvariant, ProvisionNext, Withdrawn(durable) # {}
  PROVE  Withdrawn(durable) \subseteq Withdrawn(durable')
<1>1. /\ SessionTypes /\ WithdrawalOK /\ copy = durable
      /\ \/ ReleaseAddresses \/ Fail \/ Kill
         \/ \E t \in Targets : Ec2(t) \/ Age(t)
  BY OnlyReleases, TypeParts DEF ProvisionInvariant, CopyOK
<1>2. Withdrawn(Interrupted(copy)) = Withdrawn(durable)
  BY <1>1, InterruptedWithdrawn DEF SessionTypes
<1>3. End => Withdrawn(durable') = Withdrawn(durable)
  BY <1>2 DEF End
<1>4. ASSUME NEW p \in {"releasing", "released"}, NEW k \in 0..MaxAlloc,
             at \in Targets, NEW next, NEW i, Save(SetAddr(at, p, k), next, i)
      PROVE  Withdrawn(durable) \subseteq Withdrawn(durable')
  <2> DEFINE r == SetAddr(at, p, k)
             a == [phase |-> p, id |-> k]
  <2>1. a.phase = p
    OBVIOUS
  <2>2. p \in AddrPhases
    BY DEF AddrPhases
  <2>3. /\ r \in ProvisionRecords /\ r.addr[at] = a
        /\ \A u \in Targets \ {at} : r.addr[u] = durable.addr[u]
    BY <1>1, <1>4, <2>2, AddrRecord
  <2>4. durable' \in {durable, r, Interrupted(r)}
    BY <1>4 DEF Save, SaveAndEnd
  <2> HIDE DEF r, a
  <2>5. Withdrawn(durable) \subseteq Withdrawn(r)
    BY <1>4, <2>1, <2>3 DEF Withdrawn
  <2> QED
    BY <2>3, <2>4, <2>5, InterruptedWithdrawn
<1>5. CASE ReleaseAddresses
  <2>1. CASE BeginCleanup \/ Survey \/ SkipRelease
    BY <2>1 DEF BeginCleanup, Survey, SkipRelease
  <2>2. CASE IntendRelease
    <3> DEFINE k == IF copy.addr[at].phase = "allocating" THEN seen[at].id
                    ELSE copy.addr[at].id
    <3>1. at \in Targets /\ Save(SetAddr(at, "releasing", k), "deleting", at)
      BY <1>1, <2>2, ProvisionAssumption DEF IntendRelease, SessionTypes, Targets
    <3>2. k \in 0..MaxAlloc
      BY <1>1, <3>1, RecordFacts DEF SessionTypes, Snapshots
    <3> HIDE DEF k
    <3> QED
      BY <1>4, <3>1, <3>2
  <2>3. CASE Delete
    BY <1>3, <2>3 DEF Delete
  <2>4. CASE RecordReleased
    <3>1. /\ at \in Targets
          /\ Save(SetAddr(at, "released", copy.addr[at].id), "releasing", at + 1)
      BY <1>1, <2>4, ProvisionAssumption DEF RecordReleased, SessionTypes, Targets
    <3>2. copy.addr[at].id \in 0..MaxAlloc
      BY <1>1, <3>1, RecordFacts DEF SessionTypes
    <3> QED
      BY <1>4, <3>1, <3>2
  <2>5. CASE Retire
    <3> DEFINE x == [copy EXCEPT !.phase = "addresses-released"]
    <3>1. durable' \in {durable, x, Interrupted(x)}
      BY <2>5 DEF Retire, SaveAndEnd
    <3>2. x \in ProvisionRecords /\ x.addr = copy.addr
      BY <1>1, PhaseRecord DEF SessionTypes, Phases
    <3> HIDE DEF x
    <3>3. Withdrawn(x) = Withdrawn(durable)
      BY <1>1, <3>2 DEF Withdrawn
    <3> QED
      BY <3>1, <3>2, <3>3, InterruptedWithdrawn
  <2> QED
    BY <1>5, <2>1, <2>2, <2>3, <2>4, <2>5 DEF ReleaseAddresses
<1>6. CASE Fail \/ Kill
  BY <1>3, <1>6 DEF Fail, Kill
<1>7. CASE \E t \in Targets : Ec2(t) \/ Age(t)
  BY <1>7 DEF Ec2, Undisturbed, Age
<1> QED
  BY <1>1, <1>5, <1>6, <1>7

LEMMA NothingIsCreated ==
  ASSUME ProvisionInvariant, ProvisionNext, Withdrawn(durable) # {}
  PROVE  launches' = launches /\ \A t \in Targets : Holds(t)' \subseteq Holds(t)
<1>1. /\ UNCHANGED public
      /\ \/ ReleaseAddresses \/ Fail \/ Kill
         \/ \E t \in Targets : Ec2(t) \/ Age(t)
  BY OnlyReleases DEF ProvisionNext
<1>2. Settled /\ launches' = launches
  <2>1. CASE Delete
    BY <1>1, <2>1, DeleteSettles
  <2>2. CASE \E t \in Targets : Ec2(t)
    BY <1>1, <2>2, Ec2Settles
  <2>3. CASE NoCall \/ \E t \in Targets : Age(t)
    BY <2>3, StaySettled DEF NoCall, Age, cloud
  <2> QED
    BY <1>1, <2>1, <2>2, <2>3 DEF ReleaseAddresses, BeginCleanup, Survey, SkipRelease,
       IntendRelease, RecordReleased, Retire, Fail, Kill
<1>3. \A t : Holds(t)' = Held(eip'[t])
  BY DEF Holds, Shown, InFlight, Held
<1> QED
  BY <1>2, <1>3, AddressSets DEF Settled, Settles

\* No address is released while an instance of the plan lives; and once a release is
\* recorded nothing is created again and that record stays.  (ReleaseAddresses
\* verifies everything first; Execute refuses.)
THEOREM ReleasesAreFinal == ProvisionSpec => ReleaseIsFinal
<1> DEFINE Released == \E t \in Targets, k \in Ids :
                         eip[t][k] # "released" /\ eip'[t][k] = "released"
           AllDead == \A t \in Targets : /\ vm[t] \in {"terminated", "purged"}
                                         /\ \A k \in Ids : eip[t][k] # "attached"
<1>1. ASSUME ProvisionInvariant, [ProvisionNext]_provisionVars
      PROVE  Released => AllDead
  <2>1. ASSUME ProvisionNext, NEW t \in Targets, NEW k \in Ids,
               eip[t][k] # "released" /\ eip'[t][k] = "released"
        PROVE  \A u \in Targets : /\ vm[u] \in {"terminated", "purged"}
                                  /\ \A j \in Ids : eip[u][j] # "attached"
    BY <1>1, <2>1, ReleasesDead
  <2>2. CASE UNCHANGED provisionVars
    BY <2>2 DEF provisionVars
  <2> QED
    BY <1>1, <2>1, <2>2
<1>2. ASSUME ProvisionInvariant, [ProvisionNext]_provisionVars
      PROVE  Withdrawn(durable) # {} =>
               /\ launches' = launches
               /\ \A t \in Targets : Holds(t)' \subseteq Holds(t)
               /\ Withdrawn(durable) \subseteq Withdrawn(durable')
  <2>1. CASE ProvisionNext
    <3>1. ASSUME Withdrawn(durable) # {}
          PROVE  launches' = launches /\ \A t \in Targets : Holds(t)' \subseteq Holds(t)
      BY <1>2, <2>1, <3>1, NothingIsCreated
    <3>2. Withdrawn(durable) # {} => Withdrawn(durable) \subseteq Withdrawn(durable')
      BY <1>2, <2>1, WithdrawnStays
    <3> QED
      BY <3>1, <3>2
  <2>2. CASE UNCHANGED provisionVars
    BY <2>2 DEF provisionVars, Holds, Shown, InFlight
  <2> QED
    BY <1>2, <2>1, <2>2
<1>3. ProvisionSpec => ReleasesOnlyDead
  BY <1>1, ProvisionInvariance, PTL DEF ProvisionSpec, ReleasesOnlyDead
<1>4. ProvisionSpec => RetirementIsFinal
  BY <1>2, ProvisionInvariance, PTL DEF ProvisionSpec, RetirementIsFinal
<1> QED
  BY <1>3, <1>4 DEF ReleaseIsFinal
=============================================================================
