---------------------------- MODULE SeedTLSProofs ----------------------------
(***************************************************************************)
(* Proofs about the takeover of a seed's TLS, for any number of            *)
(* certificates and faults: what is on disk is a whole pair, or journalled *)
(* over one; and what doctor and the journal of the adoption report.       *)
(***************************************************************************)
EXTENDS SeedTLS, TLAPS

-----------------------------------------------------------------------------
(* The inductive invariant.                                                *)

Restoring  == {"rkey", "rcert", "rload", "rwait", "runlink"}
Recovering == {"recover"} \cup Restoring
Keeping    == {"pcert", "pkey", "journal"}
Renewing   == {"check", "issue"} \cup Keeping
Installing == {"ikey", "icert", "iload", "iwait", "iunlink"}
Originals  == {"okey", "ocert", "oload", "owait"}

\* An adoption before it has touched the files, while it gives up, and once the
\* issued pair was served.
Preparing == {"stage", "prepare", "stop", "staging", "start"}
GivingUp  == {"undo", "undoing", "restart"}
Retiring  == {"remove", "retire", "enable"}
ApplySteps == Preparing \cup {"await", "record"} \cup GivingUp \cup Retiring

\* A rollback before and after it has put the original pair back.
Stopping  == {"disable", "halt", "lock", "restoring"}
Returning == {"reinstall", "helper", "up", "close"}

PCs == {"idle", "done", "failed"} \cup Recovering \cup Renewing \cup Installing
         \cup Originals
Writers == [who : {"none", "service", "apply", "rollback"}, pc : PCs,
            back : BOOLEAN]
Idle == w.who = "none" /\ w.pc = "idle"

\* Who holds the locks, and where the holder may be.
LocksOK ==
  /\ op \in {NoOp} \cup [kind : {"apply"}, step : ApplySteps]
                   \cup [kind : {"rollback"}, step : Stopping \cup Returning]
  /\ w \in Writers
  /\ w.who = "none" => w.pc \in {"idle", "done", "failed"}
  /\ w.who = "service" =>
       /\ w.pc \in Recovering \cup Renewing \cup Installing
       /\ op.step \in {"idle", "await", "record", "disable", "halt"}
       /\ phase \in {"staging-issued", "tls-verified", "complete"}
  /\ w.who = "apply" => op.step = "undoing"
  /\ w.who = "rollback" => op.step = "restoring"
  /\ w.who \in {"apply", "rollback"} => w.pc \in Recovering \cup Originals
  /\ w.pc \in {"done", "failed"} => op.step \in {"undoing", "restoring"}
  /\ w.back => w.who = "service" /\ w.pc \in Recovering

\* What the writer has done to the files, by where it is.
FilesOK ==
  /\ pending # Nothing => prev = pending /\ Whole(pending)
  /\ w.pc \in Restoring \cup Installing => pending # Nothing
  /\ w.pc \in Renewing \cup Originals \cup {"done"} => pending = Nothing
  /\ w.pc = "rcert" => disk.key = prev.key
  /\ w.pc \in {"rload", "rwait", "runlink"} => disk = prev
  /\ w.pc \in {"pkey", "journal"} => prev.cert = disk.cert
  /\ w.pc = "journal" => prev.key = disk.key
  /\ w.pc \in Keeping \cup Installing => issued >= 1
  /\ w.pc = "icert" => disk.key = issued
  /\ w.pc \in {"iload", "iwait", "iunlink"} => disk = [key |-> issued, cert |-> issued]
  /\ w.pc = "iunlink" => loaded = issued
  /\ w.pc = "ocert" => disk.key = 0
  /\ w.pc \in {"oload", "owait", "done"} => disk = [key |-> 0, cert |-> 0]

\* Only the pair from before the adoption is put back without a journal, which
\* no renewal ever finds half done.
PairOK ==
  ~Whole(disk) /\ pending = Nothing =>
    /\ w.who # "service" /\ ~timer /\ disk.key \in {0, Torn}

\* Where an adoption is in its own journal.
PhaseOK ==
  /\ phase = "none" => op = NoOp \/ op.step = "stage"
  /\ phase = "staged" => op = NoOp \/ op.step \in {"stage", "prepare"}
  /\ op.step = "stage" => phase \in {"none", "staged"}
  /\ op.step = "prepare" => phase = "staged"
  /\ op.step = "stop" => phase = "prepared"
  /\ op.step = "staging" => phase = "helper-stopped"
  /\ op.step \in {"start", "await"} => phase = "staging-issued"
  /\ op.step \in GivingUp => phase \in {"helper-stopped", "staging-issued"}
  /\ op.step \in Retiring \cup {"record"} => phase = "tls-verified"
  /\ phase \in {"none", "staged"} \/ op.step \in Preparing =>
       /\ Idle /\ issued = 0 /\ disk = [key |-> 0, cert |-> 0]
       /\ pending = Nothing

\* The one renewal that an adoption waits for issues the first pair.
FirstRenewal ==
  op.step = "await" =>
    /\ w.who = "service" => status # "healthy"
    /\ w.who = "service" /\ ~w.back =>
         /\ w.pc \notin Restoring
         /\ w.pc \in {"recover", "check", "issue"} =>
              /\ issued = 0 /\ disk = [key |-> 0, cert |-> 0]
              /\ pending = Nothing
    /\ status = "healthy" => 
         /\ disk = [key |-> issued, cert |-> issued] /\ loaded = issued
         /\ issued >= 1 /\ pending = Nothing

\* Dashmate goes over a pair that is served, and nothing writes the files then.
RetiringOK ==
  op.step \in Retiring =>
    /\ Idle /\ disk = [key |-> issued, cert |-> issued]
    /\ loaded = issued /\ issued >= 1 /\ pending = Nothing

\* The timer runs only without Dashmate, and never over the original pair.
TimerOK ==
  timer =>
    /\ op.step \in {"idle", "record", "disable"}
    /\ phase \in {"tls-verified", "complete"}
    /\ disk.cert # 0 /\ pending.cert # 0

\* What is put back is put back over the original pair.
ReturningOK ==
  /\ op.step \in Returning \cup {"restart"} =>
       Idle /\ disk = [key |-> 0, cert |-> 0] /\ pending = Nothing
  /\ op.step \in Returning \ {"reinstall"} => package
  /\ op.step \in {"up", "close"} => helper.there
  /\ op.step = "close" => helper.up
  /\ ~package \/ ~helper.there => phase \in {"tls-verified", "complete"}
  /\ phase = "rolled-back" =>
       /\ helper.up /\ pending = Nothing
       /\ {disk.key, disk.cert} \subseteq {0, Torn}

\* The type invariant in two parts.
NumbersOK ==
  /\ {disk, prev, pending} \subseteq [key : Contents, cert : Contents]
  /\ loaded \in Pairs /\ issued \in Pairs /\ aged \in 0 .. issued
  /\ w.who \in {"none", "service", "apply", "rollback"}
  /\ w.who \in {"apply", "rollback"} => op.kind = w.who
  /\ op.kind \in {"none", "apply", "rollback"}
  /\ status \in {"none", "healthy", "failed"}
  /\ phase \in {"none", "staged", "prepared", "helper-stopped", "staging-issued",
                "tls-verified", "complete", "rolled-back"}
SwitchesOK ==
  /\ helper \in [there : BOOLEAN, original : BOOLEAN, up : BOOLEAN]
  /\ acme \in BOOLEAN /\ package \in BOOLEAN /\ timer \in BOOLEAN

SeedInvariant ==
  /\ NumbersOK /\ SwitchesOK
  /\ LocksOK /\ FilesOK /\ PairOK /\ PhaseOK /\ FirstRenewal
  /\ RetiringOK /\ TimerOK /\ ReturningOK

-----------------------------------------------------------------------------
(* Lemmas: what taking, keeping and giving up renew.lock does.             *)

LEMMA LockKept ==
  ASSUME w \in Writers, NEW p \in PCs, Goes(p)
  PROVE  /\ w' \in Writers /\ w'.pc = p
         /\ w'.who = w.who /\ w'.back = w.back
  BY DEF Goes, Writers

LEMMA LockTaken ==
  ASSUME NEW x \in {"service", "apply", "rollback"}, Locks(x)
  PROVE  /\ w' \in Writers /\ w'.pc = "recover"
         /\ w'.who = x /\ ~w'.back
<1>1. "recover" \in PCs /\ x \in {"none", "service", "apply", "rollback"}
      /\ "idle" \in PCs /\ "none" \in {"none", "service", "apply", "rollback"}
  BY DEF PCs, Recovering
<1> QED
  BY <1>1, Zenon DEF Locks, NoWriter, Writers

LEMMA LockReturned ==
  ASSUME NEW r \in {"done", "failed"}, Returns(r)
  PROVE  /\ w' \in Writers /\ w'.pc = r
         /\ w'.who = "none" /\ ~w'.back
<1>1. r \in PCs /\ "idle" \in PCs
  BY DEF PCs
<1>2. "none" \in {"none", "service", "apply", "rollback"}
  OBVIOUS
<1> QED
  BY <1>1, <1>2, Zenon DEF Returns, NoWriter, Writers

LEMMA LockGivenUp ==
  ASSUME w' = NoWriter
  PROVE  w' \in Writers /\ Idle' /\ ~w'.back
  BY DEF NoWriter, Writers, PCs, Idle

\* An exception gives the lock up, with the verdict of whoever held it.
LEMMA RaiseEnds ==
  ASSUME Raises
  PROVE  /\ w' \in Writers /\ ~w'.back
         /\ \/ w.who = "service" /\ Idle' /\ status' = "failed"
            \/ /\ w.who # "service" /\ w'.who = "none" /\ w'.pc = "failed"
               /\ status' = status
<1>1. CASE w.who = "service"
  BY <1>1, LockGivenUp DEF Raises, Ends
<1>2. CASE w.who # "service"
  BY <1>2, LockReturned DEF Raises
<1> QED
  BY <1>1, <1>2

\* Where a recovery that has succeeded leads.
LEMMA RecoveryLeads ==
  ASSUME LocksOK, w.pc \in Recovering, Recovered
  PROVE  /\ w' \in Writers /\ ~w'.back
         /\ \/ w.who = "service" /\ Idle' /\ status' = "failed"
            \/ /\ w.who = "service" /\ ~w.back /\ w'.who = w.who
               /\ w'.pc = "check" /\ status' = status
            \/ /\ w.who \in {"apply", "rollback"} /\ w'.who = w.who
               /\ w'.pc = "okey" /\ status' = status
<1>1. "check" \in PCs /\ "okey" \in PCs
  BY DEF PCs, Renewing, Originals
<1>2. /\ w \in Writers /\ w.who \in {"service", "apply", "rollback"}
      /\ w.who # "service" => ~w.back
  BY DEF LocksOK, Writers, Recovering, Restoring
<1>3. CASE w.who = "service" /\ w' = NoWriter /\ status' = "failed"
  BY <1>3, LockGivenUp
<1>4. CASE Goes("check") /\ w.who = "service" /\ ~w.back /\ status' = status
  BY <1>1, <1>2, <1>4, LockKept
<1>5. CASE Goes("okey") /\ w.who # "service" /\ status' = status
  BY <1>1, <1>2, <1>5, LockKept
<1> QED
  BY <1>3, <1>4, <1>5 DEF Recovered, Ends

\* A renewal that is not served turns back to the pair it has replaced.
LEMMA RenewalTurnsBack ==
  ASSUME w \in Writers, w' = [w EXCEPT !.pc = "recover", !.back = TRUE]
  PROVE  /\ w' \in Writers /\ w'.pc = "recover"
         /\ w'.who = w.who /\ w'.back
<1>1. "recover" \in PCs
  BY DEF PCs, Recovering
<1> QED
  BY <1>1, Zenon DEF Writers

-----------------------------------------------------------------------------
(* The steps of the writer, of the operator's worker, and of what dies.    *)

\* The writer replaces a file, keeps one, or signals the gateway.
LEMMA WriterWrites ==
  ASSUME SeedInvariant,
         RecoverKey \/ RecoverCert \/ RecoverLoad \/ BackupCert \/
         BackupKey \/ Journal \/ InstallKey \/ InstallCert \/
         InstallLoad \/ OriginalKey \/ OriginalCert \/ OriginalLoad
  PROVE  SeedInvariant'
<1> USE DEF SeedInvariant, files, service, host, Quiet, NoFault,
        At, Step, OpGoes, OpEnds
<1>1. SwitchesOK'
  BY Zenon DEF SwitchesOK, RecoverKey, RecoverCert, RecoverLoad, BackupCert,
     BackupKey, Journal, InstallKey, InstallCert, InstallLoad, OriginalKey,
     OriginalCert, OriginalLoad, Writes, Reload, Backup, Goes, Writers, PCs
<1>2. NumbersOK'
  BY SeedAssumption DEF RecoverKey, RecoverCert, RecoverLoad, BackupCert,
     BackupKey, Journal, InstallKey, InstallCert, InstallLoad, OriginalKey,
     OriginalCert, OriginalLoad, Writes, Reload, Backup, Goes, Writers, PCs,
     NumbersOK, LocksOK, FilesOK, Whole, Contents, Pairs, Nothing, None, Torn,
     Restoring, Recovering, Keeping, Renewing, Installing, Originals, NoOp,
     Preparing, GivingUp, Retiring, ApplySteps, Stopping, Returning
<1>3. LocksOK'
  BY SeedAssumption DEF RecoverKey, RecoverCert, RecoverLoad, BackupCert,
     BackupKey, Journal, InstallKey, InstallCert, InstallLoad, OriginalKey,
     OriginalCert, OriginalLoad, Writes, Reload, Backup, Goes, Writers, PCs,
     LocksOK, PhaseOK, TimerOK, Idle, NoOp, Preparing, GivingUp, Retiring,
     ApplySteps, Stopping, Returning, Restoring, Recovering, Keeping, Renewing,
     Installing, Originals
<1>4. FilesOK'
  BY SeedAssumption DEF RecoverKey, RecoverCert, RecoverLoad, BackupCert,
     BackupKey, Journal, InstallKey, InstallCert, InstallLoad, OriginalKey,
     OriginalCert, OriginalLoad, Writes, Reload, Backup, Goes, Writers, PCs,
     FilesOK, LocksOK, NumbersOK, PairOK, PhaseOK, TimerOK, Idle, Whole,
     Contents, Pairs, Nothing, None, Torn, Returning, Stopping, GivingUp,
     Retiring, Preparing, Restoring, Recovering, Keeping, Renewing, Installing,
     Originals
<1>5. PairOK'
  BY SeedAssumption DEF RecoverKey, RecoverCert, RecoverLoad, BackupCert,
     BackupKey, Journal, InstallKey, InstallCert, InstallLoad, OriginalKey,
     OriginalCert, OriginalLoad, Writes, Reload, Backup, Goes, Writers, PCs,
     PairOK, FilesOK, LocksOK, NumbersOK, PhaseOK, TimerOK, RetiringOK, Idle,
     Whole, Contents, Pairs, Nothing, None, Torn, NoOp, Preparing, GivingUp,
     Retiring, ApplySteps, Stopping, Returning, Restoring, Recovering, Keeping,
     Renewing, Installing, Originals
<1>6. PhaseOK'
  BY SeedAssumption DEF RecoverKey, RecoverCert, RecoverLoad, BackupCert,
     BackupKey, Journal, InstallKey, InstallCert, InstallLoad, OriginalKey,
     OriginalCert, OriginalLoad, Writes, Reload, Backup, Goes, Writers, PCs,
     PhaseOK, LocksOK, RetiringOK, TimerOK, ReturningOK, Idle, NoOp, Preparing,
     GivingUp, Retiring, ApplySteps, Stopping, Returning, Restoring, Recovering,
     Keeping, Renewing, Installing, Originals
<1>7. FirstRenewal'
  BY SeedAssumption DEF RecoverKey, RecoverCert, RecoverLoad, BackupCert,
     BackupKey, Journal, InstallKey, InstallCert, InstallLoad, OriginalKey,
     OriginalCert, OriginalLoad, Writes, Reload, Backup, Goes, Writers, PCs,
     FirstRenewal, PhaseOK, LocksOK, FilesOK, NumbersOK, TimerOK, Idle, Nothing,
     Fresh, Contents, Pairs, NoOp, Preparing, GivingUp, Retiring, ApplySteps,
     Stopping, Returning, Restoring, Recovering, Keeping, Renewing, Installing,
     Originals
<1>8. RetiringOK'
  BY SeedAssumption DEF RecoverKey, RecoverCert, RecoverLoad, BackupCert,
     BackupKey, Journal, InstallKey, InstallCert, InstallLoad, OriginalKey,
     OriginalCert, OriginalLoad, Writes, Reload, Backup, Goes, Writers, PCs,
     RetiringOK, LocksOK, FirstRenewal, PhaseOK, TimerOK, Idle, NoOp, Preparing,
     GivingUp, Retiring, ApplySteps, Stopping, Returning, Restoring, Recovering,
     Keeping, Renewing, Installing, Originals
<1>9. TimerOK'
  <2>1. CASE RecoverKey
    BY <2>1, SeedAssumption DEF RecoverKey, Writes, Reload, Backup, Goes,
       Writers, PCs, TimerOK, RetiringOK, LocksOK, FilesOK, NumbersOK, PhaseOK,
       Idle, Contents, Pairs, Nothing, None, Torn, NoOp, Preparing, GivingUp,
       Retiring, ApplySteps, Stopping, Returning, Restoring, Recovering,
       Keeping, Renewing, Installing, Originals
  <2>2. CASE RecoverCert
    BY <2>2, SeedAssumption DEF RecoverCert, Writes, Reload, Backup, Goes,
       Writers, PCs, TimerOK, RetiringOK, LocksOK, FilesOK, NumbersOK, PhaseOK,
       Idle, Contents, Pairs, Nothing, None, Torn, NoOp, Preparing, GivingUp,
       Retiring, ApplySteps, Stopping, Returning, Restoring, Recovering,
       Keeping, Renewing, Installing, Originals
  <2>3. CASE RecoverLoad
    BY <2>3, SeedAssumption DEF RecoverLoad, Writes, Reload, Backup, Goes,
       Writers, PCs, TimerOK, RetiringOK, LocksOK, FilesOK, NumbersOK, PhaseOK,
       Idle, Contents, Pairs, Nothing, None, Torn, NoOp, Preparing, GivingUp,
       Retiring, ApplySteps, Stopping, Returning, Restoring, Recovering,
       Keeping, Renewing, Installing, Originals
  <2>4. CASE BackupCert
    BY <2>4, SeedAssumption DEF BackupCert, Writes, Reload, Backup, Goes,
       Writers, PCs, TimerOK, RetiringOK, LocksOK, FilesOK, NumbersOK, PhaseOK,
       Idle, Contents, Pairs, Nothing, None, Torn, NoOp, Preparing, GivingUp,
       Retiring, ApplySteps, Stopping, Returning, Restoring, Recovering,
       Keeping, Renewing, Installing, Originals
  <2>5. CASE BackupKey
    BY <2>5, SeedAssumption DEF BackupKey, Writes, Reload, Backup, Goes,
       Writers, PCs, TimerOK, RetiringOK, LocksOK, FilesOK, NumbersOK, PhaseOK,
       Idle, Contents, Pairs, Nothing, None, Torn, NoOp, Preparing, GivingUp,
       Retiring, ApplySteps, Stopping, Returning, Restoring, Recovering,
       Keeping, Renewing, Installing, Originals
  <2>6. CASE Journal
    BY <2>6, SeedAssumption DEF Journal, Writes, Reload, Backup, Goes, Writers,
       PCs, TimerOK, RetiringOK, LocksOK, FilesOK, NumbersOK, PhaseOK, Idle,
       Contents, Pairs, Nothing, None, Torn, NoOp, Preparing, GivingUp,
       Retiring, ApplySteps, Stopping, Returning, Restoring, Recovering,
       Keeping, Renewing, Installing, Originals
  <2>7. CASE InstallKey
    BY <2>7, SeedAssumption DEF InstallKey, Writes, Reload, Backup, Goes,
       Writers, PCs, TimerOK, RetiringOK, LocksOK, FilesOK, NumbersOK, PhaseOK,
       Idle, Contents, Pairs, Nothing, None, Torn, NoOp, Preparing, GivingUp,
       Retiring, ApplySteps, Stopping, Returning, Restoring, Recovering,
       Keeping, Renewing, Installing, Originals
  <2>8. CASE InstallCert
    BY <2>8, SeedAssumption DEF InstallCert, Writes, Reload, Backup, Goes,
       Writers, PCs, TimerOK, RetiringOK, LocksOK, FilesOK, NumbersOK, PhaseOK,
       Idle, Contents, Pairs, Nothing, None, Torn, NoOp, Preparing, GivingUp,
       Retiring, ApplySteps, Stopping, Returning, Restoring, Recovering,
       Keeping, Renewing, Installing, Originals
  <2>9. CASE InstallLoad
    BY <2>9, SeedAssumption DEF InstallLoad, Writes, Reload, Backup, Goes,
       Writers, PCs, TimerOK, RetiringOK, LocksOK, FilesOK, NumbersOK, PhaseOK,
       Idle, Contents, Pairs, Nothing, None, Torn, NoOp, Preparing, GivingUp,
       Retiring, ApplySteps, Stopping, Returning, Restoring, Recovering,
       Keeping, Renewing, Installing, Originals
  <2>10. CASE OriginalKey
    BY <2>10, SeedAssumption DEF OriginalKey, Writes, Reload, Backup, Goes,
       Writers, PCs, TimerOK, RetiringOK, LocksOK, FilesOK, NumbersOK, PhaseOK,
       Idle, Contents, Pairs, Nothing, None, Torn, NoOp, Preparing, GivingUp,
       Retiring, ApplySteps, Stopping, Returning, Restoring, Recovering,
       Keeping, Renewing, Installing, Originals
  <2>11. CASE OriginalCert
    BY <2>11, SeedAssumption DEF OriginalCert, Writes, Reload, Backup, Goes,
       Writers, PCs, TimerOK, RetiringOK, LocksOK, FilesOK, NumbersOK, PhaseOK,
       Idle, Contents, Pairs, Nothing, None, Torn, NoOp, Preparing, GivingUp,
       Retiring, ApplySteps, Stopping, Returning, Restoring, Recovering,
       Keeping, Renewing, Installing, Originals
  <2>12. CASE OriginalLoad
    BY <2>12, SeedAssumption DEF OriginalLoad, Writes, Reload, Backup, Goes,
       Writers, PCs, TimerOK, RetiringOK, LocksOK, FilesOK, NumbersOK, PhaseOK,
       Idle, Contents, Pairs, Nothing, None, Torn, NoOp, Preparing, GivingUp,
       Retiring, ApplySteps, Stopping, Returning, Restoring, Recovering,
       Keeping, Renewing, Installing, Originals
  <2> QED
    BY <2>1, <2>2, <2>3, <2>4, <2>5, <2>6, <2>7, <2>8, <2>9, <2>10, <2>11, <2>12
<1>10. ReturningOK'
  BY SeedAssumption DEF RecoverKey, RecoverCert, RecoverLoad, BackupCert,
     BackupKey, Journal, InstallKey, InstallCert, InstallLoad, OriginalKey,
     OriginalCert, OriginalLoad, Writes, Reload, Backup, Goes, Writers, PCs,
     ReturningOK, LocksOK, FilesOK, PairOK, PhaseOK, RetiringOK, TimerOK,
     NumbersOK, Idle, Whole, Contents, Pairs, Nothing, None, Torn, NoOp,
     Preparing, GivingUp, Retiring, ApplySteps, Stopping, Returning, Restoring,
     Recovering, Keeping, Renewing, Installing, Originals
<1> QED
  BY <1>1, <1>2, <1>3, <1>4, <1>5, <1>6, <1>7, <1>8, <1>9, <1>10

\* The writer has recovered what was journalled, or failed to.
LEMMA WriterRecovers ==
  ASSUME SeedInvariant,
         Recover \/ RecoverWait \/ RecoverUnlink
  PROVE  SeedInvariant'
<1> USE DEF SeedInvariant, files, service, host, Quiet, NoFault,
        At, Step, OpGoes, OpEnds
<1>1. SwitchesOK'
  BY Zenon DEF SwitchesOK, Recover, RecoverWait, RecoverUnlink, PCs
<1>2. /\ w' \in Writers /\ w'.who \in {"none", w.who} /\ status' \in {status, "failed"}
      /\ w.who # "none" /\ w.pc \in Recovering
      /\ \/ w.pc = "recover" /\ w'.pc = "rkey" /\ w'.who = w.who /\ w'.back = w.back
            /\ pending # Nothing
         \/ w.pc = "rwait" /\ w'.pc = "runlink" /\ w'.who = w.who /\ w'.back = w.back
         \/ /\ w.pc \in {"recover", "runlink"} /\ pending' = Nothing
            /\ ~w'.back /\ w'.who = w.who
            /\ \/ w.who = "service" /\ ~w.back /\ w'.pc = "check"
               \/ w.who \in {"apply", "rollback"} /\ w'.pc = "okey"
         \/ /\ ~w'.back /\ w'.who = "none"
            /\ \/ w.who = "service" /\ w'.pc = "idle"
               \/ w.who \in {"apply", "rollback"} /\ w'.pc = "failed"
  <2>1. /\ w \in Writers /\ LocksOK /\ w.who \in {"service", "apply", "rollback"}
        /\ w.pc \in Recovering /\ "rkey" \in PCs /\ "runlink" \in PCs
    BY DEF Recover, RecoverWait, RecoverUnlink, LocksOK, Writers, PCs, Recovering,
       Restoring
  <2>2. CASE Recover
    BY <2>1, <2>2, LockKept, RecoveryLeads, RaiseEnds DEF Recover, Idle
  <2>3. CASE RecoverWait
    BY <2>1, <2>3, LockKept, RaiseEnds DEF RecoverWait, Idle
  <2>4. CASE RecoverUnlink
    BY <2>1, <2>4, RecoveryLeads DEF RecoverUnlink, Idle
  <2> QED
    BY <2>2, <2>3, <2>4
<1>3. NumbersOK'
  BY <1>2 DEF Recover, RecoverWait, RecoverUnlink, NumbersOK, Nothing, Contents,
     None
<1>4. LocksOK'
  BY <1>2 DEF Recover, RecoverWait, RecoverUnlink, LocksOK, Restoring,
     Recovering, Renewing, Originals
<1>5. FilesOK'
  BY <1>2 DEF Recover, RecoverWait, RecoverUnlink, FilesOK, Restoring,
     Recovering, Keeping, Renewing, Installing, Originals
<1>6. PairOK'
  BY SeedAssumption, LockKept, RecoveryLeads DEF Recover, RecoverWait,
     RecoverUnlink, PCs, PairOK, FilesOK, LocksOK, NumbersOK, PhaseOK, TimerOK,
     RetiringOK, Idle, Whole, Contents, Pairs, Nothing, None, Torn, NoOp,
     Preparing, GivingUp, Retiring, ApplySteps, Stopping, Returning, Restoring,
     Recovering, Keeping, Renewing, Installing, Originals
<1>7. PhaseOK'
  BY SeedAssumption, LockKept, RecoveryLeads DEF Recover, RecoverWait,
     RecoverUnlink, PCs, PhaseOK, LocksOK, RetiringOK, TimerOK, ReturningOK,
     Idle, NoOp, Preparing, GivingUp, Retiring, ApplySteps, Stopping, Returning,
     Restoring, Recovering, Keeping, Renewing, Installing, Originals
<1>8. FirstRenewal'
  BY <1>2 DEF Recover, RecoverWait, RecoverUnlink, FirstRenewal, LocksOK,
     Restoring, Recovering
<1>9. RetiringOK'
  BY SeedAssumption, LockKept, RecoveryLeads DEF Recover, RecoverWait,
     RecoverUnlink, PCs, RetiringOK, LocksOK, FirstRenewal, PhaseOK, TimerOK,
     Idle, NoOp, Preparing, GivingUp, Retiring, ApplySteps, Stopping, Returning,
     Restoring, Recovering, Keeping, Renewing, Installing, Originals
<1>10. TimerOK'
  <2>1. CASE Recover
    BY <2>1, SeedAssumption, LockKept, RecoveryLeads DEF Recover, PCs, TimerOK,
       RetiringOK, LocksOK, FilesOK, NumbersOK, PhaseOK, Idle, Contents, Pairs,
       Nothing, None, Torn, NoOp, Preparing, GivingUp, Retiring, ApplySteps,
       Stopping, Returning, Restoring, Recovering, Keeping, Renewing,
       Installing, Originals
  <2>2. CASE RecoverWait
    BY <2>2, SeedAssumption, LockKept, RecoveryLeads DEF RecoverWait, PCs,
       TimerOK, RetiringOK, LocksOK, FilesOK, NumbersOK, PhaseOK, Idle,
       Contents, Pairs, Nothing, None, Torn, NoOp, Preparing, GivingUp,
       Retiring, ApplySteps, Stopping, Returning, Restoring, Recovering,
       Keeping, Renewing, Installing, Originals
  <2>3. CASE RecoverUnlink
    BY <2>3, SeedAssumption, LockKept, RecoveryLeads DEF RecoverUnlink, PCs,
       TimerOK, RetiringOK, LocksOK, FilesOK, NumbersOK, PhaseOK, Idle,
       Contents, Pairs, Nothing, None, Torn, NoOp, Preparing, GivingUp,
       Retiring, ApplySteps, Stopping, Returning, Restoring, Recovering,
       Keeping, Renewing, Installing, Originals
  <2> QED
    BY <2>1, <2>2, <2>3
<1>11. ReturningOK'
  BY SeedAssumption, LockKept, RecoveryLeads DEF Recover, RecoverWait,
     RecoverUnlink, PCs, ReturningOK, LocksOK, FilesOK, PairOK, PhaseOK,
     RetiringOK, TimerOK, NumbersOK, Idle, Whole, Contents, Pairs, Nothing,
     None, Torn, NoOp, Preparing, GivingUp, Retiring, ApplySteps, Stopping,
     Returning, Restoring, Recovering, Keeping, Renewing, Installing, Originals
<1> QED
  BY <1>1, <1>2, <1>3, <1>4, <1>5, <1>6, <1>7, <1>8, <1>9, <1>10, <1>11

\* The writer decides what to do next, or is through.
LEMMA WriterDecides ==
  ASSUME SeedInvariant,
         Check \/ Issue \/ InstallUnlink \/ OriginalWait
  PROVE  SeedInvariant'
<1> USE DEF SeedInvariant, files, service, host, Quiet, NoFault,
        At, Step, OpGoes, OpEnds
<1>1. SwitchesOK'
  BY Zenon DEF SwitchesOK, Check, Issue, InstallUnlink, OriginalWait
<1>2. /\ w' \in Writers /\ w'.who \in {"none", w.who} /\ status' \in {status, "failed", "healthy"}
      /\ issued' \in Pairs /\ issued' >= issued
      /\ \/ /\ w.who = "service" /\ w.pc = "check"
            /\ Idle' /\ ~w'.back /\ status' = "healthy"
         \/ /\ w.who = "service" /\ w.pc = "check"
            /\ w'.who = w.who /\ w'.pc = "issue" /\ w'.back = w.back /\ status' = status
         \/ /\ w.who = "service" /\ w.pc = "issue" /\ issued' = issued + 1
            /\ w'.who = w.who /\ w'.pc = "pcert" /\ w'.back = w.back /\ status' = status
         \/ /\ w.who = "service" /\ w.pc = "issue" /\ issued' = issued
            /\ Idle' /\ ~w'.back /\ status' = "failed"
         \/ /\ w.who = "service" /\ w.pc = "iunlink"
            /\ Idle' /\ ~w'.back /\ status' = "healthy"
         \/ /\ w.who \in {"apply", "rollback"} /\ w.pc = "owait"
            /\ w'.who = "none" /\ w'.pc \in {"done", "failed"} /\ ~w'.back
            /\ status' = status
  <2>1. /\ w \in Writers /\ "issue" \in PCs /\ "pcert" \in PCs
        /\ issued \in Pairs /\ issued \in Int
        /\ w.pc \in {"check", "issue", "iunlink"} => w.who = "service"
        /\ w.pc = "owait" => w.who \in {"apply", "rollback"}
    BY SeedAssumption DEF LocksOK, NumbersOK, Writers, PCs, Recovering, Restoring, Renewing, Keeping,
       Installing, Originals, Pairs
  <2>2. CASE Check
    BY <2>1, <2>2, LockKept, LockGivenUp DEF Check, Ends, Idle
  <2>3. CASE Issue
    <3>1. issued' = issued \/ (issued < MaxIssued /\ issued' = issued + 1)
      BY <2>3 DEF Issue
    <3>2. issued' \in Pairs /\ issued' >= issued
      BY <2>1, <3>1, SeedAssumption DEF Pairs
    <3> QED
      BY <2>1, <2>3, <3>2, LockKept, RaiseEnds DEF Issue, Idle
  <2>4. CASE InstallUnlink
    BY <2>1, <2>4, LockGivenUp DEF InstallUnlink, Ends, Idle
  <2>5. CASE OriginalWait
    BY <2>1, <2>5, LockReturned DEF OriginalWait
  <2> QED
    BY <2>2, <2>3, <2>4, <2>5
<1>3. NumbersOK'
  BY <1>2, SeedAssumption DEF Check, Issue, InstallUnlink, OriginalWait,
     NumbersOK, Nothing, Contents, None, Pairs
<1>4. LocksOK'
  BY <1>2 DEF Check, Issue, InstallUnlink, OriginalWait, LocksOK, Idle,
     Restoring, Recovering, Keeping, Renewing, Installing, Originals
<1>5. FilesOK'
  BY <1>2 DEF Check, Issue, InstallUnlink, OriginalWait, FilesOK, LocksOK,
     NumbersOK, PairOK, Idle, Pairs, Restoring, Recovering, Keeping, Renewing,
     Installing, Originals
<1>6. PairOK'
  BY SeedAssumption DEF Check, Issue, InstallUnlink, OriginalWait, PairOK,
     FilesOK, LocksOK, NumbersOK, PhaseOK, TimerOK, RetiringOK, Idle, Whole,
     Contents, Pairs, Nothing, None, Torn, NoOp, Preparing, GivingUp, Retiring,
     ApplySteps, Stopping, Returning, Restoring, Recovering, Keeping, Renewing,
     Installing, Originals
<1>7. PhaseOK'
  BY SeedAssumption DEF Check, Issue, InstallUnlink, OriginalWait, PhaseOK,
     LocksOK, RetiringOK, TimerOK, ReturningOK, Idle, NoOp, Preparing, GivingUp,
     Retiring, ApplySteps, Stopping, Returning, Restoring, Recovering, Keeping,
     Renewing, Installing, Originals
<1>8. FirstRenewal'
  BY <1>2, SeedAssumption DEF Check, Issue, InstallUnlink, OriginalWait,
     FirstRenewal, FilesOK, NumbersOK, LocksOK, Idle, Pairs, Fresh, Restoring,
     Recovering, Keeping, Renewing, Installing, Originals
<1>9. RetiringOK'
  BY SeedAssumption DEF Check, Issue, InstallUnlink, OriginalWait, RetiringOK,
     LocksOK, FirstRenewal, PhaseOK, TimerOK, Idle, NoOp, Preparing, GivingUp,
     Retiring, ApplySteps, Stopping, Returning, Restoring, Recovering, Keeping,
     Renewing, Installing, Originals
<1>10. TimerOK'
  <2>1. CASE Check
    BY <2>1, SeedAssumption DEF Check, TimerOK, RetiringOK, LocksOK, FilesOK,
       NumbersOK, PhaseOK, Idle, Contents, Pairs, Nothing, None, Torn, NoOp,
       Preparing, GivingUp, Retiring, ApplySteps, Stopping, Returning,
       Restoring, Recovering, Keeping, Renewing, Installing, Originals
  <2>2. CASE Issue
    BY <2>2, SeedAssumption DEF Issue, TimerOK, RetiringOK, LocksOK, FilesOK,
       NumbersOK, PhaseOK, Idle, Contents, Pairs, Nothing, None, Torn, NoOp,
       Preparing, GivingUp, Retiring, ApplySteps, Stopping, Returning,
       Restoring, Recovering, Keeping, Renewing, Installing, Originals
  <2>3. CASE InstallUnlink
    BY <2>3, SeedAssumption DEF InstallUnlink, TimerOK, RetiringOK, LocksOK,
       FilesOK, NumbersOK, PhaseOK, Idle, Contents, Pairs, Nothing, None, Torn,
       NoOp, Preparing, GivingUp, Retiring, ApplySteps, Stopping, Returning,
       Restoring, Recovering, Keeping, Renewing, Installing, Originals
  <2>4. CASE OriginalWait
    BY <2>4, SeedAssumption DEF OriginalWait, TimerOK, RetiringOK, LocksOK,
       FilesOK, NumbersOK, PhaseOK, Idle, Contents, Pairs, Nothing, None, Torn,
       NoOp, Preparing, GivingUp, Retiring, ApplySteps, Stopping, Returning,
       Restoring, Recovering, Keeping, Renewing, Installing, Originals
  <2> QED
    BY <2>1, <2>2, <2>3, <2>4
<1>11. ReturningOK'
  BY SeedAssumption DEF Check, Issue, InstallUnlink, OriginalWait, ReturningOK,
     LocksOK, FilesOK, PairOK, PhaseOK, RetiringOK, TimerOK, NumbersOK, Idle,
     Whole, Contents, Pairs, Nothing, None, Torn, NoOp, Preparing, GivingUp,
     Retiring, ApplySteps, Stopping, Returning, Restoring, Recovering, Keeping,
     Renewing, Installing, Originals
<1> QED
  BY <1>1, <1>2, <1>3, <1>4, <1>5, <1>6, <1>7, <1>8, <1>9, <1>10, <1>11

\* The writer turns back when the renewed pair is not served.
LEMMA WriterTurnsBack ==
  ASSUME SeedInvariant,
         InstallWait
  PROVE  SeedInvariant'
<1> USE DEF SeedInvariant, files, service, host, Quiet, NoFault,
        At, Step, OpGoes, OpEnds
<1>1. SwitchesOK'
  BY Zenon DEF SwitchesOK, InstallWait
<1>2. /\ w.pc = "iwait" /\ w.who = "service" /\ w' \in Writers /\ w'.who = w.who
      /\ \/ w'.pc = "iunlink" /\ w'.back = w.back /\ loaded = issued
         \/ w'.pc = "recover" /\ w'.back
  <2>1. /\ w.pc = "iwait" /\ w.who = "service" /\ w \in Writers /\ "iunlink" \in PCs
    BY DEF InstallWait, LocksOK, Writers, PCs, Recovering, Restoring, Originals,
       Installing
  <2>2. (Goes("iunlink") /\ loaded = issued) \/ w' = [w EXCEPT !.pc = "recover", !.back = TRUE]
    BY DEF InstallWait, Goes
  <2> QED
    BY <2>1, <2>2, LockKept, RenewalTurnsBack
<1>3. NumbersOK'
  BY <1>2 DEF InstallWait, NumbersOK
<1>4. LocksOK'
  BY <1>2 DEF InstallWait, LocksOK, Restoring, Recovering, Keeping, Renewing,
     Installing, Originals
<1>5. FilesOK'
  BY SeedAssumption DEF InstallWait, FilesOK, LocksOK, NumbersOK, PairOK,
     PhaseOK, TimerOK, Idle, Whole, Contents, Pairs, Nothing, None, Torn,
     Returning, Stopping, GivingUp, Retiring, Preparing, Restoring, Recovering,
     Keeping, Renewing, Installing, Originals
<1>6. PairOK'
  BY SeedAssumption DEF InstallWait, PairOK, FilesOK, LocksOK, NumbersOK,
     PhaseOK, TimerOK, RetiringOK, Idle, Whole, Contents, Pairs, Nothing, None,
     Torn, NoOp, Preparing, GivingUp, Retiring, ApplySteps, Stopping, Returning,
     Restoring, Recovering, Keeping, Renewing, Installing, Originals
<1>7. PhaseOK'
  BY SeedAssumption DEF InstallWait, PhaseOK, LocksOK, RetiringOK, TimerOK,
     ReturningOK, Idle, NoOp, Preparing, GivingUp, Retiring, ApplySteps,
     Stopping, Returning, Restoring, Recovering, Keeping, Renewing, Installing,
     Originals
<1>8. FirstRenewal'
  BY SeedAssumption DEF InstallWait, FirstRenewal, PhaseOK, LocksOK, FilesOK,
     NumbersOK, TimerOK, Idle, Nothing, Fresh, Contents, Pairs, NoOp, Preparing,
     GivingUp, Retiring, ApplySteps, Stopping, Returning, Restoring, Recovering,
     Keeping, Renewing, Installing, Originals
<1>9. RetiringOK'
  BY SeedAssumption DEF InstallWait, RetiringOK, LocksOK, FirstRenewal, PhaseOK,
     TimerOK, Idle, NoOp, Preparing, GivingUp, Retiring, ApplySteps, Stopping,
     Returning, Restoring, Recovering, Keeping, Renewing, Installing, Originals
<1>10. TimerOK'
  BY SeedAssumption DEF InstallWait, TimerOK, RetiringOK, LocksOK, FilesOK,
     NumbersOK, PhaseOK, Idle, Contents, Pairs, Nothing, None, Torn, NoOp,
     Preparing, GivingUp, Retiring, ApplySteps, Stopping, Returning, Restoring,
     Recovering, Keeping, Renewing, Installing, Originals
<1>11. ReturningOK'
  BY SeedAssumption DEF InstallWait, ReturningOK, LocksOK, FilesOK, PairOK,
     PhaseOK, RetiringOK, TimerOK, NumbersOK, Idle, Whole, Contents, Pairs,
     Nothing, None, Torn, NoOp, Preparing, GivingUp, Retiring, ApplySteps,
     Stopping, Returning, Restoring, Recovering, Keeping, Renewing, Installing,
     Originals
<1> QED
  BY <1>1, <1>2, <1>3, <1>4, <1>5, <1>6, <1>7, <1>8, <1>9, <1>10, <1>11

\* The operator's worker outside renew.lock: the files and their writer
\* stay.
LEMMA OperatorStep ==
  ASSUME SeedInvariant,
         Adopt \/ StageUnits \/ Prepare \/ StopHelper \/ Staging \/ Verified
             \/ RestartHelper
         \/ RemovePackage \/ RemoveHelper \/ EnableTimer \/ Adopted \/
         Rollback \/ DisableTimer \/ Reinstall \/ RestoreHelper \/
         StartHelper \/ RolledBack
  PROVE  SeedInvariant'
<1> USE DEF SeedInvariant, files, service, host, Quiet, NoFault,
        At, Step, OpGoes, OpEnds
<1>1. SwitchesOK'
  <2>1. CASE RestoreHelper
    <3>1. CASE UNCHANGED helper
      BY <2>1, <3>1, Zenon DEF RestoreHelper, SwitchesOK
    <3>2. CASE helper' = [there |-> TRUE, original |-> FALSE, up |-> FALSE]
      BY <2>1, <3>2 DEF RestoreHelper, SwitchesOK
    <3> QED
      BY <2>1, <3>1, <3>2 DEF RestoreHelper
  <2>2. CASE Adopt \/ StageUnits \/ Prepare \/ StopHelper \/ Staging \/ Verified
             \/ RestartHelper \/
             RemovePackage \/ RemoveHelper \/ EnableTimer \/ Adopted
             \/ Rollback \/ DisableTimer \/ Reinstall \/ StartHelper
             \/ RolledBack
    BY <2>2, Zenon DEF SwitchesOK, Adopt, StageUnits, Prepare, StopHelper, Staging, Verified,
       RestartHelper, RemovePackage, RemoveHelper, EnableTimer, Adopted,
       Rollback, DisableTimer, Reinstall, StartHelper, RolledBack
  <2> QED
    BY <2>1, <2>2
<1>2. NumbersOK'
  <2>1. CASE Adopt
    BY <2>1, SeedAssumption DEF Adopt, OpEnds, Unlocked, TLSProved, MayRollBack,
       NumbersOK, LocksOK, FilesOK, Whole, Contents, Pairs, Nothing, None, Torn,
       Restoring, Recovering, Keeping, Renewing, Installing, Originals, NoOp,
       Preparing, GivingUp, Retiring, ApplySteps, Stopping, Returning
  <2>2. CASE StopHelper
    BY <2>2, SeedAssumption DEF StopHelper, OpEnds, Unlocked, TLSProved,
       MayRollBack, NumbersOK, LocksOK, FilesOK, Whole, Contents, Pairs,
       Nothing, None, Torn, Restoring, Recovering, Keeping, Renewing,
       Installing, Originals, NoOp, Preparing, GivingUp, Retiring, ApplySteps,
       Stopping, Returning
  <2>3. CASE Staging
    BY <2>3, SeedAssumption DEF Staging, OpEnds, Unlocked, TLSProved,
       MayRollBack, NumbersOK, LocksOK, FilesOK, Whole, Contents, Pairs,
       Nothing, None, Torn, Restoring, Recovering, Keeping, Renewing,
       Installing, Originals, NoOp, Preparing, GivingUp, Retiring, ApplySteps,
       Stopping, Returning
  <2>4. CASE Verified
    BY <2>4, SeedAssumption DEF Verified, OpEnds, Unlocked, TLSProved,
       MayRollBack, NumbersOK, LocksOK, FilesOK, Whole, Contents, Pairs,
       Nothing, None, Torn, Restoring, Recovering, Keeping, Renewing,
       Installing, Originals, NoOp, Preparing, GivingUp, Retiring, ApplySteps,
       Stopping, Returning
  <2>5. CASE RestartHelper
    BY <2>5, SeedAssumption DEF RestartHelper, OpEnds, Unlocked, TLSProved,
       MayRollBack, NumbersOK, LocksOK, FilesOK, Whole, Contents, Pairs,
       Nothing, None, Torn, Restoring, Recovering, Keeping, Renewing,
       Installing, Originals, NoOp, Preparing, GivingUp, Retiring, ApplySteps,
       Stopping, Returning
  <2>6. CASE RemovePackage
    BY <2>6, SeedAssumption DEF RemovePackage, OpEnds, Unlocked, TLSProved,
       MayRollBack, NumbersOK, LocksOK, FilesOK, Whole, Contents, Pairs,
       Nothing, None, Torn, Restoring, Recovering, Keeping, Renewing,
       Installing, Originals, NoOp, Preparing, GivingUp, Retiring, ApplySteps,
       Stopping, Returning
  <2>7. CASE RemoveHelper
    BY <2>7, SeedAssumption DEF RemoveHelper, OpEnds, Unlocked, TLSProved,
       MayRollBack, NumbersOK, LocksOK, FilesOK, Whole, Contents, Pairs,
       Nothing, None, Torn, Restoring, Recovering, Keeping, Renewing,
       Installing, Originals, NoOp, Preparing, GivingUp, Retiring, ApplySteps,
       Stopping, Returning
  <2>8. CASE EnableTimer
    BY <2>8, SeedAssumption DEF EnableTimer, OpEnds, Unlocked, TLSProved,
       MayRollBack, NumbersOK, LocksOK, FilesOK, Whole, Contents, Pairs,
       Nothing, None, Torn, Restoring, Recovering, Keeping, Renewing,
       Installing, Originals, NoOp, Preparing, GivingUp, Retiring, ApplySteps,
       Stopping, Returning
  <2>9. CASE Adopted
    BY <2>9, SeedAssumption DEF Adopted, OpEnds, Unlocked, TLSProved,
       MayRollBack, NumbersOK, LocksOK, FilesOK, Whole, Contents, Pairs,
       Nothing, None, Torn, Restoring, Recovering, Keeping, Renewing,
       Installing, Originals, NoOp, Preparing, GivingUp, Retiring, ApplySteps,
       Stopping, Returning
  <2>10. CASE Rollback
    BY <2>10, SeedAssumption DEF Rollback, OpEnds, Unlocked, TLSProved,
       MayRollBack, NumbersOK, LocksOK, FilesOK, Whole, Contents, Pairs,
       Nothing, None, Torn, Restoring, Recovering, Keeping, Renewing,
       Installing, Originals, NoOp, Preparing, GivingUp, Retiring, ApplySteps,
       Stopping, Returning
  <2>11. CASE DisableTimer
    BY <2>11, SeedAssumption DEF DisableTimer, OpEnds, Unlocked, TLSProved,
       MayRollBack, NumbersOK, LocksOK, FilesOK, Whole, Contents, Pairs,
       Nothing, None, Torn, Restoring, Recovering, Keeping, Renewing,
       Installing, Originals, NoOp, Preparing, GivingUp, Retiring, ApplySteps,
       Stopping, Returning
  <2>12. CASE Reinstall
    BY <2>12, SeedAssumption DEF Reinstall, OpEnds, Unlocked, TLSProved,
       MayRollBack, NumbersOK, LocksOK, FilesOK, Whole, Contents, Pairs,
       Nothing, None, Torn, Restoring, Recovering, Keeping, Renewing,
       Installing, Originals, NoOp, Preparing, GivingUp, Retiring, ApplySteps,
       Stopping, Returning
  <2>13. CASE RestoreHelper
    BY <2>13, SeedAssumption DEF RestoreHelper, OpEnds, Unlocked, TLSProved,
       MayRollBack, NumbersOK, LocksOK, FilesOK, Whole, Contents, Pairs,
       Nothing, None, Torn, Restoring, Recovering, Keeping, Renewing,
       Installing, Originals, NoOp, Preparing, GivingUp, Retiring, ApplySteps,
       Stopping, Returning
  <2>14. CASE StartHelper
    BY <2>14, SeedAssumption DEF StartHelper, OpEnds, Unlocked, TLSProved,
       MayRollBack, NumbersOK, LocksOK, FilesOK, Whole, Contents, Pairs,
       Nothing, None, Torn, Restoring, Recovering, Keeping, Renewing,
       Installing, Originals, NoOp, Preparing, GivingUp, Retiring, ApplySteps,
       Stopping, Returning
  <2>15. CASE RolledBack
    BY <2>15, SeedAssumption DEF RolledBack, OpEnds, Unlocked, TLSProved,
       MayRollBack, NumbersOK, LocksOK, FilesOK, Whole, Contents, Pairs,
       Nothing, None, Torn, Restoring, Recovering, Keeping, Renewing,
       Installing, Originals, NoOp, Preparing, GivingUp, Retiring, ApplySteps,
       Stopping, Returning
  <2>16. CASE Prepare
    BY <2>16, SeedAssumption DEF Prepare, OpEnds, Unlocked, TLSProved,
       MayRollBack, NumbersOK, LocksOK, FilesOK, Whole, Contents, Pairs,
       Nothing, None, Torn, Restoring, Recovering, Keeping, Renewing,
       Installing, Originals, NoOp, Preparing, GivingUp, Retiring, ApplySteps,
       Stopping, Returning
  <2>17. CASE StageUnits
    BY <2>17, SeedAssumption DEF StageUnits, OpEnds, Unlocked, TLSProved,
       MayRollBack, NumbersOK, LocksOK, FilesOK, Whole, Contents, Pairs,
       Nothing, None, Torn, Restoring, Recovering, Keeping, Renewing,
       Installing, Originals, NoOp, Preparing, GivingUp, Retiring, ApplySteps,
       Stopping, Returning
  <2> QED
    BY <2>1, <2>2, <2>3, <2>4, <2>5, <2>6, <2>7, <2>8, <2>9, <2>10, <2>11, <2>12, <2>13, <2>14,
       <2>15, <2>16, <2>17
<1>3. LocksOK'
  BY SeedAssumption DEF Adopt, StageUnits, Prepare, StopHelper, Staging, Verified,
     RestartHelper,
     RemovePackage, RemoveHelper, EnableTimer, Adopted, Rollback, DisableTimer,
     Reinstall, RestoreHelper, StartHelper, RolledBack, OpEnds, Unlocked,
     TLSProved, MayRollBack, LocksOK, PhaseOK, TimerOK, Idle, PCs, NoOp,
     Preparing, GivingUp, Retiring, ApplySteps, Stopping, Returning, Restoring,
     Recovering, Keeping, Renewing, Installing, Originals
<1>4. FilesOK'
  BY SeedAssumption DEF Adopt, StageUnits, Prepare, StopHelper, Staging, Verified,
     RestartHelper,
     RemovePackage, RemoveHelper, EnableTimer, Adopted, Rollback, DisableTimer,
     Reinstall, RestoreHelper, StartHelper, RolledBack, OpEnds, Unlocked,
     TLSProved, MayRollBack, FilesOK, LocksOK, NumbersOK, PairOK, PhaseOK,
     TimerOK, Idle, Whole, Contents, Pairs, Nothing, None, Torn, Returning,
     Stopping, GivingUp, Retiring, Preparing, Restoring, Recovering, Keeping,
     Renewing, Installing, Originals
<1>5. PairOK'
  BY SeedAssumption DEF Adopt, StageUnits, Prepare, StopHelper, Staging, Verified,
     RestartHelper,
     RemovePackage, RemoveHelper, EnableTimer, Adopted, Rollback, DisableTimer,
     Reinstall, RestoreHelper, StartHelper, RolledBack, OpEnds, Unlocked,
     TLSProved, MayRollBack, PairOK, FilesOK, LocksOK, NumbersOK, PhaseOK,
     TimerOK, RetiringOK, Idle, Whole, Contents, Pairs, Nothing, None, Torn,
     NoOp, Preparing, GivingUp, Retiring, ApplySteps, Stopping, Returning,
     Restoring, Recovering, Keeping, Renewing, Installing, Originals
<1>6. PhaseOK'
  BY SeedAssumption DEF Adopt, StageUnits, Prepare, StopHelper, Staging, Verified,
     RestartHelper,
     RemovePackage, RemoveHelper, EnableTimer, Adopted, Rollback, DisableTimer,
     Reinstall, RestoreHelper, StartHelper, RolledBack, OpEnds, Unlocked,
     TLSProved, MayRollBack, PhaseOK, LocksOK, RetiringOK, TimerOK, ReturningOK,
     Idle, NoOp, Preparing, GivingUp, Retiring, ApplySteps, Stopping, Returning,
     Restoring, Recovering, Keeping, Renewing, Installing, Originals
<1>7. FirstRenewal'
  BY SeedAssumption DEF Adopt, StageUnits, Prepare, StopHelper, Staging, Verified,
     RestartHelper,
     RemovePackage, RemoveHelper, EnableTimer, Adopted, Rollback, DisableTimer,
     Reinstall, RestoreHelper, StartHelper, RolledBack, OpEnds, Unlocked,
     TLSProved, MayRollBack, FirstRenewal, PhaseOK, LocksOK, FilesOK, NumbersOK,
     TimerOK, Idle, Nothing, Fresh, Contents, Pairs, NoOp, Preparing, GivingUp,
     Retiring, ApplySteps, Stopping, Returning, Restoring, Recovering, Keeping,
     Renewing, Installing, Originals
<1>8. RetiringOK'
  BY SeedAssumption DEF Adopt, StageUnits, Prepare, StopHelper, Staging, Verified,
     RestartHelper,
     RemovePackage, RemoveHelper, EnableTimer, Adopted, Rollback, DisableTimer,
     Reinstall, RestoreHelper, StartHelper, RolledBack, OpEnds, Unlocked,
     TLSProved, MayRollBack, RetiringOK, LocksOK, FirstRenewal, PhaseOK,
     TimerOK, Idle, NoOp, Preparing, GivingUp, Retiring, ApplySteps, Stopping,
     Returning, Restoring, Recovering, Keeping, Renewing, Installing, Originals
<1>9. TimerOK'
  <2>1. CASE Adopt
    BY <2>1, SeedAssumption DEF Adopt, OpEnds, Unlocked, TLSProved, MayRollBack,
       TimerOK, RetiringOK, LocksOK, FilesOK, NumbersOK, PhaseOK, Idle,
       Contents, Pairs, Nothing, None, Torn, NoOp, Preparing, GivingUp,
       Retiring, ApplySteps, Stopping, Returning, Restoring, Recovering,
       Keeping, Renewing, Installing, Originals
  <2>2. CASE StopHelper
    BY <2>2, SeedAssumption DEF StopHelper, OpEnds, Unlocked, TLSProved,
       MayRollBack, TimerOK, RetiringOK, LocksOK, FilesOK, NumbersOK, PhaseOK,
       Idle, Contents, Pairs, Nothing, None, Torn, NoOp, Preparing, GivingUp,
       Retiring, ApplySteps, Stopping, Returning, Restoring, Recovering,
       Keeping, Renewing, Installing, Originals
  <2>3. CASE Staging
    BY <2>3, SeedAssumption DEF Staging, OpEnds, Unlocked, TLSProved,
       MayRollBack, TimerOK, RetiringOK, LocksOK, FilesOK, NumbersOK, PhaseOK,
       Idle, Contents, Pairs, Nothing, None, Torn, NoOp, Preparing, GivingUp,
       Retiring, ApplySteps, Stopping, Returning, Restoring, Recovering,
       Keeping, Renewing, Installing, Originals
  <2>4. CASE Verified
    BY <2>4, SeedAssumption DEF Verified, OpEnds, Unlocked, TLSProved,
       MayRollBack, TimerOK, RetiringOK, LocksOK, FilesOK, NumbersOK, PhaseOK,
       Idle, Contents, Pairs, Nothing, None, Torn, NoOp, Preparing, GivingUp,
       Retiring, ApplySteps, Stopping, Returning, Restoring, Recovering,
       Keeping, Renewing, Installing, Originals
  <2>5. CASE RestartHelper
    BY <2>5, SeedAssumption DEF RestartHelper, OpEnds, Unlocked, TLSProved,
       MayRollBack, TimerOK, RetiringOK, LocksOK, FilesOK, NumbersOK, PhaseOK,
       Idle, Contents, Pairs, Nothing, None, Torn, NoOp, Preparing, GivingUp,
       Retiring, ApplySteps, Stopping, Returning, Restoring, Recovering,
       Keeping, Renewing, Installing, Originals
  <2>6. CASE RemovePackage
    BY <2>6, SeedAssumption DEF RemovePackage, OpEnds, Unlocked, TLSProved,
       MayRollBack, TimerOK, RetiringOK, LocksOK, FilesOK, NumbersOK, PhaseOK,
       Idle, Contents, Pairs, Nothing, None, Torn, NoOp, Preparing, GivingUp,
       Retiring, ApplySteps, Stopping, Returning, Restoring, Recovering,
       Keeping, Renewing, Installing, Originals
  <2>7. CASE RemoveHelper
    BY <2>7, SeedAssumption DEF RemoveHelper, OpEnds, Unlocked, TLSProved,
       MayRollBack, TimerOK, RetiringOK, LocksOK, FilesOK, NumbersOK, PhaseOK,
       Idle, Contents, Pairs, Nothing, None, Torn, NoOp, Preparing, GivingUp,
       Retiring, ApplySteps, Stopping, Returning, Restoring, Recovering,
       Keeping, Renewing, Installing, Originals
  <2>8. CASE EnableTimer
    BY <2>8, SeedAssumption DEF EnableTimer, OpEnds, Unlocked, TLSProved,
       MayRollBack, TimerOK, RetiringOK, LocksOK, FilesOK, NumbersOK, PhaseOK,
       Idle, Contents, Pairs, Nothing, None, Torn, NoOp, Preparing, GivingUp,
       Retiring, ApplySteps, Stopping, Returning, Restoring, Recovering,
       Keeping, Renewing, Installing, Originals
  <2>9. CASE Adopted
    BY <2>9, SeedAssumption DEF Adopted, OpEnds, Unlocked, TLSProved,
       MayRollBack, TimerOK, RetiringOK, LocksOK, FilesOK, NumbersOK, PhaseOK,
       Idle, Contents, Pairs, Nothing, None, Torn, NoOp, Preparing, GivingUp,
       Retiring, ApplySteps, Stopping, Returning, Restoring, Recovering,
       Keeping, Renewing, Installing, Originals
  <2>10. CASE Rollback
    BY <2>10, SeedAssumption DEF Rollback, OpEnds, Unlocked, TLSProved,
       MayRollBack, TimerOK, RetiringOK, LocksOK, FilesOK, NumbersOK, PhaseOK,
       Idle, Contents, Pairs, Nothing, None, Torn, NoOp, Preparing, GivingUp,
       Retiring, ApplySteps, Stopping, Returning, Restoring, Recovering,
       Keeping, Renewing, Installing, Originals
  <2>11. CASE DisableTimer
    BY <2>11, SeedAssumption DEF DisableTimer, OpEnds, Unlocked, TLSProved,
       MayRollBack, TimerOK, RetiringOK, LocksOK, FilesOK, NumbersOK, PhaseOK,
       Idle, Contents, Pairs, Nothing, None, Torn, NoOp, Preparing, GivingUp,
       Retiring, ApplySteps, Stopping, Returning, Restoring, Recovering,
       Keeping, Renewing, Installing, Originals
  <2>12. CASE Reinstall
    BY <2>12, SeedAssumption DEF Reinstall, OpEnds, Unlocked, TLSProved,
       MayRollBack, TimerOK, RetiringOK, LocksOK, FilesOK, NumbersOK, PhaseOK,
       Idle, Contents, Pairs, Nothing, None, Torn, NoOp, Preparing, GivingUp,
       Retiring, ApplySteps, Stopping, Returning, Restoring, Recovering,
       Keeping, Renewing, Installing, Originals
  <2>13. CASE RestoreHelper
    BY <2>13, SeedAssumption DEF RestoreHelper, OpEnds, Unlocked, TLSProved,
       MayRollBack, TimerOK, RetiringOK, LocksOK, FilesOK, NumbersOK, PhaseOK,
       Idle, Contents, Pairs, Nothing, None, Torn, NoOp, Preparing, GivingUp,
       Retiring, ApplySteps, Stopping, Returning, Restoring, Recovering,
       Keeping, Renewing, Installing, Originals
  <2>14. CASE StartHelper
    BY <2>14, SeedAssumption DEF StartHelper, OpEnds, Unlocked, TLSProved,
       MayRollBack, TimerOK, RetiringOK, LocksOK, FilesOK, NumbersOK, PhaseOK,
       Idle, Contents, Pairs, Nothing, None, Torn, NoOp, Preparing, GivingUp,
       Retiring, ApplySteps, Stopping, Returning, Restoring, Recovering,
       Keeping, Renewing, Installing, Originals
  <2>15. CASE RolledBack
    BY <2>15, SeedAssumption DEF RolledBack, OpEnds, Unlocked, TLSProved,
       MayRollBack, TimerOK, RetiringOK, LocksOK, FilesOK, NumbersOK, PhaseOK,
       Idle, Contents, Pairs, Nothing, None, Torn, NoOp, Preparing, GivingUp,
       Retiring, ApplySteps, Stopping, Returning, Restoring, Recovering,
       Keeping, Renewing, Installing, Originals
  <2>16. CASE Prepare
    BY <2>16, SeedAssumption DEF Prepare, OpEnds, Unlocked, TLSProved,
       MayRollBack, TimerOK, RetiringOK, LocksOK, FilesOK, NumbersOK, PhaseOK,
       Idle, Contents, Pairs, Nothing, None, Torn, NoOp, Preparing, GivingUp,
       Retiring, ApplySteps, Stopping, Returning, Restoring, Recovering,
       Keeping, Renewing, Installing, Originals
  <2>17. CASE StageUnits
    BY <2>17, SeedAssumption DEF StageUnits, OpEnds, Unlocked, TLSProved,
       MayRollBack, TimerOK, RetiringOK, LocksOK, FilesOK, NumbersOK, PhaseOK,
       Idle, Contents, Pairs, Nothing, None, Torn, NoOp, Preparing, GivingUp,
       Retiring, ApplySteps, Stopping, Returning, Restoring, Recovering,
       Keeping, Renewing, Installing, Originals
  <2> QED
    BY <2>1, <2>2, <2>3, <2>4, <2>5, <2>6, <2>7, <2>8, <2>9, <2>10, <2>11, <2>12, <2>13, <2>14,
       <2>15, <2>16, <2>17
<1>10. ReturningOK'
  <2>1. CASE Adopt
    BY <2>1, SeedAssumption DEF Adopt, OpEnds, Unlocked, TLSProved, MayRollBack,
       ReturningOK, LocksOK, FilesOK, PairOK, PhaseOK, RetiringOK, TimerOK,
       NumbersOK, Idle, Whole, Contents, Pairs, Nothing, None, Torn, NoOp,
       Preparing, GivingUp, Retiring, ApplySteps, Stopping, Returning,
       Restoring, Recovering, Keeping, Renewing, Installing, Originals
  <2>2. CASE StopHelper
    BY <2>2, SeedAssumption DEF StopHelper, OpEnds, Unlocked, TLSProved,
       MayRollBack, ReturningOK, LocksOK, FilesOK, PairOK, PhaseOK, RetiringOK,
       TimerOK, NumbersOK, Idle, Whole, Contents, Pairs, Nothing, None, Torn,
       NoOp, Preparing, GivingUp, Retiring, ApplySteps, Stopping, Returning,
       Restoring, Recovering, Keeping, Renewing, Installing, Originals
  <2>3. CASE Staging
    BY <2>3, SeedAssumption DEF Staging, OpEnds, Unlocked, TLSProved,
       MayRollBack, ReturningOK, LocksOK, FilesOK, PairOK, PhaseOK, RetiringOK,
       TimerOK, NumbersOK, Idle, Whole, Contents, Pairs, Nothing, None, Torn,
       NoOp, Preparing, GivingUp, Retiring, ApplySteps, Stopping, Returning,
       Restoring, Recovering, Keeping, Renewing, Installing, Originals
  <2>4. CASE Verified
    BY <2>4, SeedAssumption DEF Verified, OpEnds, Unlocked, TLSProved,
       MayRollBack, ReturningOK, LocksOK, FilesOK, PairOK, PhaseOK, RetiringOK,
       TimerOK, NumbersOK, Idle, Whole, Contents, Pairs, Nothing, None, Torn,
       NoOp, Preparing, GivingUp, Retiring, ApplySteps, Stopping, Returning,
       Restoring, Recovering, Keeping, Renewing, Installing, Originals
  <2>5. CASE RestartHelper
    BY <2>5, SeedAssumption DEF RestartHelper, OpEnds, Unlocked, TLSProved,
       MayRollBack, ReturningOK, LocksOK, FilesOK, PairOK, PhaseOK, RetiringOK,
       TimerOK, NumbersOK, Idle, Whole, Contents, Pairs, Nothing, None, Torn,
       NoOp, Preparing, GivingUp, Retiring, ApplySteps, Stopping, Returning,
       Restoring, Recovering, Keeping, Renewing, Installing, Originals
  <2>6. CASE RemovePackage
    BY <2>6, SeedAssumption DEF RemovePackage, OpEnds, Unlocked, TLSProved,
       MayRollBack, ReturningOK, LocksOK, FilesOK, PairOK, PhaseOK, RetiringOK,
       TimerOK, NumbersOK, Idle, Whole, Contents, Pairs, Nothing, None, Torn,
       NoOp, Preparing, GivingUp, Retiring, ApplySteps, Stopping, Returning,
       Restoring, Recovering, Keeping, Renewing, Installing, Originals
  <2>7. CASE RemoveHelper
    BY <2>7, SeedAssumption DEF RemoveHelper, OpEnds, Unlocked, TLSProved,
       MayRollBack, ReturningOK, LocksOK, FilesOK, PairOK, PhaseOK, RetiringOK,
       TimerOK, NumbersOK, Idle, Whole, Contents, Pairs, Nothing, None, Torn,
       NoOp, Preparing, GivingUp, Retiring, ApplySteps, Stopping, Returning,
       Restoring, Recovering, Keeping, Renewing, Installing, Originals
  <2>8. CASE EnableTimer
    BY <2>8, SeedAssumption DEF EnableTimer, OpEnds, Unlocked, TLSProved,
       MayRollBack, ReturningOK, LocksOK, FilesOK, PairOK, PhaseOK, RetiringOK,
       TimerOK, NumbersOK, Idle, Whole, Contents, Pairs, Nothing, None, Torn,
       NoOp, Preparing, GivingUp, Retiring, ApplySteps, Stopping, Returning,
       Restoring, Recovering, Keeping, Renewing, Installing, Originals
  <2>9. CASE Adopted
    BY <2>9, SeedAssumption DEF Adopted, OpEnds, Unlocked, TLSProved,
       MayRollBack, ReturningOK, LocksOK, FilesOK, PairOK, PhaseOK, RetiringOK,
       TimerOK, NumbersOK, Idle, Whole, Contents, Pairs, Nothing, None, Torn,
       NoOp, Preparing, GivingUp, Retiring, ApplySteps, Stopping, Returning,
       Restoring, Recovering, Keeping, Renewing, Installing, Originals
  <2>10. CASE Rollback
    BY <2>10, SeedAssumption DEF Rollback, OpEnds, Unlocked, TLSProved,
       MayRollBack, ReturningOK, LocksOK, FilesOK, PairOK, PhaseOK, RetiringOK,
       TimerOK, NumbersOK, Idle, Whole, Contents, Pairs, Nothing, None, Torn,
       NoOp, Preparing, GivingUp, Retiring, ApplySteps, Stopping, Returning,
       Restoring, Recovering, Keeping, Renewing, Installing, Originals
  <2>11. CASE DisableTimer
    BY <2>11, SeedAssumption DEF DisableTimer, OpEnds, Unlocked, TLSProved,
       MayRollBack, ReturningOK, LocksOK, FilesOK, PairOK, PhaseOK, RetiringOK,
       TimerOK, NumbersOK, Idle, Whole, Contents, Pairs, Nothing, None, Torn,
       NoOp, Preparing, GivingUp, Retiring, ApplySteps, Stopping, Returning,
       Restoring, Recovering, Keeping, Renewing, Installing, Originals
  <2>12. CASE Reinstall
    BY <2>12, SeedAssumption DEF Reinstall, OpEnds, Unlocked, TLSProved,
       MayRollBack, ReturningOK, LocksOK, FilesOK, PairOK, PhaseOK, RetiringOK,
       TimerOK, NumbersOK, Idle, Whole, Contents, Pairs, Nothing, None, Torn,
       NoOp, Preparing, GivingUp, Retiring, ApplySteps, Stopping, Returning,
       Restoring, Recovering, Keeping, Renewing, Installing, Originals
  <2>13. CASE RestoreHelper
    BY <2>13, SeedAssumption DEF RestoreHelper, OpEnds, Unlocked, TLSProved,
       MayRollBack, ReturningOK, LocksOK, FilesOK, PairOK, PhaseOK, RetiringOK,
       TimerOK, NumbersOK, Idle, Whole, Contents, Pairs, Nothing, None, Torn,
       NoOp, Preparing, GivingUp, Retiring, ApplySteps, Stopping, Returning,
       Restoring, Recovering, Keeping, Renewing, Installing, Originals
  <2>14. CASE StartHelper
    BY <2>14, SeedAssumption DEF StartHelper, OpEnds, Unlocked, TLSProved,
       MayRollBack, ReturningOK, LocksOK, FilesOK, PairOK, PhaseOK, RetiringOK,
       TimerOK, NumbersOK, Idle, Whole, Contents, Pairs, Nothing, None, Torn,
       NoOp, Preparing, GivingUp, Retiring, ApplySteps, Stopping, Returning,
       Restoring, Recovering, Keeping, Renewing, Installing, Originals
  <2>15. CASE RolledBack
    BY <2>15, SeedAssumption DEF RolledBack, OpEnds, Unlocked, TLSProved,
       MayRollBack, ReturningOK, LocksOK, FilesOK, PairOK, PhaseOK, RetiringOK,
       TimerOK, NumbersOK, Idle, Whole, Contents, Pairs, Nothing, None, Torn,
       NoOp, Preparing, GivingUp, Retiring, ApplySteps, Stopping, Returning,
       Restoring, Recovering, Keeping, Renewing, Installing, Originals
  <2>16. CASE Prepare
    BY <2>16, SeedAssumption DEF Prepare, OpEnds, Unlocked, TLSProved,
       MayRollBack, ReturningOK, LocksOK, FilesOK, PairOK, PhaseOK, RetiringOK,
       TimerOK, NumbersOK, Idle, Whole, Contents, Pairs, Nothing, None, Torn,
       NoOp, Preparing, GivingUp, Retiring, ApplySteps, Stopping, Returning,
       Restoring, Recovering, Keeping, Renewing, Installing, Originals
  <2>17. CASE StageUnits
    BY <2>17, SeedAssumption DEF StageUnits, OpEnds, Unlocked, TLSProved,
       MayRollBack, ReturningOK, LocksOK, FilesOK, PairOK, PhaseOK, RetiringOK,
       TimerOK, NumbersOK, Idle, Whole, Contents, Pairs, Nothing, None, Torn,
       NoOp, Preparing, GivingUp, Retiring, ApplySteps, Stopping, Returning,
       Restoring, Recovering, Keeping, Renewing, Installing, Originals
  <2> QED
    BY <2>1, <2>2, <2>3, <2>4, <2>5, <2>6, <2>7, <2>8, <2>9, <2>10, <2>11, <2>12, <2>13, <2>14,
       <2>15, <2>16, <2>17
<1> QED
  BY <1>1, <1>2, <1>3, <1>4, <1>5, <1>6, <1>7, <1>8, <1>9, <1>10

\* renew.lock is taken: by the service, once the operator's worker has
\* started it or under the timer, or by that worker.
LEMMA LockStep ==
  ASSUME SeedInvariant,
         StartService \/ Undo \/ RestorePair \/ TimerFires
  PROVE  SeedInvariant'
<1> USE DEF SeedInvariant, files, service, host, Quiet, NoFault,
        At, Step, OpGoes, OpEnds
<1>1. SwitchesOK'
  BY Zenon DEF SwitchesOK, StartService, Undo, RestorePair, TimerFires, Unlocked
<1>2. /\ w' \in Writers /\ w.who = "none" /\ w'.pc = "recover" /\ ~w'.back
      /\ w'.who \in {"service", "apply", "rollback"}
      /\ StartService \/ TimerFires => w'.who = "service"
      /\ Undo => w'.who = "apply"
      /\ RestorePair => w'.who = "rollback"
  BY LockTaken DEF StartService, Undo, RestorePair, TimerFires, Unlocked
<1>3. NumbersOK'
  BY <1>2 DEF StartService, Undo, RestorePair, TimerFires, NumbersOK, LocksOK,
     ApplySteps, Preparing, GivingUp, Retiring, Stopping, Returning, NoOp
<1>4. LocksOK'
  BY <1>2 DEF StartService, Undo, RestorePair, TimerFires, LocksOK, PhaseOK,
     TimerOK, Recovering, Retiring, Preparing, GivingUp, ApplySteps, Stopping,
     Returning, NoOp
<1>5. FilesOK'
  BY <1>2 DEF StartService, Undo, RestorePair, TimerFires, FilesOK, Restoring,
     Recovering, Keeping, Renewing, Installing, Originals
<1>6. PairOK'
  BY <1>2, SeedAssumption DEF StartService, Undo, RestorePair, TimerFires,
     PairOK, PhaseOK, TimerOK, Preparing, Whole, Pairs
<1>7. PhaseOK'
  BY SeedAssumption DEF StartService, Undo, RestorePair, TimerFires, Unlocked,
     PhaseOK, LocksOK, RetiringOK, TimerOK, ReturningOK, Idle, NoOp, Preparing,
     GivingUp, Retiring, ApplySteps, Stopping, Returning, Restoring, Recovering,
     Keeping, Renewing, Installing, Originals
<1>8. FirstRenewal'
  BY <1>2 DEF StartService, Undo, RestorePair, TimerFires, FirstRenewal,
     LocksOK, PhaseOK, TimerOK, NoOp, Restoring, ApplySteps, Preparing,
     GivingUp, Retiring, Stopping, Returning
<1>9. RetiringOK'
  BY SeedAssumption DEF StartService, Undo, RestorePair, TimerFires, Unlocked,
     RetiringOK, LocksOK, FirstRenewal, PhaseOK, TimerOK, Idle, NoOp, Preparing,
     GivingUp, Retiring, ApplySteps, Stopping, Returning, Restoring, Recovering,
     Keeping, Renewing, Installing, Originals
<1>10. TimerOK'
  <2>1. CASE StartService
    BY <2>1, SeedAssumption DEF StartService, Unlocked, TimerOK, RetiringOK,
       LocksOK, FilesOK, NumbersOK, PhaseOK, Idle, Contents, Pairs, Nothing,
       None, Torn, NoOp, Preparing, GivingUp, Retiring, ApplySteps, Stopping,
       Returning, Restoring, Recovering, Keeping, Renewing, Installing,
       Originals
  <2>2. CASE Undo
    BY <2>2, SeedAssumption DEF Undo, Unlocked, TimerOK, RetiringOK, LocksOK,
       FilesOK, NumbersOK, PhaseOK, Idle, Contents, Pairs, Nothing, None, Torn,
       NoOp, Preparing, GivingUp, Retiring, ApplySteps, Stopping, Returning,
       Restoring, Recovering, Keeping, Renewing, Installing, Originals
  <2>3. CASE RestorePair
    BY <2>3, SeedAssumption DEF RestorePair, Unlocked, TimerOK, RetiringOK,
       LocksOK, FilesOK, NumbersOK, PhaseOK, Idle, Contents, Pairs, Nothing,
       None, Torn, NoOp, Preparing, GivingUp, Retiring, ApplySteps, Stopping,
       Returning, Restoring, Recovering, Keeping, Renewing, Installing,
       Originals
  <2>4. CASE TimerFires
    BY <2>4, SeedAssumption DEF TimerFires, Unlocked, TimerOK, RetiringOK,
       LocksOK, FilesOK, NumbersOK, PhaseOK, Idle, Contents, Pairs, Nothing,
       None, Torn, NoOp, Preparing, GivingUp, Retiring, ApplySteps, Stopping,
       Returning, Restoring, Recovering, Keeping, Renewing, Installing,
       Originals
  <2> QED
    BY <2>1, <2>2, <2>3, <2>4
<1>11. ReturningOK'
  BY SeedAssumption DEF StartService, Undo, RestorePair, TimerFires, Unlocked,
     ReturningOK, LocksOK, FilesOK, PairOK, PhaseOK, RetiringOK, TimerOK,
     NumbersOK, Idle, Whole, Contents, Pairs, Nothing, None, Torn, NoOp,
     Preparing, GivingUp, Retiring, ApplySteps, Stopping, Returning, Restoring,
     Recovering, Keeping, Renewing, Installing, Originals
<1> QED
  BY <1>1, <1>2, <1>3, <1>4, <1>5, <1>6, <1>7, <1>8, <1>9, <1>10, <1>11

\* The worker reads what its recovery has come to, and lets the lock go.
LEMMA RecoveryRead ==
  ASSUME SeedInvariant,
         Undone \/ PairRestored
  PROVE  SeedInvariant'
<1> USE DEF SeedInvariant, files, service, host, Quiet, NoFault,
        At, Step, OpGoes, OpEnds
<1>1. SwitchesOK'
  BY Zenon DEF SwitchesOK, Undone, PairRestored, Ends
<1>2. NumbersOK'
  BY LockGivenUp DEF Undone, PairRestored, Ends, NumbersOK, LocksOK, Idle, NoOp
<1>3. LocksOK'
  BY SeedAssumption, LockGivenUp DEF Undone, PairRestored, Ends, LocksOK,
     PhaseOK, TimerOK, Idle, PCs, NoOp, Preparing, GivingUp, Retiring,
     ApplySteps, Stopping, Returning, Restoring, Recovering, Keeping, Renewing,
     Installing, Originals
<1>4. FilesOK'
  BY SeedAssumption, LockGivenUp DEF Undone, PairRestored, Ends, FilesOK,
     LocksOK, NumbersOK, PairOK, PhaseOK, TimerOK, Idle, Whole, Contents, Pairs,
     Nothing, None, Torn, Returning, Stopping, GivingUp, Retiring, Preparing,
     Restoring, Recovering, Keeping, Renewing, Installing, Originals
<1>5. PairOK'
  BY SeedAssumption, LockGivenUp DEF Undone, PairRestored, Ends, PairOK,
     FilesOK, LocksOK, NumbersOK, PhaseOK, TimerOK, RetiringOK, Idle, Whole,
     Contents, Pairs, Nothing, None, Torn, NoOp, Preparing, GivingUp, Retiring,
     ApplySteps, Stopping, Returning, Restoring, Recovering, Keeping, Renewing,
     Installing, Originals
<1>6. PhaseOK'
  BY SeedAssumption, LockGivenUp DEF Undone, PairRestored, Ends, PhaseOK,
     LocksOK, RetiringOK, TimerOK, ReturningOK, Idle, NoOp, Preparing, GivingUp,
     Retiring, ApplySteps, Stopping, Returning, Restoring, Recovering, Keeping,
     Renewing, Installing, Originals
<1>7. FirstRenewal'
  BY SeedAssumption, LockGivenUp DEF Undone, PairRestored, Ends, FirstRenewal,
     PhaseOK, LocksOK, FilesOK, NumbersOK, TimerOK, Idle, Nothing, Fresh,
     Contents, Pairs, NoOp, Preparing, GivingUp, Retiring, ApplySteps, Stopping,
     Returning, Restoring, Recovering, Keeping, Renewing, Installing, Originals
<1>8. RetiringOK'
  BY SeedAssumption, LockGivenUp DEF Undone, PairRestored, Ends, RetiringOK,
     LocksOK, FirstRenewal, PhaseOK, TimerOK, Idle, NoOp, Preparing, GivingUp,
     Retiring, ApplySteps, Stopping, Returning, Restoring, Recovering, Keeping,
     Renewing, Installing, Originals
<1>9. TimerOK'
  <2>1. CASE Undone
    BY <2>1, SeedAssumption, LockGivenUp DEF Undone, Ends, TimerOK, RetiringOK,
       LocksOK, FilesOK, NumbersOK, PhaseOK, Idle, Contents, Pairs, Nothing,
       None, Torn, NoOp, Preparing, GivingUp, Retiring, ApplySteps, Stopping,
       Returning, Restoring, Recovering, Keeping, Renewing, Installing,
       Originals
  <2>2. CASE PairRestored
    BY <2>2, SeedAssumption, LockGivenUp DEF PairRestored, Ends, TimerOK,
       RetiringOK, LocksOK, FilesOK, NumbersOK, PhaseOK, Idle, Contents, Pairs,
       Nothing, None, Torn, NoOp, Preparing, GivingUp, Retiring, ApplySteps,
       Stopping, Returning, Restoring, Recovering, Keeping, Renewing,
       Installing, Originals
  <2> QED
    BY <2>1, <2>2
<1>10. ReturningOK'
  BY SeedAssumption, LockGivenUp DEF Undone, PairRestored, Ends, ReturningOK,
     LocksOK, FilesOK, PairOK, PhaseOK, RetiringOK, TimerOK, NumbersOK, Idle,
     Whole, Contents, Pairs, Nothing, None, Torn, NoOp, Preparing, GivingUp,
     Retiring, ApplySteps, Stopping, Returning, Restoring, Recovering, Keeping,
     Renewing, Installing, Originals
<1> QED
  BY <1>1, <1>2, <1>3, <1>4, <1>5, <1>6, <1>7, <1>8, <1>9, <1>10

\* Whoever writes a file is killed, and the file is torn.
LEMMA KilledStep ==
  ASSUME SeedInvariant,
         StopService \/ ServiceKilled \/ WorkerKilled
  PROVE  SeedInvariant'
<1> USE DEF SeedInvariant, files, service, host, Quiet, NoFault,
        At, Step, OpGoes, OpEnds
<1>1. SwitchesOK'
  BY Zenon DEF SwitchesOK, StopService, ServiceKilled, WorkerKilled, Dies
<1>2. NumbersOK'
  BY LockGivenUp DEF StopService, ServiceKilled, WorkerKilled, Dies, NumbersOK,
     Contents, LocksOK, Idle, NoOp
<1>3. LocksOK'
  BY SeedAssumption, LockGivenUp DEF StopService, ServiceKilled, WorkerKilled,
     Dies, LocksOK, PhaseOK, TimerOK, Idle, PCs, NoOp, Preparing, GivingUp,
     Retiring, ApplySteps, Stopping, Returning, Restoring, Recovering, Keeping,
     Renewing, Installing, Originals
<1>4. FilesOK'
  BY SeedAssumption, LockGivenUp DEF StopService, ServiceKilled, WorkerKilled,
     Dies, FilesOK, LocksOK, NumbersOK, PairOK, PhaseOK, TimerOK, Idle, Whole,
     Contents, Pairs, Nothing, None, Torn, Returning, Stopping, GivingUp,
     Retiring, Preparing, Restoring, Recovering, Keeping, Renewing, Installing,
     Originals
<1>5. PairOK'
  BY SeedAssumption, LockGivenUp DEF StopService, ServiceKilled, WorkerKilled,
     Dies, PairOK, FilesOK, LocksOK, NumbersOK, PhaseOK, TimerOK, RetiringOK,
     Idle, Whole, Contents, Pairs, Nothing, None, Torn, NoOp, Preparing,
     GivingUp, Retiring, ApplySteps, Stopping, Returning, Restoring, Recovering,
     Keeping, Renewing, Installing, Originals
<1>6. PhaseOK'
  BY SeedAssumption, LockGivenUp DEF StopService, ServiceKilled, WorkerKilled,
     Dies, PhaseOK, LocksOK, RetiringOK, TimerOK, ReturningOK, Idle, NoOp,
     Preparing, GivingUp, Retiring, ApplySteps, Stopping, Returning, Restoring,
     Recovering, Keeping, Renewing, Installing, Originals
<1>7. FirstRenewal'
  BY SeedAssumption, LockGivenUp DEF StopService, ServiceKilled, WorkerKilled,
     Dies, FirstRenewal, PhaseOK, LocksOK, FilesOK, NumbersOK, TimerOK, Idle,
     Nothing, Fresh, Contents, Pairs, NoOp, Preparing, GivingUp, Retiring,
     ApplySteps, Stopping, Returning, Restoring, Recovering, Keeping, Renewing,
     Installing, Originals
<1>8. RetiringOK'
  BY SeedAssumption, LockGivenUp DEF StopService, ServiceKilled, WorkerKilled,
     Dies, RetiringOK, LocksOK, FirstRenewal, PhaseOK, TimerOK, Idle, NoOp,
     Preparing, GivingUp, Retiring, ApplySteps, Stopping, Returning, Restoring,
     Recovering, Keeping, Renewing, Installing, Originals
<1>9. TimerOK'
  <2>1. CASE StopService
    BY <2>1, SeedAssumption, LockGivenUp DEF StopService, Dies, TimerOK,
       RetiringOK, LocksOK, FilesOK, NumbersOK, PhaseOK, Idle, Contents, Pairs,
       Nothing, None, Torn, NoOp, Preparing, GivingUp, Retiring, ApplySteps,
       Stopping, Returning, Restoring, Recovering, Keeping, Renewing,
       Installing, Originals
  <2>2. CASE ServiceKilled
    BY <2>2, SeedAssumption, LockGivenUp DEF ServiceKilled, Dies, TimerOK,
       RetiringOK, LocksOK, FilesOK, NumbersOK, PhaseOK, Idle, Contents, Pairs,
       Nothing, None, Torn, NoOp, Preparing, GivingUp, Retiring, ApplySteps,
       Stopping, Returning, Restoring, Recovering, Keeping, Renewing,
       Installing, Originals
  <2>3. CASE WorkerKilled
    BY <2>3, SeedAssumption, LockGivenUp DEF WorkerKilled, Dies, TimerOK,
       RetiringOK, LocksOK, FilesOK, NumbersOK, PhaseOK, Idle, Contents, Pairs,
       Nothing, None, Torn, NoOp, Preparing, GivingUp, Retiring, ApplySteps,
       Stopping, Returning, Restoring, Recovering, Keeping, Renewing,
       Installing, Originals
  <2> QED
    BY <2>1, <2>2, <2>3
<1>10. ReturningOK'
  BY SeedAssumption, LockGivenUp DEF StopService, ServiceKilled, WorkerKilled,
     Dies, ReturningOK, LocksOK, FilesOK, PairOK, PhaseOK, RetiringOK, TimerOK,
     NumbersOK, Idle, Whole, Contents, Pairs, Nothing, None, Torn, NoOp,
     Preparing, GivingUp, Retiring, ApplySteps, Stopping, Returning, Restoring,
     Recovering, Keeping, Renewing, Installing, Originals
<1> QED
  BY <1>1, <1>2, <1>3, <1>4, <1>5, <1>6, <1>7, <1>8, <1>9, <1>10

\* Certificates age, and ACME containers end.
LEMMA PassiveStep ==
  ASSUME SeedInvariant,
         Ages \/ AcmeEnds
  PROVE  SeedInvariant'
<1> USE DEF SeedInvariant, files, service, host, Quiet, NoFault,
        At, Step, OpGoes, OpEnds
<1>1. SwitchesOK'
  BY Zenon DEF SwitchesOK, Ages, AcmeEnds
<1>2. NumbersOK'
  <2>1. CASE Ages
    BY <2>1, SeedAssumption DEF Ages, NumbersOK, LocksOK, FilesOK, Whole,
       Contents, Pairs, Nothing, None, Torn, Restoring, Recovering, Keeping,
       Renewing, Installing, Originals, NoOp, Preparing, GivingUp, Retiring,
       ApplySteps, Stopping, Returning
  <2>2. CASE AcmeEnds
    BY <2>2, SeedAssumption DEF AcmeEnds, NumbersOK, LocksOK, FilesOK, Whole,
       Contents, Pairs, Nothing, None, Torn, Restoring, Recovering, Keeping,
       Renewing, Installing, Originals, NoOp, Preparing, GivingUp, Retiring,
       ApplySteps, Stopping, Returning
  <2> QED
    BY <2>1, <2>2
<1>3. LocksOK'
  BY SeedAssumption DEF Ages, AcmeEnds, LocksOK, PhaseOK, TimerOK, Idle, PCs,
     NoOp, Preparing, GivingUp, Retiring, ApplySteps, Stopping, Returning,
     Restoring, Recovering, Keeping, Renewing, Installing, Originals
<1>4. FilesOK'
  BY SeedAssumption DEF Ages, AcmeEnds, FilesOK, LocksOK, NumbersOK, PairOK,
     PhaseOK, TimerOK, Idle, Whole, Contents, Pairs, Nothing, None, Torn,
     Returning, Stopping, GivingUp, Retiring, Preparing, Restoring, Recovering,
     Keeping, Renewing, Installing, Originals
<1>5. PairOK'
  BY SeedAssumption DEF Ages, AcmeEnds, PairOK, FilesOK, LocksOK, NumbersOK,
     PhaseOK, TimerOK, RetiringOK, Idle, Whole, Contents, Pairs, Nothing, None,
     Torn, NoOp, Preparing, GivingUp, Retiring, ApplySteps, Stopping, Returning,
     Restoring, Recovering, Keeping, Renewing, Installing, Originals
<1>6. PhaseOK'
  BY SeedAssumption DEF Ages, AcmeEnds, PhaseOK, LocksOK, RetiringOK, TimerOK,
     ReturningOK, Idle, NoOp, Preparing, GivingUp, Retiring, ApplySteps,
     Stopping, Returning, Restoring, Recovering, Keeping, Renewing, Installing,
     Originals
<1>7. FirstRenewal'
  BY SeedAssumption DEF Ages, AcmeEnds, FirstRenewal, PhaseOK, LocksOK, FilesOK,
     NumbersOK, TimerOK, Idle, Nothing, Fresh, Contents, Pairs, NoOp, Preparing,
     GivingUp, Retiring, ApplySteps, Stopping, Returning, Restoring, Recovering,
     Keeping, Renewing, Installing, Originals
<1>8. RetiringOK'
  BY SeedAssumption DEF Ages, AcmeEnds, RetiringOK, LocksOK, FirstRenewal,
     PhaseOK, TimerOK, Idle, NoOp, Preparing, GivingUp, Retiring, ApplySteps,
     Stopping, Returning, Restoring, Recovering, Keeping, Renewing, Installing,
     Originals
<1>9. TimerOK'
  <2>1. CASE Ages
    BY <2>1, SeedAssumption DEF Ages, TimerOK, RetiringOK, LocksOK, FilesOK,
       NumbersOK, PhaseOK, Idle, Contents, Pairs, Nothing, None, Torn, NoOp,
       Preparing, GivingUp, Retiring, ApplySteps, Stopping, Returning,
       Restoring, Recovering, Keeping, Renewing, Installing, Originals
  <2>2. CASE AcmeEnds
    BY <2>2, SeedAssumption DEF AcmeEnds, TimerOK, RetiringOK, LocksOK, FilesOK,
       NumbersOK, PhaseOK, Idle, Contents, Pairs, Nothing, None, Torn, NoOp,
       Preparing, GivingUp, Retiring, ApplySteps, Stopping, Returning,
       Restoring, Recovering, Keeping, Renewing, Installing, Originals
  <2> QED
    BY <2>1, <2>2
<1>10. ReturningOK'
  BY SeedAssumption DEF Ages, AcmeEnds, ReturningOK, LocksOK, FilesOK, PairOK,
     PhaseOK, RetiringOK, TimerOK, NumbersOK, Idle, Whole, Contents, Pairs,
     Nothing, None, Torn, NoOp, Preparing, GivingUp, Retiring, ApplySteps,
     Stopping, Returning, Restoring, Recovering, Keeping, Renewing, Installing,
     Originals
<1> QED
  BY <1>1, <1>2, <1>3, <1>4, <1>5, <1>6, <1>7, <1>8, <1>9, <1>10

-----------------------------------------------------------------------------
(* The theorems.                                                           *)

\* A seed that Dashmate still serves, with its own pair.
LEMMA SeedInit == Init => SeedInvariant
<1> SUFFICES ASSUME Init PROVE SeedInvariant
  OBVIOUS
<1>1. NumbersOK
  BY SeedAssumption DEF Init, NumbersOK, NoWriter, NoOp, Nothing, Contents, Pairs, None
<1>2. SwitchesOK
  BY DEF Init, SwitchesOK
<1>3. w \in Writers /\ Idle /\ ~w.back
  BY DEF Init, NoWriter, Writers, PCs, Idle
<1>4. LocksOK
  BY <1>3 DEF Init, LocksOK, Idle
<1>5. FilesOK /\ PairOK /\ PhaseOK /\ FirstRenewal /\ RetiringOK /\ TimerOK
      /\ ReturningOK
  BY <1>3, SeedAssumption
  DEF Init, FilesOK, PairOK, PhaseOK, FirstRenewal, RetiringOK, TimerOK,
      ReturningOK, NoOp, Idle, Whole, Pairs, Nothing, None, Restoring, Keeping,
      Renewing, Installing, Originals, Preparing, GivingUp, Retiring, Returning
<1> QED
  BY <1>1, <1>2, <1>4, <1>5 DEF SeedInvariant

\* Every step of every process keeps the invariant.
LEMMA SeedStep == SeedInvariant /\ [Next]_vars => SeedInvariant'
<1> SUFFICES ASSUME SeedInvariant, [Next]_vars PROVE SeedInvariant'
  OBVIOUS
<1>1. CASE Writer
  BY <1>1, WriterWrites, WriterRecovers, WriterDecides, WriterTurnsBack DEF Writer
<1>2. CASE Adopt \/ Apply
  BY <1>2, OperatorStep, LockStep, RecoveryRead DEF Apply
<1>3. CASE Rollback \/ Restore
  BY <1>3, OperatorStep, LockStep, RecoveryRead, KilledStep DEF Restore
<1>4. CASE TimerFires \/ Ages \/ AcmeEnds \/ ServiceKilled \/ WorkerKilled
  BY <1>4, LockStep, PassiveStep, KilledStep
<1>5. CASE UNCHANGED vars
  BY <1>5
  DEF vars, files, service, host, SeedInvariant, NumbersOK, SwitchesOK, LocksOK,
      FilesOK, PairOK, PhaseOK, FirstRenewal, RetiringOK, TimerOK, ReturningOK, Idle
<1> QED
  BY <1>1, <1>2, <1>3, <1>4, <1>5 DEF Next

\* What the locks, the journal of the files and the journal of the adoption agree
\* on, whatever is killed and wherever.
THEOREM SeedInvariance == Spec => []SeedInvariant
<1> QED
  BY SeedInit, SeedStep, PTL DEF Spec

\* The types, and the lock of the operation is held while it has the other.
THEOREM SeedTypes == Spec => []TypeOK
<1>1. SeedInvariant => TypeOK
  BY Zenon DEF SeedInvariant, NumbersOK, SwitchesOK, TypeOK
<1> QED
  BY <1>1, SeedInvariance, PTL

\* renew.py 113-151: a key and a certificate that do not match are on disk only
\* under a journal over a whole pair, or under the original that is put back; and
\* the gateway is never told to load them.
THEOREM MixedPairIsJournalled == Spec => []MixedIsJournalled
<1>1. SeedInvariant => MixedIsJournalled
  <2> SUFFICES ASSUME SeedInvariant PROVE MixedIsJournalled
    OBVIOUS
  <2>1. w.pc \in {"rload", "iload", "oload"} => Whole(disk)
    BY SeedAssumption
    DEF SeedInvariant, FilesOK, NumbersOK, Restoring, Installing, Whole, Pairs
  <2> QED
    BY <2>1 DEF SeedInvariant, FilesOK, PairOK, MixedIsJournalled
<1> QED
  BY <1>1, SeedInvariance, PTL

\* worker.py 240-270 and 346-353: what doctor and the journal of the adoption
\* report of the pair that is served, and of Dashmate, is true.
THEOREM SeedReportIsTrue == Spec => []ReportIsTrue
<1>1. SeedInvariant => ReportIsTrue
  <2> SUFFICES ASSUME SeedInvariant PROVE HealthyIsTrue /\ RetiredAfterTLS
    BY DEF ReportIsTrue
  <2>1. HealthyIsTrue
    BY SeedAssumption
    DEF SeedInvariant, NumbersOK, PairOK, TimerOK, HealthyIsTrue, Doctor, Pairs
  <2>2. RetiredAfterTLS
    BY SeedAssumption
    DEF SeedInvariant, NumbersOK, PhaseOK, RetiringOK, TimerOK, ReturningOK,
        RetiredAfterTLS, Retiring, Whole, Pairs
  <2> QED
    BY <2>1, <2>2
<1> QED
  BY <1>1, SeedInvariance, PTL
=============================================================================
