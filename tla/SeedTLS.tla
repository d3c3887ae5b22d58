------------------------------- MODULE SeedTLS -------------------------------
(***************************************************************************)
(* seedtls/worker.py and renew.py: one DAPI seed whose TLS is taken over    *)
(* from Dashmate, on its host.                                              *)
(*                                                                          *)
(* The operator's worker adopts the seed (apply) or puts it back (rollback);*)
(* the renewal service replaces the mounted certificate and key, started by *)
(* the adoption and later by an hourly timer.  Both write the two mounted   *)
(* files in place, one after the other, under renew.lock, and signal the    *)
(* gateway, which loads what is on disk.  A process may be killed between   *)
(* any two steps, or in the middle of a file.                               *)
(*                                                                          *)
(* A pair is a number: 0 the original one, n the n-th issued.  What the     *)
(* adoption must leave alone (containers, configuration, Core) is one       *)
(* Boolean, which is true or not when it is looked at.                      *)
(***************************************************************************)
EXTENDS Integers, FiniteSets

CONSTANTS
  MaxIssued,      \* bound on the certificates issued
  MaxFaults,      \* bound on the faults of a behaviour
  FaultKinds      \* what may go wrong, each once

ASSUME SeedAssumption == MaxIssued \in Nat /\ MaxFaults \in Nat

VARIABLES
  disk,           \* the mounted files: pair number of the key, of the certificate
  prev,           \* previous.key and previous.crt
  pending,        \* pending-install.json: the files it names, or Nothing
  loaded,         \* the pair the gateway serves
  issued,         \* certificates issued so far
  aged,           \* those up to this one have less than three days left
  acme,           \* an ACME container is running
  w,              \* the holder of renew.lock: who, where, after a failure
  status,         \* tls-status.json
  op,             \* the holder of operation.lock: what, where
  phase,          \* operation.json; "staged": not yet, but the units are there
  helper,         \* the Dashmate helper container
  package,        \* the Dashmate package is installed
  timer,          \* the renewal timer is enabled
  faults          \* history: faults so far

files   == <<disk, prev, pending, loaded>>
service == <<issued, aged, acme, status>>
host    == <<phase, helper, package, timer>>
vars    == <<files, service, w, op, host, faults>>

None  == -1
Torn  == -2
Pairs == 0 .. MaxIssued

Nothing  == [key |-> None, cert |-> None]
NoWriter == [who |-> "none", pc |-> "idle", back |-> FALSE]
NoOp     == [kind |-> "none", step |-> "idle"]

Init ==
  /\ disk = [key |-> 0, cert |-> 0] /\ prev = Nothing
  /\ pending = Nothing /\ loaded = 0
  /\ issued = 0 /\ aged = 0 /\ acme = FALSE /\ status = "none"
  /\ w = NoWriter /\ op = NoOp
  /\ phase = "none" /\ package = TRUE /\ timer = FALSE /\ faults = {}
  /\ helper = [there |-> TRUE, original |-> TRUE, up |-> TRUE]

Fault(f) ==
  /\ f \in FaultKinds \ faults /\ Cardinality(faults) < MaxFaults
  /\ faults' = faults \cup {f}
NoFault == UNCHANGED faults

-----------------------------------------------------------------------------
(* renew.py.  Steps of the writer; a file that is being written when the    *)
(* writer dies is torn.                                                     *)

At(pc)   == w.pc = pc
Goes(pc) == w' = [w EXCEPT !.pc = pc]
Ends     == w' = NoWriter

\* What the worker sees of its own recovery: done or failed, the lock given up.
Returns(r) == w' = [NoWriter EXCEPT !.pc = r]

\* Where a recovery leads when it has succeeded.
Recovered ==
  IF w.who = "service"
  THEN IF w.back THEN Ends /\ status' = "failed"
                 ELSE Goes("check") /\ UNCHANGED status
  ELSE Goes("okey") /\ UNCHANGED status

\* An exception that nothing catches.
Raises ==
  IF w.who = "service" THEN Ends /\ status' = "failed"
                       ELSE Returns("failed") /\ UNCHANGED status

\* recover: the journalled pair goes back, and the gateway has to serve it.
Recover ==
  /\ At("recover")
  /\ IF pending = Nothing THEN Recovered
     ELSE IF prev = pending
          THEN Goes("rkey") /\ UNCHANGED status
          ELSE Raises
  /\ NoFault /\ UNCHANGED <<files, issued, aged, acme, op, host>>

Writes(pc, field, value, next) ==
  /\ At(pc) /\ disk' = [disk EXCEPT ![field] = value] /\ Goes(next)
  /\ NoFault /\ UNCHANGED <<prev, pending, loaded, service, op, host>>

\* docker kill --signal HUP: the gateway loads the pair, or does not take it.
Reload(pc, next) ==
  /\ At(pc) /\ Goes(next)
  /\ \/ loaded' = disk.cert /\ NoFault
     \/ Fault("reload") /\ UNCHANGED loaded
  /\ UNCHANGED <<disk, prev, pending, service, op, host>>

RecoverKey  == Writes("rkey", "key", prev.key, "rcert")
RecoverCert == Writes("rcert", "cert", prev.cert, "rload")
RecoverLoad == Reload("rload", "rwait")

RecoverWait ==
  /\ At("rwait") /\ NoFault
  /\ IF loaded = prev.cert THEN Goes("runlink") /\ UNCHANGED status ELSE Raises
  /\ UNCHANGED <<files, issued, aged, acme, op, host>>

RecoverUnlink ==
  /\ At("runlink") /\ pending' = Nothing /\ Recovered /\ NoFault
  /\ UNCHANGED <<disk, prev, loaded, issued, aged, acme, op, host>>

\* The right names (the original has not), more than three days left.
Fresh(n) == n > aged

\* renew: what is served and fresh is fine; anything else means a new one.
Check ==
  /\ At("check") /\ NoFault
  /\ IF Fresh(disk.cert) /\ loaded = disk.cert
     THEN Ends /\ status' = "healthy" ELSE Goes("issue") /\ UNCHANGED status
  /\ UNCHANGED <<files, issued, aged, acme, op, host>>

\* A leftover ACME container, or one that fails, ends the renewal; so does
\* the bound on certificates.
Issue ==
  /\ At("issue") /\ UNCHANGED <<files, aged, op, host>>
  /\ \/ /\ ~acme /\ issued < MaxIssued /\ issued' = issued + 1 /\ Goes("pcert")
        /\ NoFault /\ UNCHANGED <<acme, status>>
     \/ /\ acme \/ issued = MaxIssued
        /\ Raises /\ NoFault /\ UNCHANGED <<acme, issued>>
     \/ /\ ~acme /\ Fault("acme") /\ Raises /\ UNCHANGED <<acme, issued>>

\* install: both old files are kept and journalled before one is replaced.
Backup(pc, field, next) ==
  /\ At(pc) /\ prev' = [prev EXCEPT ![field] = disk[field]] /\ Goes(next)
  /\ NoFault /\ UNCHANGED <<disk, pending, loaded, service, op, host>>

KeyForgotten == Backup("pcert", "cert", "journal")   \* mutant: no key backup
BackupCert == Backup("pcert", "cert", "pkey")
BackupKey  == Backup("pkey", "key", "journal")

Journal ==
  /\ At("journal") /\ pending' = disk /\ Goes("ikey") /\ NoFault
  /\ UNCHANGED <<disk, prev, loaded, service, op, host>>

InstallKey  == Writes("ikey", "key", issued, "icert")
InstallCert == Writes("icert", "cert", issued, "iload")
InstallLoad == Reload("iload", "iwait")

\* The served leaf, with CA validation, for the name and for the address.
InstallWait ==
  /\ At("iwait") /\ NoFault
  /\ w' = IF loaded = issued THEN [w EXCEPT !.pc = "iunlink"]
          ELSE [w EXCEPT !.pc = "recover", !.back = TRUE]
  /\ UNCHANGED <<files, service, op, host>>

InstallUnlink ==
  /\ At("iunlink") /\ pending' = Nothing /\ Ends /\ status' = "healthy" /\ NoFault
  /\ UNCHANGED <<disk, prev, loaded, issued, aged, acme, op, host>>

\* worker.py: after a recovery, the pair from before the adoption.
OriginalKey  == Writes("okey", "key", 0, "ocert")
OriginalCert == Writes("ocert", "cert", 0, "oload")
OriginalLoad == Reload("oload", "owait")

\* A rollback waits for the gateway; a failed adoption does not.
OriginalWait ==
  /\ At("owait") /\ NoFault
  /\ IF w.who = "rollback" /\ loaded # 0 THEN Returns("failed")
                                         ELSE Returns("done")
  /\ UNCHANGED <<files, service, op, host>>

Writer ==
  \/ Recover \/ RecoverKey \/ RecoverCert \/ RecoverLoad \/ RecoverWait
  \/ RecoverUnlink \/ Check \/ Issue \/ BackupCert \/ BackupKey \/ Journal
  \/ InstallKey \/ InstallCert \/ InstallLoad \/ InstallWait \/ InstallUnlink
  \/ OriginalKey \/ OriginalCert \/ OriginalLoad \/ OriginalWait

\* The lock is free; what a dead worker would have heard is nobody's.
Unlocked == w.who = "none"
Locks(who) == w' = [NoWriter EXCEPT !.who = who, !.pc = "recover"]

KeepsLock == UNCHANGED <<w, disk, acme>>     \* mutant: the lock outlives it

\* The writer dies, in the middle of a file if it was writing one.
Dies ==
  /\ w' = NoWriter
  /\ \/ UNCHANGED disk
     \/ w.pc \in {"rkey", "ikey", "okey"} /\ disk' = [disk EXCEPT !.key = Torn]
     \/ w.pc \in {"rcert", "icert", "ocert"} /\ disk' = [disk EXCEPT !.cert = Torn]
  /\ acme' = (acme \/ w.pc = "issue")

-----------------------------------------------------------------------------
(* worker.py apply.                                                         *)

Step(s)   == op.step = s
OpGoes(s) == op' = [op EXCEPT !.step = s]
OpEnds    == op' = NoOp
Quiet     == UNCHANGED <<files, service>>

\* Only once; a plan that is not complete has to be rolled back.
Adopt ==
  /\ op.kind = "none" /\ phase \in {"none", "staged"}
  /\ op' = [kind |-> "apply", step |-> "stage"]
  /\ Quiet /\ NoFault /\ UNCHANGED <<w, host>>

\* The units of the renewal, refused when they exist, come before operation.json.
StageUnits ==
  /\ Step("stage") /\ IF phase = "staged" THEN OpEnds ELSE OpGoes("prepare")
  /\ phase' = "staged"
  /\ Quiet /\ NoFault /\ UNCHANGED <<w, helper, package, timer>>

Prepare ==
  /\ Step("prepare") /\ OpGoes("stop") /\ phase' = "prepared"
  /\ Quiet /\ NoFault /\ UNCHANGED <<w, helper, package, timer>>

\* The competing certificate writer is stopped first.
StopHelper ==
  /\ Step("stop") /\ OpGoes("staging")
  /\ helper' = [helper EXCEPT !.up = FALSE] /\ phase' = "helper-stopped"
  /\ Quiet /\ NoFault /\ UNCHANGED <<w, package, timer>>

\* A staging certificate, which stays in its own directory.
Staging ==
  /\ Step("staging") /\ Quiet /\ UNCHANGED <<w, helper, package, timer>>
  /\ \/ phase' = "staging-issued" /\ OpGoes("start") /\ NoFault
     \/ Fault("acme") /\ OpGoes("undo") /\ UNCHANGED phase

StartService ==
  /\ Step("start") /\ Unlocked /\ Locks("service") /\ OpGoes("await")
  /\ status' = "none"
  /\ NoFault /\ UNCHANGED <<files, issued, aged, acme, host>>

NotFailed == status # "failed"       \* mutant: no status is good enough
TLSProved == status = "healthy"

\* systemctl start has returned; then what must be preserved is looked at.
Verified ==
  /\ Step("await") /\ Unlocked /\ Quiet /\ UNCHANGED <<w, helper, package, timer>>
  /\ \/ /\ TLSProved /\ phase' = "tls-verified" /\ OpGoes("remove")
        /\ NoFault
     \/ /\ ~TLSProved /\ OpGoes("undo") /\ NoFault /\ UNCHANGED phase
     \/ /\ Fault("drift") /\ OpGoes("undo") /\ UNCHANGED phase

\* The recovery of a failed adoption; without the lock it fails itself.
Undo ==
  /\ Step("undo") /\ Unlocked /\ Locks("apply") /\ OpGoes("undoing")
  /\ Quiet /\ NoFault /\ UNCHANGED host

Undone ==
  /\ Step("undoing") /\ w.pc \in {"done", "failed"} /\ Ends
  /\ IF w.pc = "done" THEN OpGoes("restart") ELSE OpEnds
  /\ Quiet /\ NoFault /\ UNCHANGED host

RestartHelper ==
  /\ Step("restart") /\ OpEnds
  /\ helper' = [helper EXCEPT !.up = TRUE] /\ phase' = "rolled-back"
  /\ Quiet /\ NoFault /\ UNCHANGED <<w, package, timer>>

\* Retirement: nothing here is undone by the worker itself.
RemovePackage ==
  /\ Step("remove") /\ OpGoes("retire") /\ package' = FALSE
  /\ Quiet /\ NoFault /\ UNCHANGED <<w, phase, helper, timer>>

RemoveHelper ==
  /\ Step("retire") /\ OpGoes("enable")
  /\ helper' = [helper EXCEPT !.there = FALSE]
  /\ Quiet /\ NoFault /\ UNCHANGED <<w, phase, package, timer>>

EnableTimer ==
  /\ Step("enable") /\ OpGoes("record") /\ timer' = TRUE
  /\ Quiet /\ NoFault /\ UNCHANGED <<w, phase, helper, package>>

Adopted ==
  /\ Step("record") /\ OpEnds /\ phase' = "complete"
  /\ Quiet /\ NoFault /\ UNCHANGED <<w, helper, package, timer>>

Apply ==
  \/ StageUnits \/ Prepare \/ StopHelper \/ Staging \/ StartService \/ Verified
  \/ Undo \/ Undone \/ RestartHelper \/ RemovePackage \/ RemoveHelper \/ EnableTimer
  \/ Adopted

-----------------------------------------------------------------------------
(* worker.py rollback.                                                      *)

MayRollBack  == phase \notin {"none", "staged"}

Rollback ==
  /\ op.kind = "none" /\ MayRollBack
  /\ op' = [kind |-> "rollback", step |-> "disable"]
  /\ Quiet /\ NoFault /\ UNCHANGED <<w, host>>

DisableTimer ==
  /\ Step("disable") /\ OpGoes("halt") /\ timer' = FALSE
  /\ Quiet /\ NoFault /\ UNCHANGED <<w, phase, helper, package>>

\* systemctl stop kills a renewal under way; the ACME container is stopped.
StopService ==
  /\ Step("halt") /\ OpGoes("lock")
  /\ IF w.who = "service"
     THEN /\ w' = NoWriter
          /\ \/ UNCHANGED disk
             \/ w.pc \in {"rkey", "ikey"} /\ disk' = [disk EXCEPT !.key = Torn]
             \/ w.pc \in {"rcert", "icert"} /\ disk' = [disk EXCEPT !.cert = Torn]
     ELSE UNCHANGED <<w, disk>>
  /\ acme' = FALSE
  /\ NoFault /\ UNCHANGED <<prev, pending, loaded, issued, aged, status, host>>

RestorePair ==
  /\ Step("lock") /\ Unlocked /\ Locks("rollback") /\ OpGoes("restoring")
  /\ Quiet /\ NoFault /\ UNCHANGED host

PairRestored ==
  /\ Step("restoring") /\ w.pc \in {"done", "failed"} /\ Ends
  /\ IF w.pc = "done" THEN OpGoes("reinstall") ELSE OpEnds
  /\ Quiet /\ NoFault /\ UNCHANGED host

Reinstall ==
  /\ Step("reinstall") /\ OpGoes("helper") /\ package' = TRUE
  /\ Quiet /\ NoFault /\ UNCHANGED <<w, phase, helper, timer>>

\* restore_helper: re-created when it is gone; another container of the name,
\* the one an earlier rollback has created included, is refused.
RestoreHelper ==
  /\ Step("helper")
  /\ IF helper.there
     THEN /\ IF helper.original THEN OpGoes("up") ELSE OpEnds
          /\ UNCHANGED helper
     ELSE /\ helper' = [there |-> TRUE, original |-> FALSE, up |-> FALSE]
          /\ OpGoes("up")
  /\ Quiet /\ NoFault /\ UNCHANGED <<w, phase, package, timer>>

StartHelper ==
  /\ Step("up") /\ OpGoes("close") /\ helper' = [helper EXCEPT !.up = TRUE]
  /\ Quiet /\ NoFault /\ UNCHANGED <<w, phase, package, timer>>

\* mutant: the end of the rollback is not journalled
Unrecorded ==
  /\ Step("close") /\ OpEnds
  /\ Quiet /\ NoFault /\ UNCHANGED <<w, host>>

RolledBack ==
  /\ Step("close") /\ OpEnds /\ phase' = "rolled-back"
  /\ Quiet /\ NoFault /\ UNCHANGED <<w, helper, package, timer>>

Restore ==
  \/ DisableTimer \/ StopService \/ RestorePair \/ PairRestored \/ Reinstall
  \/ RestoreHelper \/ StartHelper \/ RolledBack

\* doctor reads, in this order: the record, the host, the journal of the files,
\* the served leaf, the timer, the status of the last renewal.
Doctor ==
  /\ phase = "complete" /\ ~helper.there /\ ~package
  /\ pending = Nothing /\ loaded = disk.cert
  /\ timer /\ status = "healthy"

-----------------------------------------------------------------------------
(* The timer, the clock, and what dies.                                     *)

TimerFires ==
  /\ timer /\ Unlocked /\ Locks("service")
  /\ NoFault /\ UNCHANGED <<files, service, op, host>>

Ages ==
  /\ aged < issued /\ aged' = issued
  /\ NoFault /\ UNCHANGED <<files, issued, acme, status, w, op, host>>

AcmeEnds ==
  /\ acme /\ acme' = FALSE
  /\ NoFault /\ UNCHANGED <<files, issued, aged, status, w, op, host>>

ServiceKilled ==
  /\ w.who = "service" /\ Fault("kill") /\ Dies
  /\ UNCHANGED <<prev, pending, loaded, issued, aged, status, op, host>>

WorkerKilled ==
  /\ op.kind # "none" /\ Fault("crash") /\ OpEnds
  /\ IF w.who = "service" THEN UNCHANGED <<w, disk, acme>>
     ELSE Dies
  /\ UNCHANGED <<prev, pending, loaded, issued, aged, status, host>>

Next ==
  \/ Writer \/ Adopt \/ Apply \/ Rollback \/ Restore
  \/ TimerFires \/ Ages \/ AcmeEnds \/ ServiceKilled \/ WorkerKilled

Spec == Init /\ [][Next]_vars

\* What runs goes on, and an operator rolls back what was left half-way.
Settled == phase \in {"none", "rolled-back"} \/ (phase = "complete" /\ timer)
HalfWay == op.kind = "none" /\ ~Settled

Fairness ==
  /\ WF_vars(Writer) /\ WF_vars(Apply) /\ WF_vars(Restore)
  /\ WF_vars(TimerFires) /\ WF_vars(AcmeEnds)
  /\ WF_vars(HalfWay /\ Rollback)

FairSpec == Spec /\ Fairness

-----------------------------------------------------------------------------
(* Properties.                                                              *)

Contents == Pairs \cup {None, Torn}

\* Types; the lock of the operation is held while it has the one of the files.
TypeOK ==
  /\ {disk, prev, pending} \subseteq [key : Contents, cert : Contents]
  /\ loaded \in Pairs /\ issued \in Pairs /\ aged \in 0 .. issued
  /\ w.who \in {"none", "service", "apply", "rollback"}
  /\ w.who \in {"apply", "rollback"} => op.kind = w.who
  /\ op.kind \in {"none", "apply", "rollback"}
  /\ status \in {"none", "healthy", "failed"}
  /\ phase \in {"none", "staged", "prepared", "helper-stopped", "staging-issued",
                "tls-verified", "complete", "rolled-back"}
  /\ helper \in [there : BOOLEAN, original : BOOLEAN, up : BOOLEAN]
  /\ {acme, package, timer} \subseteq BOOLEAN

Whole(p) == p.key = p.cert /\ p.key \in Pairs

\* renew.py 113-151: a key and a certificate that do not match are on disk only
\* under a journal whose backup is a whole pair, or while the original is put
\* back key first with the timer off; the gateway is never told to load them.
MixedIsJournalled ==
  /\ pending # Nothing => prev = pending /\ Whole(pending)
  /\ ~Whole(disk) => \/ pending # Nothing
                     \/ ~timer /\ disk.key \in {0, Torn}
  /\ w.pc \in {"rload", "iload", "oload"} => Whole(disk)

\* worker.py 252-270: what doctor reports healthy is a whole, issued pair that
\* is the one the gateway serves.
HealthyIsTrue == Doctor => Whole(disk) /\ loaded >= 1

\* worker.py 346-353 and 240-248: Dashmate goes only after the issued pair was
\* served, and is back, with the original pair, in what is journalled as rolled
\* back.
RetiredAfterTLS ==
  /\ ~package \/ ~helper.there =>
       /\ phase \in {"tls-verified", "complete"}
       /\ op.step \in {"retire", "enable"} => Whole(disk) /\ loaded = issued
  /\ phase = "rolled-back" =>
       /\ package /\ helper.there /\ helper.up /\ ~timer /\ pending = Nothing
       /\ {disk.key, disk.cert} \subseteq {0, Torn}

\* Doctor and the journal of an adoption tell the truth about the gateway.
ReportIsTrue == HealthyIsTrue /\ RetiredAfterTLS

\* renew.py 113-151: under the timer, whatever a renewal left behind and
\* whatever is due ends in a fresh pair that is served.
Renewed == pending = Nothing /\ Whole(disk) /\ Fresh(disk.cert)
           /\ loaded = disk.cert
RenewalGoesOn ==
  (timer /\ ~Renewed) ~> (Renewed \/ ~timer \/ issued = MaxIssued)

\* worker.py 212-249: an adoption left half-way is rolled back, unless it was
\* broken off between the units and its record, which no rollback finds, or a
\* rollback was after it had re-created the helper.
Stranded == phase = "staged" \/ (helper.there /\ ~helper.original)
Settles  == HalfWay ~> (Settled \/ Stranded)

\* Whatever a renewal or an adoption left behind is taken up again.
Reconciles == RenewalGoesOn /\ Settles
=============================================================================
