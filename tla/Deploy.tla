------------------------------- MODULE Deploy -------------------------------
(***************************************************************************)
(* Genesis of a network, and its stop: lifecycle.Runner.Execute on one side,*)
(* the host worker with its Core, wallet and Platform on the other.  A      *)
(* session goes through named stages.  In each it calls some hosts, at once *)
(* or one, checkpoints every answer and goes on only when all succeeded.    *)
(*                                                                          *)
(* Sessions are serial (Journal); each starts from the durable record and   *)
(* may end anywhere.  A process it started on a host runs on under the host *)
(* lock.  Node phases and observed heights of the record are left out: no   *)
(* step reads them.                                                         *)
(***************************************************************************)
EXTENDS Integers, FiniteSets

CONSTANTS
  NV,             \* the validators are 1..NV, the wallet is NV + 1
  Miner,          \* the wallet, or a host of its own, NV + 2
  FaultKinds,     \* what may go wrong: see Kinds
  MaxFaults,      \* bound: how often
  MaxOther        \* bound: stop and Core-only commands

\* An answer lost or late (or the context cancelled), a runner killed, a process
\* failing on its host, a checkpoint failing, a Core restarting by itself.
Kinds == {"lost", "crash", "broken", "save", "restart"}

ASSUME DeployAssumption ==
  /\ NV \in Nat \ {0} /\ Miner \in {NV + 1, NV + 2}
  /\ FaultKinds \subseteq Kinds /\ MaxFaults \in Nat /\ MaxOther \in Nat

MaxHeight  == 2   \* bound: ChainLocks told apart
MaxSigned  == 2   \* bound: transactions signed for one validator

Validators == 1..NV
Wallet     == NV + 1
Targets    == 1..Miner

VARIABLES
  durable, local, \* the record in the journal; the session's copy
  s,              \* the session
  reply,          \* what is known of the calls of its step
  proc,           \* the process on each host, holding the host lock
  core,           \* Core on each host
  plat,           \* Platform on each validator
  wallet,         \* registrations on the wallet's host and on the chain
  chain,          \* sporks, miner, ChainLock
  others, faults

world   == <<core, plat, wallet, chain>>
session == <<durable, local, s, others>>
vars    == <<session, reply, proc, world, faults>>

Stages == {"none", "preflight", "render", "core-start", "identities",
           "core-finalize", "registrations", "core-sync", "quorums",
           "platform-start", "health", "ready", "stopping", "stopped"}

Calls  == {"inspect", "render", "core-start", "identity", "core-finalize",
           "wallet", "fund", "register", "fast-forward", "activate",
           "core-status", "mine-pause", "mine-start", "platform-start", "stop"}
Steps  == (Calls \ {"core-status", "stop"}) \cup
          {"idle", "failing", "rewallet", "syncing", "quorums", "genesis",
           "verifying", "stop-miner", "stop-rest"}

Records ==
  [phase : {"none", "deploying", "interrupted", "network-ready", "stopped"},
   stage : Stages, genesis : 0..MaxHeight,
   protx : [Validators -> 0..MaxSigned]]

\* Types, and what validateDeployment asks of a durable record.
TypeOK ==
  /\ durable \in Records /\ local \in Records
  /\ durable.phase = "network-ready" =>
       /\ durable.stage = "ready" /\ durable.genesis >= 1
       /\ \A v \in Validators : durable.protx[v] # 0
  /\ s \in [pc : Steps, stop : BOOLEAN, coreOnly : BOOLEAN, verify : BOOLEAN,
            at : Validators, paused : BOOLEAN, cut : BOOLEAN, behind : BOOLEAN]
  /\ reply \in [Targets -> {"none", "wait", "ok", "bad", "err"}]
  /\ proc \in [Targets -> [act : Calls \cup {"idle"}, arg : 0..NV + MaxHeight]]
  /\ core \in [Targets -> [up : BOOLEAN, synced : BOOLEAN, final : BOOLEAN,
                           conf : {"none", "plain", "final"}]]
  /\ plat \in [Validators -> [up : BOOLEAN, inputs : 0..MaxHeight]]
  /\ wallet \in [saved : [Validators -> 0..MaxSigned],
                 sent : [Validators -> SUBSET (1..MaxSigned)],
                 locked : SUBSET Validators, confirmed : SUBSET Validators,
                 spent : SUBSET Validators, funded : BOOLEAN]
  /\ chain \in [dkg : {"off", "dkg", "on"}, mining : BOOLEAN, due : BOOLEAN,
                lock : 0..MaxHeight, burst : BOOLEAN]
  /\ others \in 0..MaxOther /\ faults \in 0..MaxFaults

\* A session: its command (stop, CoreOnly), whether to verify first, the
\* validator being registered, whether mining is paused, whether a checkpoint
\* failed and whether the revision ran ahead of the journal's with it.
Idle == [pc |-> "idle", stop |-> FALSE, coreOnly |-> FALSE, verify |-> FALSE,
         at |-> 1, paused |-> FALSE, cut |-> FALSE, behind |-> FALSE]

NoProcess == [act |-> "idle", arg |-> 0]
NoReplies == [t \in Targets |-> "none"]

Init ==
  /\ durable = [phase |-> "none", stage |-> "none", genesis |-> 0,
                protx |-> [v \in Validators |-> 0]]
  /\ local = durable /\ s = Idle
  /\ reply = NoReplies /\ proc = [t \in Targets |-> NoProcess]
  /\ core = [t \in Targets |-> [up |-> FALSE, synced |-> FALSE,
                                final |-> FALSE, conf |-> "none"]]
  /\ plat = [v \in Validators |-> [up |-> FALSE, inputs |-> 0]]
  /\ wallet = [saved |-> [v \in Validators |-> 0],
               sent |-> [v \in Validators |-> {}], locked |-> {},
               confirmed |-> {}, spent |-> {}, funded |-> FALSE]
  /\ chain = [dkg |-> "off", mining |-> FALSE, due |-> FALSE, lock |-> 0,
              burst |-> FALSE]
  /\ others = 0 /\ faults = 0

Fault(k) == k \in FaultKinds /\ faults < MaxFaults /\ faults' = faults + 1
NoFault  == UNCHANGED faults

-----------------------------------------------------------------------------
(* Steps of a session.                                                      *)

Action(pc) == CASE pc = "rewallet"                    -> "wallet"
                [] pc \in {"syncing", "quorums"}       -> "core-status"
                [] pc \in {"stop-miner", "stop-rest"}  -> "stop"
                [] OTHER                               -> pc

\* The hosts that step q calls, for the record r.
Where(q, r) ==
  CASE q.pc \in {"inspect", "render", "core-start", "core-finalize",
                 "syncing", "quorums"}                       -> Targets
    [] q.pc \in {"identity", "platform-start"}               -> Validators
    [] q.pc \in {"stop-miner", "mine-pause", "mine-start"}   -> {Miner}
    [] q.pc = "stop-rest"                                -> Targets \ {Miner}
    [] q.pc \in {"idle", "failing", "genesis", "verifying"}  -> {}
    [] q.pc = "fund" /\ r.protx[q.at] # 0                    -> {}
    [] OTHER                                                 -> {Wallet}

\* Steps whose every answer is checkpointed (each); the others call one host.
Fan == {"inspect", "render", "core-start", "core-finalize", "syncing",
        "quorums", "identity", "platform-start", "stop-miner", "stop-rest"}

\* Doctor's evidence: what it reads of every host agrees with the record.
Healthy ==
  /\ \A t \in Targets : core[t].up /\ core[t].synced /\ proc[t].act = "idle"
  /\ chain.mining /\ chain.dkg = "on" /\ chain.lock > 0
  /\ \A v \in Validators :
       /\ plat[v].up /\ plat[v].inputs = local.genesis
       /\ v \in wallet.confirmed /\ local.protx[v] = wallet.saved[v]

\* Step q begins: the worker of a host that is at work answers host-busy.
Enter(q, r) ==
  LET on   == Where(q, r)
      free == {t \in on : proc[t].act = "idle"}
  IN  /\ s' = q
      /\ reply' = [t \in Targets |-> IF t \in free THEN "wait"
                                     ELSE IF t \in on THEN "err" ELSE "none"]
      /\ proc' = [t \in Targets |->
                    IF t \in free
                    THEN [act |-> Action(q.pc),
                          arg |-> CASE q.pc = "register"       -> q.at
                                    [] q.pc = "platform-start" -> r.genesis
                                    [] OTHER                   -> 0]
                    ELSE proc[t]]

\* A step that saves nothing leads to q.
Move(q) == Enter(q, local) /\ NoFault /\ UNCHANGED <<durable, local, others>>

Fails(behind) ==
  /\ s' = [s EXCEPT !.pc = "failing", !.behind = behind]
  /\ reply' = NoReplies
  /\ UNCHANGED proc

\* A step that saves r leads to q; a failing save may have landed.
Save(r, q) ==
  /\ local' = r
  /\ \/ durable' = r /\ Enter(q, r) /\ NoFault
     \/ /\ Fault("save")
        /\ \E landed \in BOOLEAN :
             durable' = (IF landed THEN r ELSE durable) /\ Fails(~landed)

Stage(name, q) == Save([local EXCEPT !.stage = name], q)
At(pc)         == [s EXCEPT !.pc = pc]

\* All hosts of the step answered well, and every checkpoint was saved.
Done == ~s.cut /\ \A t \in Targets : reply[t] \in {"none", "ok"}

\* Mutant: the phase is left to the end.
BeginKeepsPhase(stop, coreOnly) ==
  /\ s.pc = "idle"
  /\ stop => durable.phase # "none" /\ ~coreOnly
  /\ others' = others + (IF stop \/ coreOnly THEN 1 ELSE 0)
  /\ others' <= MaxOther
  /\ Save([durable EXCEPT !.stage = "preflight"],
          [Idle EXCEPT !.pc = "inspect", !.stop = stop, !.coreOnly = coreOnly])
  /\ UNCHANGED world

\* What the record says of a started network survives; the phase does not.
Begin(stop, coreOnly) ==
  /\ s.pc = "idle"
  /\ stop => durable.phase # "none" /\ ~coreOnly
  /\ others' = others + (IF stop \/ coreOnly THEN 1 ELSE 0)
  /\ others' <= MaxOther
  /\ Save([durable EXCEPT !.phase = "deploying", !.stage = "preflight"],
          [Idle EXCEPT !.pc = "inspect", !.stop = stop, !.coreOnly = coreOnly,
                       !.verify = /\ durable.genesis > 0
                                  /\ durable.stage \in {"health", "ready"}])
  /\ UNCHANGED world

Inspected ==
  /\ s.pc = "inspect" /\ Done
  /\ IF s.stop        THEN Stage("stopping", At("stop-miner"))
     ELSE IF s.verify THEN Stage("health", At("verifying"))
     ELSE                  Stage("render", At("render"))
  /\ UNCHANGED <<world, others>>

\* The steps that go on unconditionally without a save, and with one.
Onward ==
  /\ Done
  /\ \E p \in {<<"stop-miner", "stop-rest">>, <<"core-finalize", "rewallet">>,
               <<"fund", "register">>, <<"fast-forward", "activate">>,
               <<"mine-pause", "syncing">>} :
       s.pc = p[1] /\ Move(At(p[2]))
  /\ UNCHANGED world

StageDone ==
  /\ Done
  /\ \E p \in {<<"render", "core-start", "core-start">>,
               <<"core-start", "identities", "wallet">>,
               <<"wallet", "identities", "identity">>,
               <<"identity", "core-finalize", "core-finalize">>,
               <<"rewallet", "registrations", "fund">>,
               <<"activate", "core-sync", "syncing">>,
               <<"genesis", "platform-start", "platform-start">>,
               <<"platform-start", "health", "verifying">>} :
       s.pc = p[1] /\ Stage(p[2], At(p[3]))
  /\ UNCHANGED <<world, others>>

Stopped ==
  /\ s.pc = "stop-rest" /\ Done
  /\ Save([local EXCEPT !.phase = "stopped", !.stage = "stopped"], Idle)
  /\ UNCHANGED <<world, others>>

\* The answer to register names the transaction on the wallet's host: the one
\* recorded, if there is one.
Registered ==
  /\ s.pc = "register" /\ Done
  /\ local.protx[s.at] \in {0, wallet.saved[s.at]}
  /\ Save([local EXCEPT !.protx[s.at] = wallet.saved[s.at]],
          IF s.at < NV THEN [s EXCEPT !.pc = "fund", !.at = @ + 1]
                       ELSE [s EXCEPT !.pc = "fast-forward", !.at = 1])
  /\ UNCHANGED <<world, others>>

Synced ==
  /\ s.pc = "syncing" /\ Done
  /\ Move(At("mine-start"))
  /\ UNCHANGED world

\* With CoreOnly the command ends here, in phase "deploying".
Mining ==
  /\ s.pc = "mine-start" /\ Done
  /\ Stage("quorums", IF s.coreOnly THEN Idle ELSE At("quorums"))
  /\ UNCHANGED <<world, others>>

\* Mutant: the genesis height follows the ChainLock.
LatestGenesis ==
  /\ s.pc = "quorums" /\ Done
  /\ \E g \in 1..chain.lock : Save([local EXCEPT !.genesis = g], At("genesis"))
  /\ UNCHANGED <<world, others>>

\* The lowest ChainLock reported becomes the genesis height, once.
QuorumsReady ==
  /\ s.pc = "quorums" /\ Done
  /\ IF local.genesis # 0
     THEN Move(At("genesis"))
     ELSE /\ \E g \in 1..chain.lock :
               Save([local EXCEPT !.genesis = g], At("genesis"))
          /\ UNCHANGED others
  /\ UNCHANGED world

\* Mutant: mining goes on while masternodes synchronise.
NeverPauses ==
  /\ s.pc \in {"syncing", "quorums"} /\ ~s.cut
  /\ \A t \in Targets : reply[t] \in {"none", "ok", "bad"}
  /\ \E t \in Targets : reply[t] = "bad"
  /\ Move(s)
  /\ UNCHANGED world

\* Not all ready: the first time the miner is paused for masternode sync.
Again ==
  /\ s.pc \in {"syncing", "quorums"} /\ ~s.cut
  /\ \A t \in Targets : reply[t] \in {"none", "ok", "bad"}
  /\ \E t \in Targets : reply[t] = "bad"
  /\ IF s.pc = "syncing" /\ ~s.paused
     THEN Move([s EXCEPT !.pc = "mine-pause", !.paused = TRUE])
     ELSE Move(s)
  /\ UNCHANGED world

Verified ==
  /\ s.pc = "verifying" /\ Healthy
  /\ Save([local EXCEPT !.phase = "network-ready", !.stage = "ready"], Idle)
  /\ UNCHANGED <<world, others>>

\* The check that comes first gives up at once; the last one waits.
Reconcile ==
  /\ s.pc = "verifying" /\ s.verify /\ ~Healthy
  /\ Stage("render", [s EXCEPT !.pc = "render", !.verify = FALSE])
  /\ UNCHANGED <<world, others>>

\* Every host of the step answered, and not all succeeded.
Failed ==
  /\ \A t \in Targets : reply[t] # "wait"
  /\ \/ s.cut \/ \E t \in Targets : reply[t] = "err"
     \/ s.pc = "register" /\ local.protx[s.at] \notin {0, wallet.saved[s.at]}
  /\ s.pc # "failing" /\ Fails(s.behind)
  /\ NoFault /\ UNCHANGED <<durable, local, world, others>>

\* The deadline ends a wait that the chain cannot end: see Deadline.
Stuck == /\ s.pc = "quorums" \/ (s.pc = "verifying" /\ ~s.verify)
         /\ chain.mining /\ \E t \in Targets : ~core[t].synced

Deadline ==
  /\ Stuck /\ Fails(s.behind)
  /\ NoFault /\ UNCHANGED <<durable, local, world, others>>

\* The deferred save, with a context of its own; no session goes on after it.
Interrupt ==
  /\ s.pc = "failing" /\ s' = Idle
  /\ local' = [local EXCEPT !.phase = "interrupted"]
  /\ \/ durable' = (IF s.behind THEN durable ELSE local') /\ NoFault
     \/ durable' \in {durable, local'} /\ ~s.behind /\ Fault("save")
  /\ UNCHANGED <<reply, proc, world, others>>

\* each: a checkpoint fails, and the calls without an answer are cancelled.
SaveFails ==
  /\ s.pc \in Fan /\ ~s.cut
  /\ \E t \in Targets : reply[t] \notin {"none", "wait"}
  /\ Fault("save")
  /\ \E landed \in BOOLEAN : s' = [s EXCEPT !.cut = TRUE, !.behind = ~landed]
  /\ UNCHANGED <<durable, local, reply, proc, world, others>>

\* A cancelled call may have started its process or not.
CutOff(t) ==
  /\ s.cut /\ reply[t] = "wait"
  /\ reply' = [reply EXCEPT ![t] = "err"]
  /\ proc' \in {proc, [proc EXCEPT ![t] = NoProcess]}
  /\ NoFault /\ UNCHANGED <<session, world>>

Lost(t) ==
  /\ reply[t] = "wait" /\ Fault("lost")
  /\ reply' = [reply EXCEPT ![t] = "err"]
  /\ UNCHANGED <<session, proc, world>>

\* Doctor fails, or the context ends while the session waits.
Expire ==
  /\ s.pc \in {"syncing", "quorums", "verifying"}
  /\ \A t \in Targets : reply[t] # "wait"
  /\ Fault("lost") /\ Fails(s.behind)
  /\ UNCHANGED <<durable, local, world, others>>

\* Killed; the operator releases the claim.
Crash ==
  /\ s.pc # "idle" /\ Fault("crash")
  /\ s' = Idle /\ reply' = NoReplies
  /\ UNCHANGED <<durable, local, proc, world, others>>

-----------------------------------------------------------------------------
(* The worker on host t.                                                    *)

Runs(t, a) == proc[t].act = a

\* The process ends; its answer counts if the session still waits for it.
Answers(t, r) ==
  /\ proc' = [proc EXCEPT ![t] = NoProcess]
  /\ reply' = [reply EXCEPT ![t] = IF @ = "wait" THEN r ELSE @]
GoesOn == UNCHANGED <<proc, reply>>
Others == NoFault /\ UNCHANGED session

\* Core is running and answers; what the step asked of it holds, or does not.
Ready(t) ==
  IF s.pc = "syncing" THEN core[t].synced
  ELSE /\ core[t].synced /\ chain.lock > 0
       /\ t = Miner => chain.mining
       /\ t \in Validators => t \in wallet.confirmed

Observe(t) ==
  /\ \/ Runs(t, "inspect") \/ Runs(t, "render")
     \/ core[t].up /\ (Runs(t, "identity") \/ Runs(t, "core-status"))
  /\ Answers(t, IF Runs(t, "core-status") /\ ~Ready(t) THEN "bad" ELSE "ok")
  /\ UNCHANGED world

NeedsSigning(v) == wallet.saved[v] = 0

\* What a worker refuses: Core does not run, funding with DKG enabled, a new
\* registration without funds, a spent collateral, Platform bound to another
\* genesis, Core not final.
Refuse(t) ==
  /\ \/ /\ ~core[t].up
        /\ proc[t].act \in {"identity", "core-status", "wallet", "fund",
             "register", "fast-forward", "activate", "platform-start"}
     \/ Runs(t, "fund") /\ ~wallet.funded /\ chain.dkg # "off"
     \/ /\ Runs(t, "register") /\ NeedsSigning(proc[t].arg) /\ ~wallet.funded
     \/ (Runs(t, "wallet") \/ Runs(t, "register")) /\ wallet.spent # {}
     \/ /\ Runs(t, "platform-start")
        /\ plat[t].inputs \notin {0, proc[t].arg} \/ core[t].conf # "final"
  /\ Answers(t, "err") /\ UNCHANGED world

\* ensure_core: a resume never reverts the final configuration; Core is
\* recreated when it does not run, or not with that configuration.
EnsureCore(t) ==
  LET conf == IF core[t].final THEN "final" ELSE "plain"
  IN  /\ Runs(t, "core-start") \/ (Runs(t, "core-finalize") /\ core[t].final)
      /\ core' = [core EXCEPT ![t].up = TRUE, ![t].conf = conf,
                    ![t].synced = @ /\ core[t].up /\ core[t].conf = conf]
      /\ Answers(t, "ok") /\ UNCHANGED <<plat, wallet, chain>>

Finalize(t) ==
  /\ Runs(t, "core-finalize") /\ ~core[t].final
  /\ core' = [core EXCEPT ![t].final = TRUE]
  /\ GoesOn /\ UNCHANGED <<plat, wallet, chain>>

Submitted(v) == wallet.saved[v] \in wallet.sent[v]

\* Every collateral recorded on the host is locked again.
OpenWallet(t) ==
  /\ Runs(t, "wallet") /\ core[t].up /\ wallet.spent = {}
  /\ wallet' = [wallet EXCEPT !.locked =
                             @ \cup {v \in Validators : Submitted(v)}]
  /\ Answers(t, "ok") /\ UNCHANGED <<core, plat, chain>>

\* Mines blocks until the unlocked balance suffices, never once DKG runs.
Fund(t) ==
  /\ Runs(t, "fund") /\ core[t].up
  /\ wallet.funded \/ chain.dkg = "off"
  /\ wallet' = [wallet EXCEPT !.funded = TRUE]
  /\ chain' = [chain EXCEPT !.burst =
                             @ \/ (~wallet.funded /\ chain.dkg # "off")]
  /\ Answers(t, "ok") /\ UNCHANGED <<core, plat>>

Registers(t, v) ==
  Runs(t, "register") /\ proc[t].arg = v /\ core[t].up /\ wallet.spent = {}

\* Coins are chosen among what is not locked: a collateral too, if it may be.
Sign(t, v) ==
  /\ Registers(t, v) /\ NeedsSigning(v) /\ wallet.funded
  /\ wallet.saved[v] < MaxSigned
  /\ \E u \in SUBSET ({w \in Validators : Submitted(w)} \ wallet.locked) :
       wallet' = [wallet EXCEPT !.saved[v] = @ + 1, !.funded = FALSE,
                                !.spent = @ \cup u]
  /\ GoesOn /\ UNCHANGED <<core, plat, chain>>

Submit(t, v) ==
  /\ Registers(t, v) /\ wallet.saved[v] # 0 /\ ~Submitted(v)
  /\ wallet' = [wallet EXCEPT !.sent[v] = @ \cup {wallet.saved[v]}]
  /\ GoesOn /\ UNCHANGED <<core, plat, chain>>

LockCollateral(t, v) ==
  /\ Registers(t, v) /\ Submitted(v) /\ v \notin wallet.locked
  /\ wallet' = [wallet EXCEPT !.locked = @ \cup {v}]
  /\ GoesOn /\ UNCHANGED <<core, plat, chain>>

\* Blocks are mined until it is confirmed; a rotated quorum is then cycles away.
Confirm(t, v) ==
  /\ Registers(t, v) /\ v \in wallet.locked /\ v \notin wallet.confirmed
  /\ wallet' = [wallet EXCEPT !.confirmed = @ \cup {v}]
  /\ chain' = [chain EXCEPT !.due = TRUE, !.burst = @ \/ chain.dkg # "off"]
  /\ GoesOn /\ UNCHANGED <<core, plat>>

RegisterAnswers(t, v) ==
  /\ Registers(t, v) /\ v \in wallet.locked \cap wallet.confirmed
  /\ Answers(t, "ok") /\ UNCHANGED world

\* Mutant: cycles are mined whenever registrations call for them.
MinesAlways == chain.due

\* Without DKG the rotation cycles are mined at once, up to a height that the
\* registrations determine; with DKG nothing is.
MinesCycles == chain.dkg = "off" /\ chain.due

FastForward(t) ==
  /\ Runs(t, "fast-forward") /\ core[t].up
  /\ chain' = IF MinesCycles
              THEN [chain EXCEPT !.due = FALSE,
                                 !.burst = @ \/ chain.dkg # "off"]
              ELSE chain
  /\ Answers(t, "ok") /\ UNCHANGED <<core, plat, wallet>>

\* Sporks are set one by one, DKG before ChainLocks, and read back.
Activate(t) ==
  /\ Runs(t, "activate") /\ core[t].up
  /\ IF chain.dkg = "on"
     THEN Answers(t, "ok") /\ UNCHANGED chain
     ELSE /\ chain' = [chain EXCEPT !.dkg = IF @ = "off" THEN "dkg" ELSE "on"]
          /\ GoesOn
  /\ UNCHANGED <<core, plat, wallet>>

Mine(t) ==
  /\ Runs(t, "mine-pause") \/ Runs(t, "mine-start")
  /\ chain' = [chain EXCEPT !.mining = Runs(t, "mine-start")]
  /\ Answers(t, "ok") /\ UNCHANGED <<core, plat, wallet>>

\* The genesis and the peers are bound before anything starts.
PlatformBind(t) ==
  /\ Runs(t, "platform-start") /\ core[t].up /\ core[t].conf = "final"
  /\ plat[t].inputs = 0
  /\ plat' = [plat EXCEPT ![t].inputs = proc[t].arg]
  /\ GoesOn /\ UNCHANGED <<core, wallet, chain>>

PlatformStart(t) ==
  /\ Runs(t, "platform-start") /\ core[t].up /\ core[t].conf = "final"
  /\ plat[t].inputs = proc[t].arg
  /\ plat' = [plat EXCEPT ![t].up = TRUE]
  /\ Answers(t, "ok") /\ UNCHANGED <<core, wallet, chain>>

\* The miner's container first, then what dashmate runs.
Stop(t) ==
  /\ Runs(t, "stop")
  /\ IF t = Miner /\ chain.mining
     THEN /\ chain' = [chain EXCEPT !.mining = FALSE]
          /\ GoesOn /\ UNCHANGED <<core, plat>>
     ELSE /\ core' = [core EXCEPT ![t].up = FALSE, ![t].synced = FALSE]
          /\ plat' = [v \in Validators |->
                        [plat[v] EXCEPT !.up = @ /\ v # t]]
          /\ Answers(t, "ok") /\ UNCHANGED chain
  /\ UNCHANGED wallet

HostStep(t) ==
  /\ \/ Observe(t) \/ Refuse(t) \/ EnsureCore(t) \/ Finalize(t) \/ OpenWallet(t)
     \/ Fund(t) \/ FastForward(t) \/ Activate(t) \/ Mine(t) \/ Stop(t)
     \/ t \in Validators /\ (PlatformBind(t) \/ PlatformStart(t))
     \/ \E v \in Validators :
          \/ Sign(t, v) \/ Submit(t, v) \/ LockCollateral(t, v) \/ Confirm(t, v)
          \/ RegisterAnswers(t, v)
  /\ Others

\* The process fails on its host: what it has done stays.
Breaks(t) ==
  /\ proc[t].act # "idle" /\ Fault("broken") /\ Answers(t, "err")
  /\ UNCHANGED <<session, world>>

-----------------------------------------------------------------------------
(* The chain.                                                               *)

\* Masternode sync ends in a quiet interval: with few peers, blocks every ten
\* seconds may put it off for ever.
Sync(t) ==
  /\ core[t].up /\ ~core[t].synced
  /\ core' = [core EXCEPT ![t].synced = TRUE]
  /\ Others /\ UNCHANGED <<reply, proc, plat, wallet, chain>>
QuietSync(t) == ~chain.mining /\ Sync(t)

ChainLock ==
  /\ chain.mining /\ chain.dkg = "on" /\ chain.lock < MaxHeight
  /\ wallet.confirmed = Validators
  /\ \A t \in Targets : core[t].up /\ core[t].synced
  /\ chain' = [chain EXCEPT !.lock = @ + 1]
  /\ Others /\ UNCHANGED <<reply, proc, core, plat, wallet>>

\* Users register masternodes of their own on a running network.
UserRegisters ==
  /\ chain.dkg = "on" /\ ~chain.due
  /\ chain' = [chain EXCEPT !.due = TRUE]
  /\ Others /\ UNCHANGED <<reply, proc, core, plat, wallet>>

\* A Core restarts by itself (restart: unless-stopped).
Restart(t) ==
  /\ core[t].synced /\ Fault("restart")
  /\ core' = [core EXCEPT ![t].synced = FALSE]
  /\ UNCHANGED <<session, reply, proc, plat, wallet, chain>>

Session ==
  \/ Begin(FALSE, FALSE) \/ Inspected \/ Onward \/ StageDone \/ Stopped
  \/ Registered \/ Synced \/ Mining \/ QuorumsReady \/ Again \/ Verified
  \/ Reconcile \/ Failed \/ Interrupt \/ \E t \in Targets : CutOff(t)

Next ==
  \/ Session \/ Begin(TRUE, FALSE) \/ Begin(FALSE, TRUE) \/ Deadline
  \/ SaveFails \/ Expire \/ Crash \/ ChainLock \/ UserRegisters
  \/ \E t \in Targets :
       HostStep(t) \/ Lost(t) \/ Breaks(t) \/ Sync(t) \/ Restart(t)

Spec == Init /\ [][Next]_vars

\* The command is repeated, sessions and host processes run, the deadline of a
\* session ends what cannot end, a quiet network synchronises and a complete one
\* makes ChainLocks.  No fault, stop or Core-only command is ever due.
FairSpec ==
  /\ Spec
  /\ WF_vars(Session) /\ WF_vars(Deadline) /\ WF_vars(ChainLock)
  /\ WF_vars(\E t \in Targets : QuietSync(t))
  /\ \A t \in Targets : WF_vars(HostStep(t))

-----------------------------------------------------------------------------
(* What the operator relies on.                                             *)

\* However often the command is repeated, and wherever a session or the wallet's
\* process ended, one registration of each validator is ever broadcast, none
\* spends the collateral of another, and the record names the broadcast one.
\* (register: "Durable signed bytes BEFORE submission"; lock_collateral.)
OneRegistration ==
  /\ wallet.spent = {}
  /\ \A v \in Validators :
       /\ Cardinality(wallet.sent[v]) <= 1
       /\ durable.protx[v] # 0 => durable.protx[v] \in wallet.sent[v]

\* DKG is enabled only over a network whose validators are all registered, and
\* no block is burst-mined after it, by no repeated or lingering call.
\* (fund and fast_forward: "nothing is mined once DKG is on".)
DKGInOrder ==
  chain.dkg # "off" => wallet.confirmed = Validators /\ ~chain.burst

\* Every Platform is bound to the genesis height of the durable record,
\* whichever session started it.  (deploy: GenesisCoreHeight is chosen once and
\* saved before platform-start; platform_start refuses another.)
OneGenesis ==
  \A v \in Validators : plat[v].inputs # 0 => plat[v].inputs = durable.genesis

\* The miner makes no DKG rounds over a withdrawn validator: not on stop, not on
\* an interrupted stop and a redeploy, not by a process left behind.  (Execute:
\* "Freeze block production before withdrawing validators".)
MinerFirst ==
  chain.dkg # "off" /\ chain.mining => \A v \in Validators : core[v].up

\* A record that says "stopped" is true of every host, also of one on which an
\* earlier session left a process.  (Execute: inspect and stop of all targets.)
StoppedIsDown ==
  durable.phase = "stopped" =>
    /\ ~chain.mining /\ \A t \in Targets : ~core[t].up
    /\ \A v \in Validators : ~plat[v].up

\* DKG is on over a complete network only, and its rounds stop before it does.
DKGOverValidators == DKGInOrder /\ MinerFirst /\ StoppedIsDown

\* Every validator and its Platform are made once, for one chain.
MadeOnce == OneRegistration /\ OneGenesis

\* Repeated, the command brings the network up, whatever was stopped, lost or
\* killed before.  (deploy: idempotent steps; the one pause in core-sync.)
RedeployCompletes == []<>(durable.phase = "network-ready")
=============================================================================
