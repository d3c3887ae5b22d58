---------------------------- MODULE DeployProofs ----------------------------
(***************************************************************************)
(* Proofs about the genesis of a network and its stop, for any number of    *)
(* validators, faults and repeated commands: every validator is made once,  *)
(* for one chain, however often the command is run again; and DKG runs over *)
(* validators that are all there.                                          *)
(***************************************************************************)
EXTENDS Deploy, FiniteSetTheorems, TLAPS

-----------------------------------------------------------------------------
(* The inductive invariant.                                                *)

\* The parts of TypeOK.
Sessions  == [pc : Steps, stop : BOOLEAN, coreOnly : BOOLEAN, verify : BOOLEAN,
              at : Validators, paused : BOOLEAN, cut : BOOLEAN, behind : BOOLEAN]
Answered  == {"none", "wait", "ok", "bad", "err"}
Processes == [act : Calls \cup {"idle"}, arg : 0..NV + MaxHeight]
Cores     == [up : BOOLEAN, synced : BOOLEAN, final : BOOLEAN,
              conf : {"none", "plain", "final"}]
Platforms == [up : BOOLEAN, inputs : 0..MaxHeight]
Wallets   == [saved : [Validators -> 0..MaxSigned],
              sent : [Validators -> SUBSET (1..MaxSigned)],
              locked : SUBSET Validators, confirmed : SUBSET Validators,
              spent : SUBSET Validators, funded : BOOLEAN]
Chains    == [dkg : {"off", "dkg", "on"}, mining : BOOLEAN, due : BOOLEAN,
              lock : 0..MaxHeight, burst : BOOLEAN]

\* validateDeployment: what a record says of a running network.
Believed(r) ==
  r.phase = "network-ready" =>
    /\ r.stage = "ready" /\ r.genesis >= 1
    /\ \A v \in Validators : r.protx[v] # 0

SessionTypes == durable \in Records /\ local \in Records /\ Believed(durable)
                /\ s \in Sessions
CallTypes    == reply \in [Targets -> Answered] /\ proc \in [Targets -> Processes]
WorldTypes   == /\ core \in [Targets -> Cores] /\ plat \in [Validators -> Platforms]
                /\ wallet \in Wallets /\ chain \in Chains
CountTypes   == others \in 0..MaxOther /\ faults \in 0..MaxFaults

\* A session that calls no host, and the calls that only the wallet gets.
Resting  == {"idle", "failing"}
OnWallet == {"wallet", "fund", "register", "fast-forward", "activate"}

\* The call that step q makes, for the record r.
Call(q, r) == [act |-> Action(q.pc),
               arg |-> CASE q.pc = "register"       -> q.at
                         [] q.pc = "platform-start" -> r.genesis
                         [] OTHER                   -> 0]

\* A process belongs to the step under way, but for one that an earlier session
\* left: while that runs, inspect of its host fails.
CallOK(t) ==
  /\ reply[t] = "wait" => t \in Where(s, local) /\ proc[t] = Call(s, local)
  /\ reply[t] \in {"ok", "bad"} => t \in Where(s, local) /\ proc[t] = NoProcess
  /\ reply[t] = "err" /\ s.pc # "inspect" =>
       \/ proc[t] = NoProcess
       \/ t \in Where(s, local) /\ proc[t] = Call(s, local)
  /\ reply[t] = "none" /\ s.pc \notin Resting =>
       t \notin Where(s, local) /\ proc[t] = NoProcess
  /\ s.pc \in Resting => reply[t] = "none"

AllLocked == \A v \in Validators : Submitted(v) => v \in wallet.locked
AllUp     == \A t \in Targets : core[t].up
Down(t)   == ~core[t].up /\ (t \in Validators => ~plat[t].up)

\* What a process on a host finds and leaves alone, whoever started it.
ProcOK(t) ==
  /\ proc[t].act \in OnWallet => t = Wallet
  /\ proc[t].act = "register" =>
       /\ proc[t].arg \in Validators
       /\ \A v \in Validators \ {proc[t].arg} : Submitted(v) => v \in wallet.locked
  /\ proc[t].act = "activate" => wallet.confirmed = Validators
  /\ proc[t].act = "platform-start" =>
       t \in Validators /\ proc[t].arg = durable.genesis
  /\ proc[t].act = "mine-start" => AllUp /\ \A u \in Targets : proc[u].act # "stop"
  /\ proc[t].act = "stop" /\ t # Miner => ~chain.mining

\* What an answer says still holds when the last one is in.
AnswerOK(t) ==
  reply[t] = "ok" =>
    /\ s.pc = "core-start" => core[t].up
    /\ s.pc \in {"rewallet", "register"} => AllLocked
    /\ s.pc = "register" => s.at \in wallet.confirmed
    /\ s.pc = "stop-miner" => ~chain.mining
    /\ s.pc \in {"stop-miner", "stop-rest"} => Down(t)

HostOK(t) == CallOK(t) /\ ProcOK(t) /\ AnswerOK(t)

\* A validator is signed for once; what is locked was sent, what is confirmed is
\* locked, and the record names what was sent.
WalletOK ==
  /\ wallet.spent = {} /\ wallet.confirmed \subseteq wallet.locked
  /\ \A v \in Validators :
       /\ wallet.saved[v] \in {0, 1} /\ wallet.sent[v] \subseteq {1}
       /\ wallet.saved[v] = 0 => wallet.sent[v] = {}
       /\ v \in wallet.locked => wallet.sent[v] = {1}
       /\ durable.protx[v] # 0 => durable.protx[v] \in wallet.sent[v]

ChainOK ==
  /\ ~chain.burst
  /\ chain.dkg # "off" => wallet.confirmed = Validators
  /\ chain.mining => AllUp

\* The steps of a deployment between the start of the Cores and the miner's.
AfterStart == {"wallet", "identity", "core-finalize", "rewallet", "fund",
               "register", "fast-forward", "activate", "syncing", "mine-pause",
               "mine-start"}

\* What step q of a session with record r has behind it.
Fits(q, r) ==
  /\ r.phase = "deploying"
  /\ q.pc \in {"genesis", "platform-start", "verifying"} => r.genesis >= 1
  /\ q.pc = "inspect" /\ q.verify => r.genesis >= 1
  /\ q.pc \in {"fund", "register"} =>
       \A v \in Validators : v < q.at => v \in wallet.confirmed
  /\ q.pc \notin {"fund", "register"} => q.at = 1
  /\ q.pc = "fund" => AllLocked
  /\ q.pc \in {"fast-forward", "activate"} => wallet.confirmed = Validators
  /\ q.pc \in AfterStart => AllUp
  /\ q.pc = "stop-rest" => ~chain.mining /\ Down(Miner)

\* A session goes on from the durable record, and saves no more once it is behind.
SessionOK ==
  /\ s.pc \notin Resting => local = durable /\ Fits(s, durable)
  /\ s.pc # "idle" /\ ~s.behind => local = durable
  /\ s.behind => s.cut \/ s.pc = "failing"
  /\ s.cut => s.pc \in Fan \cup {"failing"}

StoppedOK ==
  durable.phase = "stopped" =>
    /\ s.pc \in Resting /\ ~chain.mining
    /\ \A t \in Targets : Down(t) /\ proc[t] = NoProcess

DeployInvariant ==
  /\ TypeOK
  /\ \A t \in Targets : HostOK(t)
  /\ WalletOK /\ ChainOK /\ OneGenesis /\ SessionOK /\ StoppedOK

-----------------------------------------------------------------------------
(* Lemmas: types, steps and calls.                                         *)

LEMMA TypeParts ==
  TypeOK <=> SessionTypes /\ CallTypes /\ WorldTypes /\ CountTypes
  BY DEF TypeOK, SessionTypes, CallTypes, WorldTypes, CountTypes, Sessions,
         Answered, Processes, Cores, Platforms, Wallets, Chains, Believed

LEMMA TypesNext ==
  ASSUME SessionTypes', CallTypes', WorldTypes', CountTypes'
  PROVE  TypeOK'
  BY DEF TypeOK, SessionTypes, CallTypes, WorldTypes, CountTypes, Sessions,
         Answered, Processes, Cores, Platforms, Wallets, Chains, Believed

LEMMA HostNames ==
  /\ Wallet \in Targets \ Validators /\ Miner \in Targets \ Validators
  /\ Validators \subseteq Targets /\ 1 \in Validators
  BY DeployAssumption DEF Wallet, Targets, Validators

\* The hosts that each step calls.
LEMMA WhereIs ==
  ASSUME NEW q, NEW r
  PROVE  /\ q.pc \in {"inspect", "render", "core-start", "core-finalize",
                      "syncing", "quorums"} => Where(q, r) = Targets
         /\ q.pc \in {"identity", "platform-start"} => Where(q, r) = Validators
         /\ q.pc \in {"stop-miner", "mine-pause", "mine-start"} =>
              Where(q, r) = {Miner}
         /\ q.pc = "stop-rest" => Where(q, r) = Targets \ {Miner}
         /\ q.pc \in {"idle", "failing", "genesis", "verifying"} => Where(q, r) = {}
         /\ q.pc \in {"wallet", "rewallet", "register", "fast-forward", "activate"}
              => Where(q, r) = {Wallet}
         /\ q.pc = "fund" => Where(q, r) \in {{}, {Wallet}}
<1>1. q.pc \in {"inspect", "render", "core-start", "core-finalize",
                "syncing", "quorums"} => Where(q, r) = Targets
  BY Zenon DEF Where
<1>2. q.pc \in {"identity", "platform-start"} => Where(q, r) = Validators
  BY Zenon DEF Where
<1>3. q.pc \in {"stop-miner", "mine-pause", "mine-start"} => Where(q, r) = {Miner}
  BY Zenon DEF Where
<1>4. q.pc = "stop-rest" => Where(q, r) = Targets \ {Miner}
  BY Zenon DEF Where
<1>5. q.pc \in {"idle", "failing", "genesis", "verifying"} => Where(q, r) = {}
  BY Zenon DEF Where
<1>6. q.pc \in {"wallet", "rewallet", "register", "fast-forward", "activate"}
        => Where(q, r) = {Wallet}
  BY Zenon DEF Where
<1>7. q.pc = "fund" => Where(q, r) \in {{}, {Wallet}}
  BY Zenon DEF Where
<1> QED
  BY <1>1, <1>2, <1>3, <1>4, <1>5, <1>6, <1>7

\* The process of each step.
LEMMA ActionIs ==
  ASSUME NEW pc
  PROVE  /\ pc = "rewallet" => Action(pc) = "wallet"
         /\ pc \in {"syncing", "quorums"} => Action(pc) = "core-status"
         /\ pc \in {"stop-miner", "stop-rest"} => Action(pc) = "stop"
         /\ pc \notin {"rewallet", "syncing", "quorums", "stop-miner", "stop-rest"}
              => Action(pc) = pc
<1>1. pc = "rewallet" => Action(pc) = "wallet"
  BY Zenon DEF Action
<1>2. pc \in {"syncing", "quorums"} => Action(pc) = "core-status"
  BY Zenon DEF Action
<1>3. pc \in {"stop-miner", "stop-rest"} => Action(pc) = "stop"
  BY Zenon DEF Action
<1>4. pc \notin {"rewallet", "syncing", "quorums", "stop-miner", "stop-rest"}
        => Action(pc) = pc
  BY Zenon DEF Action
<1> QED
  BY <1>1, <1>2, <1>3, <1>4

LEMMA CallIs ==
  ASSUME NEW q, NEW r
  PROVE  /\ Call(q, r).act = Action(q.pc)
         /\ q.pc = "register" => Call(q, r).arg = q.at
         /\ q.pc = "platform-start" => Call(q, r).arg = r.genesis
         /\ q.pc \notin {"register", "platform-start"} => Call(q, r).arg = 0
<1> DEFINE arg == CASE q.pc = "register"       -> q.at
                    [] q.pc = "platform-start" -> r.genesis
                    [] OTHER                   -> 0
<1>1. q.pc = "register" => arg = q.at
  BY Zenon
<1>2. q.pc = "platform-start" => arg = r.genesis
  BY Zenon
<1>3. q.pc \notin {"register", "platform-start"} => arg = 0
  BY Zenon
<1>4. Call(q, r) = [act |-> Action(q.pc), arg |-> arg]
  BY DEF Call
<1> HIDE DEF arg
<1> QED
  BY <1>1, <1>2, <1>3, <1>4

\* A step calls hosts of the network, with a call that a worker knows.
LEMMA CallTyped ==
  ASSUME NEW q \in Sessions, NEW r \in Records
  PROVE  /\ Where(q, r) \in SUBSET Targets
         /\ Where(q, r) # {} => Call(q, r) \in Processes
<1>1. q.pc \in Steps /\ q.at \in Validators /\ r.genesis \in 0..MaxHeight
  BY DEF Sessions, Records
<1>2. Where(q, r) \in SUBSET Targets
  <2>1. q.pc \in {"inspect", "render", "core-start", "core-finalize", "syncing",
                  "quorums", "identity", "platform-start", "stop-miner",
                  "mine-pause", "mine-start", "stop-rest", "idle", "failing",
                  "genesis", "verifying", "wallet", "rewallet", "register",
                  "fast-forward", "activate", "fund"}
    BY <1>1 DEF Steps, Calls
  <2> QED
    BY <2>1, WhereIs, HostNames
<1>3. ASSUME Where(q, r) # {} PROVE Action(q.pc) \in Calls
  BY <1>1, <1>3, ActionIs, WhereIs DEF Steps, Calls
<1>4. Call(q, r).arg \in 0..NV + MaxHeight
  BY <1>1, CallIs, DeployAssumption DEF Validators, MaxHeight
<1>5. Call(q, r) = [act |-> Call(q, r).act, arg |-> Call(q, r).arg]
  BY DEF Call
<1> QED
  BY <1>2, <1>3, <1>4, <1>5, CallIs DEF Processes

\* No host has a process of this session, or of an earlier one.
Quiet == \A t \in Targets : proc[t] = NoProcess

\* When a step that is past inspect begins or is over, only its calls are there.
LEMMA OwnCalls ==
  ASSUME DeployInvariant, s.pc \notin Resting \cup {"inspect"}, NEW t \in Targets
  PROVE  proc[t] = NoProcess \/ (t \in Where(s, local) /\ proc[t] = Call(s, local))
<1>1. CallOK(t) /\ reply[t] \in Answered
  BY TypeParts DEF DeployInvariant, HostOK, CallTypes
<1> QED
  BY <1>1 DEF CallOK, Answered

\* When all calls are answered, no process is left, and a step that went well
\* has heard every host.
LEMMA AnsweredQuiet ==
  ASSUME DeployInvariant, s.pc \notin Resting,
         \A t \in Targets : reply[t] \in {"none", "ok", "bad"}
  PROVE  /\ Quiet
         /\ \A t \in Where(s, local) : t \in Targets => reply[t] # "none"
  BY DEF DeployInvariant, HostOK, CallOK, Quiet

LEMMA DoneQuiet ==
  ASSUME DeployInvariant, s.pc \notin Resting, Done
  PROVE  /\ Quiet /\ ~s.cut /\ ~s.behind
         /\ \A t \in Targets : t \in Where(s, local) => reply[t] = "ok"
         /\ local = durable /\ Fits(s, durable)
<1>1. \A t \in Targets : reply[t] \in {"none", "ok"}
  BY DEF Done
<1> QED
  BY <1>1, AnsweredQuiet DEF Done, DeployInvariant, SessionOK, Resting

\* The hosts after a step has begun.
LEMMA EnterOutcome ==
  ASSUME CallTypes, NEW q \in Sessions, NEW r \in Records, Enter(q, r)
  PROVE  /\ s' = q /\ CallTypes'
         /\ \A t \in Targets :
              \/ t \in Where(q, r) /\ reply'[t] = "wait" /\ proc'[t] = Call(q, r)
              \/ t \in Where(q, r) /\ proc[t].act # "idle" /\ reply'[t] = "err"
                   /\ proc'[t] = proc[t]
              \/ t \notin Where(q, r) /\ reply'[t] = "none" /\ proc'[t] = proc[t]
<1> DEFINE on   == Where(q, r)
           free == {t \in on : proc[t].act = "idle"}
           c    == Call(q, r)
<1>1. /\ s' = q
      /\ reply' = [t \in Targets |-> IF t \in free THEN "wait"
                                     ELSE IF t \in on THEN "err" ELSE "none"]
      /\ proc' = [t \in Targets |-> IF t \in free THEN c ELSE proc[t]]
  BY DEF Enter, Call
<1>2. on \in SUBSET Targets /\ (on # {} => c \in Processes)
  BY CallTyped
<1> HIDE DEF c, on
<1>3. CallTypes'
  BY <1>1, <1>2 DEF CallTypes, Answered
<1>4. ASSUME NEW t \in Targets
      PROVE  \/ t \in on /\ reply'[t] = "wait" /\ proc'[t] = c
             \/ t \in on /\ proc[t].act # "idle" /\ reply'[t] = "err"
                  /\ proc'[t] = proc[t]
             \/ t \notin on /\ reply'[t] = "none" /\ proc'[t] = proc[t]
  BY <1>1
<1> QED
  BY <1>1, <1>3, <1>4 DEF c, on

-----------------------------------------------------------------------------
(* Lemmas: checkpoints.                                                    *)

\* What a session may put into the journal: a record that keeps the genesis, names
\* registrations that were sent, and says "stopped" of a network that is.
Kept(r) ==
  /\ r \in Records /\ Believed(r)
  /\ durable.genesis # 0 => r.genesis = durable.genesis
  /\ r.genesis # durable.genesis => Quiet
  /\ \A v \in Validators : r.protx[v] # 0 => r.protx[v] \in wallet.sent[v]
  /\ r.phase = "stopped" => Quiet /\ ~chain.mining /\ \A t \in Targets : Down(t)

LEMMA DurableIsKept ==
  ASSUME DeployInvariant
  PROVE  Kept(durable)
<1>1. SessionTypes
  BY TypeParts DEF DeployInvariant
<1> QED
  BY <1>1 DEF DeployInvariant, Kept, SessionTypes, WalletOK, StoppedOK, Quiet

\* Where a step may begin.
MayEnter(q, r) ==
  /\ q \in Sessions /\ ~q.behind /\ ~q.cut /\ q.pc # "failing"
  /\ q.pc # "inspect" => Quiet
  /\ q.pc # "idle" => Fits(q, r)
  /\ q.pc = "register" => AllLocked
  /\ r.phase = "stopped" => q.pc = "idle"

\* What is kept of the network when a record changes and the hosts do not.
LEMMA RecordKeeps ==
  ASSUME DeployInvariant, Kept(durable'), UNCHANGED world
  PROVE  WalletOK' /\ ChainOK' /\ OneGenesis'
<1>1. WalletOK'
  BY DEF DeployInvariant, WalletOK, Kept, world
<1>2. ChainOK'
  BY DEF DeployInvariant, ChainOK, AllUp, world
<1>3. OneGenesis'
  <2>1. ASSUME NEW v \in Validators, plat[v].inputs # 0
        PROVE  plat[v].inputs = durable'.genesis
    <3>1. durable.genesis = plat[v].inputs
      BY <2>1 DEF DeployInvariant, OneGenesis
    <3> QED
      BY <2>1, <3>1 DEF Kept
  <2> QED
    BY <2>1 DEF OneGenesis, world
<1> QED
  BY <1>1, <1>2, <1>3

\* A process that an earlier session left, when a record changes.
LEMMA OldProcess ==
  ASSUME DeployInvariant, Kept(durable'), UNCHANGED world, NEW t \in Targets,
         proc'[t] = proc[t],
         \A u \in Targets : proc'[u].act = "stop" => proc[u].act = "stop"
  PROVE  ProcOK(t)'
<1>1. ProcOK(t)
  BY DEF DeployInvariant, HostOK
<1>2. proc[t].act = "platform-start" => durable'.genesis = durable.genesis
  BY DEF Kept, Quiet, NoProcess
<1> QED
  BY <1>1, <1>2 DEF ProcOK, world, Submitted, AllUp

\* A step begins with its record saved.
LEMMA EnterKeeps ==
  ASSUME DeployInvariant, NEW q, NEW r, Kept(r), MayEnter(q, r), Enter(q, r),
         durable' = r, local' = r, UNCHANGED world, CountTypes'
  PROVE  DeployInvariant'
<1> DEFINE c == Call(q, r)
<1>1. /\ q \in Sessions /\ r \in Records /\ Believed(r)
      /\ SessionTypes /\ CallTypes /\ WorldTypes
  BY TypeParts DEF MayEnter, Kept, DeployInvariant
<1>2. /\ s' = q /\ CallTypes'
      /\ \A t \in Targets :
           \/ t \in Where(q, r) /\ reply'[t] = "wait" /\ proc'[t] = c
           \/ t \in Where(q, r) /\ proc[t].act # "idle" /\ reply'[t] = "err"
                /\ proc'[t] = proc[t]
           \/ t \notin Where(q, r) /\ reply'[t] = "none" /\ proc'[t] = proc[t]
  BY <1>1, EnterOutcome
<1>3. TypeOK'
  <2>1. SessionTypes' /\ WorldTypes'
    BY <1>1, <1>2 DEF SessionTypes, WorldTypes, Believed, world
  <2> QED
    BY <1>2, <2>1, TypesNext
<1>4. /\ c.act = Action(q.pc)
      /\ q.pc = "register" => c.arg = q.at
      /\ q.pc = "platform-start" => c.arg = r.genesis
  BY CallIs
<1>5. ASSUME NEW t \in Targets PROVE CallOK(t)'
  <2>1. q.pc \notin {"idle", "inspect"} => proc[t] = NoProcess
    BY <1>5 DEF MayEnter, Quiet
  <2>2. q.pc = "idle" => t \notin Where(q, r)
    BY WhereIs
  <2>3. q.pc = "inspect" => t \in Where(q, r)
    BY <1>5, WhereIs
  <2>4. q.pc # "failing" /\ NoProcess.act = "idle"
    BY DEF MayEnter, NoProcess
  <2> HIDE DEF c
  <2>5. \/ t \in Where(q, r) /\ reply'[t] = "wait" /\ proc'[t] = c
        \/ t \in Where(q, r) /\ proc[t].act # "idle" /\ reply'[t] = "err"
             /\ proc'[t] = proc[t]
        \/ t \notin Where(q, r) /\ reply'[t] = "none" /\ proc'[t] = proc[t]
    BY <1>2, <1>5
  <2>6. CallOK(t)' <=>
          /\ reply'[t] = "wait" => t \in Where(q, r) /\ proc'[t] = c
          /\ reply'[t] \in {"ok", "bad"} =>
               t \in Where(q, r) /\ proc'[t] = NoProcess
          /\ reply'[t] = "err" /\ q.pc # "inspect" =>
               \/ proc'[t] = NoProcess
               \/ t \in Where(q, r) /\ proc'[t] = c
          /\ reply'[t] = "none" /\ q.pc \notin Resting =>
               t \notin Where(q, r) /\ proc'[t] = NoProcess
          /\ q.pc \in Resting => reply'[t] = "none"
    BY <1>2 DEF CallOK, c, Where, Call
  <2>7. CASE t \in Where(q, r) /\ reply'[t] = "wait" /\ proc'[t] = c
    BY <2>2, <2>4, <2>6, <2>7 DEF Resting
  <2>8. CASE /\ t \in Where(q, r) /\ proc[t].act # "idle" /\ reply'[t] = "err"
             /\ proc'[t] = proc[t]
    BY <2>1, <2>2, <2>4, <2>6, <2>8 DEF Resting
  <2>9. CASE t \notin Where(q, r) /\ reply'[t] = "none" /\ proc'[t] = proc[t]
    BY <2>1, <2>3, <2>4, <2>6, <2>9 DEF Resting
  <2> QED
    BY <2>5, <2>7, <2>8, <2>9
<1>6. ASSUME NEW t \in Targets PROVE ProcOK(t)'
  <2>1. CASE q.pc = "inspect"
    <3>1. c.act = "inspect"
      BY <1>4, <2>1, ActionIs
    <3> HIDE DEF c
    <3>2. \A u \in Targets : proc'[u].act = "stop" => proc[u].act = "stop"
      BY <1>2, <3>1
    <3>3. CASE proc'[t] = c
      BY <3>1, <3>3 DEF ProcOK, OnWallet
    <3>4. CASE proc'[t] = proc[t]
      BY <1>6, <3>2, <3>4, OldProcess
    <3> QED
      BY <1>2, <1>6, <3>3, <3>4
  <2>2. CASE q.pc # "inspect"
    <3>1. Quiet /\ NoProcess.act = "idle"
      BY <2>2 DEF MayEnter, NoProcess
    <3>2. CASE proc'[t] # c
      <4>1. proc'[t].act = "idle"
        BY <1>2, <1>6, <3>1, <3>2 DEF Quiet
      <4> QED
        BY <4>1 DEF ProcOK, OnWallet
    <3>3. CASE proc'[t] = c /\ c.act # "idle"
      <4>1. t \in Where(q, r) /\ q.pc \in Steps
        <5> HIDE DEF c
        <5> QED
          BY <1>1, <1>2, <1>6, <3>1, <3>3 DEF Quiet, Sessions
      <4>2. Where(q, r) # {} /\ Fits(q, r)
        BY <4>1, WhereIs DEF MayEnter
      <4>3. c.act \in OnWallet => t = Wallet
        BY <1>4, <4>1, ActionIs, WhereIs DEF OnWallet, Steps, Calls
      <4>4. c.act = "register" => c.arg \in Validators /\ AllLocked
        <5>1. c.act = "register" => q.pc = "register"
          BY <1>4, <4>1, ActionIs DEF Steps, Calls
        <5> HIDE DEF c
        <5> QED
          BY <1>1, <1>4, <5>1 DEF MayEnter, Sessions
      <4>5. c.act = "activate" => wallet.confirmed = Validators
        BY <1>4, <4>1, <4>2, ActionIs DEF Fits, Steps, Calls
      <4>6. c.act = "platform-start" => t \in Validators /\ c.arg = r.genesis
        <5>1. c.act = "platform-start" => q.pc = "platform-start"
          BY <1>4, <4>1, ActionIs DEF Steps, Calls
        <5> HIDE DEF c
        <5> QED
          BY <1>4, <4>1, <5>1, WhereIs
      <4>7. c.act = "mine-start" =>
              AllUp /\ \A u \in Targets : proc'[u].act # "stop"
        <5>1. c.act = "mine-start" => q.pc = "mine-start"
          BY <1>4, <4>1, ActionIs DEF Steps, Calls
        <5> HIDE DEF c
        <5>2. \A u \in Targets : proc'[u] \in {c, NoProcess}
          BY <1>2, <3>1 DEF Quiet
        <5> QED
          BY <3>1, <4>2, <5>1, <5>2 DEF Fits, AfterStart
      <4>8. c.act = "stop" /\ t # Miner => ~chain.mining
        <5>1. c.act = "stop" => q.pc \in {"stop-miner", "stop-rest"}
          BY <1>4, <4>1, ActionIs DEF Steps, Calls
        <5> HIDE DEF c
        <5> QED
          BY <4>1, <4>2, <5>1, WhereIs DEF Fits
      <4> HIDE DEF c
      <4> QED
        BY <1>2, <3>3, <4>3, <4>4, <4>5, <4>6, <4>7, <4>8
        DEF ProcOK, AllLocked, AllUp, Submitted, world
    <3>4. CASE proc'[t] = c /\ c.act = "idle"
      <4> HIDE DEF c
      <4> QED
        BY <3>4 DEF ProcOK, OnWallet
    <3> QED
      BY <3>2, <3>3, <3>4
  <2> QED
    BY <2>1, <2>2
<1>7. ASSUME NEW t \in Targets PROVE AnswerOK(t)'
  <2> HIDE DEF c
  <2> QED
    BY <1>2, <1>7 DEF AnswerOK
<1>8. WalletOK' /\ ChainOK' /\ OneGenesis'
  BY RecordKeeps
<1>9. SessionOK'
  <2>1. q.pc \notin Resting => Fits(q, r)
    BY DEF MayEnter, Resting
  <2>2. Fits(q, r) => Fits(s, durable)'
    BY <1>2 DEF Fits, AllLocked, AllUp, Down, Submitted, world
  <2> QED
    BY <1>2, <2>1, <2>2 DEF MayEnter, SessionOK
<1>10. StoppedOK'
  <2>1. SUFFICES ASSUME r.phase = "stopped" PROVE StoppedOK'
    BY DEF StoppedOK
  <2>2. q.pc = "idle" /\ Quiet /\ ~chain.mining /\ \A t \in Targets : Down(t)
    BY <2>1 DEF MayEnter, Kept
  <2>3. \A t \in Targets : proc'[t] = NoProcess
    <3>1. Where(q, r) = {}
      BY <2>2, WhereIs
    <3> QED
      BY <1>2, <2>2, <3>1 DEF Quiet
  <2> QED
    BY <1>2, <2>2, <2>3 DEF StoppedOK, Resting, Down, world
<1> QED
  BY <1>3, <1>5, <1>6, <1>7, <1>8, <1>9, <1>10 DEF DeployInvariant, HostOK

\* A session has failed; its record may have been saved or not.
LEMMA FailKeeps ==
  ASSUME DeployInvariant, NEW b \in BOOLEAN, Fails(b), Kept(durable'),
         local' \in Records, ~b => local' = durable', UNCHANGED world, CountTypes'
  PROVE  DeployInvariant'
<1>1. SessionTypes /\ CallTypes /\ WorldTypes
  BY TypeParts DEF DeployInvariant
<1>2. /\ s' \in Sessions /\ s'.pc = "failing" /\ s'.behind = b
      /\ reply' = NoReplies /\ proc' = proc
  <2>1. s \in Sessions /\ "failing" \in Steps
    BY <1>1 DEF SessionTypes, Steps
  <2>2. s' = [s EXCEPT !.pc = "failing", !.behind = b]
        /\ reply' = NoReplies /\ proc' = proc
    BY DEF Fails
  <2> QED
    BY <2>1, <2>2 DEF Sessions
<1>3. TypeOK'
  <2>1. CallTypes' /\ WorldTypes'
    BY <1>1, <1>2 DEF CallTypes, NoReplies, Answered, WorldTypes, world
  <2>2. SessionTypes'
    BY <1>1, <1>2 DEF SessionTypes, Kept
  <2> QED
    BY <2>1, <2>2, TypesNext
<1>4. ASSUME NEW t \in Targets PROVE HostOK(t)'
  <2>1. reply'[t] = "none"
    BY <1>2, <1>4 DEF NoReplies
  <2>2. ProcOK(t)'
    BY <1>2, <1>4, OldProcess
  <2> QED
    BY <1>2, <2>1, <2>2 DEF HostOK, CallOK, AnswerOK, Resting
<1>5. WalletOK' /\ ChainOK' /\ OneGenesis'
  BY RecordKeeps
<1>6. SessionOK'
  BY <1>2 DEF SessionOK, Resting
<1>7. StoppedOK'
  BY <1>2 DEF Kept, StoppedOK, Resting, Quiet, Down, world
<1> QED
  BY <1>3, <1>4, <1>5, <1>6, <1>7 DEF DeployInvariant

\* A checkpoint, which may fail with or without effect.
LEMMA SaveKeeps ==
  ASSUME DeployInvariant, NEW q, NEW r, Kept(r), MayEnter(q, r), Save(r, q),
         UNCHANGED world, others' \in 0..MaxOther
  PROVE  DeployInvariant'
<1>1. faults \in 0..MaxFaults
  BY TypeParts DEF DeployInvariant, CountTypes
<1>2. CASE durable' = r /\ Enter(q, r) /\ NoFault
  <2>1. local' = r /\ CountTypes'
    BY <1>1, <1>2 DEF Save, NoFault, CountTypes
  <2> QED
    BY <1>2, <2>1, EnterKeeps
<1>3. CASE /\ Fault("save")
           /\ \E landed \in BOOLEAN :
                durable' = (IF landed THEN r ELSE durable) /\ Fails(~landed)
  <2>1. local' = r /\ CountTypes'
    BY <1>1, <1>3, DeployAssumption DEF Save, Fault, CountTypes
  <2>2. PICK landed \in BOOLEAN :
          durable' = (IF landed THEN r ELSE durable) /\ Fails(~landed)
    BY <1>3
  <2>3. Kept(durable') /\ local' \in Records
    BY <2>1, <2>2, DurableIsKept DEF Kept
  <2> QED
    BY <2>1, <2>2, <2>3, FailKeeps
<1> QED
  BY <1>2, <1>3 DEF Save

\* A step that begins without a checkpoint.
LEMMA MoveKeeps ==
  ASSUME DeployInvariant, s.pc \notin Resting, NEW q, MayEnter(q, durable), Move(q),
         UNCHANGED world
  PROVE  DeployInvariant'
<1>1. local = durable /\ CountTypes
  BY TypeParts DEF DeployInvariant, SessionOK
<1>2. Enter(q, durable) /\ durable' = durable /\ local' = durable /\ CountTypes'
  BY <1>1 DEF Move, NoFault, CountTypes
<1> QED
  BY <1>2, DurableIsKept, EnterKeeps

-----------------------------------------------------------------------------
(* The steps of a session.                                                 *)

LEMMA IdleIsSession ==
  Idle \in Sessions /\ Idle.pc = "idle" /\ Idle.at = 1 /\ ~Idle.cut /\ ~Idle.behind
<1>1. "idle" \in Steps /\ 1 \in Validators
  BY HostNames DEF Steps
<1> QED
  BY <1>1 DEF Idle, Sessions

LEMMA StepFields ==
  ASSUME s \in Sessions, NEW p \in Steps
  PROVE  /\ At(p) \in Sessions /\ At(p).pc = p /\ At(p).at = s.at
         /\ At(p).cut = s.cut /\ At(p).behind = s.behind
         /\ At(p).verify = s.verify
  BY DEF At, Sessions

\* The record of a running session with another stage.
LEMMA StageKept ==
  ASSUME DeployInvariant, s.pc \notin Resting, NEW name \in Stages
  PROVE  LET r == [local EXCEPT !.stage = name] IN
         /\ Kept(r) /\ r.phase = "deploying" /\ r.genesis = durable.genesis
<1> DEFINE r == [local EXCEPT !.stage = name]
<1>1. /\ local = durable /\ durable.phase = "deploying" /\ Kept(durable)
      /\ durable \in Records
  BY DurableIsKept DEF DeployInvariant, SessionOK, Fits, Kept
<1>2. /\ r \in Records /\ r.phase = "deploying" /\ r.genesis = durable.genesis
      /\ r.protx = durable.protx
  BY <1>1 DEF Records
<1> HIDE DEF r
<1>3. Kept(r)
  BY <1>1, <1>2 DEF Kept, Believed
<1> QED
  BY <1>2, <1>3 DEF r

\* What a session knows when its step went well.
LEMMA DoneFacts ==
  ASSUME DeployInvariant, s.pc \notin Resting, Done
  PROVE  /\ Quiet /\ s \in Sessions /\ local = durable /\ Fits(s, durable)
         /\ \A p \in Steps : /\ At(p) \in Sessions /\ At(p).pc = p
                             /\ At(p).at = s.at /\ ~At(p).cut /\ ~At(p).behind
         /\ \A t \in Targets : t \in Where(s, local) => reply[t] = "ok" /\ AnswerOK(t)
<1>1. s \in Sessions
  BY TypeParts DEF DeployInvariant, SessionTypes
<1>2. /\ Quiet /\ ~s.cut /\ ~s.behind /\ local = durable /\ Fits(s, durable)
      /\ \A t \in Targets : t \in Where(s, local) => reply[t] = "ok"
  BY DoneQuiet
<1>3. \A p \in Steps : /\ At(p) \in Sessions /\ At(p).pc = p
                       /\ At(p).at = s.at /\ ~At(p).cut /\ ~At(p).behind
  BY <1>1, <1>2, StepFields
<1>4. \A t \in Targets : AnswerOK(t)
  BY DEF DeployInvariant, HostOK
<1> QED
  BY <1>1, <1>2, <1>3, <1>4

\* A deployment or a stop begins: the claim is fresh, the record is read.
LEMMA BeginStep ==
  ASSUME DeployInvariant, NEW stop \in BOOLEAN, NEW coreOnly \in BOOLEAN,
         Begin(stop, coreOnly)
  PROVE  DeployInvariant'
<1> DEFINE r == [durable EXCEPT !.phase = "deploying", !.stage = "preflight"]
           v == durable.genesis > 0 /\ durable.stage \in {"health", "ready"}
           q == [Idle EXCEPT !.pc = "inspect", !.stop = stop,
                             !.coreOnly = coreOnly, !.verify = v]
<1>1. /\ s.pc = "idle" /\ Save(r, q) /\ UNCHANGED world
      /\ others' = others + (IF stop \/ coreOnly THEN 1 ELSE 0)
      /\ others' <= MaxOther
  BY DEF Begin
<1>2. /\ SessionTypes /\ CountTypes /\ Kept(durable)
  BY TypeParts, DurableIsKept DEF DeployInvariant
<1>3. others' \in 0..MaxOther
  BY <1>1, <1>2, DeployAssumption DEF CountTypes
<1>4. /\ r \in Records /\ r.phase = "deploying" /\ r.genesis = durable.genesis
      /\ r.protx = durable.protx
  <2>1. "deploying" \in {"none", "deploying", "interrupted", "network-ready", "stopped"}
        /\ "preflight" \in Stages /\ durable \in Records
    BY <1>2 DEF Stages, SessionTypes
  <2> QED
    BY <2>1, Zenon DEF Records
<1> HIDE DEF r
<1>5. Kept(r)
  BY <1>2, <1>4 DEF Kept, Believed
<1>6. /\ q \in Sessions /\ q.pc = "inspect" /\ q.verify = v /\ q.at = Idle.at
      /\ q.cut = Idle.cut /\ q.behind = Idle.behind
  <2>1. "inspect" \in Steps /\ v \in BOOLEAN /\ Idle \in Sessions
    BY IdleIsSession DEF Steps, Calls
  <2> HIDE DEF v
  <2> QED
    BY <2>1, Zenon DEF Sessions
<1>7. v => durable.genesis >= 1
  BY <1>2 DEF SessionTypes, Records
<1> HIDE DEF q, v
<1>8. MayEnter(q, r)
  BY <1>4, <1>6, <1>7, IdleIsSession DEF MayEnter, Fits, AfterStart
<1> QED
  BY <1>1, <1>3, <1>5, <1>8, SaveKeeps

\* A step with another stage of the record follows.
LEMMA StageStep ==
  ASSUME DeployInvariant, s.pc \notin Resting, NEW name \in Stages, NEW q,
         MayEnter(q, [local EXCEPT !.stage = name]), Stage(name, q),
         UNCHANGED <<world, others>>
  PROVE  DeployInvariant'
<1>1. others' \in 0..MaxOther
  BY TypeParts DEF DeployInvariant, CountTypes
<1> QED
  BY <1>1, StageKept, SaveKeeps DEF Stage

\* A record that keeps the phase and the genesis fits the same steps.
LEMMA FitsStage ==
  ASSUME NEW q, NEW r, NEW x, Fits(q, r), x.phase = "deploying",
         x.genesis = r.genesis
  PROVE  Fits(q, x)
  BY DEF Fits

LEMMA InspectedStep ==
  ASSUME DeployInvariant, Inspected
  PROVE  DeployInvariant'
<1>1. /\ s.pc = "inspect" /\ Done /\ UNCHANGED <<world, others>>
      /\ \/ Stage("stopping", At("stop-miner"))
         \/ s.verify /\ Stage("health", At("verifying"))
         \/ Stage("render", At("render"))
  BY DEF Inspected
<1>2. /\ s.pc \notin Resting
      /\ {"stop-miner", "verifying", "render"} \subseteq Steps
      /\ {"stopping", "health", "render"} \subseteq Stages
  BY <1>1 DEF Resting, Steps, Stages, Calls
<1>3. /\ Quiet /\ s \in Sessions /\ local = durable /\ Fits(s, durable)
      /\ \A p \in Steps : /\ At(p) \in Sessions /\ At(p).pc = p
                          /\ At(p).at = s.at /\ ~At(p).cut /\ ~At(p).behind
  BY <1>1, <1>2, DoneFacts
<1>4. ASSUME NEW p \in {"stop-miner", "verifying", "render"},
             p = "verifying" => s.verify, NEW name \in Stages, Stage(name, At(p))
      PROVE  DeployInvariant'
  <2> DEFINE r == [local EXCEPT !.stage = name]
  <2>1. r.phase = "deploying" /\ r.genesis = durable.genesis
    BY <1>2, StageKept
  <2> HIDE DEF r
  <2>2. /\ At(p) \in Sessions /\ At(p).pc = p
        /\ At(p).at = s.at /\ ~At(p).cut /\ ~At(p).behind
    BY <1>2, <1>3
  <2>3. Fits(At(p), r)
    BY <1>1, <1>3, <1>4, <2>1, <2>2 DEF Fits, AfterStart
  <2>4. MayEnter(At(p), r)
    BY <1>3, <2>1, <2>2, <2>3 DEF MayEnter
  <2> QED
    BY <1>1, <1>2, <1>4, <2>4, StageStep DEF r
<1> QED
  BY <1>1, <1>2, <1>4

\* The steps that follow one another whatever the record says.
Follows ==
  {<<"stop-miner", "stop-rest">>, <<"core-finalize", "rewallet">>,
   <<"fund", "register">>, <<"fast-forward", "activate">>,
   <<"mine-pause", "syncing">>, <<"render", "core-start">>,
   <<"core-start", "wallet">>, <<"wallet", "identity">>,
   <<"identity", "core-finalize">>, <<"rewallet", "fund">>,
   <<"activate", "syncing">>, <<"genesis", "platform-start">>,
   <<"platform-start", "verifying">>, <<"syncing", "mine-start">>,
   <<"mine-start", "quorums">>}

LEMMA FollowsFacts ==
  ASSUME NEW a, NEW p, <<a, p>> \in Follows
  PROVE  /\ p = "activate" => a = "fast-forward"
         /\ p = "stop-rest" => a = "stop-miner"
         /\ p = "fund" => a = "rewallet"
         /\ p = "register" => a = "fund"
         /\ p \in {"platform-start", "verifying"} => a \in {"genesis", "platform-start"}
         /\ p \in AfterStart => a \in AfterStart \cup {"core-start"}
         /\ p \notin {"fund", "register"} => a \notin {"fund", "register"}
         /\ p \notin {"fast-forward", "inspect", "genesis", "idle", "failing"}
  BY DEF Follows, AfterStart

\* A step that went well has done what the next one needs.
LEMMA NextFits ==
  ASSUME DeployInvariant, s.pc \notin Resting, Done, NEW p \in Steps,
         <<s.pc, p>> \in Follows
  PROVE  /\ At(p) \in Sessions /\ ~At(p).behind /\ ~At(p).cut /\ At(p).pc = p
         /\ Quiet /\ Fits(At(p), durable) /\ (p = "register" => AllLocked)
<1>1. /\ Quiet /\ s \in Sessions /\ local = durable /\ Fits(s, durable)
      /\ At(p) \in Sessions /\ At(p).pc = p
      /\ At(p).at = s.at /\ ~At(p).cut /\ ~At(p).behind
      /\ \A t \in Targets : t \in Where(s, local) => reply[t] = "ok" /\ AnswerOK(t)
  BY DoneFacts
<1>2. s.pc = "core-start" => AllUp
  BY <1>1, WhereIs DEF AnswerOK, AllUp
<1>3. s.pc = "rewallet" => AllLocked
  BY <1>1, WhereIs, HostNames DEF AnswerOK
<1>4. s.pc = "stop-miner" => ~chain.mining /\ Down(Miner)
  BY <1>1, WhereIs, HostNames DEF AnswerOK
<1>5. /\ p = "activate" => s.pc = "fast-forward"
      /\ p = "stop-rest" => s.pc = "stop-miner"
      /\ p = "fund" => s.pc = "rewallet"
      /\ p = "register" => s.pc = "fund"
      /\ p \in {"platform-start", "verifying"} => s.pc \in {"genesis", "platform-start"}
      /\ p \in AfterStart => s.pc \in AfterStart \cup {"core-start"}
      /\ p \notin {"fund", "register"} => s.pc \notin {"fund", "register"}
      /\ p \notin {"fast-forward", "inspect", "genesis", "idle", "failing"}
  BY FollowsFacts
<1>6. p \in AfterStart => AllUp
  BY <1>1, <1>2, <1>5 DEF Fits
<1>7. p \in {"fund", "register"} => AllLocked
  BY <1>1, <1>3, <1>5 DEF Fits
<1>8. p \in {"fund", "register"} =>
        \A v \in Validators : v < s.at => v \in wallet.confirmed
  <2>1. s.pc # "fund" => s.at = 1 \/ s.pc = "register"
    BY <1>1 DEF Fits
  <2> QED
    BY <1>1, <1>5, <2>1 DEF Fits, Validators
<1>9. p \notin {"fund", "register"} => s.at = 1
  BY <1>1, <1>5 DEF Fits
<1>10. p = "activate" => wallet.confirmed = Validators
  BY <1>1, <1>5 DEF Fits
<1>11. p \in {"platform-start", "verifying"} => durable.genesis >= 1
  BY <1>1, <1>5 DEF Fits
<1>12. p = "stop-rest" => ~chain.mining /\ Down(Miner)
  BY <1>4, <1>5
<1>13. Fits(At(p), durable)
  BY <1>1, <1>5, <1>6, <1>7, <1>8, <1>9, <1>10, <1>11, <1>12 DEF Fits
<1> QED
  BY <1>1, <1>7, <1>13

LEMMA OnwardStep ==
  ASSUME DeployInvariant, Onward \/ Synced
  PROVE  DeployInvariant'
<1>1. PICK p \in Steps :
        /\ Done /\ Move(At(p)) /\ UNCHANGED world /\ s.pc \notin Resting
        /\ p \notin {"idle", "failing"}
        /\ <<s.pc, p>> \in Follows
  BY DEF Onward, Synced, Resting, Steps, Calls, Follows
<1>2. /\ At(p) \in Sessions /\ ~At(p).behind /\ ~At(p).cut /\ At(p).pc = p
      /\ Quiet /\ Fits(At(p), durable) /\ (p = "register" => AllLocked)
  BY <1>1, NextFits
<1>3. durable.phase = "deploying"
  BY <1>2 DEF Fits
<1>4. MayEnter(At(p), durable)
  BY <1>1, <1>2, <1>3 DEF MayEnter
<1> QED
  BY <1>1, <1>4, MoveKeeps

LEMMA StageDoneStep ==
  ASSUME DeployInvariant, StageDone
  PROVE  DeployInvariant'
<1>1. PICK name \in Stages, p \in Steps :
        /\ Done /\ Stage(name, At(p)) /\ UNCHANGED <<world, others>>
        /\ s.pc \notin Resting /\ p \notin {"idle", "failing", "register"}
        /\ <<s.pc, p>> \in Follows
  BY DEF StageDone, Resting, Steps, Calls, Stages, Follows
<1> DEFINE r == [local EXCEPT !.stage = name]
<1>2. /\ At(p) \in Sessions /\ ~At(p).behind /\ ~At(p).cut /\ At(p).pc = p
      /\ Quiet /\ Fits(At(p), durable)
  BY <1>1, NextFits
<1>3. r.phase = "deploying" /\ r.genesis = durable.genesis
  BY <1>1, StageKept
<1> HIDE DEF r
<1>4. MayEnter(At(p), r)
  BY <1>1, <1>2, <1>3, FitsStage DEF MayEnter
<1> QED
  BY <1>1, <1>4, StageStep DEF r

\* The miner runs: the quorums are awaited, or a Core-only command ends.
LEMMA MiningStep ==
  ASSUME DeployInvariant, Mining
  PROVE  DeployInvariant'
<1>1. /\ s.pc = "mine-start" /\ Done /\ UNCHANGED <<world, others>>
      /\ Stage("quorums", Idle) \/ Stage("quorums", At("quorums"))
  BY DEF Mining
<1>2. s.pc \notin Resting /\ "quorums" \in Stages /\ "quorums" \in Steps
  BY <1>1 DEF Resting, Stages, Steps
<1> DEFINE r == [local EXCEPT !.stage = "quorums"]
           q == At("quorums")
<1>3. r.phase = "deploying" /\ r.genesis = durable.genesis
  BY <1>2, StageKept
<1>4. q \in Sessions /\ ~q.behind /\ ~q.cut /\ q.pc = "quorums"
      /\ Quiet /\ Fits(q, durable)
  <2>1. <<s.pc, "quorums">> \in Follows
    BY <1>1 DEF Follows
  <2> QED
    BY <1>1, <1>2, <2>1, NextFits
<1> HIDE DEF r, q
<1>5. MayEnter(q, r) /\ MayEnter(Idle, r)
  BY <1>3, <1>4, IdleIsSession, FitsStage DEF MayEnter
<1> QED
  BY <1>1, <1>2, <1>5, StageStep DEF r, q

\* All hosts are down: the record may say so.
LEMMA StoppedStep ==
  ASSUME DeployInvariant, Stopped
  PROVE  DeployInvariant'
<1> DEFINE r == [local EXCEPT !.phase = "stopped", !.stage = "stopped"]
<1>1. s.pc = "stop-rest" /\ Done /\ Save(r, Idle) /\ UNCHANGED <<world, others>>
  BY DEF Stopped
<1>2. /\ Quiet /\ local = durable /\ Fits(s, durable)
      /\ \A t \in Targets : t \in Where(s, local) => reply[t] = "ok" /\ AnswerOK(t)
  BY <1>1, DoneFacts DEF Resting
<1>3. ~chain.mining /\ \A t \in Targets : Down(t)
  <2>1. ~chain.mining /\ Down(Miner)
    BY <1>1, <1>2 DEF Fits
  <2>2. ASSUME NEW t \in Targets \ {Miner} PROVE Down(t)
    BY <1>1, <1>2, <2>2, WhereIs DEF AnswerOK
  <2> QED
    BY <2>1, <2>2
<1>4. Kept(durable) /\ durable \in Records
  BY DurableIsKept DEF Kept
<1>5. /\ r \in Records /\ r.phase = "stopped" /\ r.genesis = durable.genesis
      /\ r.protx = durable.protx
  <2>1. "stopped" \in {"none", "deploying", "interrupted", "network-ready", "stopped"}
        /\ "stopped" \in Stages /\ local \in Records
    BY <1>2, <1>4 DEF Stages
  <2>2. /\ r \in Records /\ r.phase = "stopped" /\ r.genesis = local.genesis
        /\ r.protx = local.protx
    BY <2>1, Zenon DEF Records
  <2> QED
    BY <1>2, <2>2
<1> HIDE DEF r
<1>6. Kept(r)
  BY <1>2, <1>3, <1>4, <1>5 DEF Kept, Believed
<1>7. MayEnter(Idle, r)
  BY <1>2, IdleIsSession DEF MayEnter
<1>8. others' \in 0..MaxOther
  BY <1>1, TypeParts DEF DeployInvariant, CountTypes
<1> QED
  BY <1>1, <1>6, <1>7, <1>8, SaveKeeps

\* A registration is recorded: it was sent, and confirmed.
LEMMA RegisteredStep ==
  ASSUME DeployInvariant, Registered
  PROVE  DeployInvariant'
<1> DEFINE a == s.at
           r == [local EXCEPT !.protx[a] = wallet.saved[a]]
           f == [s EXCEPT !.pc = "fund", !.at = a + 1]
           g == [s EXCEPT !.pc = "fast-forward", !.at = 1]
           q == IF a < NV THEN f ELSE g
<1>1. s.pc = "register" /\ Done /\ Save(r, q) /\ UNCHANGED <<world, others>>
  BY DEF Registered
<1>2. /\ Quiet /\ local = durable /\ Fits(s, durable) /\ s \in Sessions
      /\ ~s.cut /\ ~s.behind
      /\ \A t \in Targets : t \in Where(s, local) => reply[t] = "ok" /\ AnswerOK(t)
  BY <1>1, DoneFacts, DoneQuiet DEF Resting
<1>3. a \in Validators /\ AllLocked /\ a \in wallet.confirmed
  <2>1. reply[Wallet] = "ok" /\ AnswerOK(Wallet)
    BY <1>1, <1>2, WhereIs, HostNames
  <2> QED
    BY <1>1, <1>2, <2>1 DEF AnswerOK, Sessions
<1>4. wallet \in Wallets /\ wallet.saved[a] = 1 /\ 1 \in wallet.sent[a]
  BY <1>3, TypeParts DEF DeployInvariant, WorldTypes, WalletOK
<1>5. Kept(durable) /\ durable \in Records
  BY DurableIsKept DEF Kept
<1> HIDE DEF a
<1>6. /\ r \in Records /\ r.phase = durable.phase /\ r.genesis = durable.genesis
      /\ r.protx[a] = 1
      /\ \A v \in Validators \ {a} : r.protx[v] = durable.protx[v]
  BY <1>2, <1>3, <1>4, <1>5 DEF Records, MaxSigned
<1> HIDE DEF r
<1>7. durable.phase = "deploying" /\ r.phase = "deploying"
  BY <1>2, <1>6 DEF Fits
<1>8. Kept(r)
  BY <1>4, <1>5, <1>6, <1>7 DEF Kept, Believed
<1>9. \A v \in Validators : v <= a => v \in wallet.confirmed
  BY <1>1, <1>2, <1>3 DEF Fits, Validators, a
<1>10. AllUp
  BY <1>1, <1>2 DEF Fits, AfterStart
<1>11. CASE a < NV
  <2>1. a + 1 \in Validators /\ "fund" \in Steps
    BY <1>3, <1>11, DeployAssumption DEF Validators, Steps, Calls
  <2>2. /\ f \in Sessions /\ f.pc = "fund" /\ f.at = a + 1
        /\ f.cut = s.cut /\ f.behind = s.behind
    BY <1>2, <2>1 DEF Sessions
  <2>3. q = f
    BY <1>11
  <2> HIDE DEF f, q
  <2>4. \A v \in Validators : v < f.at => v \in wallet.confirmed
    BY <1>3, <1>9, <2>2 DEF Validators
  <2>5. Fits(f, r)
    BY <1>3, <1>7, <1>10, <2>2, <2>4 DEF Fits
  <2> QED
    BY <1>1, <1>2, <1>7, <1>8, <2>2, <2>3, <2>5, SaveKeeps, TypeParts
    DEF MayEnter, DeployInvariant, CountTypes
<1>12. CASE ~(a < NV)
  <2>1. 1 \in Validators /\ "fast-forward" \in Steps
    BY HostNames DEF Steps, Calls
  <2>2. /\ g \in Sessions /\ g.pc = "fast-forward" /\ g.at = 1
        /\ g.cut = s.cut /\ g.behind = s.behind
    BY <1>2, <2>1 DEF Sessions
  <2>3. q = g
    BY <1>12
  <2> HIDE DEF g, q
  <2>4. wallet.confirmed = Validators
    <3>1. \A v \in Validators : v <= a
      BY <1>3, <1>12, DeployAssumption DEF Validators
    <3> QED
      BY <1>4, <1>9, <3>1 DEF Wallets
  <2>5. Fits(g, r)
    BY <1>7, <1>10, <2>2, <2>4 DEF Fits
  <2> QED
    BY <1>1, <1>2, <1>7, <1>8, <2>2, <2>3, <2>5, SaveKeeps, TypeParts
    DEF MayEnter, DeployInvariant, CountTypes
<1> QED
  BY <1>11, <1>12

\* The quorums are ready: the genesis is the recorded one, or chosen now.
LEMMA QuorumsStep ==
  ASSUME DeployInvariant, QuorumsReady
  PROVE  DeployInvariant'
<1> DEFINE q == At("genesis")
<1>1. /\ s.pc = "quorums" /\ Done /\ UNCHANGED world
      /\ \/ local.genesis # 0 /\ Move(q)
         \/ /\ local.genesis = 0 /\ UNCHANGED others
            /\ \E g \in 1..chain.lock : Save([local EXCEPT !.genesis = g], q)
  BY DEF QuorumsReady
<1>2. "genesis" \in Steps /\ s.pc \notin Resting
  BY <1>1 DEF Steps, Resting
<1>3. /\ Quiet /\ local = durable /\ Fits(s, durable)
      /\ q \in Sessions /\ q.pc = "genesis" /\ q.at = s.at /\ ~q.cut /\ ~q.behind
  BY <1>1, <1>2, DoneFacts
<1> HIDE DEF q
<1>4. Kept(durable) /\ durable \in Records /\ durable.phase = "deploying"
  BY <1>3, DurableIsKept DEF Kept, Fits
<1>5. q.at = 1
  BY <1>1, <1>3 DEF Fits
<1>6. CASE local.genesis # 0 /\ Move(q)
  <2>1. durable.genesis >= 1
    BY <1>3, <1>4, <1>6 DEF Records
  <2>2. Fits(q, durable)
    BY <1>3, <1>4, <1>5, <2>1 DEF Fits, AfterStart
  <2>3. MayEnter(q, durable)
    BY <1>3, <1>4, <2>2 DEF MayEnter
  <2> QED
    BY <1>1, <1>2, <1>6, <2>3, MoveKeeps
<1>7. ASSUME local.genesis = 0, UNCHANGED others, NEW g \in 1..chain.lock,
             Save([local EXCEPT !.genesis = g], q)
      PROVE  DeployInvariant'
  <2> DEFINE r == [local EXCEPT !.genesis = g]
  <2>1. g \in 0..MaxHeight /\ g >= 1 /\ CountTypes
    BY <1>7, TypeParts DEF DeployInvariant, WorldTypes, Chains, MaxHeight
  <2>2. /\ r \in Records /\ r.phase = "deploying" /\ r.genesis = g
        /\ r.protx = durable.protx
    BY <1>3, <1>4, <2>1 DEF Records
  <2> HIDE DEF r
  <2>3. Kept(r)
    BY <1>3, <1>4, <1>7, <2>1, <2>2 DEF Kept, Believed
  <2>4. Fits(q, r)
    BY <1>3, <1>5, <2>1, <2>2 DEF Fits, AfterStart
  <2>5. MayEnter(q, r) /\ Save(r, q)
    BY <1>3, <1>7, <2>2, <2>4 DEF MayEnter, r
  <2> QED
    BY <1>1, <1>7, <2>1, <2>3, <2>5, SaveKeeps DEF CountTypes
<1> QED
  BY <1>1, <1>6, <1>7

\* Not all ready: the same question again, or the miner is paused first.
LEMMA AgainStep ==
  ASSUME DeployInvariant, Again
  PROVE  DeployInvariant'
<1> DEFINE q == [s EXCEPT !.pc = "mine-pause", !.paused = TRUE]
<1>1. /\ s.pc \in {"syncing", "quorums"} /\ ~s.cut /\ UNCHANGED world
      /\ \A t \in Targets : reply[t] \in {"none", "ok", "bad"}
      /\ (s.pc = "syncing" /\ Move(q)) \/ Move(s)
  BY DEF Again
<1>2. s.pc \notin Resting /\ s \in Sessions
  BY <1>1, TypeParts DEF Resting, DeployInvariant, SessionTypes
<1>3. Quiet /\ Fits(s, durable) /\ ~s.behind
  BY <1>1, <1>2, AnsweredQuiet DEF DeployInvariant, SessionOK, Resting
<1>4. durable.phase = "deploying"
  BY <1>3 DEF Fits
<1>5. /\ q \in Sessions /\ q.pc = "mine-pause" /\ q.at = s.at /\ q.cut = s.cut
      /\ q.behind = s.behind
  <2>1. "mine-pause" \in Steps /\ s \in Sessions
    BY <1>2 DEF Steps, Calls
  <2> QED
    BY <2>1, Zenon DEF Sessions
<1> HIDE DEF q
<1>6. s.pc = "syncing" => Fits(q, durable)
  BY <1>3, <1>5 DEF Fits, AfterStart
<1>7. MayEnter(s, durable) /\ (s.pc = "syncing" => MayEnter(q, durable))
  BY <1>1, <1>2, <1>3, <1>4, <1>5, <1>6 DEF MayEnter
<1> QED
  BY <1>1, <1>2, <1>7, MoveKeeps

\* While a session verifies it has no calls.
LEMMA VerifyingFacts ==
  ASSUME DeployInvariant, s.pc = "verifying"
  PROVE  /\ Quiet /\ local = durable /\ Fits(s, durable) /\ ~s.cut /\ ~s.behind
         /\ s \in Sessions /\ Kept(durable) /\ durable \in Records
         /\ others \in 0..MaxOther
<1>1. s \in Sessions /\ others \in 0..MaxOther
  BY TypeParts DEF DeployInvariant, SessionTypes, CountTypes
<1>2. Quiet
  <2>1. Where(s, local) = {}
    BY WhereIs
  <2> QED
    BY <2>1, OwnCalls DEF Quiet, Resting
<1>3. local = durable /\ Fits(s, durable) /\ ~s.cut /\ ~s.behind
  BY DEF DeployInvariant, SessionOK, Resting, Fan
<1>4. Kept(durable) /\ durable \in Records
  BY DurableIsKept DEF Kept
<1> QED
  BY <1>1, <1>2, <1>3, <1>4

\* Doctor agrees: the network is ready.
LEMMA VerifiedStep ==
  ASSUME DeployInvariant, Verified
  PROVE  DeployInvariant'
<1> DEFINE r == [local EXCEPT !.phase = "network-ready", !.stage = "ready"]
<1>1. /\ s.pc = "verifying" /\ Healthy /\ Save(r, Idle)
      /\ UNCHANGED <<world, others>>
  BY DEF Verified
<1>2. /\ Quiet /\ local = durable /\ Fits(s, durable)
      /\ Kept(durable) /\ durable \in Records /\ others \in 0..MaxOther
  BY <1>1, VerifyingFacts
<1>3. /\ r \in Records /\ r.phase = "network-ready" /\ r.stage = "ready"
      /\ r.genesis = local.genesis /\ r.protx = local.protx
  <2>1. "network-ready" \in
          {"none", "deploying", "interrupted", "network-ready", "stopped"}
        /\ "ready" \in Stages /\ local \in Records
    BY <1>2 DEF Stages
  <2> QED
    BY <2>1, Zenon DEF Records
<1> HIDE DEF r
<1>4. r.genesis >= 1
  BY <1>1, <1>2, <1>3 DEF Fits
<1>5. ASSUME NEW v \in Validators PROVE r.protx[v] # 0
  <2>1. v \in wallet.confirmed /\ r.protx[v] = wallet.saved[v]
    BY <1>1, <1>3, <1>5 DEF Healthy
  <2> QED
    BY <1>5, <2>1 DEF DeployInvariant, WalletOK
<1>6. Kept(r)
  BY <1>2, <1>3, <1>4, <1>5 DEF Kept, Believed
<1>7. MayEnter(Idle, r)
  BY <1>2, IdleIsSession DEF MayEnter
<1> QED
  BY <1>1, <1>2, <1>6, <1>7, SaveKeeps

\* The first look finds the network in need of work.
LEMMA ReconcileStep ==
  ASSUME DeployInvariant, Reconcile
  PROVE  DeployInvariant'
<1> DEFINE q == [s EXCEPT !.pc = "render", !.verify = FALSE]
           r == [local EXCEPT !.stage = "render"]
<1>1. /\ s.pc = "verifying" /\ Stage("render", q) /\ UNCHANGED <<world, others>>
  BY DEF Reconcile
<1>2. /\ Quiet /\ local = durable /\ Fits(s, durable) /\ ~s.cut /\ ~s.behind
      /\ s \in Sessions /\ s.pc \notin Resting /\ "render" \in Stages
  BY <1>1, VerifyingFacts DEF Resting, Stages
<1>3. /\ q \in Sessions /\ q.pc = "render" /\ q.at = s.at /\ q.cut = s.cut
      /\ q.behind = s.behind
  <2>1. "render" \in Steps /\ s \in Sessions
    BY <1>2 DEF Steps, Calls
  <2> QED
    BY <2>1, Zenon DEF Sessions
<1>4. r.phase = "deploying"
  BY <1>2, StageKept
<1> HIDE DEF q, r
<1>5. Fits(q, r)
  BY <1>1, <1>2, <1>3, <1>4 DEF Fits, AfterStart
<1>6. MayEnter(q, r)
  BY <1>2, <1>3, <1>4, <1>5 DEF MayEnter
<1> QED
  BY <1>1, <1>2, <1>6, StageStep DEF r

-----------------------------------------------------------------------------
(* A session that ends.                                                    *)

\* A call fails, or the deadline is over.
LEMMA FailedStep ==
  ASSUME DeployInvariant, Failed \/ Deadline \/ Expire
  PROVE  DeployInvariant'
<1>1. /\ Fails(s.behind) /\ UNCHANGED <<durable, local, world, others>>
      /\ NoFault \/ Fault("lost")
      /\ s.cut \/ s.pc \notin Resting \/ \E t \in Targets : reply[t] = "err"
  BY DEF Failed, Deadline, Stuck, Expire, Resting
<1>2. s \in Sessions /\ local \in Records /\ CountTypes
  BY TypeParts DEF DeployInvariant, SessionTypes
<1>3. CountTypes'
  BY <1>1, <1>2, DeployAssumption DEF CountTypes, NoFault, Fault
<1>4. s.pc # "idle"
  BY <1>1 DEF DeployInvariant, HostOK, CallOK, SessionOK, Fan, Resting
<1>5. ~s.behind => local' = durable'
  BY <1>1, <1>4 DEF DeployInvariant, SessionOK
<1>6. s.behind \in BOOLEAN /\ Kept(durable')
  BY <1>1, <1>2, DurableIsKept DEF Sessions
<1>7. local' \in Records /\ UNCHANGED world
  BY <1>1, <1>2
<1> QED
  BY <1>1, <1>3, <1>5, <1>6, <1>7, FailKeeps

\* A session that is gone leaves what runs on the hosts.
LEMMA GoneKeeps ==
  ASSUME DeployInvariant, s' = Idle, Kept(durable'), local' \in Records,
         reply' \in [Targets -> Answered], \A t \in Targets : reply'[t] = "none",
         proc' = proc, UNCHANGED world, CountTypes'
  PROVE  DeployInvariant'
<1>1. SessionTypes /\ CallTypes /\ WorldTypes
  BY TypeParts DEF DeployInvariant
<1>2. SessionTypes' /\ CallTypes' /\ WorldTypes'
  BY <1>1, IdleIsSession DEF SessionTypes, CallTypes, WorldTypes, Kept, world
<1>3. TypeOK'
  BY <1>2, TypesNext
<1>4. ASSUME NEW t \in Targets PROVE HostOK(t)'
  <2>1. ProcOK(t)'
    BY <1>4, OldProcess
  <2>2. reply'[t] = "none" /\ s'.pc = "idle"
    BY <1>4, IdleIsSession
  <2> QED
    BY <2>1, <2>2 DEF HostOK, CallOK, AnswerOK, Resting
<1>5. WalletOK' /\ ChainOK' /\ OneGenesis'
  BY RecordKeeps
<1>6. SessionOK'
  BY IdleIsSession DEF SessionOK, Resting
<1>7. StoppedOK'
  BY IdleIsSession DEF Kept, StoppedOK, Resting, Quiet, Down, world
<1> QED
  BY <1>3, <1>4, <1>5, <1>6, <1>7 DEF DeployInvariant

LEMMA CrashStep ==
  ASSUME DeployInvariant, Crash
  PROVE  DeployInvariant'
<1>1. /\ s' = Idle /\ reply' = NoReplies /\ Fault("crash")
      /\ UNCHANGED <<durable, local, proc, world, others>>
  BY DEF Crash
<1>2. /\ Kept(durable') /\ local' \in Records /\ CountTypes
  BY <1>1, DurableIsKept, TypeParts DEF DeployInvariant, SessionTypes
<1>3. CountTypes' /\ UNCHANGED world /\ proc' = proc
  BY <1>1, <1>2, DeployAssumption DEF CountTypes, Fault
<1>4. reply' \in [Targets -> Answered] /\ \A t \in Targets : reply'[t] = "none"
  BY <1>1 DEF NoReplies, Answered
<1> QED
  BY <1>1, <1>2, <1>3, <1>4, GoneKeeps

\* The deferred save.
LEMMA InterruptStep ==
  ASSUME DeployInvariant, Interrupt
  PROVE  DeployInvariant'
<1> DEFINE r == [local EXCEPT !.phase = "interrupted"]
<1>1. /\ s.pc = "failing" /\ s' = Idle /\ local' = r
      /\ UNCHANGED <<reply, proc, world, others>>
      /\ durable' = durable \/ (~s.behind /\ durable' = r)
      /\ NoFault \/ Fault("save")
  BY DEF Interrupt
<1>2. /\ SessionTypes /\ CallTypes /\ CountTypes /\ Kept(durable)
      /\ "interrupted" \in
           {"none", "deploying", "interrupted", "network-ready", "stopped"}
  BY TypeParts, DurableIsKept DEF DeployInvariant
<1>3. /\ r \in Records /\ r.phase = "interrupted" /\ r.genesis = local.genesis
      /\ r.protx = local.protx
  BY <1>2, Zenon DEF SessionTypes, Records
<1> HIDE DEF r
<1>4. Kept(durable')
  <2>1. CASE durable' = durable
    BY <1>2, <2>1
  <2>2. CASE ~s.behind /\ durable' = r
    <3>1. local = durable
      BY <1>1, <2>2 DEF DeployInvariant, SessionOK
    <3> QED
      BY <1>2, <1>3, <2>2, <3>1 DEF Kept, Believed
  <2> QED
    BY <1>1, <2>1, <2>2
<1>5. CountTypes' /\ UNCHANGED world /\ proc' = proc /\ local' \in Records
  BY <1>1, <1>2, <1>3, DeployAssumption DEF CountTypes, Fault, NoFault
<1>6. reply' \in [Targets -> Answered] /\ \A t \in Targets : reply'[t] = "none"
  BY <1>1, <1>2 DEF CallTypes, DeployInvariant, HostOK, CallOK, Resting
<1> QED
  BY <1>1, <1>4, <1>5, <1>6, GoneKeeps

\* Which hosts are called is a matter of the step and the validator only.
LEMMA SameCalls ==
  ASSUME NEW q, NEW x, NEW r, q.pc = x.pc, q.at = x.at
  PROVE  Where(q, r) = Where(x, r) /\ Call(q, r) = Call(x, r)
  BY DEF Where, Call

\* A checkpoint of an answer fails: no more is saved.
LEMMA SaveFailsStep ==
  ASSUME DeployInvariant, SaveFails
  PROVE  DeployInvariant'
<1>1. PICK b \in BOOLEAN :
        /\ s.pc \in Fan /\ s' = [s EXCEPT !.cut = TRUE, !.behind = b]
        /\ UNCHANGED <<durable, local, reply, proc, world, others>>
        /\ Fault("save")
  BY Zenon DEF SaveFails
<1>2. /\ SessionTypes /\ CallTypes /\ WorldTypes /\ CountTypes
  BY TypeParts DEF DeployInvariant
<1>3. /\ s' \in Sessions /\ s'.pc = s.pc /\ s'.at = s.at /\ s'.verify = s.verify
      /\ s'.cut
  <2>1. s \in Sessions
    BY <1>2 DEF SessionTypes
  <2> QED
    BY <1>1, <2>1, Zenon DEF Sessions
<1>4. TypeOK'
  <2>1. CountTypes' /\ CallTypes'
    BY <1>1, <1>2, DeployAssumption DEF CountTypes, CallTypes, Fault
  <2>2. SessionTypes' /\ WorldTypes'
    BY <1>1, <1>2, <1>3 DEF SessionTypes, WorldTypes, world, Believed
  <2> QED
    BY <2>1, <2>2, TypesNext
<1>5. ASSUME NEW t \in Targets PROVE HostOK(t)'
  <2>1. Where(s', local) = Where(s, local) /\ Call(s', local) = Call(s, local)
    BY <1>3, SameCalls
  <2>2. Where(s, local)' = Where(s', local) /\ Call(s, local)' = Call(s', local)
    BY <1>1 DEF Where, Call
  <2>3. CallOK(t) /\ ProcOK(t) /\ AnswerOK(t)
    BY <1>5 DEF DeployInvariant, HostOK
  <2>4. CallOK(t)'
    BY <1>1, <1>3, <2>1, <2>2, <2>3 DEF CallOK
  <2>5. ProcOK(t)' /\ AnswerOK(t)'
    BY <1>1, <1>3, <2>3
    DEF ProcOK, AnswerOK, AllUp, AllLocked, Submitted, Down, world
  <2> QED
    BY <2>4, <2>5 DEF HostOK
<1>6. WalletOK' /\ ChainOK' /\ OneGenesis'
  BY <1>1, DurableIsKept, RecordKeeps
<1>7. SessionOK'
  <2>1. s.pc \notin Resting /\ Fits(s, durable) /\ local = durable
    BY <1>1 DEF DeployInvariant, SessionOK, Fan, Resting
  <2>2. Fits(s, durable)'
    BY <1>1, <1>3, <2>1 DEF Fits, AllUp, AllLocked, Submitted, Down, world
  <2> QED
    BY <1>1, <1>3, <2>1, <2>2 DEF SessionOK
<1>8. StoppedOK'
  BY <1>1, <1>3 DEF DeployInvariant, StoppedOK, Down, world
<1> QED
  BY <1>4, <1>5, <1>6, <1>7, <1>8 DEF DeployInvariant

-----------------------------------------------------------------------------
(* Lemmas: the steps of a process on a host.                               *)

\* A step of the process on host t, or of the call that waits for it.
HostTurn(t) ==
  /\ UNCHANGED session /\ CountTypes' /\ CallTypes' /\ CallOK(t)'
  /\ \A u \in Targets \ {t} : reply'[u] = reply[u] /\ proc'[u] = proc[u]
  /\ proc'[t] \in {proc[t], NoProcess}
  /\ reply'[t] # reply[t] => reply[t] = "wait"

\* The hosts after such a step.
TurnIsKept(t) ==
  /\ WorldTypes' /\ WalletOK' /\ ChainOK' /\ OneGenesis'
  /\ s.pc \notin Resting => Fits(s, durable)'
  /\ \A u \in Targets : proc'[u] = proc[u] => ProcOK(u)'
  /\ \A u \in Targets : AnswerOK(u)'
  /\ StoppedOK'

LEMMA TurnKeeps ==
  ASSUME DeployInvariant, NEW t \in Targets, HostTurn(t), TurnIsKept(t)
  PROVE  DeployInvariant'
<1>1. /\ UNCHANGED <<durable, local, s>>
      /\ SessionTypes
  BY TypeParts DEF HostTurn, session, DeployInvariant
<1>2. TypeOK'
  BY <1>1, TypesNext DEF HostTurn, TurnIsKept, SessionTypes, Believed
<1>3. ASSUME NEW u \in Targets PROVE HostOK(u)'
  <2>1. CallOK(u)'
    <3>1. CASE u = t
      BY <3>1 DEF HostTurn
    <3>2. CASE u # t
      <4>1. CallOK(u) /\ reply'[u] = reply[u] /\ proc'[u] = proc[u]
        BY <1>3, <3>2 DEF HostTurn, DeployInvariant, HostOK
      <4>2. Where(s, local)' = Where(s, local) /\ Call(s, local)' = Call(s, local)
        BY <1>1 DEF Where, Call
      <4> QED
        BY <1>1, <4>1, <4>2 DEF CallOK
    <3> QED
      BY <3>1, <3>2
  <2>2. ProcOK(u)'
    <3>1. CASE proc'[u] = proc[u]
      BY <1>3, <3>1 DEF TurnIsKept
    <3>2. CASE proc'[u] = NoProcess
      BY <3>2 DEF ProcOK, NoProcess, OnWallet
    <3> QED
      BY <1>3, <3>1, <3>2 DEF HostTurn
  <2>3. AnswerOK(u)'
    BY <1>3 DEF TurnIsKept
  <2> QED
    BY <2>1, <2>2, <2>3 DEF HostOK
<1>4. SessionOK'
  BY <1>1 DEF DeployInvariant, SessionOK, TurnIsKept
<1> QED
  BY <1>2, <1>3, <1>4 DEF DeployInvariant, TurnIsKept

\* The process ends with answer r, or goes on.
LEMMA AnswersTurn ==
  ASSUME DeployInvariant, NEW t \in Targets, NEW r \in {"ok", "bad", "err"},
         Answers(t, r), UNCHANGED session, CountTypes'
  PROVE  HostTurn(t)
<1>1. /\ CallTypes /\ CallOK(t) /\ UNCHANGED <<durable, local, s>>
      /\ NoProcess \in Processes
  BY TypeParts, DeployAssumption
  DEF DeployInvariant, HostOK, session, NoProcess, Processes, MaxHeight
<1>2. /\ proc' = [proc EXCEPT ![t] = NoProcess]
      /\ reply' = [reply EXCEPT ![t] = IF @ = "wait" THEN r ELSE @]
  BY DEF Answers
<1>3. CallTypes' /\ proc'[t] = NoProcess
      /\ reply'[t] = (IF reply[t] = "wait" THEN r ELSE reply[t])
      /\ \A u \in Targets \ {t} : reply'[u] = reply[u] /\ proc'[u] = proc[u]
  BY <1>1, <1>2 DEF CallTypes, Answered
<1>4. Where(s, local)' = Where(s, local)
  BY <1>1 DEF Where
<1>5. CallOK(t)'
  BY <1>1, <1>3, <1>4 DEF CallOK
<1> QED
  BY <1>3, <1>5 DEF HostTurn

LEMMA GoesOnTurn ==
  ASSUME DeployInvariant, NEW t \in Targets, GoesOn, UNCHANGED session, CountTypes'
  PROVE  HostTurn(t)
<1>1. /\ CallTypes /\ CallOK(t) /\ UNCHANGED <<durable, local, s, proc, reply>>
  BY TypeParts DEF DeployInvariant, HostOK, session, GoesOn
<1>2. Where(s, local)' = Where(s, local) /\ Call(s, local)' = Call(s, local)
  BY <1>1 DEF Where, Call
<1>3. CallOK(t)' /\ CallTypes'
  BY <1>1, <1>2 DEF CallOK, CallTypes
<1> QED
  BY <1>1, <1>3 DEF HostTurn

\* Nothing changes on the hosts: an answer that says nothing of them.
LEMMA IdleTurn ==
  ASSUME DeployInvariant, NEW t \in Targets, HostTurn(t), UNCHANGED world,
         reply'[t] = "ok" => AnswerOK(t)'
  PROVE  DeployInvariant'
<1>1. UNCHANGED <<durable, local, s>> /\ WorldTypes
  BY TypeParts DEF HostTurn, session, DeployInvariant
<1>2. WorldTypes'
  BY <1>1 DEF WorldTypes, world
<1>3. WalletOK' /\ ChainOK' /\ OneGenesis'
  BY <1>1, DurableIsKept, RecordKeeps
<1>4. s.pc \notin Resting => Fits(s, durable)'
  BY <1>1 DEF DeployInvariant, SessionOK, Fits, AllUp, AllLocked, Submitted, Down,
              world
<1>5. ASSUME NEW u \in Targets, proc'[u] = proc[u] PROVE ProcOK(u)'
  <2>1. \A w \in Targets : proc'[w].act = "stop" => proc[w].act = "stop"
    BY DEF HostTurn, NoProcess
  <2> QED
    BY <1>1, <1>5, <2>1, DurableIsKept, OldProcess
<1>6. ASSUME NEW u \in Targets PROVE AnswerOK(u)'
  <2>1. CASE u = t
    BY <2>1 DEF AnswerOK
  <2>2. CASE u # t
    BY <1>1, <1>6, <2>2
    DEF HostTurn, DeployInvariant, HostOK, AnswerOK, AllLocked, Submitted, Down,
        world
  <2> QED
    BY <2>1, <2>2
<1>7. StoppedOK'
  BY <1>1 DEF HostTurn, DeployInvariant, StoppedOK, Down, world
<1>8. TurnIsKept(t)
  BY <1>2, <1>3, <1>4, <1>5, <1>6, <1>7 DEF TurnIsKept
<1> QED
  BY <1>8, TurnKeeps

\* The network still counts; the session and the record do not change.
LEMMA OthersKeep ==
  ASSUME DeployInvariant, Others
  PROVE  CountTypes' /\ UNCHANGED session
  BY TypeParts DEF DeployInvariant, CountTypes, Others, NoFault, session

\* A process belongs to the step under way, or to an earlier session; either way the
\* network is not stopped.
LEMMA Working ==
  ASSUME DeployInvariant, NEW t \in Targets, proc[t].act # "idle"
  PROVE  /\ durable.phase # "stopped"
         /\ \/ s.pc \in Resting \cup {"inspect"}
            \/ /\ t \in Where(s, local) /\ proc[t] = Call(s, local)
               /\ proc[t].act = Action(s.pc)
<1>1. proc[t] # NoProcess
  BY DEF NoProcess
<1>2. durable.phase # "stopped"
  BY <1>1 DEF DeployInvariant, StoppedOK
<1>3. s.pc \in Resting \cup {"inspect"}
      \/ (t \in Where(s, local) /\ proc[t] = Call(s, local))
  BY <1>1, OwnCalls
<1> QED
  BY <1>2, <1>3, CallIs

\* A session that has only begun asks nothing of the hosts.
LEMMA InspectFits ==
  ASSUME DeployInvariant, s.pc = "inspect", UNCHANGED <<durable, s>>
  PROVE  Fits(s, durable)'
  BY DEF DeployInvariant, SessionOK, Resting, Fits, AfterStart

\* An answer is given to the step that waits for it.
LEMMA WaitedFor ==
  ASSUME DeployInvariant, NEW t \in Targets, NEW r \in {"ok", "bad", "err"},
         Answers(t, r), proc[t].act # "idle", reply'[t] = "ok"
  PROVE  /\ r = "ok" /\ t \in Where(s, local) /\ proc[t] = Call(s, local)
         /\ proc[t].act = Action(s.pc) /\ s.pc \notin Resting
<1>1. CallTypes /\ CallOK(t) /\ proc[t] # NoProcess
  BY TypeParts DEF DeployInvariant, HostOK, NoProcess
<1>2. reply'[t] = (IF reply[t] = "wait" THEN r ELSE reply[t])
  BY <1>1 DEF CallTypes, Answers
<1>3. reply[t] = "wait" /\ r = "ok"
  BY <1>1, <1>2 DEF CallOK
<1> QED
  BY <1>1, <1>3, CallIs DEF CallOK

LEMMA ObserveStep ==
  ASSUME DeployInvariant, NEW t \in Targets, Observe(t), Others
  PROVE  DeployInvariant'
<1>1. PICK r \in {"ok", "bad", "err"} : Answers(t, r)
  BY DEF Observe
<1>2. /\ proc[t].act \in {"inspect", "render", "identity", "core-status"}
      /\ UNCHANGED world /\ HostTurn(t)
  BY <1>1, OthersKeep, AnswersTurn DEF Observe, Runs
<1>3. ASSUME reply'[t] = "ok" PROVE AnswerOK(t)'
  <2>1. proc[t].act = Action(s.pc) /\ s' = s
    BY <1>1, <1>2, <1>3, WaitedFor DEF HostTurn, session
  <2>2. s.pc \notin {"core-start", "rewallet", "register", "stop-miner", "stop-rest"}
    BY <1>2, <2>1, ActionIs
  <2> QED
    BY <2>1, <2>2 DEF AnswerOK
<1> QED
  BY <1>2, <1>3, IdleTurn

\* An error says nothing of the host.
LEMMA ErrorStep ==
  ASSUME DeployInvariant, NEW t \in Targets, Answers(t, "err"), UNCHANGED session,
         CountTypes', UNCHANGED world, proc[t].act # "idle"
  PROVE  DeployInvariant'
<1>1. HostTurn(t)
  BY AnswersTurn
<1>2. reply'[t] # "ok"
  BY WaitedFor
<1> QED
  BY <1>1, <1>2, IdleTurn

LEMMA RefuseStep ==
  ASSUME DeployInvariant, NEW t \in Targets, Refuse(t), Others
  PROVE  DeployInvariant'
<1>1. ASSUME proc[t].act = "idle" PROVE FALSE
  BY <1>1 DEF Refuse, Runs
<1>2. Answers(t, "err") /\ UNCHANGED world
  BY DEF Refuse
<1> QED
  BY <1>1, <1>2, OthersKeep, ErrorStep

LEMMA BreaksStep ==
  ASSUME DeployInvariant, NEW t \in Targets, Breaks(t)
  PROVE  DeployInvariant'
<1>1. /\ Answers(t, "err") /\ Fault("broken") /\ proc[t].act # "idle"
      /\ UNCHANGED <<session, world>>
  BY DEF Breaks
<1>2. UNCHANGED session /\ UNCHANGED world /\ CountTypes'
  BY <1>1, TypeParts, DeployAssumption
  DEF Fault, DeployInvariant, CountTypes, session
<1> QED
  BY <1>1, <1>2, ErrorStep

\* The runner waits no more for an answer; what it called may run on.
LEMMA GivenUpStep ==
  ASSUME DeployInvariant, NEW t \in Targets, CutOff(t) \/ Lost(t)
  PROVE  DeployInvariant'
<1>1. /\ reply[t] = "wait" /\ reply' = [reply EXCEPT ![t] = "err"]
      /\ proc' = proc \/ proc' = [proc EXCEPT ![t] = NoProcess]
      /\ NoFault \/ Fault("lost")
      /\ UNCHANGED <<durable, local, s, others>> /\ UNCHANGED world
      /\ UNCHANGED session
  BY DEF CutOff, Lost, session
<1>2. CallTypes /\ CountTypes /\ CallOK(t) /\ NoProcess \in Processes
  BY TypeParts, DeployAssumption
  DEF DeployInvariant, HostOK, NoProcess, Processes, MaxHeight
<1>3. /\ CallTypes' /\ reply'[t] = "err" /\ proc'[t] \in {proc[t], NoProcess}
      /\ \A u \in Targets \ {t} : reply'[u] = reply[u] /\ proc'[u] = proc[u]
  BY <1>1, <1>2 DEF CallTypes, Answered
<1>4. Where(s, local)' = Where(s, local) /\ Call(s, local)' = Call(s, local)
  BY <1>1 DEF Where, Call
<1>5. CallOK(t)'
  <2>1. s.pc \notin Resting
    BY <1>1, <1>2 DEF CallOK
  <2> QED
    BY <1>1, <1>2, <1>3, <1>4, <2>1 DEF CallOK
<1>6. CountTypes'
  BY <1>1, <1>2, DeployAssumption DEF CountTypes, Fault, NoFault
<1>7. HostTurn(t)
  BY <1>1, <1>3, <1>5, <1>6 DEF HostTurn
<1> QED
  BY <1>1, <1>3, <1>7, IdleTurn

\* register answers: its validator is confirmed and every collateral is locked.
LEMMA RegisterAnswersStep ==
  ASSUME DeployInvariant, NEW t \in Targets, NEW v \in Validators,
         RegisterAnswers(t, v), Others
  PROVE  DeployInvariant'
<1>1. /\ proc[t].act = "register" /\ proc[t].arg = v
      /\ v \in wallet.locked /\ v \in wallet.confirmed
      /\ Answers(t, "ok") /\ UNCHANGED world
  BY DEF RegisterAnswers, Registers, Runs
<1>2. HostTurn(t)
  BY <1>1, OthersKeep, AnswersTurn
<1>3. AllLocked
  BY <1>1 DEF DeployInvariant, HostOK, ProcOK, AllLocked
<1>4. ASSUME reply'[t] = "ok" PROVE AnswerOK(t)'
  <2>1. /\ proc[t] = Call(s, local) /\ proc[t].act = Action(s.pc) /\ s' = s
    BY <1>1, <1>2, <1>4, WaitedFor DEF HostTurn, session
  <2>2. s.pc = "register" /\ s.at = v
    BY <1>1, <2>1, ActionIs, CallIs
  <2> QED
    BY <1>1, <1>3, <2>1, <2>2 DEF AnswerOK, AllLocked, Submitted, world
<1> QED
  BY <1>1, <1>2, <1>4, IdleTurn

-----------------------------------------------------------------------------
(* The Cores, the miner and Platform.                                      *)

\* Cores are started, none is stopped.
LEMMA CoresRise ==
  ASSUME DeployInvariant, NEW t \in Targets, HostTurn(t),
         proc[t].act \in {"core-start", "core-finalize"},
         core' \in [Targets -> Cores],
         \A u \in Targets : core[u].up => core'[u].up,
         reply'[t] = reply[t] \/ core'[t].up,
         UNCHANGED <<plat, wallet, chain>>
  PROVE  DeployInvariant'
<1>1. UNCHANGED <<durable, local, s>> /\ WorldTypes /\ CallTypes
  BY TypeParts DEF HostTurn, session, DeployInvariant
<1>2. /\ durable.phase # "stopped"
      /\ s.pc \in Resting \cup {"inspect", "core-start", "core-finalize"}
  BY Working, ActionIs
<1>3. WorldTypes'
  BY <1>1 DEF WorldTypes
<1>4. AllUp => AllUp'
  BY DEF AllUp
<1>5. WalletOK' /\ ChainOK' /\ OneGenesis'
  BY <1>1, <1>4 DEF DeployInvariant, WalletOK, ChainOK, OneGenesis
<1>6. s.pc \notin Resting => Fits(s, durable)'
  BY <1>1, <1>2, <1>4
  DEF DeployInvariant, SessionOK, Fits, AfterStart, Resting
<1>7. ASSUME NEW u \in Targets, proc'[u] = proc[u] PROVE ProcOK(u)'
  <2>1. ProcOK(u)
    BY <1>7 DEF DeployInvariant, HostOK
  <2>2. \A w \in Targets : proc'[w].act = "stop" => proc[w].act = "stop"
    BY DEF HostTurn, NoProcess
  <2> QED
    BY <1>1, <1>4, <1>7, <2>1, <2>2 DEF ProcOK, Submitted
<1>8. ASSUME NEW u \in Targets PROVE AnswerOK(u)'
  <2>1. AnswerOK(u)
    BY <1>8 DEF DeployInvariant, HostOK
  <2>2. reply'[u] = reply[u] \/ (u = t /\ core'[u].up)
    BY <1>8 DEF HostTurn
  <2> QED
    BY <1>1, <1>2, <1>8, <2>1, <2>2 DEF AnswerOK, Resting
<1>9. StoppedOK'
  BY <1>1, <1>2 DEF StoppedOK
<1>10. TurnIsKept(t)
  BY <1>3, <1>5, <1>6, <1>7, <1>8, <1>9 DEF TurnIsKept
<1> QED
  BY <1>10, TurnKeeps

LEMMA EnsureCoreStep ==
  ASSUME DeployInvariant, NEW t \in Targets, EnsureCore(t), Others
  PROVE  DeployInvariant'
<1> DEFINE conf == IF core[t].final THEN "final" ELSE "plain"
           y    == core[t].synced /\ core[t].up /\ core[t].conf = conf
<1>1. /\ proc[t].act \in {"core-start", "core-finalize"}
      /\ core' = [core EXCEPT ![t].up = TRUE, ![t].conf = conf,
                    ![t].synced = @ /\ core[t].up /\ core[t].conf = conf]
      /\ Answers(t, "ok") /\ UNCHANGED <<plat, wallet, chain>>
  BY DEF EnsureCore, Runs
<1>2. core \in [Targets -> Cores]
  BY TypeParts DEF DeployInvariant, WorldTypes
<1>3. core[t] \in Cores /\ conf \in {"none", "plain", "final"} /\ y \in BOOLEAN
  BY <1>2, Zenon DEF Cores
<1>4. core' \in [Targets -> Cores]
  BY <1>1, <1>2, <1>3, Zenon DEF Cores
<1>5. core'[t].up
  BY <1>1, <1>2, <1>3, Zenon DEF Cores
<1>6. \A u \in Targets : core[u].up => core'[u].up
  BY <1>1, <1>2, <1>5, Zenon
<1>7. HostTurn(t)
  BY <1>1, OthersKeep, AnswersTurn
<1> QED
  BY <1>1, <1>4, <1>5, <1>6, <1>7, CoresRise

LEMMA FinalizeStep ==
  ASSUME DeployInvariant, NEW t \in Targets, Finalize(t), Others
  PROVE  DeployInvariant'
<1>1. /\ proc[t].act \in {"core-start", "core-finalize"}
      /\ core' = [core EXCEPT ![t].final = TRUE]
      /\ GoesOn /\ UNCHANGED <<plat, wallet, chain>>
  BY DEF Finalize, Runs
<1>2. core \in [Targets -> Cores]
  BY TypeParts DEF DeployInvariant, WorldTypes
<1>3. core[t] \in Cores
  BY <1>2
<1>4. core' \in [Targets -> Cores]
  BY <1>1, <1>2, <1>3, Zenon DEF Cores
<1>5. \A u \in Targets : core[u].up => core'[u].up
  BY <1>1, <1>2, <1>3, Zenon DEF Cores
<1>6. HostTurn(t) /\ reply'[t] = reply[t]
  BY <1>1, OthersKeep, GoesOnTurn DEF GoesOn
<1> QED
  BY <1>1, <1>4, <1>5, <1>6, CoresRise

\* The miner starts over Cores that run, and pauses.
LEMMA MineStep ==
  ASSUME DeployInvariant, NEW t \in Targets, Mine(t), Others
  PROVE  DeployInvariant'
<1> DEFINE on == proc[t].act = "mine-start"
<1>1. /\ proc[t].act \in {"mine-pause", "mine-start"}
      /\ chain' = [chain EXCEPT !.mining = on]
      /\ Answers(t, "ok") /\ UNCHANGED <<core, plat, wallet>>
  BY DEF Mine, Runs
<1>2. HostTurn(t) /\ UNCHANGED <<durable, local, s>>
  BY <1>1, OthersKeep, AnswersTurn DEF session
<1>3. WorldTypes
  BY TypeParts DEF DeployInvariant
<1>4. on \in BOOLEAN /\ chain \in Chains
  BY <1>3 DEF WorldTypes
<1>5. /\ durable.phase # "stopped"
      /\ s.pc \in Resting \cup {"inspect", "mine-pause", "mine-start"}
  BY <1>1, Working, ActionIs
<1>6. on => AllUp /\ \A u \in Targets : proc[u].act # "stop"
  BY DEF DeployInvariant, HostOK, ProcOK
<1> HIDE DEF on
<1>7. /\ chain' \in Chains /\ chain'.mining = on /\ chain'.dkg = chain.dkg
      /\ chain'.burst = chain.burst
  BY <1>1, <1>4, Zenon DEF Chains
<1>8. WorldTypes'
  BY <1>1, <1>3, <1>7 DEF WorldTypes
<1>9. WalletOK' /\ ChainOK' /\ OneGenesis'
  BY <1>1, <1>2, <1>6, <1>7
  DEF DeployInvariant, WalletOK, ChainOK, OneGenesis, AllUp
<1>10. s.pc \notin Resting => Fits(s, durable)'
  BY <1>1, <1>2, <1>5
  DEF DeployInvariant, SessionOK, Fits, AfterStart, Resting, AllUp
<1>11. ASSUME NEW u \in Targets, proc'[u] = proc[u] PROVE ProcOK(u)'
  <2>1. ProcOK(u)
    BY <1>11 DEF DeployInvariant, HostOK
  <2>2. \A w \in Targets : proc'[w].act = "stop" => proc[w].act = "stop"
    BY <1>2 DEF HostTurn, NoProcess
  <2> QED
    BY <1>1, <1>2, <1>6, <1>7, <1>11, <2>1, <2>2 DEF ProcOK, Submitted, AllUp
<1>12. ASSUME NEW u \in Targets PROVE AnswerOK(u)'
  <2>1. AnswerOK(u) /\ CallOK(u)
    BY <1>12 DEF DeployInvariant, HostOK
  <2>2. CASE s.pc \in {"inspect", "mine-pause", "mine-start"}
    BY <1>2, <2>2 DEF AnswerOK
  <2>3. CASE s.pc \in Resting
    <3>1. reply[u] = "none"
      BY <2>1, <2>3 DEF CallOK
    <3> QED
      BY <1>2, <1>12, <2>3, <3>1 DEF AnswerOK, HostTurn, Resting
  <2> QED
    BY <1>5, <2>2, <2>3
<1>13. StoppedOK'
  BY <1>2, <1>5 DEF StoppedOK
<1>14. TurnIsKept(t)
  BY <1>8, <1>9, <1>10, <1>11, <1>12, <1>13 DEF TurnIsKept
<1> QED
  BY <1>2, <1>14, TurnKeeps

\* Platform is bound to the genesis of the durable record, and starts.
LEMMA PlatformStep ==
  ASSUME DeployInvariant, NEW t \in Validators, PlatformBind(t) \/ PlatformStart(t),
         Others
  PROVE  DeployInvariant'
<1>1. /\ proc[t].act = "platform-start"
      /\ \/ plat' = [plat EXCEPT ![t].inputs = proc[t].arg] /\ GoesOn
         \/ /\ plat' = [plat EXCEPT ![t].up = TRUE] /\ Answers(t, "ok")
            /\ plat[t].inputs = proc[t].arg
      /\ UNCHANGED <<core, wallet, chain>>
  BY DEF PlatformBind, PlatformStart, Runs
<1>2. /\ t \in Targets /\ proc[t].act # "idle" /\ HostTurn(t)
      /\ UNCHANGED <<durable, local, s>>
  BY <1>1, HostNames, OthersKeep, AnswersTurn, GoesOnTurn DEF session
<1>3. WorldTypes /\ durable \in Records
  BY TypeParts DEF DeployInvariant, SessionTypes
<1>4. /\ durable.phase # "stopped"
      /\ s.pc \in Resting \cup {"inspect", "platform-start"}
  BY <1>1, <1>2, Working, ActionIs
<1>5. proc[t].arg = durable.genesis
  BY <1>1, <1>2 DEF DeployInvariant, HostOK, ProcOK
<1>6. /\ plat' \in [Validators -> Platforms]
      /\ \A v \in Validators : plat'[v].inputs \in {plat[v].inputs, durable.genesis}
  <2>1. /\ plat \in [Validators -> Platforms] /\ plat[t] \in Platforms
        /\ durable.genesis \in 0..MaxHeight
    BY <1>3 DEF WorldTypes, Records
  <2>2. CASE plat' = [plat EXCEPT ![t].inputs = proc[t].arg]
    BY <1>5, <2>1, <2>2, Zenon DEF Platforms
  <2>3. CASE plat' = [plat EXCEPT ![t].up = TRUE]
    BY <2>1, <2>3, Zenon DEF Platforms
  <2> QED
    BY <1>1, <2>2, <2>3
<1>7. WorldTypes'
  BY <1>1, <1>3, <1>6 DEF WorldTypes
<1>8. WalletOK' /\ ChainOK'
  BY <1>1, <1>2 DEF DeployInvariant, WalletOK, ChainOK, AllUp
<1>9. OneGenesis'
  BY <1>2, <1>6 DEF DeployInvariant, OneGenesis
<1>10. s.pc \notin Resting => Fits(s, durable)'
  BY <1>1, <1>2, <1>4
  DEF DeployInvariant, SessionOK, Fits, AfterStart, Resting
<1>11. ASSUME NEW u \in Targets, proc'[u] = proc[u] PROVE ProcOK(u)'
  <2>1. ProcOK(u)
    BY <1>11 DEF DeployInvariant, HostOK
  <2>2. \A w \in Targets : proc'[w].act = "stop" => proc[w].act = "stop"
    BY <1>2 DEF HostTurn, NoProcess
  <2> QED
    BY <1>1, <1>2, <1>11, <2>1, <2>2 DEF ProcOK, Submitted, AllUp
<1>12. ASSUME NEW u \in Targets PROVE AnswerOK(u)'
  <2>1. CASE s.pc \in {"inspect", "platform-start"}
    BY <1>2, <2>1 DEF AnswerOK
  <2>2. CASE s.pc \in Resting
    BY <1>2, <2>2 DEF AnswerOK, Resting
  <2> QED
    BY <1>4, <2>1, <2>2
<1>13. StoppedOK'
  BY <1>2, <1>4 DEF StoppedOK
<1>14. TurnIsKept(t)
  BY <1>7, <1>8, <1>9, <1>10, <1>11, <1>12, <1>13 DEF TurnIsKept
<1> QED
  BY <1>2, <1>14, TurnKeeps

-----------------------------------------------------------------------------
(* The wallet and the chain.                                               *)

\* A step of the process that the wallet's host alone has.
LEMMA WalletTurn ==
  ASSUME DeployInvariant, NEW t \in Targets, HostTurn(t),
         proc[t].act \in OnWallet, UNCHANGED <<core, plat>>,
         wallet' \in Wallets, chain' \in Chains, chain'.mining = chain.mining,
         WalletOK', ChainOK', wallet.confirmed \subseteq wallet'.confirmed,
         proc[t].act = "fund" /\ AllLocked => AllLocked',
         proc[t].act = "register" =>
           \A v \in Validators \ {proc[t].arg} : Submitted(v)' => v \in wallet'.locked,
         reply'[t] = "ok" => AnswerOK(t)'
  PROVE  DeployInvariant'
<1>1. UNCHANGED <<durable, local, s>> /\ WorldTypes /\ CallTypes
  BY TypeParts DEF HostTurn, session, DeployInvariant
<1>2. /\ durable.phase # "stopped"
      /\ s.pc \in Resting \cup {"inspect", "rewallet"} \cup OnWallet
      /\ s.pc = "fund" => proc[t].act = "fund"
  BY Working, ActionIs DEF OnWallet, Resting
<1>3. WorldTypes'
  BY <1>1 DEF WorldTypes
<1>4. OneGenesis'
  BY <1>1 DEF DeployInvariant, OneGenesis
<1>5. s.pc \notin Resting => Fits(s, durable)'
  <2>1. SUFFICES ASSUME s.pc \notin Resting PROVE Fits(s, durable)'
    OBVIOUS
  <2>2. Fits(s, durable)
    BY <2>1 DEF DeployInvariant, SessionOK
  <2>3. wallet.confirmed = Validators => wallet'.confirmed = Validators
    BY DEF Wallets
  <2>4. AllUp => AllUp'
    BY DEF AllUp
  <2> QED
    BY <1>1, <1>2, <2>1, <2>2, <2>3, <2>4 DEF Fits, OnWallet, Resting
<1>6. ASSUME NEW u \in Targets, proc'[u] = proc[u] PROVE ProcOK(u)'
  <2>1. ProcOK(u) /\ ProcOK(t)
    BY <1>6 DEF DeployInvariant, HostOK
  <2>2. \A w \in Targets : proc'[w].act = "stop" => proc[w].act = "stop"
    BY DEF HostTurn, NoProcess
  <2>3. proc[u].act \in OnWallet => u = t
    BY <2>1 DEF ProcOK
  <2>4. proc[u].act = "register" =>
          /\ proc[u].arg \in Validators
          /\ \A v \in Validators \ {proc[u].arg} :
               Submitted(v)' => v \in wallet'.locked
    BY <2>1, <2>3 DEF ProcOK, OnWallet
  <2>5. proc[u].act = "activate" => wallet'.confirmed = Validators
    BY <2>1 DEF ProcOK, Wallets
  <2>6. AllUp => AllUp'
    BY DEF AllUp
  <2> QED
    BY <1>1, <1>6, <2>1, <2>2, <2>4, <2>5, <2>6 DEF ProcOK
<1>7. ASSUME NEW u \in Targets PROVE AnswerOK(u)'
  <2>1. CASE u = t
    BY <2>1 DEF AnswerOK
  <2>2. CASE u # t
    <3>1. AnswerOK(u) /\ CallOK(u) /\ ProcOK(t)
      BY <1>7 DEF DeployInvariant, HostOK
    <3>2. reply'[u] = "ok" => s.pc \notin {"rewallet", "register"}
      BY <1>7, <2>2, <3>1, WhereIs DEF HostTurn, CallOK, ProcOK
    <3> QED
      BY <1>1, <1>7, <2>2, <3>1, <3>2 DEF AnswerOK, HostTurn, Down
  <2> QED
    BY <2>1, <2>2
<1>8. StoppedOK'
  BY <1>1, <1>2 DEF StoppedOK
<1>9. TurnIsKept(t)
  BY <1>3, <1>4, <1>5, <1>6, <1>7, <1>8 DEF TurnIsKept
<1> QED
  BY <1>9, TurnKeeps

\* What holds of the wallet and the chain before each of these steps.
LEMMA WalletFacts ==
  ASSUME DeployInvariant
  PROVE  /\ wallet \in Wallets /\ chain \in Chains /\ WalletOK /\ ChainOK
         /\ \A v \in Validators :
              /\ Submitted(v) <=> wallet.sent[v] = {1}
              /\ Submitted(v) => wallet.saved[v] = 1
<1>1. wallet \in Wallets /\ chain \in Chains /\ WalletOK /\ ChainOK
  BY TypeParts DEF DeployInvariant, WorldTypes
<1>2. ASSUME NEW v \in Validators
      PROVE  /\ Submitted(v) <=> wallet.sent[v] = {1}
             /\ Submitted(v) => wallet.saved[v] = 1
  BY <1>1, <1>2 DEF WalletOK, Submitted
<1> QED
  BY <1>1, <1>2

LEMMA OpenWalletStep ==
  ASSUME DeployInvariant, NEW t \in Targets, OpenWallet(t), Others
  PROVE  DeployInvariant'
<1> DEFINE more == wallet.locked \cup {v \in Validators : Submitted(v)}
<1>1. /\ proc[t].act = "wallet" /\ Answers(t, "ok")
      /\ wallet' = [wallet EXCEPT !.locked = more]
      /\ UNCHANGED <<core, plat, chain>>
  BY DEF OpenWallet, Runs
<1>2. HostTurn(t) /\ UNCHANGED <<durable, local, s>>
  BY <1>1, OthersKeep, AnswersTurn DEF session
<1>3. /\ wallet \in Wallets /\ chain \in Chains /\ WalletOK /\ ChainOK
      /\ \A v \in Validators : Submitted(v) <=> wallet.sent[v] = {1}
  BY WalletFacts
<1>4. wallet.locked \subseteq Validators
  BY <1>3 DEF Wallets
<1>5. /\ more \subseteq Validators /\ wallet.locked \subseteq more
      /\ \A v \in Validators : Submitted(v) => v \in more
      /\ \A v \in more : v \in wallet.locked \/ Submitted(v)
  BY <1>4
<1> HIDE DEF more
<1>6. /\ wallet' \in Wallets /\ wallet'.locked = more
      /\ wallet'.saved = wallet.saved /\ wallet'.sent = wallet.sent
      /\ wallet'.confirmed = wallet.confirmed /\ wallet'.spent = wallet.spent
  BY <1>1, <1>3, <1>5 DEF Wallets
<1>7. WalletOK' /\ ChainOK'
  <2>1. \A v \in more : wallet.sent[v] = {1}
    BY <1>3, <1>5 DEF WalletOK
  <2>2. wallet.confirmed \subseteq more
    BY <1>3, <1>5 DEF WalletOK
  <2>3. WalletOK'
    BY <1>2, <1>3, <1>6, <2>1, <2>2 DEF WalletOK
  <2>4. ChainOK'
    BY <1>1, <1>3, <1>6 DEF ChainOK, AllUp
  <2> QED
    BY <2>3, <2>4
<1>8. AllLocked'
  BY <1>5, <1>6 DEF AllLocked, Submitted
<1>9. ASSUME reply'[t] = "ok" PROVE AnswerOK(t)'
  <2>1. proc[t].act = Action(s.pc)
    BY <1>1, <1>9, WaitedFor
  <2>2. s.pc \in {"wallet", "rewallet"}
    BY <1>1, <2>1, ActionIs
  <2> QED
    BY <1>2, <1>8, <2>2 DEF AnswerOK
<1> QED
  BY <1>1, <1>2, <1>3, <1>6, <1>7, <1>8, <1>9, WalletTurn DEF OnWallet

LEMMA FundStep ==
  ASSUME DeployInvariant, NEW t \in Targets, Fund(t), Others
  PROVE  DeployInvariant'
<1> DEFINE y == TRUE
           b == chain.burst \/ (~wallet.funded /\ chain.dkg # "off")
<1>1. /\ proc[t].act = "fund" /\ Answers(t, "ok")
      /\ wallet.funded \/ chain.dkg = "off"
      /\ wallet' = [wallet EXCEPT !.funded = y]
      /\ chain' = [chain EXCEPT !.burst = b]
      /\ UNCHANGED <<core, plat>>
  BY DEF Fund, Runs
<1>2. HostTurn(t) /\ UNCHANGED <<durable, local, s>>
  BY <1>1, OthersKeep, AnswersTurn DEF session
<1>3. wallet \in Wallets /\ chain \in Chains /\ WalletOK /\ ChainOK
  BY WalletFacts
<1>4. y \in BOOLEAN /\ b \in BOOLEAN /\ ~b
  BY <1>1, <1>3 DEF Chains, ChainOK
<1> HIDE DEF y, b
<1>5. /\ wallet' \in Wallets /\ wallet'.locked = wallet.locked
      /\ wallet'.saved = wallet.saved /\ wallet'.sent = wallet.sent
      /\ wallet'.confirmed = wallet.confirmed /\ wallet'.spent = wallet.spent
  BY <1>1, <1>3, <1>4 DEF Wallets
<1>6. /\ chain' \in Chains /\ chain'.mining = chain.mining
      /\ chain'.dkg = chain.dkg /\ chain'.burst = b
  BY <1>1, <1>3, <1>4, Zenon DEF Chains
<1>7. WalletOK' /\ ChainOK'
  BY <1>1, <1>2, <1>3, <1>4, <1>5, <1>6 DEF WalletOK, ChainOK, AllUp
<1>8. AllLocked => AllLocked'
  BY <1>5 DEF AllLocked, Submitted
<1>9. ASSUME reply'[t] = "ok" PROVE AnswerOK(t)'
  <2>1. proc[t].act = Action(s.pc)
    BY <1>1, <1>9, WaitedFor
  <2>2. s.pc = "fund"
    BY <1>1, <2>1, ActionIs
  <2> QED
    BY <1>2, <2>2 DEF AnswerOK
<1> QED
  BY <1>1, <1>2, <1>5, <1>6, <1>7, <1>8, <1>9, WalletTurn DEF OnWallet

\* What a registration of v finds: no other one is unlocked.
LEMMA Registering ==
  ASSUME DeployInvariant, NEW t \in Targets, NEW v \in Validators, Registers(t, v)
  PROVE  /\ proc[t].act = "register" /\ proc[t].arg = v
         /\ \A w \in Validators \ {v} : Submitted(w) => w \in wallet.locked
<1>1. proc[t].act = "register" /\ proc[t].arg = v /\ ProcOK(t)
  BY DEF Registers, Runs, DeployInvariant, HostOK
<1> QED
  BY <1>1 DEF ProcOK

\* While a process goes on, its call has no answer.
LEMMA NoAnswerYet ==
  ASSUME DeployInvariant, NEW t \in Targets, GoesOn, proc[t].act # "idle"
  PROVE  reply'[t] # "ok"
<1>1. reply' = reply /\ CallOK(t) /\ proc[t] # NoProcess
  BY DEF DeployInvariant, HostOK, NoProcess, GoesOn
<1> QED
  BY <1>1 DEF CallOK

\* The wallet signs for a validator that has no transaction, over coins of its own.
LEMMA SignStep ==
  ASSUME DeployInvariant, NEW t \in Targets, NEW v \in Validators, Sign(t, v), Others
  PROVE  DeployInvariant'
<1> DEFINE n == FALSE
<1>1. PICK u \in SUBSET ({w \in Validators : Submitted(w)} \ wallet.locked) :
        /\ wallet' = [wallet EXCEPT !.saved[v] = @ + 1, !.funded = n,
                                    !.spent = @ \cup u]
        /\ Registers(t, v) /\ wallet.saved[v] = 0
        /\ GoesOn /\ UNCHANGED <<core, plat, chain>>
  BY Zenon DEF Sign, NeedsSigning
<1>2. HostTurn(t) /\ UNCHANGED <<durable, local, s>>
  BY <1>1, OthersKeep, GoesOnTurn DEF session
<1>3. /\ wallet \in Wallets /\ chain \in Chains /\ WalletOK /\ ChainOK
      /\ \A w \in Validators : Submitted(w) => wallet.saved[w] = 1
  BY WalletFacts
<1>4. /\ proc[t].act = "register" /\ proc[t].arg = v
      /\ \A w \in Validators \ {v} : Submitted(w) => w \in wallet.locked
  BY <1>1, Registering
<1>5. u = {}
  BY <1>1, <1>3, <1>4
<1>6. n \in BOOLEAN /\ wallet.saved[v] + 1 \in 0..MaxSigned
      /\ wallet.spent \cup u = wallet.spent
  BY <1>1, <1>5 DEF MaxSigned
<1> HIDE DEF n
<1>7. /\ wallet' \in Wallets /\ wallet'.locked = wallet.locked
      /\ wallet'.saved = [wallet.saved EXCEPT ![v] = wallet.saved[v] + 1]
      /\ wallet'.sent = wallet.sent
      /\ wallet'.confirmed = wallet.confirmed /\ wallet'.spent = wallet.spent
  BY <1>1, <1>3, <1>6 DEF Wallets
<1>8. /\ wallet'.saved[v] = 1
      /\ \A w \in Validators \ {v} : wallet'.saved[w] = wallet.saved[w]
  BY <1>1, <1>3, <1>7 DEF Wallets
<1>9. WalletOK'
  BY <1>2, <1>3, <1>7, <1>8 DEF WalletOK
<1>10. ChainOK'
  BY <1>1, <1>3, <1>7 DEF ChainOK, AllUp
<1>11. \A w \in Validators \ {v} : Submitted(w)' => w \in wallet'.locked
  BY <1>4, <1>7, <1>8 DEF Submitted
<1>12. reply'[t] # "ok"
  BY <1>1, <1>4, NoAnswerYet
<1> QED
  BY <1>1, <1>2, <1>3, <1>4, <1>7, <1>9, <1>10, <1>11, <1>12, WalletTurn
  DEF OnWallet

\* What was signed is sent: the one transaction, again if need be.
LEMMA SubmitStep ==
  ASSUME DeployInvariant, NEW t \in Targets, NEW v \in Validators, Submit(t, v),
         Others
  PROVE  DeployInvariant'
<1>1. /\ Registers(t, v) /\ wallet.saved[v] # 0
      /\ wallet' = [wallet EXCEPT !.sent[v] = @ \cup {wallet.saved[v]}]
      /\ GoesOn /\ UNCHANGED <<core, plat, chain>>
  BY DEF Submit
<1>2. HostTurn(t) /\ UNCHANGED <<durable, local, s>>
  BY <1>1, OthersKeep, GoesOnTurn DEF session
<1>3. wallet \in Wallets /\ chain \in Chains /\ WalletOK /\ ChainOK
  BY WalletFacts
<1>4. /\ proc[t].act = "register" /\ proc[t].arg = v
      /\ \A w \in Validators \ {v} : Submitted(w) => w \in wallet.locked
  BY <1>1, Registering
<1>5. wallet.saved[v] = 1 /\ wallet.sent[v] \subseteq {1}
  BY <1>1, <1>3 DEF WalletOK
<1> DEFINE one == wallet.sent[v] \cup {wallet.saved[v]}
<1>6. one = {1}
  BY <1>5
<1>7. /\ wallet' \in Wallets /\ wallet'.locked = wallet.locked
      /\ wallet'.saved = wallet.saved
      /\ wallet'.sent = [wallet.sent EXCEPT ![v] = one]
      /\ wallet'.confirmed = wallet.confirmed /\ wallet'.spent = wallet.spent
  <2>1. one \in SUBSET (1..MaxSigned)
    BY <1>6 DEF MaxSigned
  <2> QED
    BY <1>1, <1>3, <2>1 DEF Wallets
<1>8. /\ wallet'.sent[v] = {1}
      /\ \A w \in Validators \ {v} : wallet'.sent[w] = wallet.sent[w]
  BY <1>3, <1>6, <1>7 DEF Wallets
<1>9. WalletOK'
  <2>1. ASSUME NEW w \in Validators
        PROVE  /\ wallet'.saved[w] \in {0, 1} /\ wallet'.sent[w] \subseteq {1}
               /\ wallet'.saved[w] = 0 => wallet'.sent[w] = {}
               /\ w \in wallet'.locked => wallet'.sent[w] = {1}
               /\ durable'.protx[w] # 0 => durable'.protx[w] \in wallet'.sent[w]
    BY <1>2, <1>3, <1>5, <1>7, <1>8, <2>1 DEF WalletOK
  <2> QED
    BY <1>3, <1>7, <2>1 DEF WalletOK
<1>10. ChainOK'
  BY <1>1, <1>3, <1>7 DEF ChainOK, AllUp
<1>11. \A w \in Validators \ {v} : Submitted(w)' => w \in wallet'.locked
  BY <1>4, <1>7, <1>8 DEF Submitted
<1>12. reply'[t] # "ok"
  BY <1>1, <1>4, NoAnswerYet
<1> QED
  BY <1>1, <1>2, <1>3, <1>4, <1>7, <1>9, <1>10, <1>11, <1>12, WalletTurn
  DEF OnWallet

LEMMA LockStep ==
  ASSUME DeployInvariant, NEW t \in Targets, NEW v \in Validators,
         LockCollateral(t, v), Others
  PROVE  DeployInvariant'
<1> DEFINE more == wallet.locked \cup {v}
<1>1. /\ Registers(t, v) /\ Submitted(v)
      /\ wallet' = [wallet EXCEPT !.locked = more]
      /\ GoesOn /\ UNCHANGED <<core, plat, chain>>
  BY DEF LockCollateral
<1>2. HostTurn(t) /\ UNCHANGED <<durable, local, s>>
  BY <1>1, OthersKeep, GoesOnTurn DEF session
<1>3. /\ wallet \in Wallets /\ chain \in Chains /\ WalletOK /\ ChainOK
      /\ wallet.sent[v] = {1}
  BY <1>1, WalletFacts
<1>4. /\ proc[t].act = "register" /\ proc[t].arg = v
      /\ \A w \in Validators \ {v} : Submitted(w) => w \in wallet.locked
  BY <1>1, Registering
<1>5. more \subseteq Validators
  BY <1>3 DEF Wallets
<1>6. /\ wallet' \in Wallets /\ wallet'.locked = more
      /\ wallet'.saved = wallet.saved /\ wallet'.sent = wallet.sent
      /\ wallet'.confirmed = wallet.confirmed /\ wallet'.spent = wallet.spent
  BY <1>1, <1>3, <1>5 DEF Wallets
<1>7. WalletOK'
  BY <1>2, <1>3, <1>6 DEF WalletOK
<1>8. ChainOK'
  BY <1>1, <1>3, <1>6 DEF ChainOK, AllUp
<1>9. \A w \in Validators \ {v} : Submitted(w)' => w \in wallet'.locked
  BY <1>4, <1>6 DEF Submitted
<1>10. reply'[t] # "ok"
  BY <1>1, <1>4, NoAnswerYet
<1> QED
  BY <1>1, <1>2, <1>3, <1>4, <1>6, <1>7, <1>8, <1>9, <1>10, WalletTurn
  DEF OnWallet

\* A registration is confirmed while DKG is off: with DKG all of them are.
LEMMA ConfirmStep ==
  ASSUME DeployInvariant, NEW t \in Targets, NEW v \in Validators, Confirm(t, v),
         Others
  PROVE  DeployInvariant'
<1> DEFINE more == wallet.confirmed \cup {v}
           b    == chain.burst \/ chain.dkg # "off"
           y    == TRUE
<1>1. /\ Registers(t, v) /\ v \in wallet.locked /\ v \notin wallet.confirmed
      /\ wallet' = [wallet EXCEPT !.confirmed = more]
      /\ chain' = [chain EXCEPT !.due = y, !.burst = b]
      /\ GoesOn /\ UNCHANGED <<core, plat>>
  BY DEF Confirm
<1>2. HostTurn(t) /\ UNCHANGED <<durable, local, s>>
  BY <1>1, OthersKeep, GoesOnTurn DEF session
<1>3. wallet \in Wallets /\ chain \in Chains /\ WalletOK /\ ChainOK
  BY WalletFacts
<1>4. /\ proc[t].act = "register" /\ proc[t].arg = v
      /\ \A w \in Validators \ {v} : Submitted(w) => w \in wallet.locked
  BY <1>1, Registering
<1>5. more \subseteq Validators /\ b \in BOOLEAN /\ ~b /\ y \in BOOLEAN
      /\ chain.dkg = "off"
  BY <1>1, <1>3 DEF Wallets, ChainOK
<1> HIDE DEF b, y
<1>6. /\ wallet' \in Wallets /\ wallet'.confirmed = more
      /\ wallet'.saved = wallet.saved /\ wallet'.sent = wallet.sent
      /\ wallet'.locked = wallet.locked /\ wallet'.spent = wallet.spent
  BY <1>1, <1>3, <1>5 DEF Wallets
<1>7. /\ chain' \in Chains /\ chain'.mining = chain.mining
      /\ chain'.dkg = chain.dkg /\ chain'.burst = b
  BY <1>1, <1>3, <1>5, Zenon DEF Chains
<1>8. WalletOK'
  BY <1>1, <1>2, <1>3, <1>6 DEF WalletOK
<1>9. ChainOK'
  BY <1>1, <1>3, <1>5, <1>7 DEF ChainOK, AllUp
<1>10. \A w \in Validators \ {v} : Submitted(w)' => w \in wallet'.locked
  BY <1>4, <1>6 DEF Submitted
<1>11. reply'[t] # "ok"
  BY <1>1, <1>4, NoAnswerYet
<1> QED
  BY <1>1, <1>2, <1>4, <1>6, <1>7, <1>8, <1>9, <1>10, <1>11, WalletTurn
  DEF OnWallet

LEMMA FastForwardStep ==
  ASSUME DeployInvariant, NEW t \in Targets, FastForward(t), Others
  PROVE  DeployInvariant'
<1> DEFINE n == FALSE
           b == chain.burst \/ chain.dkg # "off"
<1>1. /\ proc[t].act = "fast-forward" /\ Answers(t, "ok")
      /\ \/ chain' = [chain EXCEPT !.due = n, !.burst = b] /\ chain.dkg = "off"
         \/ chain' = chain
      /\ UNCHANGED <<core, plat, wallet>>
  BY DEF FastForward, Runs, MinesCycles
<1>2. HostTurn(t) /\ UNCHANGED <<durable, local, s>>
  BY <1>1, OthersKeep, AnswersTurn DEF session
<1>3. wallet \in Wallets /\ chain \in Chains /\ WalletOK /\ ChainOK
  BY WalletFacts
<1>4. /\ n \in BOOLEAN /\ b \in BOOLEAN
      /\ chain.dkg = "off" => b = chain.burst
  BY <1>3 DEF Chains, ChainOK
<1> HIDE DEF n, b
<1>5. /\ chain' \in Chains /\ chain'.mining = chain.mining
      /\ chain'.dkg = chain.dkg /\ chain'.burst = chain.burst
  BY <1>1, <1>3, <1>4, Zenon DEF Chains
<1>6. wallet' \in Wallets /\ WalletOK' /\ ChainOK'
  BY <1>1, <1>2, <1>3, <1>5 DEF WalletOK, ChainOK, AllUp
<1>7. ASSUME reply'[t] = "ok" PROVE AnswerOK(t)'
  <2>1. proc[t].act = Action(s.pc)
    BY <1>1, <1>7, WaitedFor
  <2>2. s.pc = "fast-forward"
    BY <1>1, <2>1, ActionIs
  <2> QED
    BY <1>2, <2>2 DEF AnswerOK
<1> QED
  BY <1>1, <1>2, <1>5, <1>6, <1>7, WalletTurn DEF OnWallet

\* DKG is enabled over registrations that are all confirmed.
LEMMA ActivateStep ==
  ASSUME DeployInvariant, NEW t \in Targets, Activate(t), Others
  PROVE  DeployInvariant'
<1> DEFINE d == IF chain.dkg = "off" THEN "dkg" ELSE "on"
<1>1. /\ proc[t].act = "activate"
      /\ \/ Answers(t, "ok") /\ UNCHANGED chain
         \/ chain' = [chain EXCEPT !.dkg = d] /\ GoesOn
      /\ UNCHANGED <<core, plat, wallet>>
  BY DEF Activate, Runs
<1>2. HostTurn(t) /\ UNCHANGED <<durable, local, s>>
  BY <1>1, OthersKeep, AnswersTurn, GoesOnTurn DEF session
<1>3. /\ wallet \in Wallets /\ chain \in Chains /\ WalletOK /\ ChainOK
      /\ wallet.confirmed = Validators
  BY <1>1, WalletFacts DEF DeployInvariant, HostOK, ProcOK
<1>4. d \in {"off", "dkg", "on"}
  OBVIOUS
<1> HIDE DEF d
<1>5. /\ chain' \in Chains /\ chain'.mining = chain.mining
      /\ chain'.burst = chain.burst
  BY <1>1, <1>3, <1>4, Zenon DEF Chains
<1>6. wallet' \in Wallets /\ WalletOK' /\ ChainOK'
  BY <1>1, <1>2, <1>3, <1>5 DEF WalletOK, ChainOK, AllUp
<1>7. ASSUME reply'[t] = "ok" PROVE AnswerOK(t)'
  <2>1. Answers(t, "ok")
    BY <1>1, <1>7, NoAnswerYet
  <2>2. proc[t].act = Action(s.pc)
    BY <1>1, <1>7, <2>1, WaitedFor
  <2>3. s.pc = "activate"
    BY <1>1, <2>2, ActionIs
  <2> QED
    BY <1>2, <2>3 DEF AnswerOK
<1> QED
  BY <1>1, <1>2, <1>5, <1>6, <1>7, WalletTurn DEF OnWallet

-----------------------------------------------------------------------------
(* Stop, and what the network does by itself.                              *)

\* Rounds end before anything else is stopped.
LEMMA MinerStops ==
  ASSUME DeployInvariant, NEW t \in Targets, proc[t].act = "stop", HostTurn(t),
         chain' = [chain EXCEPT !.mining = FALSE], GoesOn,
         UNCHANGED <<core, plat, wallet>>
  PROVE  DeployInvariant'
<1> DEFINE n == FALSE
<1>1. UNCHANGED <<durable, local, s>> /\ UNCHANGED <<reply, proc>>
  BY DEF HostTurn, session, GoesOn
<1>2. WorldTypes /\ chain \in Chains /\ n \in BOOLEAN /\ ~n
      /\ chain' = [chain EXCEPT !.mining = n]
  BY TypeParts DEF DeployInvariant, WorldTypes
<1> HIDE DEF n
<1>3. /\ chain' \in Chains /\ ~chain'.mining /\ chain'.dkg = chain.dkg
      /\ chain'.burst = chain.burst
  BY <1>2, Zenon DEF Chains
<1>4. WorldTypes'
  BY <1>2, <1>3 DEF WorldTypes
<1>5. WalletOK' /\ ChainOK' /\ OneGenesis'
  BY <1>1, <1>3 DEF DeployInvariant, WalletOK, ChainOK, OneGenesis
<1>6. s.pc \notin Resting => Fits(s, durable)'
  BY <1>1, <1>3
  DEF DeployInvariant, SessionOK, Fits, AllUp, AllLocked, Submitted, Down
<1>7. ASSUME NEW u \in Targets PROVE ProcOK(u)' /\ AnswerOK(u)'
  <2>1. ProcOK(u) /\ AnswerOK(u)
    BY <1>7 DEF DeployInvariant, HostOK
  <2> QED
    BY <1>1, <1>3, <2>1 DEF ProcOK, AnswerOK, AllUp, AllLocked, Submitted, Down
<1>8. StoppedOK'
  BY <1>1, <1>3 DEF DeployInvariant, StoppedOK, Down
<1>9. TurnIsKept(t)
  BY <1>4, <1>5, <1>6, <1>7, <1>8 DEF TurnIsKept
<1> QED
  BY <1>9, TurnKeeps

\* The Core and the Platform of a host go down, with no round under way.
LEMMA HostStops ==
  ASSUME DeployInvariant, NEW t \in Targets, proc[t].act = "stop", HostTurn(t),
         ~(t = Miner /\ chain.mining),
         core' \in [Targets -> Cores], plat' \in [Validators -> Platforms],
         ~core'[t].up, \A u \in Targets \ {t} : core'[u] = core[u],
         t \in Validators => ~plat'[t].up,
         \A v \in Validators : plat'[v].inputs = plat[v].inputs
                               /\ (plat'[v].up => plat[v].up),
         UNCHANGED <<wallet, chain>>
  PROVE  DeployInvariant'
<1>1. UNCHANGED <<durable, local, s>> /\ WorldTypes /\ SessionTypes
  BY TypeParts DEF HostTurn, session, DeployInvariant
<1>2. /\ durable.phase # "stopped"
      /\ s.pc \in Resting \cup {"inspect", "stop-miner", "stop-rest"}
  <2>1. s.pc # "stop"
    BY <1>1 DEF SessionTypes, Sessions, Steps, Calls
  <2> QED
    BY <2>1, Working, ActionIs
<1>3. ~chain.mining
  BY DEF DeployInvariant, HostOK, ProcOK
<1>4. \A u \in Targets : Down(u) => Down(u)'
  BY DEF Down
<1>5. Down(t)'
  BY DEF Down
<1>6. WorldTypes'
  BY <1>1 DEF WorldTypes
<1>7. WalletOK' /\ ChainOK' /\ OneGenesis'
  BY <1>1, <1>3 DEF DeployInvariant, WalletOK, ChainOK, OneGenesis
<1>8. s.pc \notin Resting => Fits(s, durable)'
  <2>1. SUFFICES ASSUME s.pc \notin Resting PROVE Fits(s, durable)'
    OBVIOUS
  <2>2. Fits(s, durable)
    BY <2>1 DEF DeployInvariant, SessionOK
  <2>3. Down(Miner) => Down(Miner)'
    BY <1>4, HostNames
  <2> QED
    BY <1>1, <1>2, <2>1, <2>2, <2>3 DEF Fits, AfterStart, Resting
<1>9. ASSUME NEW u \in Targets, proc'[u] = proc[u] PROVE ProcOK(u)'
  <2>1. ProcOK(u) /\ proc[u].act # "mine-start"
    BY <1>9 DEF DeployInvariant, HostOK, ProcOK
  <2> QED
    BY <1>1, <1>9, <2>1 DEF ProcOK, Submitted
<1>10. ASSUME NEW u \in Targets PROVE AnswerOK(u)'
  <2>1. AnswerOK(u)
    BY <1>10 DEF DeployInvariant, HostOK
  <2>2. u # t => reply'[u] = reply[u]
    BY <1>10 DEF HostTurn
  <2>3. reply'[u] = "ok" /\ s.pc \in {"stop-miner", "stop-rest"} => Down(u)'
    BY <1>4, <1>5, <1>10, <2>1, <2>2 DEF AnswerOK
  <2> QED
    BY <1>1, <1>2, <1>3, <2>3 DEF AnswerOK, Resting
<1>11. StoppedOK'
  BY <1>1, <1>2 DEF StoppedOK
<1>12. TurnIsKept(t)
  BY <1>6, <1>7, <1>8, <1>9, <1>10, <1>11 DEF TurnIsKept
<1> QED
  BY <1>12, TurnKeeps

LEMMA StopStep ==
  ASSUME DeployInvariant, NEW t \in Targets, Stop(t), Others
  PROVE  DeployInvariant'
<1>1. proc[t].act = "stop" /\ UNCHANGED wallet
  BY DEF Stop, Runs
<1>2. CASE t = Miner /\ chain.mining
  <2>1. /\ chain' = [chain EXCEPT !.mining = FALSE]
        /\ GoesOn /\ UNCHANGED <<core, plat>>
    BY <1>2 DEF Stop
  <2>2. HostTurn(t)
    BY <2>1, OthersKeep, GoesOnTurn
  <2> QED
    BY <1>1, <2>1, <2>2, MinerStops
<1>3. CASE ~(t = Miner /\ chain.mining)
  <2> DEFINE n == FALSE
  <2>1. /\ core' = [core EXCEPT ![t].up = n, ![t].synced = n]
        /\ plat' = [v \in Validators |-> [plat[v] EXCEPT !.up = @ /\ v # t]]
        /\ Answers(t, "ok") /\ UNCHANGED chain
    BY <1>3 DEF Stop
  <2>2. HostTurn(t)
    BY <2>1, OthersKeep, AnswersTurn
  <2>3. /\ core \in [Targets -> Cores] /\ plat \in [Validators -> Platforms]
        /\ n \in BOOLEAN /\ ~n /\ core[t] \in Cores
    BY TypeParts DEF DeployInvariant, WorldTypes
  <2> HIDE DEF n
  <2>4. core' \in [Targets -> Cores]
    BY <2>1, <2>3, Zenon DEF Cores
  <2>5. ~core'[t].up
    BY <2>1, <2>3, Zenon DEF Cores
  <2>6. \A u \in Targets \ {t} : core'[u] = core[u]
    BY <2>1, <2>3, Zenon
  <2>7. ASSUME NEW v \in Validators
        PROVE  /\ plat'[v] \in Platforms /\ plat'[v].inputs = plat[v].inputs
               /\ plat'[v].up => plat[v].up /\ v # t
    <3> DEFINE b == plat[v].up /\ v # t
    <3>1. plat'[v] = [plat[v] EXCEPT !.up = b] /\ plat[v] \in Platforms
      BY <2>1, <2>3, <2>7, Zenon
    <3>2. b \in BOOLEAN /\ (b => plat[v].up /\ v # t)
      BY Zenon
    <3> HIDE DEF b
    <3>3. /\ plat'[v] \in Platforms /\ plat'[v].inputs = plat[v].inputs
          /\ plat'[v].up = b
      BY <3>1, <3>2, Zenon DEF Platforms
    <3> QED
      BY <3>2, <3>3
  <2>8. plat' \in [Validators -> Platforms]
    BY <2>1, <2>7
  <2> QED
    BY <1>1, <1>3, <2>1, <2>2, <2>4, <2>5, <2>6, <2>7, <2>8, HostStops
<1> QED
  BY <1>2, <1>3

\* Cores synchronise or restart, ChainLocks and registrations of users come.
LEMMA ByItself ==
  ASSUME DeployInvariant, UNCHANGED session, UNCHANGED <<reply, proc>>, CountTypes',
         UNCHANGED <<plat, wallet>>, core' \in [Targets -> Cores],
         chain' \in Chains, \A u \in Targets : core'[u].up = core[u].up,
         chain'.dkg = chain.dkg, chain'.mining = chain.mining,
         chain'.burst = chain.burst
  PROVE  DeployInvariant'
<1>1. UNCHANGED <<durable, local, s>> /\ WorldTypes /\ Wallet \in Targets
  BY TypeParts, HostNames DEF session, DeployInvariant
<1>2. HostTurn(Wallet)
  BY <1>1, GoesOnTurn DEF GoesOn
<1>3. AllUp' = AllUp /\ \A u \in Targets : Down(u)' = Down(u)
  BY DEF AllUp, Down
<1>4. WorldTypes'
  BY <1>1 DEF WorldTypes
<1>5. WalletOK' /\ ChainOK' /\ OneGenesis'
  BY <1>1, <1>3 DEF DeployInvariant, WalletOK, ChainOK, OneGenesis
<1>6. s.pc \notin Resting => Fits(s, durable)'
  BY <1>1, <1>3, HostNames
  DEF DeployInvariant, SessionOK, Fits, AllLocked, Submitted
<1>7. ASSUME NEW u \in Targets PROVE ProcOK(u)' /\ AnswerOK(u)'
  <2>1. ProcOK(u) /\ AnswerOK(u)
    BY <1>7 DEF DeployInvariant, HostOK
  <2> QED
    BY <1>1, <1>3, <1>7, <2>1 DEF ProcOK, AnswerOK, AllLocked, Submitted
<1>8. StoppedOK'
  BY <1>1, <1>3 DEF DeployInvariant, StoppedOK
<1>9. TurnIsKept(Wallet)
  BY <1>4, <1>5, <1>6, <1>7, <1>8 DEF TurnIsKept
<1> QED
  BY <1>1, <1>2, <1>9, TurnKeeps

LEMMA CoreStep ==
  ASSUME DeployInvariant, NEW t \in Targets, Sync(t) \/ Restart(t)
  PROVE  DeployInvariant'
<1>1. PICK y \in BOOLEAN : core' = [core EXCEPT ![t].synced = y]
  BY DEF Sync, Restart
<1>2. /\ UNCHANGED session /\ UNCHANGED <<reply, proc>>
      /\ UNCHANGED <<plat, wallet>> /\ UNCHANGED chain /\ others' = others
      /\ NoFault \/ Fault("restart")
  BY DEF Sync, Restart, Others, session
<1>3. /\ core \in [Targets -> Cores] /\ chain \in Chains /\ CountTypes
      /\ core[t] \in Cores
  BY TypeParts DEF DeployInvariant, WorldTypes
<1>4. CountTypes'
  BY <1>2, <1>3, DeployAssumption DEF CountTypes, NoFault, Fault
<1>5. /\ core' \in [Targets -> Cores]
      /\ \A u \in Targets : core'[u].up = core[u].up
  BY <1>1, <1>3, Zenon DEF Cores
<1> QED
  BY <1>2, <1>3, <1>4, <1>5, ByItself

LEMMA ChainStep ==
  ASSUME DeployInvariant, ChainLock \/ UserRegisters
  PROVE  DeployInvariant'
<1> DEFINE y == TRUE
<1>1. /\ \/ /\ chain' = [chain EXCEPT !.lock = chain.lock + 1]
            /\ chain.lock < MaxHeight
         \/ chain' = [chain EXCEPT !.due = y]
      /\ Others /\ UNCHANGED <<reply, proc>> /\ UNCHANGED <<plat, wallet>>
      /\ UNCHANGED core
  BY DEF ChainLock, UserRegisters
<1>2. /\ core \in [Targets -> Cores] /\ chain \in Chains /\ y \in BOOLEAN
      /\ UNCHANGED session /\ CountTypes'
  BY <1>1, TypeParts, OthersKeep DEF DeployInvariant, WorldTypes
<1>3. chain.lock < MaxHeight => chain.lock + 1 \in 0..MaxHeight
  BY <1>2 DEF Chains, MaxHeight
<1> HIDE DEF y
<1>4. /\ chain' \in Chains /\ chain'.dkg = chain.dkg
      /\ chain'.mining = chain.mining /\ chain'.burst = chain.burst
  <2>1. CASE chain' = [chain EXCEPT !.lock = chain.lock + 1] /\ chain.lock < MaxHeight
    BY <1>2, <1>3, <2>1, Zenon DEF Chains
  <2>2. CASE chain' = [chain EXCEPT !.due = y]
    BY <1>2, <2>2, Zenon DEF Chains
  <2> QED
    BY <1>1, <2>1, <2>2
<1> QED
  BY <1>1, <1>2, <1>4, ByItself

-----------------------------------------------------------------------------
(* The invariant.                                                          *)

LEMMA DeployInit ==
  ASSUME Init
  PROVE  DeployInvariant
<1>1. SessionTypes
  <2>1. durable \in Records
    <3>1. /\ "none" \in Stages /\ 0 \in 0..MaxHeight
          /\ [v \in Validators |-> 0] \in [Validators -> 0..MaxSigned]
      BY DEF Stages, MaxHeight, MaxSigned
    <3> QED
      BY <3>1 DEF Init, Records
  <2> QED
    BY <2>1, IdleIsSession DEF Init, SessionTypes, Believed
<1>2. CallTypes
  BY DeployAssumption
  DEF Init, CallTypes, NoReplies, NoProcess, Answered, Processes, MaxHeight
<1>3. WorldTypes
  <2>1. core \in [Targets -> Cores]
    BY Zenon DEF Init, Cores
  <2>2. plat \in [Validators -> Platforms]
    <3>1. 0 \in 0..MaxHeight
      BY DEF MaxHeight
    <3> QED
      BY <3>1, Zenon DEF Init, Platforms
  <2>3. wallet \in Wallets
    <3>1. /\ [v \in Validators |-> 0] \in [Validators -> 0..MaxSigned]
          /\ [v \in Validators |-> {}] \in [Validators -> SUBSET (1..MaxSigned)]
          /\ {} \in SUBSET Validators
      BY DEF MaxSigned
    <3> QED
      BY <3>1, Zenon DEF Init, Wallets
  <2>4. chain \in Chains
    <3>1. 0 \in 0..MaxHeight
      BY DEF MaxHeight
    <3> QED
      BY <3>1, Zenon DEF Init, Chains
  <2> QED
    BY <2>1, <2>2, <2>3, <2>4 DEF WorldTypes
<1>4. TypeOK
  BY <1>1, <1>2, <1>3, TypeParts, DeployAssumption DEF Init, CountTypes
<1>5. s.pc = "idle" /\ ~s.cut /\ ~s.behind /\ durable.phase = "none"
      /\ \A t \in Targets : reply[t] = "none" /\ proc[t].act = "idle"
  BY IdleIsSession DEF Init, NoReplies, NoProcess
<1>6. ASSUME NEW t \in Targets PROVE HostOK(t)
  BY <1>5, <1>6 DEF HostOK, CallOK, ProcOK, AnswerOK, OnWallet, Resting
<1>7. WalletOK
  BY DEF Init, WalletOK
<1>8. ChainOK
  BY Zenon DEF Init, ChainOK
<1>9. OneGenesis
  BY DEF Init, OneGenesis
<1>10. SessionOK /\ StoppedOK
  BY <1>5 DEF SessionOK, StoppedOK, Resting
<1> QED
  BY <1>4, <1>6, <1>7, <1>8, <1>9, <1>10 DEF DeployInvariant

LEMMA StutterStep ==
  ASSUME DeployInvariant, UNCHANGED vars
  PROVE  DeployInvariant'
<1>1. /\ UNCHANGED session /\ UNCHANGED <<reply, proc>> /\ UNCHANGED faults
      /\ UNCHANGED others /\ UNCHANGED <<plat, wallet>> /\ core' = core
      /\ chain' = chain
  BY DEF vars, session, world
<1>2. CountTypes' /\ core' \in [Targets -> Cores] /\ chain' \in Chains
  BY <1>1, TypeParts DEF DeployInvariant, CountTypes, WorldTypes
<1> QED
  BY <1>1, <1>2, ByItself

LEMMA SessionStep ==
  ASSUME DeployInvariant, Session
  PROVE  DeployInvariant'
<1>1. CASE Begin(FALSE, FALSE)
  BY <1>1, BeginStep
<1>2. CASE Inspected
  BY <1>2, InspectedStep
<1>3. CASE Onward \/ Synced
  BY <1>3, OnwardStep
<1>4. CASE StageDone
  BY <1>4, StageDoneStep
<1>5. CASE Stopped
  BY <1>5, StoppedStep
<1>6. CASE Registered
  BY <1>6, RegisteredStep
<1>7. CASE Mining
  BY <1>7, MiningStep
<1>8. CASE QuorumsReady
  BY <1>8, QuorumsStep
<1>9. CASE Again
  BY <1>9, AgainStep
<1>10. CASE Verified
  BY <1>10, VerifiedStep
<1>11. CASE Reconcile
  BY <1>11, ReconcileStep
<1>12. CASE Failed
  BY <1>12, FailedStep
<1>13. CASE Interrupt
  BY <1>13, InterruptStep
<1>14. ASSUME NEW t \in Targets, CutOff(t) PROVE DeployInvariant'
  BY <1>14, GivenUpStep
<1> QED
  BY <1>1, <1>2, <1>3, <1>4, <1>5, <1>6, <1>7, <1>8, <1>9, <1>10, <1>11, <1>12,
     <1>13, <1>14 DEF Session

LEMMA ProcessStep ==
  ASSUME DeployInvariant, NEW t \in Targets, HostStep(t)
  PROVE  DeployInvariant'
<1>1. Others
  BY DEF HostStep
<1>2. CASE Observe(t) \/ Refuse(t)
  BY <1>1, <1>2, ObserveStep, RefuseStep
<1>3. CASE EnsureCore(t) \/ Finalize(t)
  BY <1>1, <1>3, EnsureCoreStep, FinalizeStep
<1>4. CASE OpenWallet(t) \/ Fund(t)
  BY <1>1, <1>4, OpenWalletStep, FundStep
<1>5. CASE FastForward(t) \/ Activate(t)
  BY <1>1, <1>5, FastForwardStep, ActivateStep
<1>6. CASE Mine(t) \/ Stop(t)
  BY <1>1, <1>6, MineStep, StopStep
<1>7. CASE t \in Validators /\ (PlatformBind(t) \/ PlatformStart(t))
  BY <1>1, <1>7, PlatformStep
<1>8. ASSUME NEW v \in Validators,
             \/ Sign(t, v) \/ Submit(t, v) \/ LockCollateral(t, v) \/ Confirm(t, v)
             \/ RegisterAnswers(t, v)
      PROVE  DeployInvariant'
  BY <1>1, <1>8, SignStep, SubmitStep, LockStep, ConfirmStep, RegisterAnswersStep
<1> QED
  BY <1>2, <1>3, <1>4, <1>5, <1>6, <1>7, <1>8 DEF HostStep

LEMMA DeployStep ==
  ASSUME DeployInvariant, [Next]_vars
  PROVE  DeployInvariant'
<1>1. CASE Session
  BY <1>1, SessionStep
<1>2. CASE Begin(TRUE, FALSE) \/ Begin(FALSE, TRUE)
  BY <1>2, BeginStep
<1>3. CASE Deadline \/ Expire
  BY <1>3, FailedStep
<1>4. CASE SaveFails
  BY <1>4, SaveFailsStep
<1>5. CASE Crash
  BY <1>5, CrashStep
<1>6. CASE ChainLock \/ UserRegisters
  BY <1>6, ChainStep
<1>7. ASSUME NEW t \in Targets,
             HostStep(t) \/ Lost(t) \/ Breaks(t) \/ Sync(t) \/ Restart(t)
      PROVE  DeployInvariant'
  BY <1>7, ProcessStep, GivenUpStep, BreaksStep, CoreStep
<1>8. CASE UNCHANGED vars
  BY <1>8, StutterStep
<1> QED
  BY <1>1, <1>2, <1>3, <1>4, <1>5, <1>6, <1>7, <1>8 DEF Next

\* The invariant holds throughout.  (Runner.Execute, deploy and stop, with the
\* worker's wallet, register, activate, platform-start and stop.)
THEOREM DeployInvariance == Spec => []DeployInvariant
<1>1. Init => DeployInvariant
  BY DeployInit
<1>2. DeployInvariant /\ [Next]_vars => DeployInvariant'
  BY DeployStep
<1> QED
  BY <1>1, <1>2, PTL DEF Spec

\* Records, sessions, calls and hosts have the types of the code, and a record
\* that says "network-ready" is one that validateDeployment accepts.
THEOREM DeployTypes == Spec => []TypeOK
<1>1. DeployInvariant => TypeOK
  BY DEF DeployInvariant
<1> QED
  BY <1>1, DeployInvariance, PTL

\* However often the command is repeated, and wherever it ended, one registration
\* of each validator is broadcast, and every Platform has the durable genesis.
\* (register: "Durable signed bytes BEFORE submission"; deploy: GenesisCoreHeight.)
THEOREM ValidatorsMadeOnce == Spec => []MadeOnce
<1>1. ASSUME DeployInvariant PROVE MadeOnce
  <2>1. WalletOK /\ OneGenesis
    BY <1>1 DEF DeployInvariant
  <2>2. ASSUME NEW v \in Validators PROVE Cardinality(wallet.sent[v]) <= 1
    <3>1. wallet.sent[v] = {} \/ wallet.sent[v] = {1}
      BY <2>1, <2>2 DEF WalletOK
    <3>2. Cardinality({}) = 0 /\ Cardinality({1}) = 1
      BY FS_EmptySet, FS_Singleton
    <3> QED
      BY <3>1, <3>2
  <2> QED
    BY <2>1, <2>2 DEF MadeOnce, OneRegistration, WalletOK
<1> QED
  BY <1>1, DeployInvariance, PTL

\* DKG is on over confirmed validators only, nothing is burst-mined after it, the
\* miner runs over Cores that are up, and "stopped" is true of every host.
\* (activate, fund and fast_forward; Execute: "Freeze block production before
\* withdrawing validators".)
THEOREM DKGHasItsValidators == Spec => []DKGOverValidators
<1>1. ASSUME DeployInvariant PROVE DKGOverValidators
  <2>1. ChainOK /\ StoppedOK /\ Validators \subseteq Targets
    BY <1>1, HostNames DEF DeployInvariant
  <2>2. DKGInOrder /\ MinerFirst
    BY <2>1 DEF DKGInOrder, MinerFirst, ChainOK, AllUp
  <2>3. StoppedIsDown
    BY <2>1 DEF StoppedIsDown, StoppedOK, Down
  <2> QED
    BY <2>2, <2>3 DEF DKGOverValidators
<1> QED
  BY <1>1, DeployInvariance, PTL
=============================================================================
