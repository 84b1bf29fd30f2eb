------------------------------ MODULE BotProofs ------------------------------
(***************************************************************************)
(* Proofs about the live bot of Bot.                                       *)
(*                                                                         *)
(* The bot reaches the order engine through its public coroutines only, so *)
(* every step of the bot is a step of the engine's own specification or    *)
(* leaves the engine alone; what OrderEngineProofs shows of any caller     *)
(* holds of the bot.  On top of that comes what the main task knows at     *)
(* each place it may stand.                                                *)
(***************************************************************************)
EXTENDS Bot, OrderEngineProofs, DataLemmas, TLAPS

\* The state machine and the spike flag have their types; only a cooldown has
\* time left to run.
MachineOK ==
    /\ sm \in [state : BotStates, sub : SubStates, left : 0..SpikeCooldown]
    /\ sm.left > 0 => sm.state \in CooldownStates
    /\ spike \in [active : BOOLEAN, left : 0..SpikeCooldown]

QueueOK == queue \in Seq(Request) /\ Len(queue) <= Rungs

BotTypes ==
    /\ EngineTypeOK
    /\ pc \in Locations
    /\ MachineOK
    /\ cached \in Nat /\ mid \in Mids \cup {0} /\ unseen \in Nat
    /\ QueueOK
    /\ stopping \in {"no", "signal", "call"} /\ heeds \in BOOLEAN
    /\ db \in BotStates /\ recovered \in {"none", "EMERGENCY"} \cup CooldownStates
    /\ parting \in [mark : 0..MaxOid + 1, answered : BOOLEAN]

-----------------------------------------------------------------------------
(***************************************************************************)
(* Every step of the bot is a step of the engine, or none                  *)
(***************************************************************************)
LEMMA StepOfEngine ==
    ASSUME QueueOK, [Next]_vars
    PROVE  [EngineNext]_tradingVars
  <1> USE DEF EngineNext, CallerStep, VenueMoves
  <1>1. CASE UNCHANGED vars
    BY <1>1 DEF vars
  <1>2. CASE Boot \/ IdleTick \/ TickStart \/ RefreshBalances \/ RiskHalts \/ StayCool
               \/ GoOn \/ EndTick \/ ShutdownDone \/ Stop \/ ClockTick \/ Terminated
    BY <1>2 DEF Boot, IdleTick, TickStart, RefreshBalances, RiskHalts, StayCool, GoOn,
                EndTick, ShutdownDone, Stop, ClockTick, Terminated, vars
  <1>3. CASE PreflightBalances
    BY <1>3 DEF PreflightBalances
  <1>4. CASE StartRunning
    BY <1>4 DEF StartRunning
  <1>5. CASE PlaceNext
    <2>1. Head(queue) \in Request
      BY <1>5 DEF PlaceNext, QueueOK
    <2> QED
      BY <1>5, <2>1 DEF PlaceNext
  <1>6. CASE BeginShutdown
    BY <1>6 DEF BeginShutdown
  <1>7. CASE ShutdownCancel
    BY <1>7 DEF ShutdownCancel
  <1>8. CASE Crash
    BY <1>8 DEF Crash
  <1>9. CASE EngineMoves
    BY <1>9 DEF EngineMoves
  <1>10. CASE MarketMoves
    BY <1>10 DEF MarketMoves
  <1> QED
    BY <1>1, <1>2, <1>3, <1>4, <1>5, <1>6, <1>7, <1>8, <1>9, <1>10 DEF Next, BotStep

\* What the engine and the venue do to each other's state, whatever the step: the
\* book gains at most the next id, and ids are never used again.
LEMMA BookSteps ==
    ASSUME EngineTypeOK, [EngineNext]_tradingVars
    PROVE  DOMAIN book' \subseteq DOMAIN book \cup {nextOid} /\ nextOid <= nextOid'
  <1>0. nextOid \in Nat
    BY ExchangeAssumption DEF EngineTypeOK
  <1> USE <1>0 DEF tradingVars, exchangeVars, engineVars
  <1>1. CASE UNCHANGED tradingVars
    BY <1>1
  <1>2. CASE CallerStep
    BY <1>2 DEF CallerStep, PlaceCall, Cancel, CancelByTag, CancelAll, Reconcile, ResultRead
  <1>3. CASE EngineStep
    <2>1. CASE VenueAccepts
      BY <2>1 DEF VenueAccepts, Accept
    <2>2. CASE VenueCancels
      BY <2>2 DEF VenueCancels, Withdraw, Restrict
    <2>3. CASE VenueCancelsAll
      BY <2>3 DEF VenueCancelsAll, NoOrders
    <2>4. CASE PlaceLimited \/ PlaceSubmit \/ PlaceConfirmed \/ PlaceFailed \/ PlaceBroken
                 \/ CancelConfirmed \/ CancelFailed
                 \/ CancelAllConfirmed \/ CancelAllFailed
                 \/ VenueLists \/ ReconcileDone \/ ReconcileFailed
      BY <2>4 DEF PlaceLimited, PlaceSubmit, PlaceConfirmed, PlaceFailed, PlaceBroken,
                  CancelConfirmed, CancelFailed, CancelAllConfirmed, CancelAllFailed,
                  VenueLists, ReconcileDone, ReconcileFailed
    <2> QED
      BY <1>3, <2>1, <2>2, <2>3, <2>4 DEF EngineStep
  <1>4. CASE VenueMoves
    <2>1. ASSUME NEW oid \in DOMAIN book, VenueFills(oid) \/ VenueWithdraws(oid)
          PROVE  DOMAIN book' \subseteq DOMAIN book /\ nextOid' = nextOid
      BY <2>1 DEF VenueFills, VenueWithdraws, Fill, Withdraw, Restrict
    <2>2. ASSUME NEW s \in late, SubmissionArrivesLate(s)
          PROVE  DOMAIN book' \subseteq DOMAIN book \cup {nextOid} /\ nextOid <= nextOid'
      BY <2>2 DEF SubmissionArrivesLate, AcceptLate, Accept
    <2> QED
      BY <1>4, <2>1, <2>2 DEF VenueMoves
  <1>5. CASE ProcessDies
    BY <1>5 DEF ProcessDies
  <1> QED
    BY <1>1, <1>2, <1>3, <1>4, <1>5 DEF EngineNext

-----------------------------------------------------------------------------
(***************************************************************************)
(* Types                                                                   *)
(***************************************************************************)
LEMMA MachineFacts ==
    ASSUME NEW m \in [state : BotStates, sub : SubStates, left : 0..SpikeCooldown],
           m.left > 0 => m.state \in CooldownStates,
           NEW target \in BotStates, NEW d \in 0..SpikeCooldown
    PROVE  /\ Transition(m, target)
                 \in [state : BotStates, sub : SubStates, left : 0..SpikeCooldown]
           /\ Transition(m, target).state = target
           /\ Transition(m, target).left > 0 => target \in CooldownStates
           /\ target \in CooldownStates =>
                 EnterCooldown(m, target, d)
                    \in [state : BotStates, sub : SubStates, left : 0..SpikeCooldown]
           /\ target \in CooldownStates /\ m.state \notin {"EMERGENCY", "SHUTDOWN"} =>
                 EnterCooldown(m, target, d).state = target
           /\ EnterCooldown(m, target, d).left > 0 =>
                 EnterCooldown(m, target, d).state \in CooldownStates \cup {target}
  BY BotAssumption DEF Transition, EnterCooldown, SubStates, BotStates

LEMMA SubStateFacts ==
    ASSUME NEW m \in [state : BotStates, sub : SubStates, left : 0..SpikeCooldown],
           NEW target \in SubStates
    PROVE  /\ SetSubState(m, target)
                 \in [state : BotStates, sub : SubStates, left : 0..SpikeCooldown]
           /\ SetSubState(m, target).state = m.state
           /\ SetSubState(m, target).left = m.left
  BY DEF SetSubState

\* The parts of the types that a step changes, one action at a time.
LEMMA MachineStep ==
    ASSUME BotTypes, [Next]_vars
    PROVE  MachineOK'
  <1> USE BotAssumption DEF MachineOK
  <1> DEFINE M == [state : BotStates, sub : SubStates, left : 0..SpikeCooldown]
             S == [active : BOOLEAN, left : 0..SpikeCooldown]
  <1>0. /\ sm \in M /\ (sm.left > 0 => sm.state \in CooldownStates) /\ spike \in S
        /\ NoSpike \in S /\ Read(spike) \in S
    BY DEF BotTypes, NoSpike, Read
  <1>1. CASE UNCHANGED <<sm, spike>>
    BY <1>0, <1>1
  <1>2. CASE StartRunning
    <2> DEFINE idle == Transition(sm, "IDLE")
    <2>1. idle \in M /\ (idle.left > 0 => idle.state \in CooldownStates)
      BY <1>0, MachineFacts DEF BotStates, CooldownStates
    <2>2. /\ Transition(idle, "RUNNING") \in M
          /\ Transition(idle, "RUNNING").left > 0 => "RUNNING" \in CooldownStates
          /\ Transition(idle, "RUNNING").state = "RUNNING"
      <3> HIDE DEF idle
      <3> QED
        BY <2>1, MachineFacts DEF BotStates
    <2> QED
      BY <1>0, <1>2, <2>2 DEF StartRunning
  <1>3. CASE TickStart
    <2>1. spike' \in S
      BY <1>0, <1>3 DEF TickStart, SpikeAfterUpdate, Read, NoSpike
    <2>2. sm' = EnterCooldown(sm, "COOLDOWN_PRICE_SPIKE", spike'.left) \/ sm' = sm
      BY <1>3 DEF TickStart
    <2>3. /\ "COOLDOWN_PRICE_SPIKE" \in CooldownStates \cap BotStates
          /\ spike'.left \in 0..SpikeCooldown
      BY <2>1 DEF CooldownStates, BotStates
    <2> QED
      BY <1>0, <2>1, <2>2, <2>3, MachineFacts
  <1>4. CASE RiskHalts
    <2>1. "EMERGENCY" \in BotStates
      BY DEF BotStates
    <2> QED
      BY <1>0, <1>4, <2>1, MachineFacts DEF RiskHalts
  <1>5. CASE StayCool
    BY <1>0, <1>5 DEF StayCool, StrategiesUpdated
  <1>6. CASE GoOn
    <2> DEFINE run == Transition(sm, "RUNNING")
    <2>1. run \in M /\ (run.left > 0 => run.state \in CooldownStates)
      BY <1>0, MachineFacts DEF BotStates
    <2>2. PICK target \in SubStates : sm' = SetSubState(run, target)
      BY <1>6 DEF GoOn, SubStates
    <2> HIDE DEF run
    <2> QED
      BY <1>0, <1>6, <2>1, <2>2, SubStateFacts DEF GoOn, StrategiesUpdated
  <1>7. CASE EndTick
    <2>1. PICK target \in SubStates : sm' = SetSubState(sm, target)
      BY <1>7 DEF EndTick, SubStates
    <2> QED
      BY <1>0, <1>7, <2>1, SubStateFacts DEF EndTick
  <1>8. CASE BeginShutdown
    <2>1. "SHUTDOWN" \in BotStates
      BY DEF BotStates
    <2> QED
      BY <1>0, <1>8, <2>1, MachineFacts DEF BeginShutdown, LetGo
  <1>9. CASE Crash
    BY <1>0, <1>9 DEF Crash, InitialState, BotStates, SubStates
  <1>10. CASE ClockTick
    BY <1>0, <1>10 DEF ClockTick, Earlier
  <1>11. CASE Boot \/ PreflightBalances \/ IdleTick \/ RefreshBalances \/ PlaceNext
                \/ ShutdownCancel \/ ShutdownDone \/ Stop \/ EngineMoves \/ MarketMoves
                \/ Terminated
    BY <1>1, <1>11 DEF Boot, PreflightBalances, IdleTick, RefreshBalances, PlaceNext,
          ShutdownCancel, ShutdownDone, Stop, EngineMoves, MarketMoves, Terminated, botVars, vars
  <1>12. CASE UNCHANGED vars
    BY <1>1, <1>12 DEF vars, botVars
  <1> QED
    BY <1>2, <1>3, <1>4, <1>5, <1>6, <1>7, <1>8, <1>9, <1>10, <1>11, <1>12 DEF Next, BotStep

\* Where the task stands, what is in the row and what the shutdown remembers.
LEMMA PlacesStep ==
    ASSUME BotTypes, MachineOK', [Next]_vars
    PROVE  /\ pc' \in Locations
           /\ stopping' \in {"no", "signal", "call"} /\ heeds' \in BOOLEAN
           /\ db' \in BotStates
           /\ recovered' \in {"none", "EMERGENCY"} \cup CooldownStates
           /\ parting' \in [mark : 0..MaxOid + 1, answered : BOOLEAN]
  <1>1. /\ pc \in Locations
        /\ stopping \in {"no", "signal", "call"} /\ heeds \in BOOLEAN
        /\ db \in BotStates
        /\ recovered \in {"none", "EMERGENCY"} \cup CooldownStates
        /\ parting \in [mark : 0..MaxOid + 1, answered : BOOLEAN]
    BY DEF BotTypes
  <1>2. nextOid \in 0..MaxOid + 1 /\ sm'.state \in BotStates /\ MaxOid \in Nat
    BY ExchangeAssumption DEF BotTypes, EngineTypeOK, MachineOK
  <1>3. {"EMERGENCY", "SHUTDOWN"} \subseteq BotStates
    BY DEF BotStates
  <1> USE <1>1, <1>2, <1>3 DEF Locations, Trading, ShuttingDown, Ended
  <1>4. CASE Boot \/ PreflightBalances \/ StartRunning
    BY <1>4 DEF Boot, PreflightBalances, StartRunning
  <1>5. CASE IdleTick \/ TickStart \/ RefreshBalances \/ RiskHalts
    BY <1>5 DEF IdleTick, TickStart, RefreshBalances, RiskHalts, SaveAndGo, WaitMayBeZero
  <1>6. CASE StayCool \/ GoOn \/ PlaceNext \/ EndTick
    BY <1>6 DEF StayCool, GoOn, PlaceNext, EndTick, SaveAndGo, WaitMayBeZero
  <1>7. CASE BeginShutdown
    BY <1>7 DEF BeginShutdown, LetGo
  <1>8. CASE ShutdownCancel \/ ShutdownDone
    BY <1>8 DEF ShutdownCancel, ShutdownDone
  <1>9. CASE Stop
    BY <1>9 DEF Stop
  <1>11. CASE Crash
    <2>1. NotParting \in [mark : 0..MaxOid + 1, answered : BOOLEAN]
      BY <1>2 DEF NotParting
    <2> QED
      BY <1>11, <2>1 DEF Crash
  <1>10. CASE EngineMoves \/ MarketMoves \/ ClockTick \/ Terminated \/ UNCHANGED vars
    BY <1>10 DEF EngineMoves, MarketMoves, ClockTick, Terminated, vars, botVars
  <1> QED
    BY <1>4, <1>5, <1>6, <1>7, <1>8, <1>9, <1>10, <1>11 DEF Next, BotStep

\* The queue and what the bot counts.
LEMMA CountsStep ==
    ASSUME BotTypes, [Next]_vars
    PROVE  QueueOK' /\ cached' \in Nat /\ mid' \in Mids \cup {0} /\ unseen' \in Nat
  <1> USE BotAssumption DEF QueueOK
  <1>1. /\ QueueOK /\ cached \in Nat /\ mid \in Mids \cup {0} /\ unseen \in Nat
        /\ held \in Nat
    BY DEF BotTypes, EngineTypeOK
  <1>2. CASE PreflightBalances \/ RefreshBalances
    BY <1>1, <1>2 DEF PreflightBalances, RefreshBalances
  <1>3. CASE TickStart \/ RiskHalts \/ StayCool
    BY <1>1, <1>3 DEF TickStart, RiskHalts, StayCool
  <1>4. CASE GoOn
    <2>1. PICK n \in 0..Rungs : queue' \in [1..n -> Request]
      BY <1>4 DEF GoOn
    <2>2. queue' \in Seq(Request) /\ Len(queue') = n
      BY <2>1
    <2> QED
      BY <1>1, <1>4, <2>2 DEF GoOn
  <1>5. CASE PlaceNext
    BY <1>1, <1>5 DEF PlaceNext
  <1>6. CASE BeginShutdown \/ Crash
    <2>1. << >> \in Seq(Request) /\ Len(<< >>) <= Rungs
      OBVIOUS
    <2>2. queue' = << >> /\ cached' = 0 /\ mid' = 0 /\ unseen' = 0
      BY <1>6 DEF BeginShutdown, LetGo, Crash
    <2> QED
      BY <2>1, <2>2
  <1>7. CASE MarketMoves
    BY <1>1, <1>7 DEF MarketMoves, botVars
  <1>8. CASE Boot \/ StartRunning \/ IdleTick \/ EndTick \/ ShutdownCancel \/ ShutdownDone
               \/ Stop \/ EngineMoves \/ ClockTick \/ Terminated \/ UNCHANGED vars
    BY <1>1, <1>8 DEF Boot, StartRunning, IdleTick, EndTick, ShutdownCancel, ShutdownDone,
          Stop, EngineMoves, ClockTick, Terminated, vars, botVars
  <1> QED
    BY <1>2, <1>3, <1>4, <1>5, <1>6, <1>7, <1>8 DEF Next, BotStep

LEMMA InitBotTypes == Init => BotTypes
  <1> SUFFICES ASSUME Init
               PROVE  BotTypes
    OBVIOUS
  <1>1. EngineTypeOK
    BY InitEngineTypeOK DEF Init
  <1>2. MachineOK
    BY BotAssumption DEF Init, MachineOK, InitialState, NoSpike, BotStates, SubStates
  <1>3. QueueOK
    BY BotAssumption DEF Init, QueueOK
  <1>4. NotParting \in [mark : 0..MaxOid + 1, answered : BOOLEAN]
    BY ExchangeAssumption DEF NotParting
  <1> QED
    BY <1>1, <1>2, <1>3, <1>4 DEF Init, BotTypes, Locations, BotStates

LEMMA NextBotTypes == BotTypes /\ [Next]_vars => BotTypes'
  <1> SUFFICES ASSUME BotTypes, [Next]_vars
               PROVE  BotTypes'
    OBVIOUS
  <1>1. EngineTypeOK'
    BY StepOfEngine, NextEngineTypeOK DEF BotTypes
  <1>2. MachineOK'
    BY MachineStep
  <1> QED
    BY <1>1, <1>2, PlacesStep, CountsStep DEF BotTypes

\* The state of the bot has its types, over crashes, restarts and failed calls.
THEOREM BotTypeCorrect == Spec => []TypeOK
  <1>1. BotTypes => TypeOK
    BY DEF BotTypes, TypeOK, MachineOK, QueueOK
  <1> QED
    BY <1>1, InitBotTypes, NextBotTypes, PTL DEF Spec

\* Seen through the engine's variables, the bot is one of its callers: it calls
\* only what the engine offers, one call at a time.
THEOREM BotUsesEngine == Spec => EngineSpec
  <1>1. Init => EngineInit
    BY DEF Init
  <1>2. BotTypes /\ [Next]_vars => [EngineNext]_tradingVars
    BY StepOfEngine DEF BotTypes
  <1> QED
    BY <1>1, <1>2, InitBotTypes, NextBotTypes, PTL DEF Spec, EngineSpec

-----------------------------------------------------------------------------
(***************************************************************************)
(* Where the task stands, what it may have under way                       *)
(***************************************************************************)
CallsAt(place) ==
    CASE place = "placing" -> {"idle", "place"}
      [] place \in {"preflightReconcile", "shutReconcile"} -> {"idle", "reconcile"}
      [] place = "shutCancel" -> {"idle", "cancelAll"}
      [] OTHER -> {"idle"}

TradingStates == {"RUNNING", "COOLDOWN_PRICE_SPIKE", "EMERGENCY"}

\* The state machine, as the tick goes on.
MachineInTick ==
    /\ pc \in Trading \cup {"fatal"} => sm.state \in TradingStates
    /\ pc \in {"refresh", "evaluate", "placing"} => sm.state # "EMERGENCY"
    /\ pc = "placing" => sm.state = "RUNNING" /\ ~risk.halted

ControlInv == call.op \in CallsAt(pc) /\ MachineInTick /\ EmergencyIsSaved

\* A step of the call under way ends it or carries it on.
LEMMA CallGoesOn ==
    ASSUME EngineTypeOK, EngineStep
    PROVE  call.op # "idle" /\ call'.op \in {call.op, "idle"} /\ nonce' = nonce
  <1>1. CallOK
    BY DEF EngineTypeOK
  <1>2. CASE PlaceLimited \/ PlaceSubmit \/ VenueAccepts \/ PlaceConfirmed \/ PlaceFailed
               \/ PlaceBroken
    BY <1>1, <1>2, PlaceShape
    DEF PlaceLimited, PlaceSubmit, VenueAccepts, PlaceConfirmed, PlaceFailed, PlaceBroken, At,
        Idle
  <1>3. CASE VenueCancels \/ CancelConfirmed \/ CancelFailed
    BY <1>1, <1>3, CancelShape DEF VenueCancels, CancelConfirmed, CancelFailed, At, Idle, End
  <1>4. CASE VenueCancelsAll \/ CancelAllConfirmed \/ CancelAllFailed
    BY <1>1, <1>4, CancelAllShape
    DEF VenueCancelsAll, CancelAllConfirmed, CancelAllFailed, At, Idle, End
  <1>5. CASE VenueLists \/ ReconcileDone \/ ReconcileFailed
    BY <1>5 DEF VenueLists, ReconcileDone, ReconcileFailed, At, Idle, End
  <1> QED
    BY <1>2, <1>3, <1>4, <1>5 DEF EngineStep

LEMMA MarketLeavesCalls ==
    ASSUME MarketMoves
    PROVE  UNCHANGED <<open, nonce, call, result, botVars>>
  BY DEF MarketMoves, VenueFills, VenueWithdraws, SubmissionArrivesLate, engineVars

\* A tick begins with the state it finds, or with a cooldown.
LEMMA TickMayCoolDown ==
    ASSUME BotTypes, TickStart
    PROVE  sm' = sm \/ sm'.state = "COOLDOWN_PRICE_SPIKE"
  <1>1. MachineOK'
    BY MachineStep DEF Next, BotStep
  <1>2. spike'.left \in 0..SpikeCooldown /\ "COOLDOWN_PRICE_SPIKE" \in CooldownStates \cap BotStates
    BY <1>1 DEF MachineOK, CooldownStates, BotStates
  <1>3. sm.state \notin {"EMERGENCY", "SHUTDOWN"}
    BY DEF TickStart
  <1>4. sm' = sm \/ sm' = EnterCooldown(sm, "COOLDOWN_PRICE_SPIKE", spike'.left)
    BY DEF TickStart
  <1>5. /\ sm \in [state : BotStates, sub : SubStates, left : 0..SpikeCooldown]
        /\ sm.left > 0 => sm.state \in CooldownStates
    BY DEF BotTypes, MachineOK
  <1>6. EnterCooldown(sm, "COOLDOWN_PRICE_SPIKE", spike'.left).state = "COOLDOWN_PRICE_SPIKE"
    BY <1>2, <1>3, <1>5, MachineFacts
  <1> QED
    BY <1>4, <1>6

LEMMA IdleCall == call = Idle => call.op = "idle"
  BY DEF Idle

LEMMA CallFitsStep ==
    ASSUME BotTypes, call.op \in CallsAt(pc), [Next]_vars
    PROVE  call'.op \in CallsAt(pc')
  <1> USE DEF CallsAt
  <1>1. CASE Boot \/ IdleTick \/ TickStart \/ RefreshBalances \/ RiskHalts \/ StayCool \/ GoOn
    BY <1>1 DEF Boot, IdleTick, TickStart, RefreshBalances, RiskHalts, StayCool, GoOn,
                SaveAndGo, tradingVars, engineVars
  <1>2. CASE PreflightBalances \/ StartRunning
    BY <1>2, IdleCall DEF PreflightBalances, StartRunning, Reconcile, ResultRead
  <1>3. CASE PlaceNext
    BY <1>3, IdleCall DEF PlaceNext, PlaceCall, tradingVars, engineVars
  <1>4. CASE EndTick
    BY <1>4, IdleCall DEF EndTick, SaveAndGo, tradingVars, engineVars
  <1>5. CASE BeginShutdown
    BY <1>5 DEF BeginShutdown, Reconcile, tradingVars, engineVars
  <1>6. CASE ShutdownCancel
    BY <1>6, IdleCall
    DEF ShutdownCancel, CancelAll, End, Idle, tradingVars, engineVars
  <1>7. CASE ShutdownDone
    BY <1>7, IdleCall DEF ShutdownDone, tradingVars, engineVars
  <1>8. CASE Crash
    BY <1>8 DEF Crash, ProcessDies, Idle
  <1>9. CASE EngineMoves
    <2>1. EngineStep /\ pc' = pc
      BY <1>9 DEF EngineMoves, botVars
    <2> QED
      BY <2>1, CallGoesOn DEF BotTypes
  <1>10. CASE MarketMoves
    BY <1>10, MarketLeavesCalls DEF botVars
  <1>11. CASE Stop \/ ClockTick \/ Terminated \/ UNCHANGED vars
    BY <1>11 DEF Stop, ClockTick, Terminated, vars, botVars, tradingVars, engineVars
  <1> QED
    BY <1>1, <1>2, <1>3, <1>4, <1>5, <1>6, <1>7, <1>8, <1>9, <1>10, <1>11 DEF Next, BotStep

LEMMA MachineInTickStep ==
    ASSUME BotTypes, MachineInTick, EmergencyIsSaved, [Next]_vars
    PROVE  MachineInTick' /\ EmergencyIsSaved'
  <1> DEFINE M == [state : BotStates, sub : SubStates, left : 0..SpikeCooldown]
  <1>0. sm \in M /\ (sm.left > 0 => sm.state \in CooldownStates)
    BY DEF BotTypes, MachineOK
  <1> USE DEF MachineInTick, EmergencyIsSaved, TradingStates, Trading
  <1>1. CASE Boot \/ PreflightBalances \/ IdleTick \/ RefreshBalances
    BY <1>1 DEF Boot, PreflightBalances, IdleTick, RefreshBalances
  <1>2. CASE StartRunning
    <2>1. sm'.state = "RUNNING" /\ pc' = "loop"
      BY <1>2 DEF StartRunning, Transition
    <2> QED
      BY <2>1
  <1>3. CASE TickStart
    <2>1. pc' \in {"refresh", "evaluate", "fatal"} /\ pc = "loop"
            /\ sm.state \notin {"EMERGENCY", "SHUTDOWN"}
      BY <1>3 DEF TickStart, SaveAndGo
    <2>2. sm' = sm \/ sm'.state = "COOLDOWN_PRICE_SPIKE"
      BY <1>3, TickMayCoolDown
    <2> QED
      BY <2>1, <2>2
  <1>4. CASE RiskHalts
    <2>1. sm'.state = "EMERGENCY" /\ ((pc' = "loop" /\ db' = "EMERGENCY") \/ pc' = "fatal")
      BY <1>4 DEF RiskHalts, SaveAndGo, Transition
    <2> QED
      BY <2>1
  <1>5. CASE StayCool
    BY <1>5 DEF StayCool
  <1>6. CASE GoOn
    <2>1. pc' = "placing" /\ ~risk'.halted
      BY <1>6 DEF GoOn
    <2>2. sm'.state = "RUNNING"
      BY <1>6 DEF GoOn, SetSubState, Transition
    <2> QED
      BY <2>1, <2>2
  <1>7. CASE PlaceNext
    BY <1>7 DEF PlaceNext
  <1>8. CASE EndTick
    <2>1. sm'.state = "RUNNING" /\ pc' \in {"loop", "fatal"}
      BY <1>8 DEF EndTick, SetSubState, SaveAndGo
    <2> QED
      BY <2>1
  <1>9. CASE BeginShutdown \/ ShutdownCancel \/ ShutdownDone \/ Crash
    BY <1>9 DEF BeginShutdown, ShutdownCancel, ShutdownDone, Crash
  <1>10. CASE ClockTick
    <2>1. sm'.state = sm.state /\ pc' = pc /\ db' = db /\ pc # "placing"
      BY <1>0, <1>10 DEF ClockTick
    <2> QED
      BY <2>1
  <1>11. CASE Stop \/ EngineMoves \/ MarketMoves \/ Terminated \/ UNCHANGED vars
    BY <1>11 DEF Stop, EngineMoves, MarketMoves, Terminated, vars, botVars
  <1> QED
    BY <1>1, <1>2, <1>3, <1>4, <1>5, <1>6, <1>7, <1>8, <1>9, <1>10, <1>11 DEF Next, BotStep

LEMMA InitControl == Init => ControlInv
  BY DEF Init, EngineInit, ControlInv, CallsAt, MachineInTick, EmergencyIsSaved, Idle, Trading

LEMMA NextControl == BotTypes /\ ControlInv /\ [Next]_vars => ControlInv'
  <1> SUFFICES ASSUME BotTypes, ControlInv, [Next]_vars
               PROVE  ControlInv'
    OBVIOUS
  <1>1. call'.op \in CallsAt(pc')
    BY CallFitsStep DEF ControlInv
  <1>2. MachineInTick' /\ EmergencyIsSaved'
    BY MachineInTickStep DEF ControlInv
  <1> QED
    BY <1>1, <1>2 DEF ControlInv

\* No placement is under way while the bot cools down, is halted or has stopped,
\* whatever the wait for the limiter and the venue lets in between.
THEOREM PlacedOnlyWhileRunning == Spec => []PlacesOnlyWhileRunning
  <1>1. BotTypes /\ ControlInv => PlacesOnlyWhileRunning
    <2> SUFFICES ASSUME BotTypes, ControlInv, call.op = "place"
                 PROVE  sm.state = "RUNNING" /\ sm.left = 0 /\ ~risk.halted
      BY DEF PlacesOnlyWhileRunning
    <2>1. pc = "placing"
      BY DEF ControlInv, CallsAt
    <2>2. sm.state = "RUNNING" /\ ~risk.halted
      BY <2>1 DEF ControlInv, MachineInTick
    <2> QED
      BY <2>2, BotAssumption DEF BotTypes, MachineOK, CooldownStates
  <1> QED
    BY <1>1, InitBotTypes, NextBotTypes, InitControl, NextControl, PTL DEF Spec

\* A halt that a restarted process could not read from the row never outlives its tick.
THEOREM HaltIsSaved == Spec => []EmergencyIsSaved
  <1>1. ControlInv => EmergencyIsSaved
    BY DEF ControlInv
  <1> QED
    BY <1>1, InitBotTypes, NextBotTypes, InitControl, NextControl, PTL DEF Spec

\* transition() is only asked for what its table allows.
THEOREM NeverIllegal == Spec => LegalTransitions
  <1> DEFINE Legal == sm'.state # sm.state /\ pc' # "down" /\ pc # "preflightReconcile"
                         => sm'.state \in ValidTransitions(sm.state)
  <1>1. BotTypes /\ ControlInv /\ [Next]_vars => [Legal]_vars
    <2> SUFFICES ASSUME BotTypes, ControlInv, Next, sm'.state # sm.state, pc' # "down",
                        pc # "preflightReconcile"
                 PROVE  sm'.state \in ValidTransitions(sm.state)
      OBVIOUS
    <2> USE DEF ControlInv, MachineInTick, TradingStates, ValidTransitions, CooldownStates,
                Trading
    <2>1. CASE TickStart
      <3>1. sm'.state = "COOLDOWN_PRICE_SPIKE" /\ pc = "loop" /\ sm.state # "EMERGENCY"
        BY <2>1, TickMayCoolDown DEF TickStart
      <3> QED
        BY <3>1
    <2>2. CASE RiskHalts
      BY <2>2 DEF RiskHalts, Transition
    <2>3. CASE GoOn
      BY <2>3 DEF GoOn, SetSubState, Transition
    <2>4. CASE EndTick
      BY <2>4 DEF EndTick, SetSubState
    <2>5. CASE BeginShutdown
      BY <2>5 DEF BeginShutdown, Transition
    <2>6. CASE ClockTick
      BY <2>6 DEF ClockTick, BotTypes, MachineOK
    <2> QED
      BY <2>1, <2>2, <2>3, <2>4, <2>5, <2>6
      DEF Next, BotStep, Boot, PreflightBalances, StartRunning, IdleTick, RefreshBalances,
          StayCool, PlaceNext, ShutdownCancel, ShutdownDone, Stop, Crash, EngineMoves,
          MarketMoves, Terminated, vars, botVars
  <1> QED
    BY <1>1, InitBotTypes, NextBotTypes, InitControl, NextControl, PTL
    DEF Spec, LegalTransitions

-----------------------------------------------------------------------------
(***************************************************************************)
(* How many orders a series of placements can add                          *)
(*                                                                         *)
(* The count is compared with the limit when the tick goes on; from then   *)
(* on an order tracked is one request fewer in the queue or under way.     *)
(***************************************************************************)
Tracked == Cardinality(DOMAIN open)
UnderWay == IF call.op = "place" THEN 1 ELSE 0
MostOrders == MaxOpenOrders - 1 + Rungs

CountInv ==
    /\ pc = "placing" => Tracked + Len(queue) + UnderWay <= MostOrders
    /\ pc \in {"loop", "refresh", "evaluate"} /\ nonce > 0 => Tracked <= MostOrders
    /\ pc \in {"down", "preflight", "preflightReconcile"} => nonce = 0

LEMMA OrderMapsAreFinite ==
    ASSUME NEW m, IsOrderMap(m)
    PROVE  IsFiniteSet(DOMAIN m) /\ Cardinality(DOMAIN m) \in Nat
  <1>1. IsFiniteSet(1..MaxOid)
    <2>1. 1 \in Int /\ MaxOid \in Int
      BY ExchangeAssumption
    <2> QED
      BY <2>1, FS_Interval
  <1>2. IsFiniteSet(DOMAIN m)
    BY <1>1, FS_Subset DEF IsOrderMap
  <1> QED
    BY <1>2, FS_CardinalityType

\* A placement adds the order it submitted, and only when it ends.
LEMMA PlacementAddsOne ==
    ASSUME EngineTypeOK, EngineTypeOK', call.op = "place", EngineStep
    PROVE  Tracked' + UnderWay' <= Tracked + UnderWay
  <1>0. IsFiniteSet(DOMAIN open) /\ Tracked \in Nat /\ CallOK
    BY OrderMapsAreFinite DEF EngineTypeOK, Tracked
  <1>1. CASE PlaceConfirmed
    <2>1. DOMAIN open' = DOMAIN open \cup {call.oid} /\ call' = Idle
      BY <1>1, PlaceConfirmedFacts DEF PlaceConfirmed
    <2>2. Tracked' = Tracked \/ Tracked' = Tracked + 1
      <3>1. CASE call.oid \in DOMAIN open
        BY <2>1, <3>1 DEF Tracked
      <3>2. CASE call.oid \notin DOMAIN open
        BY <1>0, <2>1, <3>2, FS_AddElement DEF Tracked
      <3> QED
        BY <3>1, <3>2
    <2>3. UnderWay' = 0 /\ UnderWay = 1
      BY <2>1 DEF UnderWay, Idle
    <2> QED
      BY <1>0, <2>2, <2>3
  <1>2. CASE PlaceLimited \/ PlaceSubmit \/ VenueAccepts \/ PlaceFailed \/ PlaceBroken
    <2>1. open' = open
      BY <1>2 DEF PlaceLimited, PlaceSubmit, VenueAccepts, PlaceFailed, PlaceBroken
    <2>2. Tracked' = Tracked /\ UnderWay = 1 /\ (UnderWay' = 0 \/ UnderWay' = 1)
      BY <2>1 DEF Tracked, UnderWay
    <2> QED
      BY <1>0, <2>2
  <1> QED
    BY <1>1, <1>2
    DEF EngineStep, VenueCancels, CancelConfirmed, CancelFailed, VenueCancelsAll,
        CancelAllConfirmed, CancelAllFailed, VenueLists, ReconcileDone, ReconcileFailed, At

LEMMA InitCount == Init => CountInv
  BY DEF Init, EngineInit, CountInv

LEMMA NextCount == BotTypes /\ BotTypes' /\ ControlInv /\ CountInv /\ [Next]_vars => CountInv'
  <1> SUFFICES ASSUME BotTypes, BotTypes', ControlInv, CountInv, [Next]_vars
               PROVE  CountInv'
    OBVIOUS
  <1>0. /\ EngineTypeOK /\ EngineTypeOK' /\ QueueOK /\ QueueOK'
        /\ Tracked \in Nat /\ Tracked' \in Nat
        /\ Len(queue) \in Nat /\ Len(queue') \in Nat
        /\ UnderWay \in Nat /\ UnderWay' \in Nat /\ nonce \in Nat
        /\ MostOrders \in Int /\ MaxOpenOrders \in Nat /\ Rungs \in Nat
        /\ call.op \in CallsAt(pc)
    <2>1. EngineTypeOK /\ EngineTypeOK' /\ QueueOK /\ QueueOK' /\ nonce \in Nat
      BY OrderEngineAssumption DEF BotTypes, EngineTypeOK
    <2>2. Tracked \in Nat /\ Tracked' \in Nat
      BY <2>1, OrderMapsAreFinite DEF EngineTypeOK, Tracked
    <2> QED
      BY <2>1, <2>2, RiskAssumption, BotAssumption
      DEF QueueOK, UnderWay, MostOrders, ControlInv
  <1>1. ASSUME UNCHANGED <<open, call, nonce, queue>>, pc' = pc
        PROVE  CountInv'
    BY <1>1 DEF CountInv, Tracked, UnderWay, MostOrders
  <1>2. CASE Boot \/ PreflightBalances \/ StartRunning
    <2>1. nonce = 0 /\ nonce' = nonce /\ pc' \in {"preflight", "preflightReconcile", "loop"}
      BY <1>2
      DEF CountInv, Boot, PreflightBalances, StartRunning, Reconcile, ResultRead, tradingVars,
          engineVars
    <2> QED
      BY <2>1 DEF CountInv
  <1>3. CASE TickStart \/ RefreshBalances \/ RiskHalts \/ StayCool
    <2>1. /\ UNCHANGED <<open, nonce>>
          /\ pc \in {"loop", "refresh", "evaluate"}
          /\ pc' \in {"loop", "refresh", "evaluate", "fatal"}
      BY <1>3
      DEF TickStart, RefreshBalances, RiskHalts, StayCool, SaveAndGo, tradingVars, engineVars
    <2> QED
      BY <2>1 DEF CountInv, Tracked, MostOrders
  <1>4. CASE GoOn
    <2>1. Tracked < MaxOpenOrders
      <3>1. ~ Evaluate(risk, open, cached, mid).halted
        BY <1>4 DEF GoOn
      <3>2. ~ OrderCountBreached(open)
        BY <3>1 DEF Evaluate
      <3> QED
        BY <1>0, <3>2 DEF OrderCountBreached, Tracked
    <2>2. pc' = "placing" /\ pc = "evaluate" /\ UNCHANGED <<open, call>>
      BY <1>4 DEF GoOn, tradingVars, engineVars
    <2>3. UnderWay' = 0
      BY <1>0, <2>2 DEF UnderWay, CallsAt
    <2>4. Len(queue') <= Rungs
      BY <1>0 DEF QueueOK
    <2>5. Tracked' + Len(queue') + UnderWay' <= MostOrders'
      BY <1>0, <2>1, <2>2, <2>3, <2>4 DEF Tracked, MostOrders
    <2> QED
      BY <2>2, <2>5 DEF CountInv
  <1>5. CASE PlaceNext
    <2>1. /\ pc = "placing" /\ pc' = "placing" /\ UNCHANGED open
          /\ queue # << >> /\ queue' = Tail(queue) /\ call = Idle
      BY <1>5 DEF PlaceNext, PlaceCall, tradingVars, engineVars
    <2>2. Len(queue') = Len(queue) - 1
      BY <1>0, <2>1 DEF QueueOK
    <2>3. UnderWay = 0 /\ Tracked' = Tracked /\ MostOrders' = MostOrders
      BY <2>1 DEF UnderWay, Idle, Tracked, MostOrders
    <2>4. Tracked' + Len(queue') + UnderWay' <= MostOrders'
      <3>1. Tracked + Len(queue) + UnderWay <= MostOrders
        BY <2>1 DEF CountInv
      <3>2. UnderWay' = 0 \/ UnderWay' = 1
        BY DEF UnderWay
      <3>3. Tracked \in Nat /\ Len(queue) \in Nat /\ MostOrders \in Int
        BY <1>0
      <3> QED
        BY <2>2, <2>3, <3>1, <3>2, <3>3
    <2> QED
      BY <2>1, <2>4 DEF CountInv
  <1>6. CASE EndTick
    <2>1. UNCHANGED <<open, nonce>> /\ pc = "placing" /\ pc' \in {"loop", "fatal"}
      BY <1>6 DEF EndTick, SaveAndGo, tradingVars, engineVars
    <2>2. Tracked' = Tracked /\ MostOrders' = MostOrders
      BY <2>1 DEF Tracked, MostOrders
    <2>3. Tracked <= MostOrders
      BY <1>0, <2>1 DEF CountInv
    <2> QED
      BY <2>1, <2>2, <2>3 DEF CountInv
  <1>7. CASE BeginShutdown \/ ShutdownCancel \/ ShutdownDone
    BY <1>7 DEF BeginShutdown, ShutdownCancel, ShutdownDone, CountInv
  <1>8. CASE Crash
    BY <1>8 DEF Crash, ProcessDies, CountInv
  <1>9. CASE EngineMoves
    <2>1. EngineStep /\ UNCHANGED <<pc, queue>>
      BY <1>9 DEF EngineMoves, botVars
    <2>2. call.op # "idle" /\ nonce' = nonce
      BY <1>0, <2>1, CallGoesOn
    <2>3. CASE pc = "placing"
      <3>1. call.op = "place"
        BY <1>0, <2>2, <2>3 DEF CallsAt
      <3>2. Tracked' + UnderWay' <= Tracked + UnderWay /\ MostOrders' = MostOrders
        BY <1>0, <2>1, <3>1, PlacementAddsOne DEF MostOrders
      <3>3. Tracked' + Len(queue') + UnderWay' <= MostOrders'
        <4>1. Tracked + Len(queue) + UnderWay <= MostOrders /\ Len(queue') = Len(queue)
          BY <2>1, <2>3 DEF CountInv
        <4>2. /\ Tracked \in Nat /\ Tracked' \in Nat /\ Len(queue) \in Nat
              /\ UnderWay \in Nat /\ UnderWay' \in Nat /\ MostOrders \in Int
          BY <1>0
        <4>3. \A t, u, n, w, v \in Nat, m \in Int :
                  t + u <= w + v /\ w + n + v <= m => t + n + u <= m
          OBVIOUS
        <4>4. Tracked' + Len(queue) + UnderWay' <= MostOrders
          BY <3>2, <4>1, <4>2, <4>3, Zenon
        <4> QED
          BY <3>2, <4>1, <4>4, Zenon
      <3> QED
        BY <2>1, <2>3, <3>3 DEF CountInv
    <2>4. CASE pc # "placing"
      <3>1. pc \notin {"loop", "refresh", "evaluate"}
        BY <1>0, <2>2 DEF CallsAt
      <3> QED
        BY <2>1, <2>2, <2>4, <3>1 DEF CountInv
    <2> QED
      BY <2>3, <2>4
  <1>10. CASE MarketMoves
    BY <1>1, <1>10, MarketLeavesCalls DEF botVars
  <1>11. CASE IdleTick \/ Stop \/ ClockTick \/ Terminated \/ UNCHANGED vars
    BY <1>1, <1>11 DEF IdleTick, Stop, ClockTick, Terminated, vars, botVars, tradingVars,
                       engineVars
  <1> QED
    BY <1>2, <1>3, <1>4, <1>5, <1>6, <1>7, <1>8, <1>9, <1>10, <1>11 DEF Next, BotStep

\* A process that has placed anything tracks at most one series more than the limit
\* less one, for any limit and any length of a series.
THEOREM OrdersBounded == Spec => []OpenOrderBound
  <1>1. BotTypes /\ CountInv => OpenOrderBound
    <2> SUFFICES ASSUME BotTypes, CountInv, pc \in Trading, nonce > 0
                 PROVE  Tracked <= MostOrders
      BY DEF OpenOrderBound, Tracked, MostOrders
    <2>1. Tracked \in Nat /\ Len(queue) \in Nat /\ UnderWay \in Nat /\ MostOrders \in Int
      BY OrderMapsAreFinite, RiskAssumption, BotAssumption
      DEF BotTypes, EngineTypeOK, QueueOK, Tracked, UnderWay, MostOrders
    <2> QED
      BY <2>1 DEF CountInv, Trading
  <1> QED
    BY <1>1, InitBotTypes, NextBotTypes, InitControl, NextControl, InitCount, NextCount, PTL
    DEF Spec

-----------------------------------------------------------------------------
(***************************************************************************)
(* What is left of the orders that were at the venue before the shutdown   *)
(*                                                                         *)
(* A list answered after the shutdown began covers them; a cancel_all()    *)
(* that is answered has withdrawn them; an order that arrives late has a   *)
(* later id.                                                               *)
(***************************************************************************)
Earliest == {oid \in DOMAIN book : oid < parting.mark}

ListedAtShutdown ==
    pc = "shutReconcile" =>
        /\ At("reconcile", "listed") => Earliest \subseteq DOMAIN call.orders
        /\ call = Idle /\ result = "done" => Earliest \subseteq DOMAIN open

CancelledAtShutdown ==
    pc = "shutCancel" /\ parting.answered =>
        /\ At("cancelAll", "cancelled") => Earliest = {}
        /\ call = Idle /\ result = "done" => Earliest = {}

ShutdownInv ==
    /\ parting.mark <= nextOid
    /\ ListedAtShutdown /\ CancelledAtShutdown /\ CleanShutdown

LEMMA EarliestShrinks ==
    ASSUME BotTypes, BotTypes', parting.mark <= nextOid, parting'.mark = parting.mark,
           [EngineNext]_tradingVars
    PROVE  Earliest' \subseteq Earliest /\ parting'.mark <= nextOid'
  <1>1. DOMAIN book' \subseteq DOMAIN book \cup {nextOid} /\ nextOid <= nextOid'
    BY BookSteps DEF BotTypes
  <1>2. parting.mark \in Nat /\ nextOid \in Nat /\ nextOid' \in Nat
    BY ExchangeAssumption DEF BotTypes, EngineTypeOK
  <1> QED
    BY <1>1, <1>2 DEF Earliest

LEMMA InitShutdown == Init => ShutdownInv
  BY DEF Init, EngineInit, ExchangeInit, NotParting, ShutdownInv, ListedAtShutdown,
         CancelledAtShutdown, CleanShutdown

LEMMA EngineInShutdown ==
    ASSUME BotTypes, BotTypes', ControlInv, ShutdownInv, EngineMoves
    PROVE  ShutdownInv'
  <1>1. EngineStep /\ UNCHANGED <<pc, parting>>
    BY DEF EngineMoves, botVars
  <1>2. Earliest' \subseteq Earliest /\ parting'.mark <= nextOid'
    BY <1>1, EarliestShrinks DEF ShutdownInv, EngineNext
  <1>3. call.op # "idle" /\ call.op \in CallsAt(pc) /\ CallOK
    BY <1>1, CallGoesOn DEF BotTypes, EngineTypeOK, ControlInv
  <1>4. CASE pc = "shutReconcile"
    <2>1. call.op = "reconcile"
      BY <1>3, <1>4 DEF CallsAt
    <2>2. VenueLists \/ ReconcileDone \/ ReconcileFailed
      BY <1>1, <2>1
      DEF EngineStep, PlaceLimited, PlaceSubmit, VenueAccepts, PlaceConfirmed, PlaceFailed,
          PlaceBroken, VenueCancels, CancelConfirmed, CancelFailed, VenueCancelsAll,
          CancelAllConfirmed, CancelAllFailed, At
    <2>3. CASE VenueLists
      <3>1. DOMAIN call'.orders = DOMAIN book /\ call' # Idle /\ book' = book
        BY <2>3 DEF VenueLists, Idle, exchangeVars
      <3>2. ListedAtShutdown'
        BY <3>1 DEF ListedAtShutdown, Earliest
      <3> QED
        BY <1>1, <1>2, <1>4, <3>2 DEF ShutdownInv, CancelledAtShutdown, CleanShutdown
    <2>4. CASE ReconcileDone
      <3>1. At("reconcile", "listed") /\ open' = call.orders /\ call' = Idle
        BY <2>4 DEF ReconcileDone, End
      <3>2. Earliest' \subseteq DOMAIN open'
        BY <1>2, <1>4, <3>1 DEF ShutdownInv, ListedAtShutdown
      <3>3. ListedAtShutdown'
        BY <3>1, <3>2 DEF ListedAtShutdown, At, Idle
      <3> QED
        BY <1>1, <1>2, <1>4, <3>3 DEF ShutdownInv, CancelledAtShutdown, CleanShutdown
    <2>5. CASE ReconcileFailed
      <3>1. call' = Idle /\ result' # "done"
        BY <2>5 DEF ReconcileFailed, End
      <3>2. ListedAtShutdown'
        BY <3>1 DEF ListedAtShutdown, At, Idle
      <3> QED
        BY <1>1, <1>2, <1>4, <3>2 DEF ShutdownInv, CancelledAtShutdown, CleanShutdown
    <2> QED
      BY <2>2, <2>3, <2>4, <2>5
  <1>5. CASE pc = "shutCancel"
    <2>1. call.op = "cancelAll"
      BY <1>3, <1>5 DEF CallsAt
    <2>2. VenueCancelsAll \/ CancelAllConfirmed \/ CancelAllFailed
      BY <1>1, <2>1
      DEF EngineStep, PlaceLimited, PlaceSubmit, VenueAccepts, PlaceConfirmed, PlaceFailed,
          PlaceBroken, VenueCancels, CancelConfirmed, CancelFailed, VenueLists,
          ReconcileDone, ReconcileFailed, At
    <2>3. CASE VenueCancelsAll
      <3>1. Earliest' = {}
        BY <2>3 DEF VenueCancelsAll, NoOrders, Earliest
      <3> QED
        BY <1>1, <1>2, <1>5, <3>1
        DEF ShutdownInv, ListedAtShutdown, CancelledAtShutdown, CleanShutdown
    <2>4. CASE CancelAllConfirmed
      <3>1. parting.answered => Earliest = {}
        BY <1>5, <2>4 DEF CancelAllConfirmed, ShutdownInv, CancelledAtShutdown
      <3> QED
        BY <1>1, <1>2, <1>5, <3>1
        DEF ShutdownInv, ListedAtShutdown, CancelledAtShutdown, CleanShutdown
    <2>5. CASE CancelAllFailed
      <3>1. call' = Idle /\ result' # "done"
        BY <2>5 DEF CancelAllFailed, End
      <3>2. CancelledAtShutdown'
        BY <3>1 DEF CancelledAtShutdown, At, Idle
      <3> QED
        BY <1>1, <1>2, <1>5, <3>2 DEF ShutdownInv, ListedAtShutdown, CleanShutdown
    <2> QED
      BY <2>2, <2>3, <2>4, <2>5
  <1>6. CASE pc \notin {"shutReconcile", "shutCancel"}
    <2>1. pc # "stopped"
      BY <1>3 DEF CallsAt
    <2> QED
      BY <1>1, <1>2, <1>6, <2>1
      DEF ShutdownInv, ListedAtShutdown, CancelledAtShutdown, CleanShutdown
  <1> QED
    BY <1>4, <1>5, <1>6

LEMMA NextShutdown ==
    BotTypes /\ BotTypes' /\ ControlInv /\ ShutdownInv /\ [Next]_vars => ShutdownInv'
  <1> SUFFICES ASSUME BotTypes, BotTypes', ControlInv, ShutdownInv, [Next]_vars
               PROVE  ShutdownInv'
    OBVIOUS
  <1> DEFINE Rest == ListedAtShutdown /\ CancelledAtShutdown /\ CleanShutdown
  <1>0. /\ [EngineNext]_tradingVars /\ parting.mark <= nextOid
        /\ parting \in [mark : 0..MaxOid + 1, answered : BOOLEAN]
        /\ nextOid \in Nat /\ nextOid' \in Nat
    BY StepOfEngine, ExchangeAssumption DEF BotTypes, EngineTypeOK, ShutdownInv
  <1>1. ASSUME parting' = parting, pc' \notin {"shutReconcile", "shutCancel", "stopped"}
        PROVE  ShutdownInv'
    BY <1>0, <1>1, EarliestShrinks
    DEF ShutdownInv, ListedAtShutdown, CancelledAtShutdown, CleanShutdown
  <1>2. ASSUME UNCHANGED <<pc, parting, call, open, result>>
        PROVE  ShutdownInv'
    <2>1. Earliest' \subseteq Earliest /\ parting'.mark <= nextOid'
      BY <1>0, <1>2, EarliestShrinks
    <2>2. ListedAtShutdown' /\ CancelledAtShutdown'
      BY <1>2, <2>1 DEF ShutdownInv, ListedAtShutdown, CancelledAtShutdown, At
    <2>3. CleanShutdown'
      <3>1. CleanShutdown <=> (pc = "stopped" /\ parting.answered => Earliest = {})
        BY <1>0, ExchangeAssumption
        DEF BotTypes, EngineTypeOK, IsBook, CleanShutdown, Earliest
      <3>2. CleanShutdown' <=> (pc' = "stopped" /\ parting'.answered => Earliest' = {})
        BY <1>0, <1>2, ExchangeAssumption
        DEF BotTypes, EngineTypeOK, IsBook, CleanShutdown, Earliest
      <3> QED
        BY <1>2, <2>1, <3>1, <3>2 DEF ShutdownInv
    <2> QED
      BY <2>1, <2>2, <2>3 DEF ShutdownInv
  <1>3. CASE BeginShutdown
    <2>1. parting'.mark = nextOid /\ nextOid' = nextOid
            /\ (pc' = "failed" \/ (pc' = "shutReconcile" /\ At("reconcile", "sent")'))
      BY <1>3 DEF BeginShutdown, Reconcile, At, tradingVars, exchangeVars
    <2> QED
      BY <1>0, <2>1
      DEF ShutdownInv, ListedAtShutdown, CancelledAtShutdown, CleanShutdown, At, Idle
  <1>4. CASE ShutdownCancel
    <2>1. /\ pc = "shutReconcile" /\ call = Idle /\ parting'.mark = parting.mark
          /\ parting'.answered = (result = "done")
          /\ UNCHANGED <<book, nextOid, open>>
      BY <1>0, <1>4 DEF ShutdownCancel, CancelAll, tradingVars, exchangeVars, engineVars
    <2>2. Earliest' = Earliest /\ parting'.mark <= nextOid'
      BY <1>0, <2>1 DEF Earliest
    <2>3. CASE result = "raised"
      BY <1>4, <2>1, <2>2, <2>3
      DEF ShutdownCancel, ShutdownInv, ListedAtShutdown, CancelledAtShutdown, CleanShutdown
    <2>4. CASE result # "raised"
      <3>1. pc' = "shutCancel" /\ CancelAll
        BY <1>4, <2>4 DEF ShutdownCancel
      <3>2. CASE open = NoOrders
        <4>1. parting'.answered => Earliest' = {}
          BY <2>1, <2>2, <3>2 DEF ShutdownInv, ListedAtShutdown, NoOrders
        <4> QED
          BY <2>2, <3>1, <4>1
          DEF ShutdownInv, ListedAtShutdown, CancelledAtShutdown, CleanShutdown
      <3>3. CASE open # NoOrders
        <4>1. call' # Idle /\ ~ At("cancelAll", "cancelled")'
          BY <3>1, <3>3 DEF CancelAll, Idle, At
        <4> QED
          BY <2>2, <3>1, <4>1
          DEF ShutdownInv, ListedAtShutdown, CancelledAtShutdown, CleanShutdown
      <3> QED
        BY <3>2, <3>3
    <2> QED
      BY <2>3, <2>4
  <1>5. CASE ShutdownDone
    <2>1. /\ pc = "shutCancel" /\ pc' = "stopped" /\ call = Idle
          /\ parting'.mark = parting.mark
          /\ parting'.answered = (parting.answered /\ result = "done")
          /\ UNCHANGED <<book, nextOid>>
      BY <1>0, <1>5 DEF ShutdownDone, tradingVars, exchangeVars
    <2>2. parting'.answered => Earliest = {}
      BY <2>1 DEF ShutdownInv, CancelledAtShutdown
    <2>3. DOMAIN book \subseteq Nat /\ parting.mark \in Nat
      BY <1>0, ExchangeAssumption DEF BotTypes, EngineTypeOK, IsBook
    <2>4. CleanShutdown'
      BY <2>1, <2>2, <2>3 DEF CleanShutdown, Earliest
    <2> QED
      BY <2>1, <2>4 DEF ShutdownInv, ListedAtShutdown, CancelledAtShutdown
  <1>6. CASE Crash
    BY <1>0, <1>6 DEF Crash, ProcessDies, NotParting, ShutdownInv, ListedAtShutdown,
                      CancelledAtShutdown, CleanShutdown
  <1>7. CASE EngineMoves
    BY <1>7, EngineInShutdown
  <1>8. CASE MarketMoves
    BY <1>2, <1>8, MarketLeavesCalls DEF botVars
  <1>9. CASE Terminated \/ UNCHANGED vars
    BY <1>2, <1>9 DEF Terminated, vars, botVars, tradingVars, engineVars
  <1>10. CASE Boot \/ PreflightBalances \/ StartRunning \/ IdleTick \/ TickStart
                \/ RefreshBalances
    BY <1>1, <1>10 DEF Boot, PreflightBalances, StartRunning, IdleTick, TickStart,
                       RefreshBalances, SaveAndGo
  <1>11. CASE RiskHalts \/ StayCool \/ GoOn \/ PlaceNext \/ EndTick \/ Stop \/ ClockTick
    BY <1>1, <1>11 DEF RiskHalts, StayCool, GoOn, PlaceNext, EndTick, Stop, ClockTick,
                       SaveAndGo, Trading
  <1> QED
    BY <1>3, <1>4, <1>5, <1>6, <1>7, <1>8, <1>9, <1>10, <1>11 DEF Next, BotStep

\* A shutdown whose two calls were answered leaves nothing that had reached the venue
\* when it began, orders of earlier processes and with lost answers included.
THEOREM ShutdownLeavesNothing == Spec => []CleanShutdown
  <1>1. ShutdownInv => CleanShutdown
    BY DEF ShutdownInv
  <1> QED
    BY <1>1, InitBotTypes, NextBotTypes, InitControl, NextControl, InitShutdown, NextShutdown,
       PTL
    DEF Spec

-----------------------------------------------------------------------------
(***************************************************************************)
(* Position: what is held, with what the tracked buys may still add        *)
(*                                                                         *)
(* The risk manager adds what open buys are reported to have left to a     *)
(* balance that was read some time ago.  As long as none of them was       *)
(* reported with fills, a unit that trades on a tracked order moves from   *)
(* one to the other in truth and stays counted in the report; what trades  *)
(* on others is what the history variable counts.                          *)
(***************************************************************************)
LeftOf(order) == IF order.side = "buy" THEN Remaining(order) ELSE 0
Left(orders) == [oid \in DOMAIN orders |-> LeftOf(orders[oid])]

LEMMA PendingIsSum ==
    ASSUME NEW orders
    PROVE  PendingBuys(orders) = SumOver(Left(orders), DOMAIN orders)
  BY Zenon DEF PendingBuys, SumFunction, SumFunctionOnSet, SumOver, Left, LeftOf

LEMMA LeftFacts ==
    ASSUME NEW orders, IsOrderMap(orders)
    PROVE  /\ IsFiniteSet(DOMAIN orders)
           /\ \A oid \in DOMAIN orders :
                 LeftOf(orders[oid]) \in Nat /\ Left(orders)[oid] = LeftOf(orders[oid])
  BY OrderMapsAreFinite DEF IsOrderMap, Order, Left, LeftOf, Remaining

\* Fewer orders, with less left of them, leave less to be bought.
Under(less, more) ==
    /\ IsOrderMap(less) /\ IsOrderMap(more)
    /\ DOMAIN less \subseteq DOMAIN more
    /\ \A oid \in DOMAIN less : LeftOf(less[oid]) <= LeftOf(more[oid])

LEMMA PendingUnder ==
    ASSUME NEW less, NEW more, Under(less, more)
    PROVE  /\ PendingBuys(less) \in Nat /\ PendingBuys(more) \in Nat
           /\ PendingBuys(less) <= PendingBuys(more)
  <1>1. /\ IsFiniteSet(DOMAIN less) /\ IsFiniteSet(DOMAIN more)
        /\ \A oid \in DOMAIN less : Left(less)[oid] \in Nat
        /\ \A oid \in DOMAIN more : Left(more)[oid] \in Nat
    BY LeftFacts DEF Under
  <1>2. \A oid \in DOMAIN less : Left(less)[oid] <= Left(more)[oid]
    BY LeftFacts DEF Under
  <1>3. SumOver(Left(less), DOMAIN less) <= SumOver(Left(more), DOMAIN more)
    BY <1>1, <1>2, SumGrows DEF Under
  <1>4. SumOver(Left(less), DOMAIN less) \in Nat /\ SumOver(Left(more), DOMAIN more) \in Nat
    BY <1>1, SumSplit
  <1> QED
    BY <1>3, <1>4, PendingIsSum

\* Part of the same orders.
PartOf(less, more) ==
    /\ IsOrderMap(less) /\ IsOrderMap(more)
    /\ DOMAIN less \subseteq DOMAIN more
    /\ \A oid \in DOMAIN less : less[oid] = more[oid]

LEMMA PendingOfPart ==
    ASSUME NEW less, NEW more, PartOf(less, more)
    PROVE  /\ PendingBuys(less) \in Nat /\ PendingBuys(more) \in Nat
           /\ PendingBuys(less) <= PendingBuys(more)
  <1>1. \A oid \in DOMAIN less : LeftOf(less[oid]) <= LeftOf(less[oid])
    BY LeftFacts DEF PartOf
  <1>2. Under(less, more)
    BY <1>1 DEF PartOf, Under
  <1> QED
    BY <1>2, PendingUnder

LEMMA NothingPending == PendingBuys(NoOrders) = 0
  <1>1. SumOver(Left(NoOrders), DOMAIN NoOrders) = 0
    BY NoOrdersFacts, LeftFacts, SumSplit
  <1> QED
    BY <1>1, PendingIsSum

\* One order may add something; the others are under those of the other map.
LEMMA PendingSplit ==
    ASSUME NEW orders, IsOrderMap(orders), NEW oid \in DOMAIN orders
    PROVE  PendingBuys(orders) =
             Left(orders)[oid] + PendingBuys(Restrict(orders, DOMAIN orders \ {oid}))
  <1> DEFINE rest == Restrict(orders, DOMAIN orders \ {oid})
             D == DOMAIN orders \ {oid}
  <1>1. IsOrderMap(rest) /\ DOMAIN rest = D /\ \A o \in D : rest[o] = orders[o]
    BY PartOfOrderMap
  <1>2. SumOver(Left(orders), DOMAIN orders) = Left(orders)[oid] + SumOver(Left(orders), D)
    BY LeftFacts, SumSplit
  <1> HIDE DEF rest
  <1>3. /\ IsFiniteSet(D) /\ \A o \in D : Left(orders)[o] \in Nat /\ Left(rest)[o] \in Nat
        /\ \A o \in D : Left(rest)[o] = Left(orders)[o]
    BY <1>1, LeftFacts
  <1>4. /\ SumOver(Left(rest), D) <= SumOver(Left(orders), D)
        /\ SumOver(Left(orders), D) <= SumOver(Left(rest), D)
    <2>1. \A o \in D : Left(rest)[o] <= Left(orders)[o] /\ Left(orders)[o] <= Left(rest)[o]
      BY <1>3
    <2> QED
      BY <1>3, <2>1, SumAtMost
  <1>5. SumOver(Left(rest), D) \in Nat /\ SumOver(Left(orders), D) \in Nat
    BY <1>3, SumSplit
  <1> QED
    BY <1>1, <1>2, <1>4, <1>5, PendingIsSum DEF rest

\* The orders in the book that the bot tracks, with what is filled of their size.
Seen == [oid \in DOMAIN book \cap DOMAIN open |-> FilledInBase(book[oid])]

Covered == held + PendingBuys(Seen) <= cached + PendingBuys(open) + unseen

PositionKept == ReportedUnfilled => Covered

PositionInv ==
    /\ pc \in {"down", "preflight"} => open = NoOrders
    /\ pc = "preflightReconcile" =>
          /\ call.op # "idle" => open = NoOrders
          /\ PositionKept
    /\ pc \in Trading => PositionKept

LEMMA FilledFacts ==
    ASSUME NEW o \in BookOrder, o.rem > 0, o.rem <= o.size
    PROVE  /\ FilledInBase(o) \in Order
           /\ LeftOf(FilledInBase(o)) = IF o.side = "buy" THEN o.rem ELSE 0
  <1>1. o.rem \in Nat /\ o.size \in Nat
    BY DEF BookOrder
  <1>2. o.size - o.rem \in Nat /\ o.size > o.size - o.rem /\ o.size - (o.size - o.rem) = o.rem
    BY <1>1
  <1>3. FilledInBase(o) \in Order
    BY <1>2 DEF FilledInBase, BookOrder, Order
  <1>4. Remaining(FilledInBase(o)) = o.rem
    BY <1>2 DEF Remaining, FilledInBase
  <1>5. FilledInBase(o).side = o.side
    BY DEF FilledInBase
  <1> QED
    BY <1>3, <1>4, <1>5 DEF LeftOf

LEMMA SeenFacts ==
    ASSUME EngineTypeOK
    PROVE  /\ IsOrderMap(Seen) /\ DOMAIN Seen = DOMAIN book \cap DOMAIN open
           /\ \A oid \in DOMAIN Seen :
                 /\ Seen[oid] = FilledInBase(book[oid])
                 /\ LeftOf(Seen[oid]) = IF book[oid].side = "buy" THEN book[oid].rem ELSE 0
           /\ PendingBuys(Seen) \in Nat /\ PendingBuys(open) \in Nat /\ held \in Nat
  <1>1. /\ DOMAIN book \subseteq 1..MaxOid
        /\ \A oid \in DOMAIN book :
              book[oid] \in BookOrder /\ book[oid].rem > 0 /\ book[oid].rem <= book[oid].size
    BY DEF EngineTypeOK, IsBook
  <1>2. /\ DOMAIN Seen = DOMAIN book \cap DOMAIN open
        /\ \A oid \in DOMAIN Seen : Seen[oid] = FilledInBase(book[oid])
    BY DEF Seen
  <1>3. IsOrderMap(Seen)
    <2>1. \A oid \in DOMAIN Seen : Seen[oid] \in Order
      BY <1>1, <1>2, FilledFacts
    <2>2. Seen = [oid \in DOMAIN Seen |-> Seen[oid]]
      BY DEF Seen
    <2> QED
      BY <1>1, <1>2, <2>1, <2>2 DEF IsOrderMap
  <1>4. IsOrderMap(open) /\ held \in Nat
    BY DEF EngineTypeOK
  <1>5. \A m : IsOrderMap(m) => Under(m, m)
    <2> SUFFICES ASSUME NEW m, IsOrderMap(m)
                 PROVE  Under(m, m)
      OBVIOUS
    <2>1. \A oid \in DOMAIN m : LeftOf(m[oid]) <= LeftOf(m[oid])
      BY LeftFacts
    <2> QED
      BY <2>1 DEF Under
  <1>6. \A oid \in DOMAIN Seen :
           LeftOf(Seen[oid]) = IF book[oid].side = "buy" THEN book[oid].rem ELSE 0
    BY <1>1, <1>2, FilledFacts
  <1> QED
    BY <1>2, <1>3, <1>4, <1>5, <1>6, PendingUnder

LEMMA NextSeenFacts ==
    ASSUME EngineTypeOK'
    PROVE  /\ IsOrderMap(Seen') /\ DOMAIN Seen' = DOMAIN book' \cap DOMAIN open'
           /\ \A oid \in DOMAIN Seen' :
                 /\ Seen'[oid] = FilledInBase(book'[oid])
                 /\ LeftOf(Seen'[oid]) = IF book'[oid].side = "buy" THEN book'[oid].rem ELSE 0
           /\ PendingBuys(Seen') \in Nat /\ PendingBuys(open') \in Nat /\ held' \in Nat
  <1>1. /\ DOMAIN book' \subseteq 1..MaxOid
        /\ \A oid \in DOMAIN book' :
              book'[oid] \in BookOrder /\ book'[oid].rem > 0 /\ book'[oid].rem <= book'[oid].size
    BY DEF EngineTypeOK, IsBook
  <1>2. /\ DOMAIN Seen' = DOMAIN book' \cap DOMAIN open'
        /\ \A oid \in DOMAIN Seen' : Seen'[oid] = FilledInBase(book'[oid])
    BY DEF Seen
  <1>3. IsOrderMap(Seen')
    <2>1. \A oid \in DOMAIN Seen' : Seen'[oid] \in Order
      BY <1>1, <1>2, FilledFacts
    <2>2. Seen' = [oid \in DOMAIN Seen' |-> Seen'[oid]]
      BY DEF Seen
    <2> QED
      BY <1>1, <1>2, <2>1, <2>2 DEF IsOrderMap
  <1>4. IsOrderMap(open') /\ held' \in Nat
    BY DEF EngineTypeOK
  <1>5. \A m : IsOrderMap(m) => Under(m, m)
    <2> SUFFICES ASSUME NEW m, IsOrderMap(m)
                 PROVE  Under(m, m)
      OBVIOUS
    <2>1. \A oid \in DOMAIN m : LeftOf(m[oid]) <= LeftOf(m[oid])
      BY LeftFacts
    <2> QED
      BY <2>1 DEF Under
  <1>6. \A oid \in DOMAIN Seen' :
           LeftOf(Seen'[oid]) = IF book'[oid].side = "buy" THEN book'[oid].rem ELSE 0
    BY <1>1, <1>2, FilledFacts
  <1> QED
    BY <1>2, <1>3, <1>4, <1>5, <1>6, PendingUnder

\* The book moves: orders are filled, leave it, or come under a new id.
BookMoves ==
    /\ open' = open
    /\ DOMAIN book' \subseteq DOMAIN book \cup {nextOid}
    /\ \A oid \in DOMAIN book' : oid # nextOid => Grown(book[oid], book'[oid])

LEMMA SeenMoves ==
    ASSUME EngineInv, EngineTypeOK', BookMoves
    PROVE  Under(Seen', Seen)
  <1>1. nextOid \notin DOMAIN open
    BY ExchangeAssumption DEF EngineInv, IdsIssued, EngineTypeOK, IsOrderMap
  <1>2. EngineTypeOK
    BY DEF EngineInv
  <1>3. DOMAIN Seen' \subseteq DOMAIN Seen
    BY <1>1, <1>2, SeenFacts, NextSeenFacts DEF BookMoves
  <1>4. ASSUME NEW oid \in DOMAIN Seen'
        PROVE  LeftOf(Seen'[oid]) <= LeftOf(Seen[oid])
    <2>1. oid \in DOMAIN Seen /\ oid \in DOMAIN book' /\ oid # nextOid
      BY <1>1, <1>3, <1>4, NextSeenFacts DEF BookMoves
    <2>2. book'[oid].side = book[oid].side /\ book'[oid].rem <= book[oid].rem
      BY <2>1 DEF BookMoves, Grown
    <2> QED
      BY <1>2, <1>4, <2>1, <2>2, SeenFacts, NextSeenFacts
  <1> QED
    BY <1>2, <1>3, <1>4, SeenFacts, NextSeenFacts DEF Under

LEMMA KeptWhenBookMoves ==
    ASSUME EngineInv, EngineTypeOK', BookMoves, PositionKept, cached \in Nat, unseen \in Nat,
           held' <= held, cached' = cached, unseen' = unseen
    PROVE  PositionKept'
  <1>1. PendingBuys(Seen') <= PendingBuys(Seen) /\ PendingBuys(Seen') \in Nat
    BY SeenMoves, PendingUnder
  <1>2. PendingBuys(Seen) \in Nat /\ PendingBuys(open) \in Nat /\ held \in Nat /\ held' \in Nat
    BY SeenFacts DEF EngineInv, EngineTypeOK
  <1>3. PendingBuys(open') = PendingBuys(open)
    BY DEF BookMoves
  <1>4. ReportedUnfilled' = ReportedUnfilled
    BY DEF BookMoves, ReportedUnfilled
  <1> QED
    BY <1>1, <1>2, <1>3, <1>4 DEF PositionKept, Covered

\* An answer that confirms a placement adds the order to what is tracked, with at least
\* what is left of it.
LEMMA KeptWhenConfirmed ==
    ASSUME EngineInv, EngineInv', At("place", "accepted"), PlaceConfirmed, PositionKept,
           cached \in Nat, unseen \in Nat, cached' = cached, unseen' = unseen
    PROVE  PositionKept'
  <1> DEFINE oid == call.oid
             openRest == Restrict(open', DOMAIN open' \ {oid})
             seenRest == Restrict(Seen', DOMAIN Seen' \ {oid})
  <1>1. /\ DOMAIN open' = DOMAIN open \cup {oid} /\ oid \notin DOMAIN open
        /\ \A o \in DOMAIN open : o # oid => open'[o] = open[o]
        /\ book' = book /\ held' = held
    BY PlaceConfirmedFacts
    DEF PlaceConfirmed, EngineInv, IdsIssued, Arriving, exchangeVars
  <1>2. EngineTypeOK /\ EngineTypeOK'
    BY DEF EngineInv
  <1>3. IsOrderMap(open) /\ IsOrderMap(open')
    BY <1>2 DEF EngineTypeOK
  <1> SUFFICES ASSUME ReportedUnfilled'
               PROVE  Covered'
    BY DEF PositionKept
  <1>11. Covered
    <2>1. ReportedUnfilled
      BY <1>1 DEF ReportedUnfilled
    <2> QED
      BY <2>1 DEF PositionKept
  <1>4. /\ IsOrderMap(Seen) /\ DOMAIN Seen = DOMAIN book \cap DOMAIN open
        /\ \A o \in DOMAIN Seen : Seen[o] = FilledInBase(book[o])
        /\ PendingBuys(Seen) \in Nat /\ PendingBuys(open) \in Nat /\ held \in Nat
    BY <1>2, SeenFacts
  <1>5. /\ IsOrderMap(Seen') /\ DOMAIN Seen' = DOMAIN book \cap DOMAIN open'
        /\ \A o \in DOMAIN Seen' :
              /\ Seen'[o] = FilledInBase(book[o])
              /\ LeftOf(Seen'[o]) = IF book[o].side = "buy" THEN book[o].rem ELSE 0
    BY <1>1, <1>2, NextSeenFacts
  <1>6. PendingBuys(open') = Left(open')[oid] + PendingBuys(openRest)
    BY <1>1, <1>3, PendingSplit
  <1>7. PendingBuys(open) <= PendingBuys(openRest) /\ PendingBuys(openRest) \in Nat
    <2>1. /\ IsOrderMap(openRest) /\ DOMAIN openRest = DOMAIN open
          /\ \A o \in DOMAIN open : openRest[o] = open[o]
      BY <1>1, <1>3, PartOfOrderMap
    <2>2. PartOf(open, openRest)
      BY <1>3, <2>1 DEF PartOf
    <2> QED
      BY <2>2, PendingOfPart
  <1>8. Left(open')[oid] \in Nat
    BY <1>1, <1>3, LeftFacts
  <1>9. CASE oid \in DOMAIN book
    <2>1. PendingBuys(Seen') = Left(Seen')[oid] + PendingBuys(seenRest)
      BY <1>1, <1>5, <1>9, PendingSplit
    <2>2. PendingBuys(seenRest) <= PendingBuys(Seen) /\ PendingBuys(seenRest) \in Nat
      <3>1. DOMAIN Seen' \ {oid} = DOMAIN Seen
        BY <1>1, <1>4, <1>5
      <3>2. /\ IsOrderMap(seenRest) /\ DOMAIN seenRest = DOMAIN Seen
            /\ \A o \in DOMAIN Seen : seenRest[o] = Seen'[o]
        BY <1>5, <3>1, PartOfOrderMap
      <3>3. \A o \in DOMAIN Seen : seenRest[o] = Seen[o]
        BY <1>4, <1>5, <3>1, <3>2
      <3>4. PartOf(seenRest, Seen)
        BY <1>4, <3>2, <3>3 DEF PartOf
      <3> QED
        BY <3>4, PendingOfPart
    <2>3. Left(Seen')[oid] <= Left(open')[oid] /\ Left(Seen')[oid] \in Nat
      <3>1. /\ book[oid].side = open'[oid].side /\ open'[oid].size = book[oid].size
            /\ oid \in DOMAIN open' /\ oid \in DOMAIN Seen'
        BY <1>1, <1>5, <1>9 DEF EngineInv, TagsAgree, ReportsNotAhead
      <3>2. book[oid].rem \in Nat /\ book[oid].size \in Nat /\ book[oid].rem <= book[oid].size
        BY <1>2, <1>9 DEF EngineTypeOK, IsBook, BookOrder
      <3>3. open'[oid].side = "buy" => LeftOf(open'[oid]) = book[oid].size
        BY <3>1, <3>2 DEF ReportedUnfilled, LeftOf, Remaining
      <3>4. LeftOf(Seen'[oid]) = IF book[oid].side = "buy" THEN book[oid].rem ELSE 0
        BY <1>5, <3>1
      <3>5. /\ Left(Seen')[oid] = LeftOf(Seen'[oid]) /\ Left(open')[oid] = LeftOf(open'[oid])
            /\ LeftOf(Seen'[oid]) \in Nat /\ LeftOf(open'[oid]) \in Nat
        BY <1>3, <1>5, <3>1, LeftFacts
      <3> QED
        BY <3>1, <3>2, <3>3, <3>4, <3>5
    <2> HIDE DEF oid, openRest, seenRest
    <2> QED
      BY <1>11, <1>1, <1>4, <1>6, <1>7, <1>8, <2>1, <2>2, <2>3 DEF Covered
  <1>10. CASE oid \notin DOMAIN book
    <2>1. PartOf(Seen', Seen)
      BY <1>1, <1>4, <1>5, <1>10 DEF PartOf
    <2>2. PendingBuys(Seen') <= PendingBuys(Seen) /\ PendingBuys(Seen') \in Nat
      BY <2>1, PendingOfPart
    <2> HIDE DEF oid, openRest, seenRest
    <2> QED
      BY <1>11, <1>1, <1>4, <1>6, <1>7, <1>8, <2>2 DEF Covered
  <1> QED
    BY <1>9, <1>10

\* A unit bought on a tracked order is one less to be bought.
LEMMA SeenFilled ==
    ASSUME EngineInv, EngineTypeOK', NEW oid \in DOMAIN book, VenueFills(oid),
           oid \in DOMAIN open, book[oid].side = "buy"
    PROVE  PendingBuys(Seen') + 1 <= PendingBuys(Seen)
  <1> DEFINE rest == Restrict(Seen, DOMAIN Seen \ {oid})
             rest2 == Restrict(Seen', DOMAIN Seen' \ {oid})
  <1>1. EngineTypeOK /\ open' = open /\ Fill(oid)
    BY DEF EngineInv, VenueFills, engineVars
  <1>2. /\ IsOrderMap(Seen) /\ DOMAIN Seen = DOMAIN book \cap DOMAIN open
        /\ \A o \in DOMAIN Seen : Seen[o] = FilledInBase(book[o])
        /\ LeftOf(Seen[oid]) = book[oid].rem
    BY <1>1, SeenFacts
  <1>3. /\ IsOrderMap(Seen') /\ DOMAIN Seen' = DOMAIN book' \cap DOMAIN open
        /\ \A o \in DOMAIN Seen' :
              /\ Seen'[o] = FilledInBase(book'[o])
              /\ LeftOf(Seen'[o]) = IF book'[o].side = "buy" THEN book'[o].rem ELSE 0
    BY <1>1, NextSeenFacts
  <1>4. book[oid] \in BookOrder /\ book[oid].rem \in Nat /\ book[oid].rem > 0 /\ IsBook(book)
    BY <1>1 DEF EngineTypeOK, IsBook, BookOrder
  <1>5. /\ PendingBuys(Seen) = book[oid].rem + PendingBuys(rest)
        /\ IsOrderMap(rest) /\ DOMAIN rest = DOMAIN Seen \ {oid}
        /\ \A o \in DOMAIN rest : rest[o] = FilledInBase(book[o])
    <2>1. oid \in DOMAIN Seen
      BY <1>2
    <2>2. Left(Seen)[oid] = book[oid].rem
      BY <1>2, <2>1, LeftFacts
    <2>3. /\ IsOrderMap(rest) /\ DOMAIN rest = DOMAIN Seen \ {oid}
          /\ \A o \in DOMAIN rest : rest[o] = Seen[o]
      BY <1>2, PartOfOrderMap
    <2> QED
      BY <1>2, <2>1, <2>2, <2>3, PendingSplit
  <1>6. CASE book[oid].rem = 1
    <2>1. DOMAIN book' = DOMAIN book \ {oid} /\ \A o \in DOMAIN book' : book'[o] = book[o]
      BY <1>1, <1>4, <1>6, PartOfBook DEF Fill
    <2>2. PartOf(Seen', rest)
      BY <1>2, <1>3, <1>5, <2>1 DEF PartOf
    <2> HIDE DEF rest
    <2>3. /\ PendingBuys(Seen') <= PendingBuys(rest)
          /\ PendingBuys(rest) \in Nat /\ PendingBuys(Seen') \in Nat
      BY <2>2, PendingOfPart
    <2> QED
      BY <1>5, <1>6, <2>3
  <1>7. CASE book[oid].rem # 1
    <2>1. book' = [book EXCEPT ![oid] = Traded(book[oid])]
      BY <1>1, <1>7 DEF Fill
    <2>2. /\ DOMAIN book' = DOMAIN book
          /\ \A o \in DOMAIN book : o # oid => book'[o] = book[o]
          /\ book'[oid].rem = book[oid].rem - 1 /\ book'[oid].side = "buy"
      <3>1. /\ DOMAIN book' = DOMAIN book /\ book'[oid] = Traded(book[oid])
            /\ \A o \in DOMAIN book : o # oid => book'[o] = book[o]
        BY <2>1
      <3>2. Traded(book[oid]).rem = book[oid].rem - 1 /\ Traded(book[oid]).side = book[oid].side
        BY <1>4 DEF Traded, BookOrder
      <3> QED
        BY <3>1, <3>2
    <2>3. oid \in DOMAIN Seen' /\ LeftOf(Seen'[oid]) = book[oid].rem - 1
      BY <1>3, <2>2
    <2>4. PendingBuys(Seen') = (book[oid].rem - 1) + PendingBuys(rest2)
      <3>1. Left(Seen')[oid] = book[oid].rem - 1
        BY <1>3, <2>3, LeftFacts
      <3> QED
        BY <1>3, <2>3, <3>1, PendingSplit
    <2>5. /\ IsOrderMap(rest2) /\ DOMAIN rest2 = DOMAIN Seen' \ {oid}
          /\ \A o \in DOMAIN rest2 : rest2[o] = FilledInBase(book'[o])
      BY <1>3, PartOfOrderMap
    <2>6. PartOf(rest2, rest)
      BY <1>2, <1>3, <1>5, <2>2, <2>5 DEF PartOf
    <2> HIDE DEF rest, rest2
    <2>7. PendingBuys(rest2) <= PendingBuys(rest) /\ PendingBuys(rest2) \in Nat
            /\ PendingBuys(rest) \in Nat
      BY <2>6, PendingOfPart
    <2> QED
      BY <1>4, <1>5, <2>4, <2>7
  <1> QED
    BY <1>6, <1>7

\* What the book has left of tracked orders is at most what is left of them as they
\* were when nothing of them had been filled.
LEMMA NextSeenUnderOpen ==
    ASSUME EngineInv', ReportedUnfilled'
    PROVE  /\ PendingBuys(Seen') <= PendingBuys(open')
           /\ PendingBuys(Seen') \in Nat /\ PendingBuys(open') \in Nat /\ held' \in Nat
  <1>1. /\ EngineTypeOK' /\ TagsAgree' /\ ReportsNotAhead' /\ IsOrderMap(open')
    BY DEF EngineInv, EngineTypeOK
  <1>2. ASSUME NEW oid \in DOMAIN Seen'
        PROVE  LeftOf(Seen'[oid]) <= LeftOf(open'[oid])
    <2>1. oid \in DOMAIN book' /\ oid \in DOMAIN open'
      BY <1>1, <1>2, NextSeenFacts
    <2>2. /\ book'[oid].rem \in Nat /\ book'[oid].size \in Nat
          /\ book'[oid].rem <= book'[oid].size
      BY <1>1, <2>1 DEF EngineTypeOK, IsBook, BookOrder
    <2>3. book'[oid].side = open'[oid].side /\ open'[oid].size = book'[oid].size
      BY <1>1, <2>1 DEF TagsAgree, ReportsNotAhead
    <2>4. open'[oid].side = "buy" => LeftOf(open'[oid]) = book'[oid].size
      BY <2>1, <2>2, <2>3 DEF ReportedUnfilled, LeftOf, Remaining
    <2>5. open'[oid].side # "buy" => LeftOf(open'[oid]) = 0
      BY DEF LeftOf
    <2> QED
      BY <1>1, <1>2, <2>2, <2>3, <2>4, <2>5, NextSeenFacts
  <1>3. Under(Seen', open')
    BY <1>1, <1>2, NextSeenFacts DEF Under
  <1> QED
    BY <1>1, <1>3, NextSeenFacts, PendingUnder

LEMMA InitPosition == Init => PositionInv
  BY DEF Init, EngineInit, PositionInv, Trading

LEMMA KeptWhenSame ==
    ASSUME PositionKept, UNCHANGED <<book, open, held, cached, unseen>>
    PROVE  PositionKept'
  BY DEF PositionKept, Covered, ReportedUnfilled, Seen

\* A balance just read, or nothing tracked, keeps the position whatever came before.
LEMMA KeptWhenRead ==
    ASSUME EngineInv', cached' \in Nat, unseen' \in Nat, held' <= cached' + unseen'
    PROVE  PositionKept'
  <1> SUFFICES ASSUME ReportedUnfilled'
               PROVE  Covered'
    BY DEF PositionKept
  <1>1. /\ PendingBuys(Seen') <= PendingBuys(open')
        /\ PendingBuys(Seen') \in Nat /\ PendingBuys(open') \in Nat /\ held' \in Nat
    BY NextSeenUnderOpen
  <1>2. \A a, b, c, d, e \in Nat : a <= c + e /\ b <= d => a + b <= c + d + e
    OBVIOUS
  <1>3. held' + PendingBuys(Seen') <= cached' + PendingBuys(open') + unseen'
    BY ONLY <1>1, <1>2, cached' \in Nat, unseen' \in Nat, held' <= cached' + unseen'
  <1> QED
    BY <1>3 DEF Covered

LEMMA PositionInEngine ==
    ASSUME BotTypes, ControlInv, EngineInv, EngineInv', PositionInv, EngineMoves
    PROVE  PositionInv'
  <1>0. /\ EngineStep /\ pc' = pc /\ cached' = cached /\ unseen' = unseen
        /\ cached \in Nat /\ unseen \in Nat /\ EngineTypeOK /\ EngineTypeOK'
    BY DEF EngineMoves, botVars, BotTypes, EngineInv
  <1>1. call.op # "idle" /\ call.op \in CallsAt(pc)
    BY <1>0, CallGoesOn DEF ControlInv
  <1>2. CASE pc = "placing"
    <2> SUFFICES PositionKept'
      BY <1>0, <1>2 DEF PositionInv, Trading
    <2>1. call.op = "place" /\ PositionKept
      BY <1>1, <1>2 DEF CallsAt, PositionInv, Trading
    <2>2. CASE PlaceLimited \/ PlaceSubmit \/ PlaceFailed \/ PlaceBroken
      <3>1. book' = book /\ open' = open /\ held' = held
        BY <2>2 DEF PlaceLimited, PlaceSubmit, PlaceFailed, PlaceBroken, exchangeVars
      <3> QED
        BY <1>0, <2>1, <3>1, KeptWhenSame
    <2>3. CASE VenueAccepts
      <3>1. \A oid \in DOMAIN book : Grown(book[oid], book[oid])
        BY <1>0, StaysGrown DEF EngineTypeOK, IsBook
      <3>2. BookMoves /\ held' = held
        BY <2>3, <3>1 DEF VenueAccepts, Accept, BookMoves
      <3>3. held' <= held
        BY <1>0, <3>2 DEF EngineTypeOK
      <3> QED
        BY <1>0, <2>1, <3>2, <3>3, KeptWhenBookMoves
    <2>4. CASE PlaceConfirmed
      BY <1>0, <2>1, <2>4, KeptWhenConfirmed DEF PlaceConfirmed
    <2> QED
      BY <1>0, <2>1, <2>2, <2>3, <2>4
      DEF EngineStep, VenueCancels, CancelConfirmed, CancelFailed, VenueCancelsAll,
          CancelAllConfirmed, CancelAllFailed, VenueLists, ReconcileDone, ReconcileFailed, At
  <1>3. CASE pc = "preflightReconcile"
    <2>1. call.op = "reconcile" /\ PositionKept /\ open = NoOrders
      BY <1>1, <1>3 DEF CallsAt, PositionInv
    <2>2. CASE VenueLists \/ ReconcileFailed
      <3>1. UNCHANGED <<book, open, held>>
        BY <2>2 DEF VenueLists, ReconcileFailed, exchangeVars
      <3>2. PositionKept'
        BY <1>0, <2>1, <3>1, KeptWhenSame
      <3> QED
        BY <1>0, <1>3, <2>1, <3>1, <3>2 DEF PositionInv, Trading
    <2>3. CASE ReconcileDone
      <3>1. call' = Idle /\ held' = held
        BY <2>3 DEF ReconcileDone, End, exchangeVars
      <3>2. held <= cached + unseen
        <4>1. PendingBuys(open) = 0 /\ PendingBuys(Seen) \in Nat /\ held \in Nat
          BY <1>0, <2>1, SeenFacts, NothingPending
        <4>2. Covered
          BY <2>1, NoOrdersFacts DEF PositionKept, ReportedUnfilled
        <4> QED
          BY <1>0, <2>1, <4>1, <4>2 DEF Covered
      <3>3. PositionKept'
        BY <1>0, <3>1, <3>2, KeptWhenRead
      <3> QED
        BY <1>0, <1>3, <3>1, <3>3 DEF PositionInv, Trading, Idle
    <2> QED
      BY <1>0, <2>1, <2>2, <2>3
      DEF EngineStep, PlaceLimited, PlaceSubmit, VenueAccepts, PlaceConfirmed, PlaceFailed,
          PlaceBroken, VenueCancels, CancelConfirmed, CancelFailed, VenueCancelsAll,
          CancelAllConfirmed, CancelAllFailed, At
  <1>4. CASE pc \notin {"placing", "preflightReconcile"}
    BY <1>0, <1>1, <1>4 DEF CallsAt, PositionInv, Trading
  <1> QED
    BY <1>2, <1>3, <1>4

LEMMA PositionInMarket ==
    ASSUME BotTypes, EngineInv, EngineInv', PositionInv, MarketMoves
    PROVE  PositionInv'
  <1>0. /\ UNCHANGED <<pc, cached, call, open>>
        /\ cached \in Nat /\ unseen \in Nat /\ EngineTypeOK /\ EngineTypeOK'
    BY MarketLeavesCalls DEF botVars, BotTypes, EngineInv
  <1>1. SUFFICES ASSUME PositionKept, pc = "preflightReconcile" \/ pc \in Trading
                 PROVE  PositionKept'
    BY <1>0 DEF PositionInv
  <1>2. \A oid \in DOMAIN book : Grown(book[oid], book[oid])
    BY <1>0, StaysGrown DEF EngineTypeOK, IsBook
  <1>7. ReportedUnfilled' = ReportedUnfilled
    BY <1>0 DEF ReportedUnfilled
  <1>3. held \in Nat /\ held' \in Nat
    BY <1>0 DEF EngineTypeOK
  <1>4. ASSUME NEW oid \in DOMAIN book, VenueFills(oid),
               unseen' = IF book[oid].side = "buy" /\ oid \notin DOMAIN open /\ InService
                         THEN unseen + 1 ELSE unseen
        PROVE  PositionKept'
    <2>1. Fill(oid)
      BY <1>4 DEF VenueFills
    <2>2. BookMoves
      BY <1>0, <1>4, <2>1, FillFacts DEF BookMoves, EngineTypeOK
    <2>3. CASE book[oid].side # "buy"
      BY <1>0, <1>1, <1>3, <1>4, <2>1, <2>2, <2>3, KeptWhenBookMoves DEF Fill
    <2>4. CASE book[oid].side = "buy" /\ oid \in DOMAIN open
      <3>1. PendingBuys(Seen') + 1 <= PendingBuys(Seen)
        BY <1>0, <1>4, <2>4, SeenFilled
      <3>2. /\ PendingBuys(Seen) \in Nat /\ PendingBuys(Seen') \in Nat
            /\ PendingBuys(open) \in Nat /\ PendingBuys(open') = PendingBuys(open)
        BY <1>0, SeenFacts, NextSeenFacts
      <3>3. held' = held + 1 /\ unseen' = unseen
        BY <1>4, <2>1, <2>4 DEF Fill
      <3> QED
        BY <1>0, <1>1, <1>7, <1>3, <3>1, <3>2, <3>3 DEF PositionKept, Covered
    <2>5. CASE book[oid].side = "buy" /\ oid \notin DOMAIN open
      <3>1. PendingBuys(Seen') <= PendingBuys(Seen)
        BY <1>0, <2>2, SeenMoves, PendingUnder
      <3>2. /\ PendingBuys(Seen) \in Nat /\ PendingBuys(Seen') \in Nat
            /\ PendingBuys(open) \in Nat /\ PendingBuys(open') = PendingBuys(open)
        BY <1>0, SeenFacts, NextSeenFacts
      <3>3. held' = held + 1 /\ unseen' = unseen + 1
        BY <1>1, <1>4, <2>1, <2>5 DEF Fill, InService
      <3> QED
        BY <1>0, <1>1, <1>7, <1>3, <3>1, <3>2, <3>3 DEF PositionKept, Covered
    <2> QED
      BY <2>3, <2>4, <2>5
  <1>5. ASSUME NEW oid \in DOMAIN book, VenueWithdraws(oid), unseen' = unseen
        PROVE  PositionKept'
    <2>1. BookMoves /\ held' = held
      BY <1>0, <1>2, <1>5 DEF VenueWithdraws, Withdraw, Restrict, BookMoves
    <2> QED
      BY <1>0, <1>1, <1>3, <1>5, <2>1, KeptWhenBookMoves
  <1>6. ASSUME NEW s \in late, SubmissionArrivesLate(s), unseen' = unseen
        PROVE  PositionKept'
    <2>1. BookMoves /\ held' = held
      BY <1>0, <1>2, <1>6 DEF SubmissionArrivesLate, AcceptLate, Accept, BookMoves
    <2> QED
      BY <1>0, <1>1, <1>3, <1>6, <2>1, KeptWhenBookMoves
  <1> QED
    BY <1>4, <1>5, <1>6 DEF MarketMoves

LEMMA NextPosition ==
    ASSUME BotTypes, BotTypes', ControlInv, EngineInv, EngineInv', PositionInv, [Next]_vars
    PROVE  PositionInv'
  <1>0. /\ cached' \in Nat /\ unseen' \in Nat /\ held \in Nat
        /\ call.op \in CallsAt(pc)
    BY DEF BotTypes, EngineTypeOK, ControlInv
  <1>1. CASE Boot
    BY <1>1 DEF Boot, PositionInv, Trading, tradingVars, engineVars
  <1>2. CASE PreflightBalances
    <2>0. /\ held' = held /\ open' = open
          /\ (cached' = held /\ unseen' = 0) \/ (cached' = 0 /\ unseen' = held)
      BY <1>2 DEF PreflightBalances, Reconcile, exchangeVars
    <2>1. held' <= cached' + unseen'
      <3>1. held \in Nat
        BY <1>0
      <3> QED
        BY ONLY <2>0, <3>1
    <2>2. PositionKept'
      BY <1>0, <2>1, KeptWhenRead
    <2> QED
      BY <1>2, <2>0, <2>2 DEF PreflightBalances, PositionInv, Trading
  <1>3. CASE StartRunning
    <2>1. PositionKept /\ UNCHANGED <<book, open, held, cached, unseen>> /\ pc' = "loop"
      BY <1>3 DEF StartRunning, ResultRead, PositionInv, exchangeVars
    <2> QED
      BY <2>1, KeptWhenSame DEF PositionInv, Trading
  <1>4. CASE TickStart \/ RiskHalts \/ StayCool \/ GoOn \/ EndTick
    <2>1. PositionKept /\ UNCHANGED <<book, open, held, cached, unseen>>
      BY <1>4 DEF TickStart, RiskHalts, StayCool, GoOn, EndTick, PositionInv, Trading,
                  tradingVars, exchangeVars, engineVars
    <2>2. pc' \notin {"down", "preflight", "preflightReconcile"}
      BY <1>4 DEF TickStart, RiskHalts, StayCool, GoOn, EndTick, SaveAndGo
    <2> QED
      BY <2>1, <2>2, KeptWhenSame DEF PositionInv
  <1>5. CASE RefreshBalances
    <2>1. /\ PositionKept /\ UNCHANGED <<book, open, held>> /\ pc' = "evaluate"
          /\ (cached' = held /\ unseen' = 0) \/ UNCHANGED <<cached, unseen>>
      BY <1>5 DEF RefreshBalances, PositionInv, Trading, tradingVars, exchangeVars, engineVars
    <2>2. CASE cached' = held /\ unseen' = 0
      BY <1>0, <2>1, <2>2, KeptWhenRead DEF PositionInv, Trading
    <2>3. CASE UNCHANGED <<cached, unseen>>
      BY <2>1, <2>3, KeptWhenSame DEF PositionInv, Trading
    <2> QED
      BY <2>1, <2>2, <2>3
  <1>6. CASE PlaceNext
    <2>1. PositionKept /\ UNCHANGED <<pc, book, open, held, cached, unseen>> /\ pc = "placing"
      BY <1>6 DEF PlaceNext, PlaceCall, PositionInv, Trading, tradingVars, exchangeVars,
                  engineVars
    <2> QED
      BY <2>1, KeptWhenSame DEF PositionInv, Trading
  <1>7. CASE BeginShutdown \/ ShutdownCancel \/ ShutdownDone
    BY <1>7 DEF BeginShutdown, ShutdownCancel, ShutdownDone, PositionInv, Trading
  <1>8. CASE Crash
    BY <1>8 DEF Crash, ProcessDies, PositionInv, Trading
  <1>9. CASE EngineMoves
    BY <1>9, PositionInEngine
  <1>10. CASE MarketMoves
    BY <1>10, PositionInMarket
  <1>11. CASE IdleTick \/ Stop \/ ClockTick \/ Terminated \/ UNCHANGED vars
    <2>1. UNCHANGED <<pc, book, open, held, cached, unseen, call>>
      BY <1>11 DEF IdleTick, Stop, ClockTick, Terminated, vars, botVars, tradingVars,
                   exchangeVars, engineVars
    <2>2. PositionKept => PositionKept'
      BY <2>1, KeptWhenSame
    <2> QED
      BY <2>1, <2>2 DEF PositionInv
  <1> QED
    BY <1>1, <1>2, <1>3, <1>4, <1>5, <1>6, <1>7, <1>8, <1>9, <1>10, <1>11 DEF Next, BotStep

\* What the risk manager lets through leaves no more than the cap, at the mid it was
\* given, of anything that is at most what it counts.
LEMMA WithinCap ==
    ASSUME NEW orders, NEW base \in Nat, NEW price \in Nat, PendingBuys(orders) \in Nat,
           ~PositionBreached(orders, base, price),
           NEW true \in Int, true <= base + PendingBuys(orders)
    PROVE  true * price <= MaxPosition
  <1> DEFINE counted == base + PendingBuys(orders)
  <1>0. MaxPosition \in Nat /\ counted \in Nat
    BY RiskAssumption
  <1>1. counted * price \in Nat /\ (price > 0 => counted * price <= MaxPosition)
    <2>1. counted * price \in Nat
      BY <1>0, Times
    <2>2. price > 0 => ~(counted * price > MaxPosition)
      BY Zenon DEF PositionBreached
    <2> QED
      BY <1>0, <2>1, <2>2
  <1>2. counted * price <= MaxPosition
    <2>1. CASE price = 0
      BY <1>0, <2>1
    <2> QED
      BY <1>1, <2>1
  <1>3. CASE true < 0
    <2>1. (0 - true) * price \in Nat /\ true * price = 0 - (0 - true) * price
      BY <1>3, SMTT(30)
    <2> QED
      BY <1>0, <2>1
  <1>4. CASE true >= 0
    <2>1. true * price <= counted * price /\ true * price \in Nat
      BY <1>0, <1>4, Times
    <2> QED
      BY <1>0, <1>1, <1>2, <2>1
  <1> QED
    BY <1>3, <1>4

\* A tick that goes on to place orders is within max_position_notional by what is
\* really held and what the tracked buys may still add, however old the balance and
\* the reports it reckons with, as long as no tracked buy was reported with fills.
THEOREM TicksStayWithinPosition == Spec => GoesOnWithinPosition
  <1> DEFINE Within == pc = "evaluate" /\ pc' = "placing" /\ ReportedUnfilled =>
                          LET tracked == [oid \in DOMAIN book \cap DOMAIN open |->
                                            FilledInBase(book[oid])]
                          IN  (held + PendingBuys(tracked) - unseen) * mid <= MaxPosition
             Kept == BotTypes /\ ControlInv /\ EngineInv /\ PositionInv
  <1>1. Kept /\ [Next]_vars => [Within]_vars
    <2> SUFFICES ASSUME Kept, Next, pc = "evaluate", pc' = "placing", ReportedUnfilled
                 PROVE  (held + PendingBuys(Seen) - unseen) * mid <= MaxPosition
      BY DEF Seen
    <2>1. GoOn
      <3>1. ~(Boot \/ PreflightBalances \/ StartRunning \/ IdleTick \/ TickStart
                \/ RefreshBalances \/ PlaceNext \/ EndTick \/ ShutdownCancel \/ ShutdownDone)
        BY DEF Boot, PreflightBalances, StartRunning, IdleTick, TickStart, RefreshBalances,
               PlaceNext, EndTick, ShutdownCancel, ShutdownDone
      <3>2. ~(RiskHalts \/ StayCool \/ BeginShutdown \/ Crash)
        BY DEF RiskHalts, StayCool, BeginShutdown, Crash, SaveAndGo
      <3>3. ~(Stop \/ EngineMoves \/ MarketMoves \/ ClockTick \/ Terminated)
        BY DEF Stop, EngineMoves, MarketMoves, ClockTick, Terminated, botVars, vars
      <3> QED
        BY <3>1, <3>2, <3>3 DEF Next, BotStep
    <2>2. ~PositionBreached(open, cached, mid)
      BY <2>1 DEF GoOn, Evaluate
    <2>3. cached \in Nat /\ mid \in Nat /\ unseen \in Nat /\ Covered
      BY BotAssumption DEF BotTypes, PositionInv, PositionKept, Trading
    <2>4. PendingBuys(Seen) \in Nat /\ PendingBuys(open) \in Nat /\ held \in Nat
      BY SeenFacts DEF BotTypes
    <2>5. /\ held + PendingBuys(Seen) - unseen \in Int
          /\ held + PendingBuys(Seen) - unseen <= cached + PendingBuys(open)
      BY <2>3, <2>4 DEF Covered
    <2> QED
      BY <2>2, <2>3, <2>4, <2>5, WithinCap
  <1>2. Init => Kept
    BY InitBotTypes, InitControl, InitEngineInv, InitPosition DEF Init
  <1>3. Kept /\ [Next]_vars => Kept'
    <2> SUFFICES ASSUME Kept, [Next]_vars
                 PROVE  Kept'
      OBVIOUS
    <2>1. BotTypes' /\ ControlInv'
      BY NextBotTypes, NextControl
    <2>2. EngineInv'
      BY StepOfEngine, NextEngineInv DEF BotTypes
    <2> QED
      BY <2>1, <2>2, NextPosition
  <1> HIDE DEF Kept
  <1> QED
    BY <1>1, <1>2, <1>3, PTL DEF Spec, GoesOnWithinPosition
=============================================================================
