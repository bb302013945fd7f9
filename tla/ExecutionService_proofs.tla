------------------------ MODULE ExecutionService_proofs ------------------------
(***************************************************************************)
(* What holds of the execution service for every set of commands, events   *)
(* and trades, every queue length and any number of crashes, failures and  *)
(* takeovers.                                                              *)
(*                                                                         *)
(* Dispatch: no command is sent twice, none by an executor whose fence is   *)
(* lost, and the command table implements the lifecycle of a command.       *)
(*                                                                         *)
(* The trading gate: an open gate means a reconciled account, no dispatch   *)
(* is left open behind a running executor, and the account the risk checks  *)
(* read is the committed one.  An executor that meets a fault is back in    *)
(* its main loop, and only the fact it keeps can clear the fault.  The      *)
(* counters the gate compares are honest: what the callback threads counted *)
(* and nobody acknowledged is still queued or kept for a repair, so a new   *)
(* loss always shows.                                                       *)
(***************************************************************************)
EXTENDS ExecutionService, TLAPS, SequenceTheorems, FiniteSetTheorems, FunctionTheorems

\* A commit leaves the gate and the failure counter well typed.
LEMMA SettleType ==
    ASSUME NEW o, NEW r \in BOOLEAN, NEW rec \in {"DISCONNECTED", "RECONCILING", "READY"},
           Settle(o, r, rec)
    PROVE  /\ fault' \in BOOLEAN /\ ready' \in BOOLEAN
           /\ recovery' \in {"DISCONNECTED", "RECONCILING", "READY"}
BY DEF Settle

LEMMA CheckIngressType ==
    ASSUME NEW o, TypeOK, CheckIngress(o), UNCHANGED unchangedByCheck
    PROVE  /\ phase' \in Phases /\ reportedDrops' \in Nat /\ view' \in Views
           /\ fault' \in BOOLEAN /\ ready' \in BOOLEAN
           /\ recovery' \in {"DISCONNECTED", "RECONCILING", "READY"}
           /\ failures' \in Nat
<1>1. CASE ~DropsUnreported
  BY <1>1 DEF CheckIngress, AuditDrops, TypeOK, gateVars, unchangedByCheck
<1>2. CASE AuditDrops(o)
  <2>1. failures' \in Nat
    BY <1>2 DEF AuditDrops, Outcome, TypeOK
  <2>2. Account \in Views
    BY DEF TypeOK, Account, Views
  <2>3. view' \in Views
    BY <1>2, <2>2 DEF AuditDrops, Publish, TypeOK
  <2>. QED  BY <1>2, <2>1, <2>3 DEF AuditDrops, Settle, TypeOK, Durable, Phases
<1>. QED  BY <1>1, <1>2 DEF CheckIngress

LEMMA ApplyFactType ==
    ASSUME ServiceAssumption, TypeOK, NEW e \in Events, NEW o, ApplyFact(e, o)
    PROVE  /\ events' \subseteq Events /\ applied' \in [TradeKeys -> Nat]
           /\ phase' \in Phases /\ pendingFact' \in Events \union {None}
           /\ ackFailures' \in Nat /\ failures' \in Nat /\ view' \in Views
           /\ fault' \in BOOLEAN /\ ready' \in BOOLEAN
           /\ recovery' \in {"DISCONNECTED", "RECONCILING", "READY"}
<1>1. events' \subseteq Events
  BY DEF ApplyFact, TypeOK
<1>2. applied' \in [TradeKeys -> Nat]
  BY DEF ApplyFact, TypeOK, ServiceAssumption
<1>3. phase' \in Phases /\ pendingFact' \in Events \union {None}
  BY DEF ApplyFact, TypeOK, Phases
<1>4. ackFailures' \in Nat /\ failures' \in Nat
  BY DEF ApplyFact, TypeOK, Outcome
<1>5. fault' \in BOOLEAN /\ ready' \in BOOLEAN
      /\ recovery' \in {"DISCONNECTED", "RECONCILING", "READY"}
  BY DEF ApplyFact, TypeOK, Settle
<1>6. Account' \in Views
  BY <1>2 DEF ApplyFact, TypeOK, Account, Views
<1>7. view' \in Views
  BY <1>6 DEF ApplyFact, Publish, TypeOK
<1>. QED  BY <1>1, <1>2, <1>3, <1>4, <1>5, <1>7

\* What applying a fact leaves alone.
LEMMA ApplyFactFrame ==
    ASSUME NEW e, NEW o, ApplyFact(e, o)
    PROVE  UNCHANGED <<status, queueVars, control, prepared, dispatchVars, authority,
                       assemblyVars, reportedDrops, marketDropped, callbackFailures,
                       calls, unreconciled, crashes>>
BY DEF ApplyFact

-------------------------------------------------------------------------------
\* The program starts, and a process dies, in a well typed state.
LEMMA TypeInit ==
    ASSUME ServiceAssumption, Init
    PROVE  TypeOK
<1>1. 0 \in 0..MaxEpoch /\ 0 \in 0..TradeBatch /\ 0 \in Nat
  BY DEF ServiceAssumption
<1>2. <<>> \in Seq(Events)
  OBVIOUS
<1>3. Account \in Views
  BY DEF Init, Account, Views
<1>. QED
  BY <1>1, <1>2, <1>3 DEF Init, TypeOK, Statuses, Phases, Steps

\* Every step of every actor leaves a well typed state.
LEMMA TypeStep ==
    ASSUME ServiceAssumption, TypeOK, DispatchInv, [Next]_vars
    PROVE  TypeOK'
<1>. USE DEF dbVars, queueVars, accountVars, dispatchVars, gateVars, ingressVars, healthVars, assemblyVars, boundVars
<1>1. ASSUME NEW c \in Commands, NEW obs \in 0..control, Submit(c, obs)
      PROVE  TypeOK'
  BY <1>1, ServiceAssumption
  DEF Submit, TypeOK, Statuses
<1>2. ASSUME NEW e \in Events, EnqueueFact(e)
      PROVE  TypeOK'
  BY <1>2, ServiceAssumption, SMTT(40)
  DEF EnqueueFact, TypeOK
<1>3. ASSUME NEW e \in Events, EnqueueMarket(e)
      PROVE  TypeOK'
  <2>1. Append(marketQueue, e) \in Seq(Events)
    BY DEF TypeOK
  <2>2. marketQueue' \in Seq(Events) /\ marketDropped' \in Nat /\ unreconciled' \in BOOLEAN
    <3>1. CASE Len(marketQueue) < MarketCapacity
      BY <1>3, <2>1, <3>1 DEF EnqueueMarket, TypeOK
    <3>2. CASE ~(Len(marketQueue) < MarketCapacity)
      BY <1>3, <3>2 DEF EnqueueMarket, TypeOK
    <3>. QED
      BY <3>1, <3>2
  <2>. QED
    BY <1>3, <2>2 DEF EnqueueMarket, TypeOK
<1>4. ASSUME Start
      PROVE  TypeOK'
  BY <1>4, ServiceAssumption
  DEF Start, TypeOK, Account, Views, Steps
<1>5. ASSUME NEW c \in Commands, RecordInterrupted(c)
      PROVE  TypeOK'
  BY <1>5, ServiceAssumption
  DEF RecordInterrupted, TypeOK, First, Interrupted, Statuses
<1>6. ASSUME Started
      PROVE  TypeOK'
  BY <1>6, ServiceAssumption
  DEF Started, TypeOK, Steps
<1>7. ASSUME EndBatch
      PROVE  TypeOK'
  BY <1>7, ServiceAssumption
  DEF EndBatch, TypeOK, Steps
<1>8. ASSUME EndRound
      PROVE  TypeOK'
  BY <1>8, ServiceAssumption
  DEF EndRound, TypeOK, Steps
<1>9. ASSUME NoCommand
      PROVE  TypeOK'
  BY <1>9, ServiceAssumption
  DEF NoCommand, TypeOK, Steps, unchangedByCommand
<1>10. ASSUME FinalFence
      PROVE  TypeOK'
  BY <1>10, ServiceAssumption
  DEF FinalFence, TypeOK, Steps, unchangedByCommand
<1>11. ASSUME NEW o \in Outcomes, BeginRound(o)
      PROVE  TypeOK'
  <2>1. CheckIngress(o) /\ UNCHANGED unchangedByCheck
    BY <1>11 DEF BeginRound
  <2>2. pc' \in Steps /\ slots' \in 0..TradeBatch
    BY <1>11, ServiceAssumption DEF BeginRound, Continue, Steps, ServiceAssumption
  <2>. QED
    BY <2>1, <2>2, CheckIngressType DEF TypeOK, unchangedByCheck
<1>12. ASSUME NEW o \in Outcomes, ProcessTradeFact(o)
      PROVE  TypeOK'
  <2>1. Head(tradeQueue) \in Events /\ Tail(tradeQueue) \in Seq(Events)
    BY <1>12 DEF ProcessTradeFact, TypeOK
  <2>2. ApplyFact(Head(tradeQueue), o) /\ tradeQueue' \in Seq(Events) /\ UNCHANGED marketQueue
    BY <1>12, <2>1 DEF ProcessTradeFact
  <2>3. pc' \in Steps /\ slots' \in 0..TradeBatch
    BY <1>12 DEF ProcessTradeFact, Continue, Steps, TypeOK
  <2>. QED
    BY <2>1, <2>2, <2>3, ApplyFactType, ApplyFactFrame DEF TypeOK
<1>13. ASSUME NEW o \in Outcomes, Poll(o)
      PROVE  TypeOK'
  <2>1. CheckIngress(o) /\ UNCHANGED unchangedByCheck /\ UNCHANGED slots
    BY <1>13 DEF Poll
  <2>2. pc' \in Steps
    BY <1>13 DEF Poll, Continue, Steps
  <2>. QED
    BY <2>1, <2>2, CheckIngressType DEF TypeOK, unchangedByCheck
<1>14. ASSUME NEW o \in Outcomes, ProcessMarketFact(o)
      PROVE  TypeOK'
  <2>1. Head(marketQueue) \in Events /\ Tail(marketQueue) \in Seq(Events)
    BY <1>14 DEF ProcessMarketFact, TypeOK
  <2>2. /\ ApplyFact(Head(marketQueue), o) /\ marketQueue' \in Seq(Events)
        /\ UNCHANGED tradeQueue /\ UNCHANGED slots /\ pc' \in Steps
    BY <1>14, <2>1 DEF ProcessMarketFact, Steps
  <2>. QED
    BY <2>1, <2>2, ApplyFactType, ApplyFactFrame DEF TypeOK
<1>15. ASSUME NEW c \in Commands, NEW o \in Outcomes, PrepareCommand(c, o)
      PROVE  TypeOK'
  BY <1>15, ServiceAssumption
  DEF PrepareCommand, TypeOK, Steps, Continue, unchangedByCommand, Outcome, Settle, SetStatus, Statuses, Publish, Account, Views
<1>16. ASSUME NEW c \in Commands, NEW o \in Outcomes, NEW approved \in BOOLEAN, RejectCommand(c, approved, o)
      PROVE  TypeOK'
  BY <1>16, ServiceAssumption
  DEF RejectCommand, TypeOK, Steps, Continue, unchangedByCommand, Outcome, Settle, SetStatus, Statuses, Publish, Account, Views
<1>17. ASSUME NEW reached \in BOOLEAN, NEW r \in {"NOT_SENT", "SENT_UNKNOWN"}, GatewayCall(reached, r)
      PROVE  TypeOK'
  <2>1. current \in Commands
    BY <1>17 DEF GatewayCall, DispatchInv
  <2>2. calls' \in [Commands -> Nat]
    BY <1>17, <2>1 DEF GatewayCall, TypeOK
  <2>3. result' \in {"NONE", "NOT_SENT", "SENT_UNKNOWN"} /\ pc' \in Steps
    BY <1>17 DEF GatewayCall, Steps
  <2>. QED
    BY <1>17, <2>2, <2>3 DEF GatewayCall, TypeOK
<1>18. ASSUME NEW o \in Outcomes, RecordSendResult(o)
      PROVE  TypeOK'
  <2>1. current \in Commands /\ result \in {"NOT_SENT", "SENT_UNKNOWN"}
    BY <1>18 DEF RecordSendResult, DispatchInv, TypeOK
  <2>2. status' \in [Commands -> Statuses] /\ prepared' \subseteq Commands
    BY <1>18, <2>1 DEF RecordSendResult, SetStatus, Statuses, TypeOK
  <2>3. Account' \in Views /\ view' \in Views
    BY <1>18, <2>2 DEF RecordSendResult, Publish, Account, Views, TypeOK, unchangedByCommand
  <2>4. failures' \in Nat /\ pc' \in Steps
    BY <1>18 DEF RecordSendResult, Outcome, Continue, Steps, TypeOK
  <2>5. fault' \in BOOLEAN /\ ready' \in BOOLEAN
        /\ recovery' \in {"DISCONNECTED", "RECONCILING", "READY"}
    BY <1>18 DEF RecordSendResult, Settle, TypeOK
  <2>. QED
    BY <1>18, <2>2, <2>3, <2>4, <2>5 DEF RecordSendResult, TypeOK, unchangedByCommand
<1>19. ASSUME BeginReconciliation
      PROVE  TypeOK'
  BY <1>19, ServiceAssumption
  DEF BeginReconciliation, TypeOK, Steps, unchangedByRecovery
<1>20. ASSUME NEW ok \in BOOLEAN, FinishQueries(ok)
      PROVE  TypeOK'
  BY <1>20, ServiceAssumption
  DEF FinishQueries, TypeOK, Steps, unchangedByRecovery
<1>21. ASSUME NEW o \in Outcomes, CheckEnable(o)
      PROVE  TypeOK'
  <2>1. CheckIngress(o) /\ UNCHANGED unchangedByCheck /\ UNCHANGED slots
    BY <1>21 DEF CheckEnable
  <2>2. pc' \in Steps
    BY <1>21 DEF CheckEnable, Steps
  <2>. QED
    BY <2>1, <2>2, CheckIngressType DEF TypeOK, unchangedByCheck
<1>22. ASSUME NEW o \in Outcomes, Enable(o)
      PROVE  TypeOK'
  BY <1>22, ServiceAssumption
  DEF Enable, TypeOK, Steps, Outcome, Settle, Publish, Account, Views, Phases
<1>23. ASSUME NEW c \in Commands, NEW isolated \in BOOLEAN, RefuseTakeover(c, isolated)
      PROVE  TypeOK'
  BY <1>23, ServiceAssumption
  DEF RefuseTakeover, TypeOK, unchangedByTakeover, Statuses, Account, Views
<1>24. ASSUME NEW c \in Commands, NEW o \in Outcomes, TakeOver(c, o)
      PROVE  TypeOK'
  <2>1. control' \in 0..MaxEpoch /\ authority' \in 0..MaxEpoch
    BY <1>24, ServiceAssumption DEF TakeOver, TypeOK, ServiceAssumption
  <2>2. status' \in [Commands -> Statuses] /\ phase' \in Phases /\ failures' \in Nat
    BY <1>24 DEF TakeOver, SetStatus, Statuses, Phases, Outcome, TypeOK
  <2>3. view' \in Views
    BY <1>24 DEF TakeOver, Publish, Account, Views, TypeOK
  <2>4. fault' \in BOOLEAN /\ ready' \in BOOLEAN
        /\ recovery' \in {"DISCONNECTED", "RECONCILING", "READY"}
    BY <1>24 DEF TakeOver, Settle, TypeOK
  <2>. QED
    BY <1>24, <2>1, <2>2, <2>3, <2>4 DEF TakeOver, TypeOK, unchangedByTakeover
<1>25. ASSUME NEW o \in Outcomes, RetryPendingFact(o)
      PROVE  TypeOK'
  <2>1. pendingFact \in Events
    BY <1>25 DEF RetryPendingFact, TypeOK
  <2>2. ApplyFact(pendingFact, o) /\ UNCHANGED <<pc, slots, tradeQueue, marketQueue>>
    BY <1>25 DEF RetryPendingFact
  <2>. QED
    BY <2>1, <2>2, ApplyFactType, ApplyFactFrame DEF TypeOK
<1>26. ASSUME SessionLost
      PROVE  TypeOK'
  BY <1>26, ServiceAssumption
  DEF SessionLost, TypeOK, unchangedByRecovery
<1>27. ASSUME Crash
      PROVE  TypeOK'
  <2>1. 0 \in 0..MaxEpoch /\ 0 \in 0..TradeBatch /\ 0 \in Nat /\ <<>> \in Seq(Events)
    BY DEF ServiceAssumption
  <2>2. view' \in Views /\ crashes' \in Nat /\ pc' \in Steps
    BY <1>27 DEF Crash, Account, Views, Steps, TypeOK
  <2>. QED
    BY <1>27, <2>1, <2>2 DEF Crash, TypeOK
<1>28. CASE UNCHANGED vars
  BY <1>28 DEF TypeOK, vars
<1>. QED
  BY <1>1, <1>2, <1>3, <1>4, <1>5, <1>6, <1>7, <1>8, <1>9, <1>10, <1>11, <1>12, <1>13, <1>14, 
     <1>15, <1>16, <1>17, <1>18, <1>19, <1>20, <1>21, <1>22, <1>23, <1>24, <1>25, <1>26, <1>27, <1>28
  DEF Next, Producer, Callback, Boot, Round, Reconciliation, Takeover, Repair

\* A new command, a claim, a call, its result, a restart: each keeps the
\* agreement between the queue, the account, the executor and the broker.
LEMMA DispatchStep ==
    ASSUME ServiceAssumption, TypeOK, DispatchInv, [Next]_vars
    PROVE  DispatchInv'
<1>. USE DEF dbVars, queueVars, accountVars, dispatchVars, gateVars, ingressVars, healthVars, assemblyVars, boundVars
<1>1. ASSUME NEW c \in Commands, NEW obs \in 0..control, Submit(c, obs)
      PROVE  DispatchInv'
  BY <1>1
  DEF Submit, DispatchInv, TypeOK, Statuses
<1>2. ASSUME NEW e \in Events, EnqueueFact(e)
      PROVE  DispatchInv'
  BY <1>2
  DEF EnqueueFact, DispatchInv, TypeOK
<1>3. ASSUME NEW e \in Events, EnqueueMarket(e)
      PROVE  DispatchInv'
  BY <1>3
  DEF EnqueueMarket, DispatchInv, TypeOK
<1>4. ASSUME Start
      PROVE  DispatchInv'
  BY <1>4
  DEF Start, DispatchInv, TypeOK
<1>5. ASSUME NEW c \in Commands, RecordInterrupted(c)
      PROVE  DispatchInv'
  BY <1>5
  DEF RecordInterrupted, DispatchInv, TypeOK, First, Interrupted
<1>6. ASSUME Started
      PROVE  DispatchInv'
  BY <1>6
  DEF Started, DispatchInv, TypeOK
<1>7. ASSUME EndBatch
      PROVE  DispatchInv'
  BY <1>7
  DEF EndBatch, DispatchInv, TypeOK
<1>8. ASSUME EndRound
      PROVE  DispatchInv'
  BY <1>8
  DEF EndRound, DispatchInv, TypeOK
<1>9. ASSUME NoCommand
      PROVE  DispatchInv'
  BY <1>9
  DEF NoCommand, DispatchInv, TypeOK, unchangedByCommand
<1>10. ASSUME FinalFence
      PROVE  DispatchInv'
  BY <1>10
  DEF FinalFence, DispatchInv, TypeOK, unchangedByCommand, Stale, Ready
<1>11. ASSUME NEW o \in Outcomes, BeginRound(o)
      PROVE  DispatchInv'
  BY <1>11
  DEF BeginRound, DispatchInv, TypeOK, unchangedByCheck, Continue
<1>12. ASSUME NEW o \in Outcomes, ProcessTradeFact(o)
      PROVE  DispatchInv'
  BY <1>12, ApplyFactFrame
  DEF ProcessTradeFact, DispatchInv, TypeOK, Continue
<1>13. ASSUME NEW o \in Outcomes, Poll(o)
      PROVE  DispatchInv'
  BY <1>13
  DEF Poll, DispatchInv, TypeOK, unchangedByCheck, Continue
<1>14. ASSUME NEW o \in Outcomes, ProcessMarketFact(o)
      PROVE  DispatchInv'
  BY <1>14, ApplyFactFrame
  DEF ProcessMarketFact, DispatchInv, TypeOK
<1>15. ASSUME NEW c \in Commands, NEW o \in Outcomes, PrepareCommand(c, o)
       PROVE  DispatchInv'
  <2>1. status[c] = "PENDING" /\ pc = "command" /\ control # 0 /\ observed[c] = control
    BY <1>15 DEF PrepareCommand, First, Pending, Stale
  <2>1a. authority = control
    BY <1>15 DEF PrepareCommand, Ready
  <2>1b. calls[c] = 0 /\ c \notin prepared
    <3>1. ~(calls[c] > 0) /\ c \notin prepared
      BY <2>1 DEF DispatchInv
    <3>2. calls[c] \in Nat
      BY DEF TypeOK
    <3>. QED
      BY <3>1, <3>2
  <2>2. /\ UNCHANGED <<calls, control, observed, authority, result>>
        /\ pc' \in {"fence", "market", "loop"}
    BY <1>15 DEF PrepareCommand, unchangedByCommand, Continue
  <2>3. \A d \in Commands : d # c => status'[d] = status[d] /\ (d \in prepared' <=> d \in prepared)
    BY <1>15 DEF PrepareCommand, SetStatus, TypeOK
  <2>4. c \in prepared' => status'[c] \in {"DISPATCHING", "COMPLETED"}
    BY <1>15, <2>1, <2>1b DEF PrepareCommand, SetStatus, TypeOK
  <2>5. pc' = "fence" => current' = c /\ status'[c] = "DISPATCHING" /\ c \in prepared'
    BY <1>15 DEF PrepareCommand, SetStatus, Continue, Durable, Outcomes, TypeOK
  <2>. QED
    BY <2>1, <2>1a, <2>1b, <2>2, <2>3, <2>4, <2>5 DEF DispatchInv, TypeOK
<1>16. ASSUME NEW c \in Commands, NEW o \in Outcomes, NEW approved \in BOOLEAN, RejectCommand(c, approved, o)
      PROVE  DispatchInv'
  BY <1>16
  DEF RejectCommand, DispatchInv, TypeOK, unchangedByCommand, SetStatus, Continue, First, Pending, Outcomes
<1>17. ASSUME NEW reached \in BOOLEAN, NEW r \in {"NOT_SENT", "SENT_UNKNOWN"}, GatewayCall(reached, r)
      PROVE  DispatchInv'
  BY <1>17
  DEF GatewayCall, DispatchInv, TypeOK
<1>18. ASSUME NEW o \in Outcomes, RecordSendResult(o)
      PROVE  DispatchInv'
  BY <1>18
  DEF RecordSendResult, DispatchInv, TypeOK, unchangedByCommand, SetStatus, Durable, Continue, Outcomes
<1>19. ASSUME BeginReconciliation
      PROVE  DispatchInv'
  BY <1>19
  DEF BeginReconciliation, DispatchInv, TypeOK, unchangedByRecovery
<1>20. ASSUME NEW ok \in BOOLEAN, FinishQueries(ok)
      PROVE  DispatchInv'
  BY <1>20
  DEF FinishQueries, DispatchInv, TypeOK, unchangedByRecovery
<1>21. ASSUME NEW o \in Outcomes, CheckEnable(o)
      PROVE  DispatchInv'
  BY <1>21
  DEF CheckEnable, DispatchInv, TypeOK, unchangedByCheck
<1>22. ASSUME NEW o \in Outcomes, Enable(o)
      PROVE  DispatchInv'
  BY <1>22
  DEF Enable, DispatchInv, TypeOK
<1>23. ASSUME NEW c \in Commands, NEW isolated \in BOOLEAN, RefuseTakeover(c, isolated)
      PROVE  DispatchInv'
  BY <1>23
  DEF RefuseTakeover, DispatchInv, TypeOK, unchangedByTakeover, CanArbitrate
<1>24. ASSUME NEW c \in Commands, NEW o \in Outcomes, TakeOver(c, o)
      PROVE  DispatchInv'
  BY <1>24
  DEF TakeOver, DispatchInv, TypeOK, unchangedByTakeover, CanArbitrate, SetStatus
<1>25. ASSUME NEW o \in Outcomes, RetryPendingFact(o)
      PROVE  DispatchInv'
  BY <1>25, ApplyFactFrame
  DEF RetryPendingFact, DispatchInv, TypeOK
<1>26. ASSUME SessionLost
      PROVE  DispatchInv'
  BY <1>26
  DEF SessionLost, DispatchInv, TypeOK, unchangedByRecovery
<1>27. ASSUME Crash
      PROVE  DispatchInv'
  BY <1>27
  DEF Crash, DispatchInv, TypeOK
<1>28. CASE UNCHANGED vars
  BY <1>28 DEF DispatchInv, vars
<1>. QED
  BY <1>1, <1>2, <1>3, <1>4, <1>5, <1>6, <1>7, <1>8, <1>9, <1>10, <1>11, <1>12, <1>13, <1>14, 
     <1>15, <1>16, <1>17, <1>18, <1>19, <1>20, <1>21, <1>22, <1>23, <1>24, <1>25, <1>26, <1>27, <1>28
  DEF Next, Producer, Callback, Boot, Round, Reconciliation, Takeover, Repair

-------------------------------------------------------------------------------
\* The reachable states of the service are well typed, and the queue, the
\* account, the executor and the broker agree about every command.
THEOREM DispatchCorrect ==
    ASSUME ServiceAssumption
    PROVE  Spec => [](TypeOK /\ DispatchInv)
<1>1. Init => TypeOK /\ DispatchInv
  <2>1. Init => TypeOK
    BY TypeInit
  <2>2. ASSUME Init
        PROVE  /\ pc = "down" /\ prepared = {}
               /\ \A c \in Commands : calls[c] = 0
    BY <2>2 DEF Init
  <2>3. Init => DispatchInv
    BY <2>2 DEF DispatchInv
  <2>. QED
    BY <2>1, <2>3
<1>2. TypeOK /\ DispatchInv /\ [Next]_vars => (TypeOK /\ DispatchInv)'
  BY TypeStep, DispatchStep
<1>. QED
  BY <1>1, <1>2, PTL DEF Spec

\* Every variable keeps its type, whatever fails and whoever acts.
THEOREM TypeCorrect ==
    ASSUME ServiceAssumption
    PROVE  Spec => []TypeOK
BY DispatchCorrect, PTL

\* A command reaches the broker at most once, through any number of crashes,
\* restarts, failed commits, takeovers and producer retries.
THEOREM NeverSentTwice ==
    ASSUME ServiceAssumption
    PROVE  Spec => []AtMostOneCall
<1>1. DispatchInv => AtMostOneCall
  BY DEF DispatchInv, AtMostOneCall
<1>. QED
  BY <1>1, DispatchCorrect, PTL

\* The queue never denies a command the broker saw.
THEOREM NeverDenied ==
    ASSUME ServiceAssumption
    PROVE  Spec => []SeenIsNeverDenied
<1>1. DispatchInv => SeenIsNeverDenied
  BY DEF DispatchInv, SeenIsNeverDenied
<1>. QED
  BY <1>1, DispatchCorrect, PTL

\* The account keeps the plan of every command the broker may have seen.
THEOREM AlwaysReserved ==
    ASSUME ServiceAssumption
    PROVE  Spec => []SeenIsReserved
<1>1. DispatchInv => SeenIsReserved
  BY DEF DispatchInv, SeenIsReserved
<1>. QED
  BY <1>1, DispatchCorrect, PTL

\* A refusal, and a NOT_SENT, leave no plan and no call.
THEOREM RefusalsAreClean ==
    ASSUME ServiceAssumption
    PROVE  Spec => []RefusedIsUntouched
<1>1. TypeOK /\ DispatchInv => RefusedIsUntouched
  <2>. SUFFICES ASSUME TypeOK, DispatchInv, NEW c \in Commands,
                       status[c] \in {"REJECTED", "REJECTED_STALE", "NOT_SENT"}
                PROVE  c \notin prepared /\ calls[c] = 0
    BY DEF RefusedIsUntouched
  <2>1. calls[c] \in Nat
    BY DEF TypeOK
  <2>2. ~(calls[c] > 0) /\ c \notin prepared
    BY DEF DispatchInv
  <2>. QED
    BY <2>1, <2>2
<1>. QED
  BY <1>1, DispatchCorrect, PTL

-------------------------------------------------------------------------------
\* Which steps may touch the queue, the broker and the control record: the
\* eight below; every other step leaves all three alone.
Touching ==
    \/ \E c \in Commands, obs \in 0..control : Submit(c, obs)
    \/ \E c \in Commands : RecordInterrupted(c)
    \/ \E c \in Commands, o \in Outcomes :
          \/ PrepareCommand(c, o) \/ TakeOver(c, o)
          \/ \E approved \in BOOLEAN : RejectCommand(c, approved, o)
    \/ \E c \in Commands, isolated \in BOOLEAN : RefuseTakeover(c, isolated)
    \/ \E o \in Outcomes : RecordSendResult(o)
    \/ \E reached \in BOOLEAN, r \in {"NOT_SENT", "SENT_UNKNOWN"} : GatewayCall(reached, r)

LEMMA QuietStep ==
    ASSUME [Next]_vars, ~Touching
    PROVE  UNCHANGED <<status, calls, control>>
<1>. USE DEF dbVars, queueVars, accountVars, dispatchVars, gateVars, ingressVars, healthVars, assemblyVars, boundVars
<1>1. ASSUME NEW e \in Events, EnqueueFact(e)
      PROVE  UNCHANGED <<status, calls, control>>
  BY <1>1 DEF EnqueueFact
<1>2. ASSUME NEW e \in Events, EnqueueMarket(e)
      PROVE  UNCHANGED <<status, calls, control>>
  BY <1>2 DEF EnqueueMarket
<1>3. ASSUME Start
      PROVE  UNCHANGED <<status, calls, control>>
  BY <1>3 DEF Start
<1>4. ASSUME Started
      PROVE  UNCHANGED <<status, calls, control>>
  BY <1>4 DEF Started
<1>5. ASSUME EndBatch
      PROVE  UNCHANGED <<status, calls, control>>
  BY <1>5 DEF EndBatch
<1>6. ASSUME EndRound
      PROVE  UNCHANGED <<status, calls, control>>
  BY <1>6 DEF EndRound
<1>7. ASSUME NoCommand
      PROVE  UNCHANGED <<status, calls, control>>
  BY <1>7 DEF NoCommand, unchangedByCommand
<1>8. ASSUME FinalFence
      PROVE  UNCHANGED <<status, calls, control>>
  BY <1>8 DEF FinalFence, unchangedByCommand
<1>9. ASSUME NEW o \in Outcomes, BeginRound(o)
      PROVE  UNCHANGED <<status, calls, control>>
  BY <1>9 DEF BeginRound, unchangedByCheck
<1>10. ASSUME NEW o \in Outcomes, ProcessTradeFact(o)
      PROVE  UNCHANGED <<status, calls, control>>
  BY <1>10, ApplyFactFrame DEF ProcessTradeFact
<1>11. ASSUME NEW o \in Outcomes, Poll(o)
      PROVE  UNCHANGED <<status, calls, control>>
  BY <1>11 DEF Poll, unchangedByCheck
<1>12. ASSUME NEW o \in Outcomes, ProcessMarketFact(o)
      PROVE  UNCHANGED <<status, calls, control>>
  BY <1>12, ApplyFactFrame DEF ProcessMarketFact
<1>13. ASSUME BeginReconciliation
      PROVE  UNCHANGED <<status, calls, control>>
  BY <1>13 DEF BeginReconciliation, unchangedByRecovery
<1>14. ASSUME NEW ok \in BOOLEAN, FinishQueries(ok)
      PROVE  UNCHANGED <<status, calls, control>>
  BY <1>14 DEF FinishQueries, unchangedByRecovery
<1>15. ASSUME NEW o \in Outcomes, CheckEnable(o)
      PROVE  UNCHANGED <<status, calls, control>>
  BY <1>15 DEF CheckEnable, unchangedByCheck
<1>16. ASSUME NEW o \in Outcomes, Enable(o)
      PROVE  UNCHANGED <<status, calls, control>>
  BY <1>16 DEF Enable
<1>17. ASSUME NEW o \in Outcomes, RetryPendingFact(o)
      PROVE  UNCHANGED <<status, calls, control>>
  BY <1>17, ApplyFactFrame DEF RetryPendingFact
<1>18. ASSUME SessionLost
      PROVE  UNCHANGED <<status, calls, control>>
  BY <1>18 DEF SessionLost, unchangedByRecovery
<1>19. ASSUME Crash
      PROVE  UNCHANGED <<status, calls, control>>
  BY <1>19 DEF Crash
<1>20. CASE UNCHANGED vars
  BY <1>20 DEF vars
<1>. QED
  BY <1>1, <1>2, <1>3, <1>4, <1>5, <1>6, <1>7, <1>8, <1>9, <1>10, 
     <1>11, <1>12, <1>13, <1>14, <1>15, <1>16, <1>17, <1>18, <1>19, <1>20
  DEF Touching, Next, Producer, Callback, Boot, Round, Reconciliation, Takeover, Repair

\* A call reaches the broker under the durable epoch the command observed, which
\* this executor holds, and only after the command was durably claimed.
THEOREM CallsAreFenced ==
    ASSUME ServiceAssumption
    PROVE  Spec => FencedCalls
<1>. DEFINE Fenced(c) == /\ control # 0 /\ observed[c] = control /\ authority = control
                         /\ status[c] = "DISPATCHING"
<1>1. ASSUME TypeOK, DispatchInv, [Next]_vars, NEW c \in Commands, calls'[c] # calls[c]
      PROVE  Fenced(c)
  <2>1. Touching
    BY <1>1, QuietStep
  <2>2. ASSUME NEW reached \in BOOLEAN, NEW r \in {"NOT_SENT", "SENT_UNKNOWN"},
               GatewayCall(reached, r)
        PROVE  Fenced(c)
    <3>1. c = current /\ pc = "calling"
      BY <1>1, <2>2 DEF GatewayCall, TypeOK
    <3>. QED
      BY <1>1, <3>1 DEF DispatchInv
  <2>3. \E reached \in BOOLEAN, r \in {"NOT_SENT", "SENT_UNKNOWN"} : GatewayCall(reached, r)
    BY <1>1, <2>1, ZenonT(40)
    DEF Touching, Submit, RecordInterrupted, PrepareCommand, TakeOver, RejectCommand,
        RefuseTakeover, RecordSendResult, unchangedByCommand, unchangedByTakeover
  <2>. QED
    BY <2>2, <2>3
<1>2. TypeOK /\ DispatchInv /\ [Next]_vars
        => [\A c \in Commands : calls'[c] # calls[c] => Fenced(c)]_vars
  BY <1>1
<1>. QED
  BY <1>2, DispatchCorrect, PTL DEF Spec, FencedCalls

\* Only an accepted takeover moves the control epoch: by one, closing the gate,
\* and acknowledging its application in the same commit.
THEOREM EpochsAreTakenOver ==
    ASSUME ServiceAssumption
    PROVE  Spec => EpochOnlyByTakeover
<1>. DEFINE Taken == /\ control' = control + 1 /\ ~ready' /\ phase' = "RECONCILING"
                     /\ \E c \in Commands :
                           /\ CommandKind[c] = "TAKEOVER_REQUEST" /\ observed[c] = control
                           /\ status[c] = "PENDING" /\ status'[c] = "COMPLETED"
<1>1. ASSUME TypeOK, [Next]_vars, control' # control
      PROVE  Taken
  <2>1. Touching
    BY <1>1, QuietStep
  <2>2. ASSUME NEW c \in Commands, NEW o \in Outcomes, TakeOver(c, o)
        PROVE  Taken
    BY <1>1, <2>2
    DEF TakeOver, CanArbitrate, TakeoverMismatch, SetStatus, Settle, TypeOK
  <2>3. \E c \in Commands, o \in Outcomes : TakeOver(c, o)
    BY <1>1, <2>1
    DEF Touching, Submit, RecordInterrupted, PrepareCommand, RejectCommand, GatewayCall,
        RefuseTakeover, RecordSendResult, unchangedByCommand, unchangedByTakeover, dbVars
  <2>. QED
    BY <2>2, <2>3
<1>2. TypeOK /\ [Next]_vars => [control' # control => Taken]_vars
  BY <1>1
<1>. QED
  BY <1>2, TypeCorrect, PTL DEF Spec, EpochOnlyByTakeover

-------------------------------------------------------------------------------
\* The service implements the lifecycle producers rely on: every step of it is
\* one lifecycle transition, one delivery, or none of their business.
LEMMA LifecycleStep ==
    ASSUME ServiceAssumption, TypeOK, DispatchInv, [Next]_vars
    PROVE  [Lifecycle!LifecycleNext]_(Lifecycle!lifecycleVars)
<1>. DEFINE Moved(c, to) == /\ Lifecycle!Allowed(c, status[c], to)
                            /\ status' = [status EXCEPT ![c] = to]
                            /\ UNCHANGED calls
<1>. USE DEF Lifecycle!lifecycleVars
<1>0. ASSUME NEW c \in Commands, NEW to \in Lifecycle!Statuses, Moved(c, to)
      PROVE  Lifecycle!LifecycleNext
  BY <1>0 DEF Lifecycle!LifecycleNext, Lifecycle!Move
<1>. HIDE DEF Moved
<1>1. ASSUME NEW c \in Commands, NEW obs \in 0..control, Submit(c, obs)
      PROVE  Moved(c, "PENDING")
  BY <1>1 DEF Submit, Moved, Lifecycle!Allowed
<1>2. ASSUME NEW c \in Commands, RecordInterrupted(c)
      PROVE  Moved(c, "SENT_UNKNOWN")
  BY <1>2 DEF RecordInterrupted, First, Interrupted, Moved, Lifecycle!Allowed
<1>3. ASSUME NEW c \in Commands, NEW o \in Outcomes, PrepareCommand(c, o)
      PROVE  \/ Moved(c, "DISPATCHING") \/ Moved(c, "COMPLETED")
             \/ UNCHANGED <<status, calls>>
  BY <1>3 DEF PrepareCommand, unchangedByCommand, SetStatus, First, Pending, Moved,
              Lifecycle!Allowed
<1>4. ASSUME NEW c \in Commands, NEW o \in Outcomes, NEW approved \in BOOLEAN,
             RejectCommand(c, approved, o)
      PROVE  \/ Moved(c, "REJECTED_STALE") \/ Moved(c, "REJECTED")
             \/ UNCHANGED <<status, calls>>
  BY <1>4 DEF RejectCommand, unchangedByCommand, SetStatus, First, Pending, Moved,
              Lifecycle!Allowed
<1>5. ASSUME NEW c \in Commands, NEW isolated \in BOOLEAN, RefuseTakeover(c, isolated)
      PROVE  Moved(c, "REJECTED_STALE") \/ Moved(c, "REJECTED")
  BY <1>5 DEF RefuseTakeover, unchangedByTakeover, CanArbitrate, Moved, Lifecycle!Allowed
<1>6. ASSUME NEW c \in Commands, NEW o \in Outcomes, TakeOver(c, o)
      PROVE  Moved(c, "COMPLETED") \/ UNCHANGED <<status, calls>>
  BY <1>6 DEF TakeOver, unchangedByTakeover, CanArbitrate, SetStatus, Moved,
              Lifecycle!Allowed
<1>7. ASSUME NEW o \in Outcomes, RecordSendResult(o)
      PROVE  /\ current \in Commands
             /\ \/ Moved(current, "NOT_SENT") \/ Moved(current, "SENT_UNKNOWN")
                \/ UNCHANGED <<status, calls>>
  <2>1. /\ current \in Commands /\ status[current] = "DISPATCHING"
        /\ result \in {"NOT_SENT", "SENT_UNKNOWN"}
        /\ result = "NOT_SENT" => calls[current] = 0
    BY <1>7 DEF RecordSendResult, DispatchInv, TypeOK
  <2>2. UNCHANGED calls
    BY <1>7 DEF RecordSendResult, unchangedByCommand
  <2>3. status' = status \/ status' = [status EXCEPT ![current] = result]
    BY <1>7 DEF RecordSendResult, SetStatus
  <2>. QED
    BY <2>1, <2>2, <2>3 DEF Moved, Lifecycle!Allowed
<1>8. ASSUME NEW reached \in BOOLEAN, NEW r \in {"NOT_SENT", "SENT_UNKNOWN"},
             GatewayCall(reached, r)
      PROVE  Lifecycle!LifecycleNext \/ UNCHANGED <<status, calls>>
  <2>1. /\ current \in Commands /\ status[current] = "DISPATCHING"
        /\ calls[current] = 0 /\ UNCHANGED status
    BY <1>8 DEF GatewayCall, DispatchInv, dbVars
  <2>2. calls' = calls \/ calls' = [calls EXCEPT ![current] = 1]
    BY <1>8, <2>1 DEF GatewayCall, TypeOK
  <2>. QED
    BY <2>1, <2>2 DEF Lifecycle!LifecycleNext, Lifecycle!Deliver
<1>9. CASE ~Touching
  BY <1>9, QuietStep
<1>10. {"PENDING", "DISPATCHING", "COMPLETED", "NOT_SENT", "SENT_UNKNOWN", "REJECTED",
        "REJECTED_STALE"} \subseteq Lifecycle!Statuses
  BY DEF Lifecycle!Statuses
<1>. QED
  <2>1. ASSUME NEW c \in Commands,
               NEW to \in {"PENDING", "DISPATCHING", "COMPLETED", "NOT_SENT",
                           "SENT_UNKNOWN", "REJECTED", "REJECTED_STALE"},
               Moved(c, to)
        PROVE  Lifecycle!LifecycleNext
    BY <1>0, <1>10, <2>1
  <2>2. CASE Touching
    BY <2>1, <2>2, <1>1, <1>2, <1>3, <1>4, <1>5, <1>6, <1>7, <1>8 DEF Touching
  <2>. QED
    BY <1>9, <2>2

THEOREM LifecycleImplemented ==
    ASSUME ServiceAssumption
    PROVE  Spec => ImplementsLifecycle
<1>1. Init => Lifecycle!LifecycleInit
  BY DEF Init, Lifecycle!LifecycleInit
<1>2. TypeOK /\ DispatchInv /\ [Next]_vars => [Lifecycle!LifecycleNext]_(Lifecycle!lifecycleVars)
  BY LifecycleStep
<1>. QED
  BY <1>1, <1>2, DispatchCorrect, PTL
  DEF Spec, ImplementsLifecycle, Lifecycle!LifecycleSpec

-------------------------------------------------------------------------------
\* Applying a fact books a trade once: a key that is already in the journal
\* leaves the account alone, a new one raises it from zero to one.
LEMMA ApplyFactBooks ==
    ASSUME ServiceAssumption, TypeOK, TradesBookedOnce, NEW e \in Events, NEW o, ApplyFact(e, o)
    PROVE  TradesBookedOnce'
<1>. DEFINE booking == e \notin events /\ ~DuplicateTrade(e) /\ Durable(o)
<1>1. CASE ~booking
  <2>1. UNCHANGED <<events, applied>>
    BY <1>1 DEF ApplyFact
  <2>. QED
    BY <2>1 DEF TradesBookedOnce, Booked
<1>2. CASE booking /\ EventKind[e] # "trade"
  <2>1. events' = events \union {e} /\ applied' = applied
    BY <1>2 DEF ApplyFact
  <2>2. \A k \in TradeKeys : Booked(k)' <=> Booked(k)
    BY <1>2, <2>1 DEF Booked
  <2>. QED
    BY <2>1, <2>2 DEF TradesBookedOnce
<1>3. CASE booking /\ EventKind[e] = "trade"
  <2>1. events' = events \union {e} /\ applied' = [applied EXCEPT ![TradeKeyOf[e]] = @ + 1]
    BY <1>3 DEF ApplyFact
  <2>2. TradeKeyOf[e] \in TradeKeys /\ ~Booked(TradeKeyOf[e]) /\ applied[TradeKeyOf[e]] = 0
    BY <1>3 DEF ServiceAssumption, DuplicateTrade, TradesBookedOnce
  <2>3. ASSUME NEW k \in TradeKeys
        PROVE  applied'[k] = IF Booked(k)' THEN 1 ELSE 0
    <3>1. CASE k = TradeKeyOf[e]
      <4>1. Booked(k)'
        BY <1>3, <2>1, <3>1 DEF Booked
      <4>2. applied'[k] = 1
        BY <2>1, <2>2, <3>1 DEF TypeOK
      <4>. QED
        BY <4>1, <4>2
    <3>2. CASE k # TradeKeyOf[e]
      <4>1. Booked(k)' <=> Booked(k)
        BY <2>1, <3>2 DEF Booked
      <4>2. applied'[k] = applied[k]
        BY <2>1, <3>2 DEF TypeOK
      <4>. QED
        BY <4>1, <4>2 DEF TradesBookedOnce
    <3>. QED
      BY <3>1, <3>2
  <2>. QED
    BY <2>3 DEF TradesBookedOnce
<1>. QED
  BY <1>1, <1>2, <1>3

\* The steps that do not apply a fact leave the journal and the positions alone.
LEMMA UnbookedStep ==
    ASSUME [Next]_vars,
           ~ \E o \in Outcomes : \/ ProcessTradeFact(o) \/ ProcessMarketFact(o)
                                 \/ RetryPendingFact(o)
    PROVE  UNCHANGED <<events, applied>>
<1>. USE DEF dbVars, queueVars, accountVars, dispatchVars, gateVars, ingressVars, healthVars, assemblyVars, boundVars
<1>1. ASSUME NEW c \in Commands, NEW obs \in 0..control, Submit(c, obs)
      PROVE  UNCHANGED <<events, applied>>
  BY <1>1 DEF Submit
<1>2. ASSUME NEW e \in Events, EnqueueFact(e)
      PROVE  UNCHANGED <<events, applied>>
  BY <1>2 DEF EnqueueFact
<1>3. ASSUME NEW e \in Events, EnqueueMarket(e)
      PROVE  UNCHANGED <<events, applied>>
  BY <1>3 DEF EnqueueMarket
<1>4. ASSUME Start
      PROVE  UNCHANGED <<events, applied>>
  BY <1>4 DEF Start
<1>5. ASSUME NEW c \in Commands, RecordInterrupted(c)
      PROVE  UNCHANGED <<events, applied>>
  BY <1>5 DEF RecordInterrupted
<1>6. ASSUME Started
      PROVE  UNCHANGED <<events, applied>>
  BY <1>6 DEF Started
<1>7. ASSUME EndBatch
      PROVE  UNCHANGED <<events, applied>>
  BY <1>7 DEF EndBatch
<1>8. ASSUME EndRound
      PROVE  UNCHANGED <<events, applied>>
  BY <1>8 DEF EndRound
<1>9. ASSUME NoCommand
      PROVE  UNCHANGED <<events, applied>>
  BY <1>9 DEF NoCommand, unchangedByCommand
<1>10. ASSUME FinalFence
      PROVE  UNCHANGED <<events, applied>>
  BY <1>10 DEF FinalFence, unchangedByCommand
<1>11. ASSUME NEW o \in Outcomes, BeginRound(o)
      PROVE  UNCHANGED <<events, applied>>
  BY <1>11 DEF BeginRound, unchangedByCheck
<1>12. ASSUME NEW o \in Outcomes, Poll(o)
      PROVE  UNCHANGED <<events, applied>>
  BY <1>12 DEF Poll, unchangedByCheck
<1>13. ASSUME NEW c \in Commands, NEW o \in Outcomes, PrepareCommand(c, o)
      PROVE  UNCHANGED <<events, applied>>
  BY <1>13 DEF PrepareCommand, unchangedByCommand
<1>14. ASSUME NEW c \in Commands, NEW o \in Outcomes, NEW approved \in BOOLEAN, RejectCommand(c, approved, o)
      PROVE  UNCHANGED <<events, applied>>
  BY <1>14 DEF RejectCommand, unchangedByCommand
<1>15. ASSUME NEW reached \in BOOLEAN, NEW r \in {"NOT_SENT", "SENT_UNKNOWN"}, GatewayCall(reached, r)
      PROVE  UNCHANGED <<events, applied>>
  BY <1>15 DEF GatewayCall
<1>16. ASSUME NEW o \in Outcomes, RecordSendResult(o)
      PROVE  UNCHANGED <<events, applied>>
  BY <1>16 DEF RecordSendResult, unchangedByCommand
<1>17. ASSUME BeginReconciliation
      PROVE  UNCHANGED <<events, applied>>
  BY <1>17 DEF BeginReconciliation, unchangedByRecovery
<1>18. ASSUME NEW ok \in BOOLEAN, FinishQueries(ok)
      PROVE  UNCHANGED <<events, applied>>
  BY <1>18 DEF FinishQueries, unchangedByRecovery
<1>19. ASSUME NEW o \in Outcomes, CheckEnable(o)
      PROVE  UNCHANGED <<events, applied>>
  BY <1>19 DEF CheckEnable, unchangedByCheck
<1>20. ASSUME NEW o \in Outcomes, Enable(o)
      PROVE  UNCHANGED <<events, applied>>
  BY <1>20 DEF Enable
<1>21. ASSUME NEW c \in Commands, NEW isolated \in BOOLEAN, RefuseTakeover(c, isolated)
      PROVE  UNCHANGED <<events, applied>>
  BY <1>21 DEF RefuseTakeover, unchangedByTakeover
<1>22. ASSUME NEW c \in Commands, NEW o \in Outcomes, TakeOver(c, o)
      PROVE  UNCHANGED <<events, applied>>
  BY <1>22 DEF TakeOver, unchangedByTakeover
<1>23. ASSUME SessionLost
      PROVE  UNCHANGED <<events, applied>>
  BY <1>23 DEF SessionLost, unchangedByRecovery
<1>24. ASSUME Crash
      PROVE  UNCHANGED <<events, applied>>
  BY <1>24 DEF Crash
<1>25. CASE UNCHANGED vars
  BY <1>25 DEF vars
<1>. QED
  BY <1>1, <1>2, <1>3, <1>4, <1>5, <1>6, <1>7, <1>8, <1>9, <1>10, <1>11, <1>12, 
     <1>13, <1>14, <1>15, <1>16, <1>17, <1>18, <1>19, <1>20, <1>21, <1>22, <1>23, <1>24, <1>25
  DEF Next, Producer, Callback, Boot, Round, Reconciliation, Takeover, Repair

\* Whatever the broker, the queries and the repairs deliver, in whatever order
\* and how often, a trade is in the account exactly once.
THEOREM BookedOnce ==
    ASSUME ServiceAssumption
    PROVE  Spec => []TradesBookedOnce
<1>1. Init => TradesBookedOnce
  BY DEF Init, TradesBookedOnce, Booked
<1>2. ASSUME TypeOK, TradesBookedOnce, [Next]_vars
      PROVE  TradesBookedOnce'
  <2>1. ASSUME NEW o \in Outcomes, ProcessTradeFact(o)
        PROVE  TradesBookedOnce'
    <3>1. Head(tradeQueue) \in Events /\ ApplyFact(Head(tradeQueue), o)
      BY <1>2, <2>1 DEF ProcessTradeFact, TypeOK
    <3>. QED
      BY <1>2, <3>1, ApplyFactBooks
  <2>2. ASSUME NEW o \in Outcomes, ProcessMarketFact(o)
        PROVE  TradesBookedOnce'
    <3>1. Head(marketQueue) \in Events /\ ApplyFact(Head(marketQueue), o)
      BY <1>2, <2>2 DEF ProcessMarketFact, TypeOK
    <3>. QED
      BY <1>2, <3>1, ApplyFactBooks
  <2>3. ASSUME NEW o \in Outcomes, RetryPendingFact(o)
        PROVE  TradesBookedOnce'
    <3>1. pendingFact \in Events /\ ApplyFact(pendingFact, o)
      BY <1>2, <2>3 DEF RetryPendingFact, TypeOK
    <3>. QED
      BY <1>2, <3>1, ApplyFactBooks
  <2>4. CASE UNCHANGED <<events, applied>>
    BY <1>2, <2>4 DEF TradesBookedOnce, Booked
  <2>. QED
    BY <1>2, <2>1, <2>2, <2>3, <2>4, UnbookedStep
<1>. QED
  BY <1>1, <1>2, TypeCorrect, PTL DEF Spec

-------------------------------------------------------------------------------
(* The trading gate *)

IsFailure(e) == EventKind[e] = "callback_failure"

FailuresIn(q) == {i \in DOMAIN q : IsFailure(q[i])}

\* How many failed conversions an event is.
FailureOf(e) == IF IsFailure(e) THEN 1 ELSE 0

\* The failed conversion among what a failed commit kept.
FailureKept == IF pendingFact # None /\ IsFailure(pendingFact) THEN 1 ELSE 0

\* A fault stops the executor in its main loop; a kept fact is kept by a fault.
FaultInv == /\ pendingFact # None => fault
            /\ fault => pc = "loop"

\* No loss is acknowledged twice: what the callbacks counted beyond the
\* acknowledged failures is queued or kept.
LossInv ==
    /\ reportedDrops <= marketDropped
    /\ callbackFailures = ackFailures + Cardinality(FailuresIn(tradeQueue)) + FailureKept
    /\ \A i \in DOMAIN marketQueue : EventKind[marketQueue[i]] = "market"

\* Something lost since the last queries keeps the gate closed: recovery is
\* back at its start, or a counter shows the loss.
GateInv ==
    /\ pc = "enabling" => recovery = "RECONCILING"
    /\ unreconciled => \/ recovery = "DISCONNECTED"
                       \/ marketDropped > reportedDrops
                       \/ callbackFailures > ackFailures

\* The account in memory is the committed one from the moment it is loaded.
ViewInv == pc # "down" /\ ~fault => view = Account

\* Even the repair of a kept fact, which ends a fault, uncovers no open dispatch.
OrphanInv ==
    \A c \in Commands :
        status[c] = "DISPATCHING" /\ Up /\ (fault => pendingFact # None)
            => c = current /\ pc \in {"fence", "calling", "recording"}

-------------------------------------------------------------------------------
(* Failed conversions in a queue *)

LEMMA FailuresCounted ==
    ASSUME NEW q \in Seq(Events)
    PROVE  /\ IsFiniteSet(FailuresIn(q)) /\ Cardinality(FailuresIn(q)) \in Nat
           /\ FailuresIn(q) \subseteq 1..Len(q)
<1>1. FailuresIn(q) \subseteq 1..Len(q)
  BY DEF FailuresIn
<1>2. IsFiniteSet(1..Len(q))
  BY FS_Interval
<1>. QED
  BY <1>1, <1>2, FS_Subset, FS_CardinalityType

\* An event that joins the queue adds itself.
LEMMA FailuresAppended ==
    ASSUME NEW q \in Seq(Events), NEW e \in Events
    PROVE  Cardinality(FailuresIn(Append(q, e))) = Cardinality(FailuresIn(q)) + FailureOf(e)
<1>. DEFINE n == Len(q) + 1
<1>1. /\ Len(q) \in Nat /\ Len(Append(q, e)) = n /\ Append(q, e)[n] = e
      /\ \A i \in 1..Len(q) : Append(q, e)[i] = q[i]
  OBVIOUS
<1>2. n \notin FailuresIn(q)
  BY <1>1, FailuresCounted
<1>3. CASE IsFailure(e)
  <2>1. FailuresIn(Append(q, e)) = FailuresIn(q) \union {n}
    BY <1>1, <1>3 DEF FailuresIn
  <2>. QED
    BY <1>2, <1>3, <2>1, FailuresCounted, FS_AddElement DEF FailureOf
<1>4. CASE ~IsFailure(e)
  <2>1. FailuresIn(Append(q, e)) = FailuresIn(q)
    BY <1>1, <1>4 DEF FailuresIn
  <2>. QED
    BY <1>4, <2>1, FailuresCounted DEF FailureOf
<1>. QED
  BY <1>3, <1>4

\* The event that leaves the queue takes only itself.
LEMMA FailuresTaken ==
    ASSUME NEW q \in Seq(Events), q # <<>>
    PROVE  Cardinality(FailuresIn(q)) = Cardinality(FailuresIn(Tail(q))) + FailureOf(Head(q))
<1>. DEFINE rest == FailuresIn(q) \ {1}
            shift == [i \in FailuresIn(Tail(q)) |-> i + 1]
<1>1. /\ Len(q) \in Nat \ {0} /\ Len(Tail(q)) = Len(q) - 1 /\ Tail(q) \in Seq(Events)
      /\ Head(q) = q[1] /\ \A i \in 1..Len(q) - 1 : Tail(q)[i] = q[i + 1]
  OBVIOUS
<1>2. FailuresIn(Tail(q)) = {i \in 1..Len(q) - 1 : IsFailure(q[i + 1])}
  BY <1>1 DEF FailuresIn
<1>3. rest = {i \in 2..Len(q) : IsFailure(q[i])}
  BY <1>1 DEF FailuresIn
<1>4. shift \in Bijection(FailuresIn(Tail(q)), rest)
  <2>1. shift \in [FailuresIn(Tail(q)) -> rest]
    BY <1>1, <1>2, <1>3
  <2>2. \A i, j \in FailuresIn(Tail(q)) : shift[i] = shift[j] => i = j
    BY <1>2
  <2>3. ASSUME NEW j \in rest
        PROVE  \E i \in FailuresIn(Tail(q)) : shift[i] = j
    <3>1. j - 1 \in FailuresIn(Tail(q)) /\ shift[j - 1] = j
      BY <1>1, <1>2, <1>3
    <3>. QED
      BY <3>1
  <2>. QED
    BY <2>1, <2>2, <2>3, Fun_IsBij
<1>5. Cardinality(rest) = Cardinality(FailuresIn(Tail(q)))
  BY <1>1, <1>4, FailuresCounted, FS_Bijection DEF ExistsBijection
<1>6. 1 \in FailuresIn(q) <=> IsFailure(Head(q))
  BY <1>1 DEF FailuresIn
<1>7. IsFiniteSet(FailuresIn(q)) /\ Cardinality(FailuresIn(q)) \in Nat
  BY FailuresCounted
<1>8. Cardinality(rest) = IF 1 \in FailuresIn(q) THEN Cardinality(FailuresIn(q)) - 1
                          ELSE Cardinality(FailuresIn(q))
  BY <1>7, FS_RemoveElement
<1>. QED
  BY <1>5, <1>6, <1>7, <1>8 DEF FailureOf

-------------------------------------------------------------------------------
\* A health check leaves the gate alone, or closes it.
LEMMA CheckIngressGate ==
    ASSUME NEW o, CheckIngress(o)
    PROVE  \/ /\ o = "committed" /\ ~DropsUnreported
              /\ UNCHANGED <<reportedDrops, view, fault, ready, recovery>>
           \/ /\ DropsUnreported /\ recovery' = "DISCONNECTED"
              /\ fault' => o # "committed"
              /\ o = "committed" => reportedDrops' = marketDropped /\ view' = Account
              /\ o # "committed" => fault' /\ UNCHANGED <<reportedDrops, view>>
BY DEF CheckIngress, AuditDrops, Settle, Publish, gateVars

\* A failed conversion is acknowledged, or kept for a repair.
LEMMA ApplyFactAcknowledges ==
    ASSUME ServiceAssumption, TypeOK, NEW e \in Events, NEW o, ApplyFact(e, o)
    PROVE  ackFailures' + FailureKept' = ackFailures + FailureOf(e)
<1>1. e # None /\ ackFailures \in Nat
  BY DEF ServiceAssumption, TypeOK
<1>2. CASE o = "committed"
  <2>1. ackFailures' = ackFailures + FailureOf(e)
    BY <1>2 DEF ApplyFact, FailureOf, IsFailure
  <2>2. FailureKept' = 0
    BY <1>2 DEF ApplyFact, FailureKept
  <2>. QED
    BY <1>1, <2>1, <2>2 DEF FailureOf
<1>3. CASE o # "committed"
  <2>1. ackFailures' = ackFailures
    BY <1>1, <1>3 DEF ApplyFact
  <2>2. pendingFact' = e
    BY <1>3 DEF ApplyFact
  <2>3. FailureKept' = FailureOf(e)
    BY <1>1, <2>2 DEF FailureKept, FailureOf
  <2>. QED
    BY <1>1, <2>1, <2>3 DEF FailureOf
<1>. QED
  BY <1>2, <1>3

\* Acknowledging a failed conversion closes the gate, and nothing opens it.
LEMMA ApplyFactGate ==
    ASSUME TypeOK, NEW e, NEW o, ApplyFact(e, o)
    PROVE  recovery' = "DISCONNECTED" \/ UNCHANGED <<recovery, ackFailures>>
<1>1. ackFailures \in Nat
  BY DEF TypeOK
<1>2. CASE ClosesGate(e) \/ o # "committed"
  BY <1>2 DEF ApplyFact, Settle
<1>3. CASE ~ClosesGate(e) /\ o = "committed"
  BY <1>1, <1>3 DEF ApplyFact, Settle, ClosesGate
<1>. QED
  BY <1>2, <1>3

\* A failed commit sends the executor back to its main loop; a fact that could
\* not be committed is kept until the commit that ends the fault.
LEMMA FaultStep ==
    ASSUME TypeOK, FaultInv, [Next]_vars
    PROVE  FaultInv'
<1>. USE DEF dbVars, queueVars, accountVars, dispatchVars, gateVars, ingressVars, healthVars,
             assemblyVars, boundVars
<1>1. ASSUME NEW c \in Commands, NEW obs \in 0..control, Submit(c, obs)
      PROVE  FaultInv'
  BY <1>1
  DEF Submit, FaultInv
<1>2. ASSUME NEW e \in Events, EnqueueFact(e)
      PROVE  FaultInv'
  BY <1>2
  DEF EnqueueFact, FaultInv
<1>3. ASSUME NEW e \in Events, EnqueueMarket(e)
      PROVE  FaultInv'
  BY <1>3
  DEF EnqueueMarket, FaultInv
<1>4. ASSUME Start
      PROVE  FaultInv'
  BY <1>4
  DEF Start, FaultInv
<1>5. ASSUME NEW c \in Commands, RecordInterrupted(c)
      PROVE  FaultInv'
  BY <1>5
  DEF RecordInterrupted, FaultInv
<1>6. ASSUME Started
      PROVE  FaultInv'
  BY <1>6
  DEF Started, FaultInv
<1>7. ASSUME EndBatch
      PROVE  FaultInv'
  BY <1>7
  DEF EndBatch, FaultInv
<1>8. ASSUME EndRound
      PROVE  FaultInv'
  BY <1>8
  DEF EndRound, FaultInv
<1>9. ASSUME NoCommand
      PROVE  FaultInv'
  BY <1>9
  DEF NoCommand, unchangedByCommand, FaultInv
<1>10. ASSUME FinalFence
       PROVE  FaultInv'
  BY <1>10
  DEF FinalFence, unchangedByCommand, FaultInv
<1>11. ASSUME NEW o \in Outcomes, BeginRound(o)
       PROVE  FaultInv'
  <2>1. CheckIngress(o) /\ ~fault /\ UNCHANGED pendingFact
    BY <1>11 DEF BeginRound, unchangedByCheck
  <2>2. fault' => pc' = "loop"
    BY <1>11, <2>1, CheckIngressGate DEF BeginRound, Continue
  <2>. QED
    BY <2>1, <2>2 DEF FaultInv
<1>12. ASSUME NEW o \in Outcomes, ProcessTradeFact(o)
       PROVE  FaultInv'
  BY <1>12
  DEF ProcessTradeFact, ApplyFact, Settle, Continue, FaultInv
<1>13. ASSUME NEW o \in Outcomes, Poll(o)
       PROVE  FaultInv'
  <2>1. CheckIngress(o) /\ ~fault /\ UNCHANGED pendingFact
    BY <1>13 DEF Poll, unchangedByCheck, FaultInv
  <2>2. fault' => pc' = "loop"
    BY <1>13, <2>1, CheckIngressGate DEF Poll, Continue
  <2>. QED
    BY <2>1, <2>2 DEF FaultInv
<1>14. ASSUME NEW o \in Outcomes, ProcessMarketFact(o)
       PROVE  FaultInv'
  BY <1>14
  DEF ProcessMarketFact, ApplyFact, Settle, FaultInv
<1>15. ASSUME NEW c \in Commands, NEW o \in Outcomes, PrepareCommand(c, o)
       PROVE  FaultInv'
  BY <1>15
  DEF PrepareCommand, unchangedByCommand, Settle, Continue, FaultInv
<1>16. ASSUME NEW c \in Commands, NEW o \in Outcomes, NEW approved \in BOOLEAN,
             RejectCommand(c, approved, o)
       PROVE  FaultInv'
  BY <1>16
  DEF RejectCommand, unchangedByCommand, Settle, Continue, FaultInv
<1>17. ASSUME NEW reached \in BOOLEAN, NEW r \in {"NOT_SENT", "SENT_UNKNOWN"},
             GatewayCall(reached, r)
       PROVE  FaultInv'
  BY <1>17
  DEF GatewayCall, FaultInv
<1>18. ASSUME NEW o \in Outcomes, RecordSendResult(o)
       PROVE  FaultInv'
  BY <1>18
  DEF RecordSendResult, unchangedByCommand, Settle, Continue, FaultInv
<1>19. ASSUME BeginReconciliation
       PROVE  FaultInv'
  BY <1>19
  DEF BeginReconciliation, unchangedByRecovery, FaultInv
<1>20. ASSUME NEW ok \in BOOLEAN, FinishQueries(ok)
       PROVE  FaultInv'
  BY <1>20
  DEF FinishQueries, unchangedByRecovery, FaultInv
<1>21. ASSUME NEW o \in Outcomes, CheckEnable(o)
       PROVE  FaultInv'
  BY <1>21
  DEF CheckEnable, unchangedByCheck, CheckIngress, AuditDrops, Settle, DropsUnreported,
      FaultInv
<1>22. ASSUME NEW o \in Outcomes, Enable(o)
       PROVE  FaultInv'
  BY <1>22
  DEF Enable, Settle, FaultInv
<1>23. ASSUME NEW c \in Commands, NEW isolated \in BOOLEAN, RefuseTakeover(c, isolated)
       PROVE  FaultInv'
  BY <1>23
  DEF RefuseTakeover, unchangedByTakeover, CanArbitrate, FaultInv
<1>24. ASSUME NEW c \in Commands, NEW o \in Outcomes, TakeOver(c, o)
       PROVE  FaultInv'
  BY <1>24
  DEF TakeOver, unchangedByTakeover, CanArbitrate, Settle, FaultInv
<1>25. ASSUME NEW o \in Outcomes, RetryPendingFact(o)
       PROVE  FaultInv'
  BY <1>25
  DEF RetryPendingFact, ApplyFact, Settle, FaultInv
<1>26. ASSUME SessionLost
       PROVE  FaultInv'
  BY <1>26
  DEF SessionLost, unchangedByRecovery, FaultInv
<1>27. ASSUME Crash
       PROVE  FaultInv'
  BY <1>27
  DEF Crash, FaultInv
<1>28. CASE UNCHANGED vars
  BY <1>28 DEF vars, FaultInv
<1>. QED
  BY <1>1, <1>2, <1>3, <1>4, <1>5, <1>6, <1>7, <1>8, <1>9, <1>10, <1>11, <1>12, <1>13,
     <1>14, <1>15, <1>16, <1>17, <1>18, <1>19, <1>20, <1>21, <1>22, <1>23, <1>24, <1>25,
     <1>26, <1>27, <1>28
  DEF Next, Producer, Callback, Boot, Round, Reconciliation, Takeover, Repair

\* A commit that returns has published the account it wrote; one that raises
\* leaves a fault.
LEMMA ViewStep ==
    ASSUME FaultInv, ViewInv, [Next]_vars
    PROVE  ViewInv'
<1>. USE DEF dbVars, queueVars, accountVars, dispatchVars, gateVars, ingressVars, healthVars,
             assemblyVars, boundVars
<1>1. ASSUME NEW c \in Commands, NEW obs \in 0..control, Submit(c, obs)
      PROVE  ViewInv'
  BY <1>1
  DEF Submit, ViewInv, Account
<1>2. ASSUME NEW e \in Events, EnqueueFact(e)
      PROVE  ViewInv'
  BY <1>2
  DEF EnqueueFact, ViewInv, Account
<1>3. ASSUME NEW e \in Events, EnqueueMarket(e)
      PROVE  ViewInv'
  BY <1>3
  DEF EnqueueMarket, ViewInv, Account
<1>4. ASSUME Start
      PROVE  ViewInv'
  BY <1>4
  DEF Start, ViewInv, Account
<1>5. ASSUME NEW c \in Commands, RecordInterrupted(c)
      PROVE  ViewInv'
  BY <1>5
  DEF RecordInterrupted, ViewInv, Account
<1>6. ASSUME Started
      PROVE  ViewInv'
  BY <1>6
  DEF Started, ViewInv, Account
<1>7. ASSUME EndBatch
      PROVE  ViewInv'
  BY <1>7
  DEF EndBatch, ViewInv, Account
<1>8. ASSUME EndRound
      PROVE  ViewInv'
  BY <1>8
  DEF EndRound, ViewInv, Account
<1>9. ASSUME NoCommand
      PROVE  ViewInv'
  BY <1>9
  DEF NoCommand, unchangedByCommand, ViewInv, Account
<1>10. ASSUME FinalFence
       PROVE  ViewInv'
  BY <1>10
  DEF FinalFence, unchangedByCommand, ViewInv, Account
<1>11. ASSUME NEW o \in Outcomes, BeginRound(o)
       PROVE  ViewInv'
  BY <1>11
  DEF BeginRound, unchangedByCheck, CheckIngress, AuditDrops, Settle, Continue, ViewInv,
      Account, Publish
<1>12. ASSUME NEW o \in Outcomes, ProcessTradeFact(o)
       PROVE  ViewInv'
  BY <1>12
  DEF ProcessTradeFact, ApplyFact, Settle, Continue, ViewInv, Account, Publish
<1>13. ASSUME NEW o \in Outcomes, Poll(o)
       PROVE  ViewInv'
  BY <1>13
  DEF Poll, unchangedByCheck, CheckIngress, AuditDrops, Settle, Continue, ViewInv, Account,
      Publish
<1>14. ASSUME NEW o \in Outcomes, ProcessMarketFact(o)
       PROVE  ViewInv'
  BY <1>14
  DEF ProcessMarketFact, ApplyFact, Settle, ViewInv, Account, Publish
<1>15. ASSUME NEW c \in Commands, NEW o \in Outcomes, PrepareCommand(c, o)
       PROVE  ViewInv'
  BY <1>15
  DEF PrepareCommand, unchangedByCommand, Settle, Continue, ViewInv, Account, Publish
<1>16. ASSUME NEW c \in Commands, NEW o \in Outcomes, NEW approved \in BOOLEAN,
             RejectCommand(c, approved, o)
       PROVE  ViewInv'
  BY <1>16
  DEF RejectCommand, unchangedByCommand, Settle, Continue, ViewInv, Account, Publish
<1>17. ASSUME NEW reached \in BOOLEAN, NEW r \in {"NOT_SENT", "SENT_UNKNOWN"},
             GatewayCall(reached, r)
       PROVE  ViewInv'
  BY <1>17
  DEF GatewayCall, ViewInv, Account
<1>18. ASSUME NEW o \in Outcomes, RecordSendResult(o)
       PROVE  ViewInv'
  BY <1>18
  DEF RecordSendResult, unchangedByCommand, Settle, Continue, ViewInv, Account, Publish
<1>19. ASSUME BeginReconciliation
       PROVE  ViewInv'
  BY <1>19
  DEF BeginReconciliation, unchangedByRecovery, ViewInv, Account
<1>20. ASSUME NEW ok \in BOOLEAN, FinishQueries(ok)
       PROVE  ViewInv'
  BY <1>20
  DEF FinishQueries, unchangedByRecovery, ViewInv, Account
<1>21. ASSUME NEW o \in Outcomes, CheckEnable(o)
       PROVE  ViewInv'
  BY <1>21
  DEF CheckEnable, unchangedByCheck, CheckIngress, AuditDrops, Settle, DropsUnreported,
      ViewInv, Account, Publish
<1>22. ASSUME NEW o \in Outcomes, Enable(o)
       PROVE  ViewInv'
  BY <1>22
  DEF Enable, Settle, ViewInv, Account, Publish
<1>23. ASSUME NEW c \in Commands, NEW isolated \in BOOLEAN, RefuseTakeover(c, isolated)
       PROVE  ViewInv'
  BY <1>23
  DEF RefuseTakeover, unchangedByTakeover, CanArbitrate, ViewInv, Account
<1>24. ASSUME NEW c \in Commands, NEW o \in Outcomes, TakeOver(c, o)
       PROVE  ViewInv'
  BY <1>24
  DEF TakeOver, unchangedByTakeover, CanArbitrate, Settle, ViewInv, Account, Publish
<1>25. ASSUME NEW o \in Outcomes, RetryPendingFact(o)
       PROVE  ViewInv'
  BY <1>25
  DEF RetryPendingFact, ApplyFact, Settle, ViewInv, Account, Publish
<1>26. ASSUME SessionLost
       PROVE  ViewInv'
  BY <1>26
  DEF SessionLost, unchangedByRecovery, ViewInv, Account
<1>27. ASSUME Crash
       PROVE  ViewInv'
  BY <1>27
  DEF Crash, ViewInv, Account
<1>28. CASE UNCHANGED vars
  BY <1>28 DEF vars, ViewInv, Account
<1>. QED
  BY <1>1, <1>2, <1>3, <1>4, <1>5, <1>6, <1>7, <1>8, <1>9, <1>10, <1>11, <1>12, <1>13,
     <1>14, <1>15, <1>16, <1>17, <1>18, <1>19, <1>20, <1>21, <1>22, <1>23, <1>24, <1>25,
     <1>26, <1>27, <1>28
  DEF Next, Producer, Callback, Boot, Round, Reconciliation, Takeover, Repair

\* The executor settles or keeps every dispatch before it goes on.
LEMMA OrphanStep ==
    ASSUME TypeOK, DispatchInv, FaultInv, OrphanInv, [Next]_vars
    PROVE  OrphanInv'
<1>. USE DEF dbVars, queueVars, accountVars, dispatchVars, gateVars, ingressVars, healthVars,
             assemblyVars, boundVars
<1>1. ASSUME NEW c \in Commands, NEW obs \in 0..control, Submit(c, obs)
      PROVE  OrphanInv'
  BY <1>1
  DEF Submit, OrphanInv, Up, FaultInv, TypeOK
<1>2. ASSUME NEW e \in Events, EnqueueFact(e)
      PROVE  OrphanInv'
  BY <1>2
  DEF EnqueueFact, OrphanInv, Up, FaultInv
<1>3. ASSUME NEW e \in Events, EnqueueMarket(e)
      PROVE  OrphanInv'
  BY <1>3
  DEF EnqueueMarket, OrphanInv, Up, FaultInv
<1>4. ASSUME Start
      PROVE  OrphanInv'
  BY <1>4
  DEF Start, OrphanInv, Up, FaultInv
<1>5. ASSUME NEW c \in Commands, RecordInterrupted(c)
      PROVE  OrphanInv'
  BY <1>5
  DEF RecordInterrupted, OrphanInv, Up, FaultInv, TypeOK
<1>6. ASSUME Started
      PROVE  OrphanInv'
  BY <1>6
  DEF Started, OrphanInv, Up, FaultInv, Interrupted
<1>7. ASSUME EndBatch
      PROVE  OrphanInv'
  BY <1>7
  DEF EndBatch, OrphanInv, Up, FaultInv
<1>8. ASSUME EndRound
      PROVE  OrphanInv'
  BY <1>8
  DEF EndRound, OrphanInv, Up, FaultInv
<1>9. ASSUME NoCommand
      PROVE  OrphanInv'
  BY <1>9
  DEF NoCommand, unchangedByCommand, OrphanInv, Up, FaultInv
<1>10. ASSUME FinalFence
       PROVE  OrphanInv'
  BY <1>10
  DEF FinalFence, unchangedByCommand, OrphanInv, Up, FaultInv
<1>11. ASSUME NEW o \in Outcomes, BeginRound(o)
       PROVE  OrphanInv'
  BY <1>11
  DEF BeginRound, unchangedByCheck, CheckIngress, AuditDrops, Settle, Continue, OrphanInv,
      Up, FaultInv
<1>12. ASSUME NEW o \in Outcomes, ProcessTradeFact(o)
       PROVE  OrphanInv'
  BY <1>12
  DEF ProcessTradeFact, ApplyFact, Settle, Continue, OrphanInv, Up, FaultInv
<1>13. ASSUME NEW o \in Outcomes, Poll(o)
       PROVE  OrphanInv'
  BY <1>13
  DEF Poll, unchangedByCheck, CheckIngress, AuditDrops, Settle, Continue, OrphanInv, Up,
      FaultInv
<1>14. ASSUME NEW o \in Outcomes, ProcessMarketFact(o)
       PROVE  OrphanInv'
  BY <1>14
  DEF ProcessMarketFact, ApplyFact, Settle, OrphanInv, Up, FaultInv
<1>15. ASSUME NEW c \in Commands, NEW o \in Outcomes, PrepareCommand(c, o)
       PROVE  OrphanInv'
  BY <1>15
  DEF PrepareCommand, unchangedByCommand, Settle, Continue, OrphanInv, Up, FaultInv,
      SetStatus, TypeOK
<1>16. ASSUME NEW c \in Commands, NEW o \in Outcomes, NEW approved \in BOOLEAN,
             RejectCommand(c, approved, o)
       PROVE  OrphanInv'
  BY <1>16
  DEF RejectCommand, unchangedByCommand, Settle, Continue, OrphanInv, Up, FaultInv,
      SetStatus, TypeOK
<1>17. ASSUME NEW reached \in BOOLEAN, NEW r \in {"NOT_SENT", "SENT_UNKNOWN"},
             GatewayCall(reached, r)
       PROVE  OrphanInv'
  BY <1>17
  DEF GatewayCall, OrphanInv, Up, FaultInv
<1>18. ASSUME NEW o \in Outcomes, RecordSendResult(o)
       PROVE  OrphanInv'
  BY <1>18
  DEF RecordSendResult, unchangedByCommand, Settle, Continue, OrphanInv, Up, FaultInv,
      SetStatus, TypeOK, DispatchInv, Durable, Outcomes
<1>19. ASSUME BeginReconciliation
       PROVE  OrphanInv'
  BY <1>19
  DEF BeginReconciliation, unchangedByRecovery, OrphanInv, Up, FaultInv
<1>20. ASSUME NEW ok \in BOOLEAN, FinishQueries(ok)
       PROVE  OrphanInv'
  BY <1>20
  DEF FinishQueries, unchangedByRecovery, OrphanInv, Up, FaultInv
<1>21. ASSUME NEW o \in Outcomes, CheckEnable(o)
       PROVE  OrphanInv'
  BY <1>21
  DEF CheckEnable, unchangedByCheck, CheckIngress, AuditDrops, Settle, DropsUnreported,
      OrphanInv, Up, FaultInv
<1>22. ASSUME NEW o \in Outcomes, Enable(o)
       PROVE  OrphanInv'
  BY <1>22
  DEF Enable, Settle, OrphanInv, Up, FaultInv
<1>23. ASSUME NEW c \in Commands, NEW isolated \in BOOLEAN, RefuseTakeover(c, isolated)
       PROVE  OrphanInv'
  BY <1>23
  DEF RefuseTakeover, unchangedByTakeover, CanArbitrate, OrphanInv, Up, FaultInv, TypeOK
<1>24. ASSUME NEW c \in Commands, NEW o \in Outcomes, TakeOver(c, o)
       PROVE  OrphanInv'
  BY <1>24
  DEF TakeOver, unchangedByTakeover, CanArbitrate, Settle, OrphanInv, Up, FaultInv,
      SetStatus, TypeOK
<1>25. ASSUME NEW o \in Outcomes, RetryPendingFact(o)
       PROVE  OrphanInv'
  BY <1>25
  DEF RetryPendingFact, ApplyFact, Settle, OrphanInv, Up, FaultInv
<1>26. ASSUME SessionLost
       PROVE  OrphanInv'
  BY <1>26
  DEF SessionLost, unchangedByRecovery, OrphanInv, Up, FaultInv
<1>27. ASSUME Crash
       PROVE  OrphanInv'
  BY <1>27
  DEF Crash, OrphanInv, Up, FaultInv
<1>28. CASE UNCHANGED vars
  BY <1>28 DEF vars, OrphanInv, Up, FaultInv
<1>. QED
  BY <1>1, <1>2, <1>3, <1>4, <1>5, <1>6, <1>7, <1>8, <1>9, <1>10, <1>11, <1>12, <1>13,
     <1>14, <1>15, <1>16, <1>17, <1>18, <1>19, <1>20, <1>21, <1>22, <1>23, <1>24, <1>25,
     <1>26, <1>27, <1>28
  DEF Next, Producer, Callback, Boot, Round, Reconciliation, Takeover, Repair

\* Losses are counted where they happen and acknowledged once.
LEMMA LossStep ==
    ASSUME ServiceAssumption, TypeOK, FaultInv, LossInv, [Next]_vars
    PROVE  LossInv'
<1>. USE DEF dbVars, queueVars, accountVars, dispatchVars, gateVars, ingressVars, healthVars,
             assemblyVars, boundVars
<1>1. ASSUME NEW c \in Commands, NEW obs \in 0..control, Submit(c, obs)
      PROVE  LossInv'
  BY <1>1
  DEF Submit, LossInv, TypeOK, FailureKept
<1>2. ASSUME NEW e \in Events, EnqueueFact(e)
      PROVE  LossInv'
  <2>1. /\ tradeQueue' = Append(tradeQueue, e)
        /\ callbackFailures' = callbackFailures + FailureOf(e)
        /\ UNCHANGED <<reportedDrops, marketDropped, marketQueue, ackFailures, pendingFact>>
    BY <1>2 DEF EnqueueFact, FailureOf, IsFailure
  <2>2. Cardinality(FailuresIn(tradeQueue')) = Cardinality(FailuresIn(tradeQueue)) + FailureOf(e)
    BY <2>1, FailuresAppended DEF TypeOK
  <2>3. Cardinality(FailuresIn(tradeQueue)) \in Nat
    BY FailuresCounted DEF TypeOK
  <2>. QED
    BY <2>1, <2>2, <2>3 DEF LossInv, FailureKept, FailureOf, TypeOK
<1>3. ASSUME NEW e \in Events, EnqueueMarket(e)
      PROVE  LossInv'
  <2>1. /\ \/ UNCHANGED marketDropped \/ marketDropped' = marketDropped + 1
        /\ \/ UNCHANGED marketQueue \/ marketQueue' = Append(marketQueue, e)
        /\ UNCHANGED <<reportedDrops, tradeQueue, callbackFailures, ackFailures, pendingFact>>
    BY <1>3 DEF EnqueueMarket
  <2>2. \A i \in DOMAIN marketQueue' : EventKind[marketQueue'[i]] = "market"
    <3>1. CASE marketQueue' = Append(marketQueue, e)
      <4>1. marketQueue \in Seq(Events) /\ EventKind[e] = "market"
        BY <1>3 DEF EnqueueMarket, TypeOK
      <4>. QED
        BY <3>1, <4>1 DEF LossInv
    <3>. QED
      BY <2>1, <3>1 DEF LossInv
  <2>. QED
    BY <2>1, <2>2 DEF LossInv, FailureKept, TypeOK
<1>4. ASSUME Start
      PROVE  LossInv'
  BY <1>4
  DEF Start, LossInv, TypeOK, FailureKept
<1>5. ASSUME NEW c \in Commands, RecordInterrupted(c)
      PROVE  LossInv'
  BY <1>5
  DEF RecordInterrupted, LossInv, TypeOK, FailureKept
<1>6. ASSUME Started
      PROVE  LossInv'
  BY <1>6
  DEF Started, LossInv, TypeOK, FailureKept
<1>7. ASSUME EndBatch
      PROVE  LossInv'
  BY <1>7
  DEF EndBatch, LossInv, TypeOK, FailureKept
<1>8. ASSUME EndRound
      PROVE  LossInv'
  BY <1>8
  DEF EndRound, LossInv, TypeOK, FailureKept
<1>9. ASSUME NoCommand
      PROVE  LossInv'
  BY <1>9
  DEF NoCommand, unchangedByCommand, LossInv, TypeOK, FailureKept
<1>10. ASSUME FinalFence
       PROVE  LossInv'
  BY <1>10
  DEF FinalFence, unchangedByCommand, LossInv, TypeOK, FailureKept
<1>11. ASSUME NEW o \in Outcomes, BeginRound(o)
       PROVE  LossInv'
  BY <1>11
  DEF BeginRound, unchangedByCheck, CheckIngress, AuditDrops, Settle, Continue, LossInv,
      TypeOK, FailureKept
<1>12. ASSUME NEW o \in Outcomes, ProcessTradeFact(o)
       PROVE  LossInv'
  <2>1. /\ tradeQueue \in Seq(Events) /\ tradeQueue # <<>> /\ Head(tradeQueue) \in Events
        /\ tradeQueue' = Tail(tradeQueue) /\ UNCHANGED marketQueue
        /\ ApplyFact(Head(tradeQueue), o)
    BY <1>12 DEF ProcessTradeFact, TypeOK
  <2>2. pendingFact = None
    BY <1>12 DEF ProcessTradeFact, FaultInv
  <2>3. /\ ackFailures' + FailureKept' = ackFailures + FailureOf(Head(tradeQueue))
        /\ UNCHANGED <<reportedDrops, marketDropped, callbackFailures>>
    BY <2>1, ApplyFactAcknowledges, ApplyFactFrame
  <2>4. /\ Cardinality(FailuresIn(tradeQueue))
               = Cardinality(FailuresIn(tradeQueue')) + FailureOf(Head(tradeQueue))
        /\ Cardinality(FailuresIn(tradeQueue')) \in Nat
    <3>1. Tail(tradeQueue) \in Seq(Events)
      BY <2>1
    <3>. QED
      BY <2>1, <3>1, FailuresTaken, FailuresCounted
  <2>5. ackFailures' \in Nat /\ ackFailures \in Nat
    BY <2>1, ApplyFactType DEF TypeOK
  <2>. QED
    BY <2>1, <2>2, <2>3, <2>4, <2>5 DEF LossInv, FailureKept, FailureOf
<1>13. ASSUME NEW o \in Outcomes, Poll(o)
       PROVE  LossInv'
  BY <1>13
  DEF Poll, unchangedByCheck, CheckIngress, AuditDrops, Settle, Continue, LossInv, TypeOK,
      FailureKept
<1>14. ASSUME NEW o \in Outcomes, ProcessMarketFact(o)
       PROVE  LossInv'
  <2>1. /\ marketQueue \in Seq(Events) /\ marketQueue # <<>> /\ Head(marketQueue) \in Events
        /\ marketQueue' = Tail(marketQueue) /\ UNCHANGED tradeQueue
        /\ ApplyFact(Head(marketQueue), o)
    BY <1>14 DEF ProcessMarketFact, TypeOK
  <2>2. pendingFact = None
    BY <1>14 DEF ProcessMarketFact, FaultInv
  <2>3. FailureOf(Head(marketQueue)) = 0
    BY <2>1 DEF FailureOf, IsFailure, LossInv
  <2>4. /\ ackFailures' + FailureKept' = ackFailures + FailureOf(Head(marketQueue))
        /\ UNCHANGED <<reportedDrops, marketDropped, callbackFailures>>
    BY <2>1, ApplyFactAcknowledges, ApplyFactFrame
  <2>5. \A i \in DOMAIN marketQueue' : EventKind[marketQueue'[i]] = "market"
    BY <2>1 DEF LossInv
  <2>6. ackFailures' \in Nat /\ ackFailures \in Nat
    BY <2>1, ApplyFactType DEF TypeOK
  <2>7. Cardinality(FailuresIn(tradeQueue)) \in Nat
    BY FailuresCounted DEF TypeOK
  <2>. QED
    BY <2>1, <2>2, <2>3, <2>4, <2>5, <2>6, <2>7 DEF LossInv, FailureKept
<1>15. ASSUME NEW c \in Commands, NEW o \in Outcomes, PrepareCommand(c, o)
       PROVE  LossInv'
  BY <1>15
  DEF PrepareCommand, unchangedByCommand, Settle, Continue, LossInv, TypeOK, FailureKept
<1>16. ASSUME NEW c \in Commands, NEW o \in Outcomes, NEW approved \in BOOLEAN,
             RejectCommand(c, approved, o)
       PROVE  LossInv'
  BY <1>16
  DEF RejectCommand, unchangedByCommand, Settle, Continue, LossInv, TypeOK, FailureKept
<1>17. ASSUME NEW reached \in BOOLEAN, NEW r \in {"NOT_SENT", "SENT_UNKNOWN"},
             GatewayCall(reached, r)
       PROVE  LossInv'
  BY <1>17
  DEF GatewayCall, LossInv, TypeOK, FailureKept
<1>18. ASSUME NEW o \in Outcomes, RecordSendResult(o)
       PROVE  LossInv'
  BY <1>18
  DEF RecordSendResult, unchangedByCommand, Settle, Continue, LossInv, TypeOK, FailureKept
<1>19. ASSUME BeginReconciliation
       PROVE  LossInv'
  BY <1>19
  DEF BeginReconciliation, unchangedByRecovery, LossInv, TypeOK, FailureKept
<1>20. ASSUME NEW ok \in BOOLEAN, FinishQueries(ok)
       PROVE  LossInv'
  BY <1>20
  DEF FinishQueries, unchangedByRecovery, LossInv, TypeOK, FailureKept
<1>21. ASSUME NEW o \in Outcomes, CheckEnable(o)
       PROVE  LossInv'
  BY <1>21
  DEF CheckEnable, unchangedByCheck, CheckIngress, AuditDrops, Settle, DropsUnreported,
      LossInv, TypeOK, FailureKept
<1>22. ASSUME NEW o \in Outcomes, Enable(o)
       PROVE  LossInv'
  BY <1>22
  DEF Enable, Settle, LossInv, TypeOK, FailureKept
<1>23. ASSUME NEW c \in Commands, NEW isolated \in BOOLEAN, RefuseTakeover(c, isolated)
       PROVE  LossInv'
  BY <1>23
  DEF RefuseTakeover, unchangedByTakeover, CanArbitrate, LossInv, TypeOK, FailureKept
<1>24. ASSUME NEW c \in Commands, NEW o \in Outcomes, TakeOver(c, o)
       PROVE  LossInv'
  BY <1>24
  DEF TakeOver, unchangedByTakeover, CanArbitrate, Settle, LossInv, TypeOK, FailureKept
<1>25. ASSUME NEW o \in Outcomes, RetryPendingFact(o)
       PROVE  LossInv'
  <2>1. /\ pendingFact # None /\ pendingFact \in Events
        /\ ApplyFact(pendingFact, o) /\ UNCHANGED <<tradeQueue, marketQueue>>
    BY <1>25 DEF RetryPendingFact, TypeOK
  <2>2. /\ ackFailures' + FailureKept' = ackFailures + FailureKept
        /\ UNCHANGED <<reportedDrops, marketDropped, callbackFailures>>
    BY <2>1, ApplyFactAcknowledges, ApplyFactFrame DEF FailureKept, FailureOf
  <2>3. ackFailures' \in Nat /\ ackFailures \in Nat
    BY <2>1, ApplyFactType DEF TypeOK
  <2>4. Cardinality(FailuresIn(tradeQueue)) \in Nat
    BY FailuresCounted DEF TypeOK
  <2>. QED
    BY <2>1, <2>2, <2>3, <2>4 DEF LossInv, FailureKept
<1>26. ASSUME SessionLost
       PROVE  LossInv'
  BY <1>26
  DEF SessionLost, unchangedByRecovery, LossInv, TypeOK, FailureKept
<1>27. ASSUME Crash
       PROVE  LossInv'
  <2>1. /\ reportedDrops' = 0 /\ marketDropped' = 0 /\ ackFailures' = 0 /\ callbackFailures' = 0
        /\ tradeQueue' = <<>> /\ marketQueue' = <<>> /\ pendingFact' = None
    BY <1>27 DEF Crash
  <2>2. FailuresIn(<<>>) = {}
    BY DEF FailuresIn
  <2>3. Cardinality(FailuresIn(tradeQueue')) = 0 /\ FailureKept' = 0
    BY <2>1, <2>2, FS_EmptySet DEF FailureKept
  <2>4. \A i \in DOMAIN marketQueue' : EventKind[marketQueue'[i]] = "market"
    BY <2>1
  <2>. QED
    BY <2>1, <2>3, <2>4 DEF LossInv
<1>28. CASE UNCHANGED vars
  BY <1>28 DEF vars, LossInv, TypeOK, FailureKept
<1>. QED
  BY <1>1, <1>2, <1>3, <1>4, <1>5, <1>6, <1>7, <1>8, <1>9, <1>10, <1>11, <1>12, <1>13,
     <1>14, <1>15, <1>16, <1>17, <1>18, <1>19, <1>20, <1>21, <1>22, <1>23, <1>24, <1>25,
     <1>26, <1>27, <1>28
  DEF Next, Producer, Callback, Boot, Round, Reconciliation, Takeover, Repair

\* No step opens the gate over a loss.
LEMMA GateStep ==
    ASSUME TypeOK, FaultInv, LossInv, GateInv, [Next]_vars
    PROVE  GateInv'
<1>. USE DEF dbVars, queueVars, accountVars, dispatchVars, gateVars, ingressVars, healthVars,
             assemblyVars, boundVars
<1>1. ASSUME NEW c \in Commands, NEW obs \in 0..control, Submit(c, obs)
      PROVE  GateInv'
  BY <1>1
  DEF Submit, GateInv
<1>2. ASSUME NEW e \in Events, EnqueueFact(e)
      PROVE  GateInv'
  <2>1. callbackFailures \in Nat /\ ackFailures \in Nat /\ ackFailures <= callbackFailures
    <3>1. Cardinality(FailuresIn(tradeQueue)) \in Nat
      BY FailuresCounted DEF TypeOK
    <3>. QED
      BY <3>1 DEF LossInv, FailureKept, TypeOK
  <2>2. /\ UNCHANGED <<pc, recovery, marketDropped, reportedDrops, ackFailures>>
        /\ \/ callbackFailures' = callbackFailures + 1
           \/ UNCHANGED <<callbackFailures, unreconciled>>
    <3>1. CASE EventKind[e] = "callback_failure"
      BY <1>2, <2>1, <3>1 DEF EnqueueFact
    <3>2. CASE EventKind[e] # "callback_failure"
      BY <1>2, <2>1, <3>2 DEF EnqueueFact, TypeOK
    <3>. QED
      BY <3>1, <3>2
  <2>. QED
    BY <2>1, <2>2 DEF GateInv
<1>3. ASSUME NEW e \in Events, EnqueueMarket(e)
      PROVE  GateInv'
  BY <1>3
  DEF EnqueueMarket, GateInv, LossInv, TypeOK
<1>4. ASSUME Start
      PROVE  GateInv'
  BY <1>4
  DEF Start, GateInv
<1>5. ASSUME NEW c \in Commands, RecordInterrupted(c)
      PROVE  GateInv'
  BY <1>5
  DEF RecordInterrupted, GateInv
<1>6. ASSUME Started
      PROVE  GateInv'
  BY <1>6
  DEF Started, GateInv
<1>7. ASSUME EndBatch
      PROVE  GateInv'
  BY <1>7
  DEF EndBatch, GateInv
<1>8. ASSUME EndRound
      PROVE  GateInv'
  BY <1>8
  DEF EndRound, GateInv
<1>9. ASSUME NoCommand
      PROVE  GateInv'
  BY <1>9
  DEF NoCommand, unchangedByCommand, GateInv
<1>10. ASSUME FinalFence
       PROVE  GateInv'
  BY <1>10
  DEF FinalFence, unchangedByCommand, GateInv
<1>11. ASSUME NEW o \in Outcomes, BeginRound(o)
       PROVE  GateInv'
  BY <1>11
  DEF BeginRound, unchangedByCheck, CheckIngress, AuditDrops, Settle, Continue, GateInv
<1>12. ASSUME NEW o \in Outcomes, ProcessTradeFact(o)
       PROVE  GateInv'
  <2>1. ApplyFact(Head(tradeQueue), o) /\ pc' # "enabling"
    BY <1>12 DEF ProcessTradeFact, Continue
  <2>. QED
    BY <2>1, ApplyFactGate, ApplyFactFrame DEF GateInv
<1>13. ASSUME NEW o \in Outcomes, Poll(o)
       PROVE  GateInv'
  BY <1>13
  DEF Poll, unchangedByCheck, CheckIngress, AuditDrops, Settle, Continue, GateInv
<1>14. ASSUME NEW o \in Outcomes, ProcessMarketFact(o)
       PROVE  GateInv'
  <2>1. ApplyFact(Head(marketQueue), o) /\ pc' # "enabling"
    BY <1>14 DEF ProcessMarketFact
  <2>. QED
    BY <2>1, ApplyFactGate, ApplyFactFrame DEF GateInv
<1>15. ASSUME NEW c \in Commands, NEW o \in Outcomes, PrepareCommand(c, o)
       PROVE  GateInv'
  BY <1>15
  DEF PrepareCommand, unchangedByCommand, Settle, Continue, GateInv
<1>16. ASSUME NEW c \in Commands, NEW o \in Outcomes, NEW approved \in BOOLEAN,
             RejectCommand(c, approved, o)
       PROVE  GateInv'
  BY <1>16
  DEF RejectCommand, unchangedByCommand, Settle, Continue, GateInv
<1>17. ASSUME NEW reached \in BOOLEAN, NEW r \in {"NOT_SENT", "SENT_UNKNOWN"},
             GatewayCall(reached, r)
       PROVE  GateInv'
  BY <1>17
  DEF GatewayCall, GateInv
<1>18. ASSUME NEW o \in Outcomes, RecordSendResult(o)
       PROVE  GateInv'
  BY <1>18
  DEF RecordSendResult, unchangedByCommand, Settle, Continue, GateInv
<1>19. ASSUME BeginReconciliation
       PROVE  GateInv'
  BY <1>19
  DEF BeginReconciliation, unchangedByRecovery, GateInv
<1>20. ASSUME NEW ok \in BOOLEAN, FinishQueries(ok)
       PROVE  GateInv'
  BY <1>20
  DEF FinishQueries, unchangedByRecovery, GateInv
<1>21. ASSUME NEW o \in Outcomes, CheckEnable(o)
       PROVE  GateInv'
  BY <1>21
  DEF CheckEnable, unchangedByCheck, CheckIngress, AuditDrops, Settle, DropsUnreported,
      GateInv, Admissible
<1>22. ASSUME NEW o \in Outcomes, Enable(o)
       PROVE  GateInv'
  BY <1>22
  DEF Enable, Settle, GateInv
<1>23. ASSUME NEW c \in Commands, NEW isolated \in BOOLEAN, RefuseTakeover(c, isolated)
       PROVE  GateInv'
  BY <1>23
  DEF RefuseTakeover, unchangedByTakeover, CanArbitrate, GateInv
<1>24. ASSUME NEW c \in Commands, NEW o \in Outcomes, TakeOver(c, o)
       PROVE  GateInv'
  BY <1>24
  DEF TakeOver, unchangedByTakeover, CanArbitrate, Settle, GateInv
<1>25. ASSUME NEW o \in Outcomes, RetryPendingFact(o)
       PROVE  GateInv'
  <2>1. ApplyFact(pendingFact, o) /\ pc' # "enabling"
    BY <1>25 DEF RetryPendingFact
  <2>. QED
    BY <2>1, ApplyFactGate, ApplyFactFrame DEF GateInv
<1>26. ASSUME SessionLost
       PROVE  GateInv'
  BY <1>26
  DEF SessionLost, unchangedByRecovery, GateInv
<1>27. ASSUME Crash
       PROVE  GateInv'
  BY <1>27
  DEF Crash, GateInv
<1>28. CASE UNCHANGED vars
  BY <1>28 DEF vars, GateInv
<1>. QED
  BY <1>1, <1>2, <1>3, <1>4, <1>5, <1>6, <1>7, <1>8, <1>9, <1>10, <1>11, <1>12, <1>13,
     <1>14, <1>15, <1>16, <1>17, <1>18, <1>19, <1>20, <1>21, <1>22, <1>23, <1>24, <1>25,
     <1>26, <1>27, <1>28
  DEF Next, Producer, Callback, Boot, Round, Reconciliation, Takeover, Repair

-------------------------------------------------------------------------------
\* The inductive invariant of the gate: faults, losses, the gate, the account in
\* memory and the open dispatches, together with what the queue tells.
ExecutorInv == FaultInv /\ LossInv /\ GateInv /\ ViewInv /\ OrphanInv

LEMMA ExecutorInit ==
    ASSUME Init
    PROVE  ExecutorInv
<1>1. FaultInv /\ GateInv /\ ViewInv /\ OrphanInv
  BY DEF Init, FaultInv, GateInv, ViewInv, OrphanInv, Up
<1>2. LossInv
  <2>1. FailuresIn(<<>>) = {}
    BY DEF FailuresIn
  <2>2. Cardinality(FailuresIn(tradeQueue)) = 0 /\ FailureKept = 0
    BY <2>1, FS_EmptySet DEF Init, FailureKept
  <2>3. \A i \in DOMAIN marketQueue : EventKind[marketQueue[i]] = "market"
    BY DEF Init
  <2>. QED
    BY <2>2, <2>3 DEF Init, LossInv
<1>. QED
  BY <1>1, <1>2 DEF ExecutorInv

\* Every reachable state of the service satisfies the inductive invariant.
THEOREM ExecutorCorrect ==
    ASSUME ServiceAssumption
    PROVE  Spec => []ExecutorInv
<1>1. Init => ExecutorInv
  BY ExecutorInit
<1>2. TypeOK /\ DispatchInv /\ ExecutorInv /\ [Next]_vars => ExecutorInv'
  BY FaultStep, LossStep, GateStep, ViewStep, OrphanStep DEF ExecutorInv
<1>. QED
  BY <1>1, <1>2, DispatchCorrect, PTL DEF Spec

\* The gate is only open on an account that was reconciled since the last
\* takeover, lost market event, failed callback conversion or lost session,
\* however these race with the queries and with the callbacks' counters.
THEOREM AlwaysReconciled ==
    ASSUME ServiceAssumption
    PROVE  Spec => []ReadyIsReconciled
<1>1. TypeOK /\ ExecutorInv => ReadyIsReconciled
  <2>. SUFFICES ASSUME TypeOK, GateInv, Ready
                PROVE  ~unreconciled /\ control = authority
    BY DEF ExecutorInv, ReadyIsReconciled
  <2>1. /\ recovery = "READY" /\ control = authority
        /\ marketDropped <= reportedDrops /\ callbackFailures <= ackFailures
    BY DEF Ready
  <2>2. ~(marketDropped > reportedDrops) /\ ~(callbackFailures > ackFailures)
    BY <2>1 DEF TypeOK
  <2>. QED
    BY <2>1, <2>2 DEF GateInv
<1>. QED
  BY <1>1, TypeCorrect, ExecutorCorrect, PTL

\* Whatever fails and whoever repairs it, a running executor leaves no dispatch
\* open but the one it works on.
THEOREM NoDispatchForgotten ==
    ASSUME ServiceAssumption
    PROVE  Spec => []NoOrphanDispatch
<1>1. ExecutorInv => NoOrphanDispatch
  BY DEF ExecutorInv, OrphanInv, NoOrphanDispatch, Up
<1>. QED
  BY <1>1, ExecutorCorrect, PTL

\* While no fault blocks the service, the risk checks read the committed account.
THEOREM AlwaysPublished ==
    ASSUME ServiceAssumption
    PROVE  Spec => []ViewIsCommitted
<1>1. ExecutorInv => ViewIsCommitted
  BY DEF ExecutorInv, ViewInv, ViewIsCommitted, Up
<1>. QED
  BY <1>1, ExecutorCorrect, PTL
===============================================================================
