----------------------------- MODULE Account_proofs -----------------------------
(***************************************************************************)
(* The account around its kernel, for any operators, lots, versions,       *)
(* batches, programs and orders.                                           *)
(*                                                                         *)
(* Restrictions (RiskControl): one that was taken up stands until a RESUME *)
(* is, and nothing forbidden leaves.  Kernel and journal differ only while *)
(* a committed fact is published; the journal stands for what was asked.   *)
(*                                                                         *)
(* The day (AccountLifecycle): no new risk is taken on a half settled      *)
(* account, and the tasks of a day run once.                               *)
(*                                                                         *)
(* The programs (Assembly): one that trades has come all the way and holds *)
(* what it needs.  What a program has to close begins with the database,   *)
(* then the session; so the owner of a database is who has one to close,   *)
(* and who is logged in owns it.                                           *)
(*                                                                         *)
(* The gate (RiskGate): limits hold for what the broker may still trade,   *)
(* and no two orders there cross.  What the account knows of an order lags *)
(* behind the broker and never runs ahead: it lets an order's lots go only *)
(* when the broker has no more of it and every trade is booked.  So what   *)
(* the account believes it may hold bounds what it may come to hold, and   *)
(* the limit is checked with that.                                         *)
(*                                                                         *)
(* The books (AccountLedger): balance and results trade by trade are one   *)
(* account.  What open lots have earned is a sum over instruments, sides   *)
(* and lots, and every fact changes it by what the fact posts.             *)
(***************************************************************************)
EXTENDS MCAccount, Sums_proofs, SequenceTheorems

-------------------------------------------------------------------------------
(* Restrictions *)

\* What keeps RestrictionsHold: kernel and journal differ only while a committed
\* fact is published, the journal stands for what was asked, and an order about to
\* be called is one that the state in effect permits and that has its lot.
ControlInv ==
    /\ ControlTypeOK
    /\ asked = Rebuilt(saved)
    /\ thread # "publish" => risk = asked
    /\ thread \in OrderKinds => Permitted(risk, thread)
    /\ NothingSlipsOut
    /\ ReducingReduces

\* The domain of the two tables, for the provers.
LEMMA TablesDefined ==
    /\ Rank \in [States -> Nat]
    /\ Target \in [Kinds \ OrderKinds -> States]
BY DEF Rank, Target, States, Kinds, OrderKinds, Restrictions

\* What a journal stands for is a state.
LEMMA RebuiltIsState ==
    ASSUME NEW journal \in [checkpoint : States, controls : Seq(Kinds \ OrderKinds)]
    PROVE  Rebuilt(journal) \in States
<1>1. CASE journal.controls = <<>>
  BY <1>1 DEF Rebuilt
<1>2. CASE journal.controls # <<>>
  <2>1. Len(journal.controls) \in 1..Len(journal.controls)
    BY <1>2
  <2>2. journal.controls[Len(journal.controls)] \in Kinds \ OrderKinds
    BY <2>1
  <2> QED BY <1>2, <2>2, TablesDefined DEF Rebuilt
<1> QED BY <1>1, <1>2

\* A control that is appended to a journal is what it stands for.
LEMMA RebuiltAppended ==
    ASSUME NEW journal \in [checkpoint : States, controls : Seq(Kinds \ OrderKinds)],
           NEW kind \in Kinds \ OrderKinds
    PROVE  Rebuilt([journal EXCEPT !.controls = Append(@, kind)]) = Target[kind]
BY DEF Rebuilt

\* And the journal is one still.
LEMMA ControlAppended ==
    ASSUME NEW journal \in [checkpoint : States, controls : Seq(Kinds \ OrderKinds)],
           NEW kind \in Kinds \ OrderKinds
    PROVE  [journal EXCEPT !.controls = Append(@, kind)] \in [checkpoint : States, controls : Seq(Kinds \ OrderKinds)]
<1>1. Append(journal.controls, kind) \in Seq(Kinds \ OrderKinds)
  OBVIOUS
<1> QED BY <1>1

LEMMA InitHolds ==
    ASSUME HeldLots \in Nat, ControlInit
    PROVE  ControlInv
BY TablesDefined
   DEF ControlInit, ControlInv, ControlTypeOK, Rebuilt, States, OrderKinds, Kinds, Commands, Permitted,
       NothingSlipsOut, ReducingReduces

\* A command is built and written: only the desk and the table change.
LEMMA ProducersKeep ==
    ASSUME ControlInv, Write \/ \E p \in Producers : \E kind \in MayBuild(p) : Build(p, kind)
    PROVE  ControlInv'
<1>1. CASE Write
  BY <1>1 DEF Write, ControlInv, ControlTypeOK, Rebuilt, Permitted, NothingSlipsOut, ReducingReduces
<1>2. ASSUME NEW p \in Producers, NEW kind \in MayBuild(p), Build(p, kind)
      PROVE  ControlInv'
  <2>1. kind \in Kinds
    BY DEF MayBuild, Kinds, Restrictions, OrderKinds
  <2>2. desk' \in Seq(Commands)
    BY <1>2, <2>1 DEF Build, ControlInv, ControlTypeOK, Commands
  <2> QED BY <1>2, <2>2 DEF Build, ControlInv, ControlTypeOK, Rebuilt, Permitted, NothingSlipsOut, ReducingReduces
<1> QED BY <1>1, <1>2

\* A command is taken: a refusal is of something the account does already.
LEMMA ExecuteKeeps ==
    ASSUME ControlInv, Execute
    PROVE  ControlInv'
<1> DEFINE c == Head(waiting)
           approved == TakenUp(c) /\ Approved(c)
<1>1. /\ thread = "idle" /\ risk = asked /\ asked = Rebuilt(saved)
      /\ c \in Commands /\ Tail(waiting) \in Seq(Commands)
  BY DEF ControlInv, ControlTypeOK, Execute
<1>2. UNCHANGED <<record, desk, ready, risk, lots, sent>> /\ waiting' = Tail(waiting)
  BY DEF Execute
<1>3. CASE c.kind \in OrderKinds
  <2>1. saved' = saved /\ asked' = asked
    BY <1>3 DEF Execute
  <2>2. thread' = IF approved THEN c.kind ELSE "idle"
    BY <1>3 DEF Execute
  <2>3. approved => Permitted(risk, c.kind) /\ (c.kind = "CLOSE" => lots.closing < lots.held)
    BY <1>3 DEF Approved
  <2>4. ControlTypeOK'
    BY <1>1, <1>2, <1>3, <2>1, <2>2 DEF ControlInv, ControlTypeOK, OrderKinds
  <2>5. ReducingReduces'
    BY <1>1, <1>2, <1>3, <2>2, <2>3 DEF ControlInv, ControlTypeOK, ReducingReduces, OrderKinds
  <2> QED BY <1>1, <1>2, <1>3, <2>1, <2>2, <2>3, <2>4, <2>5
             DEF ControlInv, Permitted, NothingSlipsOut, Rebuilt, OrderKinds
<1>4. CASE c.kind \notin OrderKinds
  <2> DEFINE target == Target[c.kind]
  <2>1. c.kind \in Kinds \ OrderKinds /\ target \in States /\ risk \in States
    BY <1>1, <1>4, TablesDefined DEF Commands, ControlInv, ControlTypeOK
  <2>2. thread' = IF approved THEN "publish" ELSE "idle"
    BY <1>4 DEF Execute
  <2>3. saved' = IF approved THEN [saved EXCEPT !.controls = Append(@, c.kind)] ELSE saved
    BY <1>4 DEF Execute
  <2>4. asked' = IF TakenUp(c) THEN Strictest(c.kind) ELSE asked
    BY <1>4 DEF Execute
  <2>5. asked' = Rebuilt(saved)'
    <3>1. CASE approved
      <4>1. Rebuilt(saved') = target
        BY <2>1, <2>3, <3>1, RebuiltAppended DEF ControlInv, ControlTypeOK
      <4>2. Strictest(c.kind) = target
        BY <1>1, <1>4, <3>1 DEF Approved, Forward, Strictest
      <4> QED BY <2>4, <3>1, <4>1, <4>2
    <3>2. CASE ~approved
      <4>1. TakenUp(c) => Strictest(c.kind) = asked
        BY <1>1, <1>4, <3>2 DEF Approved, Forward, Strictest
      <4> QED BY <1>1, <2>3, <2>4, <3>2, <4>1
    <3> QED BY <3>1, <3>2
  <2>6. saved' \in [checkpoint : States, controls : Seq(Kinds \ OrderKinds)]
    BY <2>1, <2>3, ControlAppended DEF ControlInv, ControlTypeOK
  <2>7. ControlTypeOK'
    <3>1. asked' \in States
      BY <2>5, <2>6, RebuiltIsState
    <3> QED BY <1>1, <1>2, <2>2, <2>6, <3>1 DEF ControlInv, ControlTypeOK
  <2>8. thread' # "publish" => risk' = asked'
    <3>1. ~approved => saved' = saved
      BY <2>3
    <3> QED BY <1>1, <1>2, <2>2, <2>5, <3>1
  <2>9. NothingSlipsOut'
    BY <1>2 DEF ControlInv, NothingSlipsOut
  <2>10. ReducingReduces'
    BY <1>1, <1>2, <2>2 DEF ControlInv, ReducingReduces
  <2>11. thread' \in OrderKinds => Permitted(risk, thread)'
    BY <2>2 DEF OrderKinds
  <2> QED BY <2>5, <2>7, <2>8, <2>9, <2>10, <2>11 DEF ControlInv
<1> QED BY <1>3, <1>4

\* A fact reaches the kernel: what was sent before does not count any more.
LEMMA PublishKeeps ==
    ASSUME ControlInv, Publish
    PROVE  ControlInv'
<1>1. Rebuilt(saved) \in States
  BY RebuiltIsState DEF ControlInv, ControlTypeOK
<1>2. risk' = asked' /\ asked' = Rebuilt(saved)' /\ thread' = "idle"
  BY DEF Publish, RiskBecomes, ControlInv, Rebuilt
<1>3. ControlTypeOK'
  BY <1>1 DEF Publish, RiskBecomes, ControlInv, ControlTypeOK
<1>4. NothingSlipsOut'
  BY DEF Publish, RiskBecomes, ControlInv, NothingSlipsOut
<1>5. ReducingReduces'
  BY DEF Publish, ControlInv, ReducingReduces
<1> QED BY <1>2, <1>3, <1>4, <1>5 DEF ControlInv, OrderKinds

\* The call sends what the state in effect permits.
LEMMA CallKeeps ==
    ASSUME ControlInv, Call
    PROVE  ControlInv'
<1>1. /\ thread \in OrderKinds /\ thread' = "idle" /\ Permitted(risk, thread)
      /\ UNCHANGED <<record, desk, waiting, ready, saved, risk, asked>>
  BY DEF Call, ControlInv
<1>2. ControlTypeOK'
  BY <1>1 DEF Call, ControlInv, ControlTypeOK, OrderKinds
<1>3. NothingSlipsOut'
  BY <1>1 DEF Call, ControlInv, NothingSlipsOut, Permitted, OrderKinds
<1>4. ReducingReduces'
  BY <1>1 DEF Call, ControlInv, ControlTypeOK, ReducingReduces, OrderKinds
<1> QED BY <1>1, <1>2, <1>3, <1>4 DEF ControlInv, Rebuilt, OrderKinds

\* A rebuilt kernel is what the journal stands for, and no order is under way.
LEMMA RestartedKeeps ==
    ASSUME ControlInv, Restarted, record' \in [holder : Operators, epoch : Nat]
    PROVE  ControlInv'
<1>1. Rebuilt(saved) \in States
  BY RebuiltIsState DEF ControlInv, ControlTypeOK
<1>2. risk' = asked' /\ asked' = Rebuilt(saved)' /\ thread' = "idle"
  BY DEF Restarted, RiskBecomes, ControlInv, Rebuilt
<1>3. ControlTypeOK'
  BY <1>1 DEF Restarted, RiskBecomes, ControlInv, ControlTypeOK
<1>4. NothingSlipsOut'
  BY DEF Restarted, RiskBecomes, ControlInv, NothingSlipsOut
<1>5. ReducingReduces'
  BY DEF Restarted, ControlInv, ControlTypeOK, ReducingReduces
<1> QED BY <1>2, <1>3, <1>4, <1>5 DEF ControlInv, OrderKinds

LEMMA TakeOverKeeps ==
    ASSUME ControlInv, NEW o \in Operators, TakeOver(o)
    PROVE  ControlInv'
<1>1. record' \in [holder : Operators, epoch : Nat]
  BY DEF TakeOver, ControlInv, ControlTypeOK
<1> QED BY <1>1, RestartedKeeps DEF TakeOver

LEMMA RestartKeeps ==
    ASSUME ControlInv, RestartService
    PROVE  ControlInv'
<1>1. record' \in [holder : Operators, epoch : Nat]
  BY DEF RestartService, ControlInv, ControlTypeOK
<1> QED BY <1>1, RestartedKeeps DEF RestartService

\* A checkpoint stands for the state it was taken in.
LEMMA CompactKeeps ==
    ASSUME ControlInv, Compact
    PROVE  ControlInv'
<1>1. thread = "idle" /\ risk = asked /\ saved' = [checkpoint |-> risk, controls |-> <<>>]
  BY DEF Compact, ControlInv
<1>2. Rebuilt(saved)' = risk
  BY <1>1 DEF Rebuilt
<1>3. saved' \in [checkpoint : States, controls : Seq(Kinds \ OrderKinds)]
  BY <1>1 DEF ControlInv, ControlTypeOK
<1> QED BY <1>1, <1>2, <1>3 DEF Compact, ControlInv, ControlTypeOK, NothingSlipsOut, ReducingReduces, OrderKinds

\* Readiness and the broker leave the restriction alone; a lot is sold once.
LEMMA OthersKeep ==
    ASSUME ControlInv, Reconcile \/ Traded
    PROVE  ControlInv'
<1>1. CASE Reconcile
  BY <1>1 DEF Reconcile, ControlInv, ControlTypeOK, Rebuilt, Permitted, NothingSlipsOut, ReducingReduces
<1>2. CASE Traded
  <2> DEFINE n == IF thread = "CLOSE" THEN 1 ELSE 0
  <2>1. /\ lots \in [held : Nat, opening : Nat, closing : Nat] /\ n \in {0, 1}
        /\ lots.closing + n <= lots.held /\ thread' = thread
    BY <1>2 DEF Traded, ControlInv, ControlTypeOK, ReducingReduces
  <2>2. lots' \in [held : Nat, opening : Nat, closing : Nat]
    BY <1>2, <2>1 DEF Traded, Moved
  <2>3. ReducingReduces'
    BY <1>2, <2>1 DEF Traded, Moved, ReducingReduces
  <2> QED BY <1>2, <2>2, <2>3 DEF Traded, ControlInv, ControlTypeOK, Rebuilt, Permitted, NothingSlipsOut
<1> QED BY <1>1, <1>2

LEMMA StepKeeps ==
    ASSUME ControlInv, [ControlNext]_controlVars
    PROVE  ControlInv'
<1>1. CASE UNCHANGED controlVars
  BY <1>1 DEF controlVars, ControlInv, ControlTypeOK, Rebuilt, Permitted, NothingSlipsOut, ReducingReduces
<1>2. CASE ControlNext
  BY <1>2, ProducersKeep, ExecuteKeeps, PublishKeeps, CallKeeps, RestartKeeps, TakeOverKeeps, CompactKeeps,
     OthersKeep DEF ControlNext
<1> QED BY <1>1, <1>2

\* The types, with an initial holding that is a number of lots.
THEOREM AlwaysControlTypeOK ==
    ASSUME HeldLots \in Nat
    PROVE  ControlSpec => []ControlTypeOK
<1>1. ControlInit => ControlInv
  BY InitHolds
<1>2. ControlInv /\ [ControlNext]_controlVars => ControlInv'
  BY StepKeeps
<1>3. ControlInv => ControlTypeOK
  BY DEF ControlInv
<1> QED BY <1>1, <1>2, <1>3, PTL DEF ControlSpec

\* Whoever asks for what, and however often the service ends, is taken over, is
\* reconciled or writes a checkpoint: a restriction that was taken up holds until a
\* RESUME is, and nothing leaves for the broker that it forbids.
THEOREM AlwaysRestrictionsHold ==
    ASSUME HeldLots \in Nat
    PROVE  ControlSpec => []RestrictionsHold
<1>1. ControlInit => ControlInv
  BY InitHolds
<1>2. ControlInv /\ [ControlNext]_controlVars => ControlInv'
  BY StepKeeps
<1>3. ControlInv => RestrictionsHold
  BY DEF ControlInv, RestrictionsHold, RestrictionStands
<1> QED BY <1>1, <1>2, <1>3, PTL DEF ControlSpec

-------------------------------------------------------------------------------
(* The account's day *)

\* A version of a day was settled when its task is noted, and a day was turned when
\* it has passed: what was noted for the turn of a day is about a day that is over.
TasksInv ==
    /\ \A d \in Life!TradingDays, v \in Versions :
           settleRuns[d][v] = IF [day |-> d, task |-> "settle", version |-> v] \in tasks THEN 1 ELSE 0
    /\ \A d \in Life!TradingDays : conversions[d] = IF d < tradingDay THEN 1 ELSE 0
    /\ \A key \in tasks : key.task = "advance" => key.day < tradingDay

DayInv == Life!LifeTypeOK /\ Life!HeldUntilVerified /\ TasksInv

\* A call that runs no task and stays in its day.
LEMMA NoTask ==
    ASSUME DayInv, UNCHANGED <<tradingDay, tasks, settleRuns, conversions>>
    PROVE  TasksInv'
BY DEF DayInv, TasksInv

\* Phases change: only a ready account is opened, and it is made ready on a settled picture.
LEMMA PhasesKeep ==
    ASSUME DayInv, Life!LoginSuccess \/ Life!ReconciliationPassed \/ Life!MarketOpen \/ Life!PhaseCall
                       \/ \E i \in Instruments : Life!SessionClosed(i)
    PROVE  DayInv'
<1>1. UNCHANGED <<tradingDay, settlement, semiSettled, pendingSnapshots, tasks, settleRuns, conversions>>
  BY DEF Life!LoginSuccess, Life!ReconciliationPassed, Life!MarketOpen, Life!PhaseCall, Life!SessionClosed, Life!dayVars, Life!runVars
<1>2. Life!LifeTypeOK'
  <2>1. phase' \in Life!Phases
    BY DEF DayInv, Life!LifeTypeOK, Life!Phases, Life!LoginSuccess, Life!ReconciliationPassed, Life!MarketOpen, Life!PhaseCall,
           Life!SessionClosed, Life!PhaseFrom
  <2>2. closedInstruments' \subseteq Instruments /\ loggedIn' \in BOOLEAN
    BY DEF DayInv, Life!LifeTypeOK, Life!LoginSuccess, Life!ReconciliationPassed, Life!MarketOpen, Life!PhaseCall, Life!SessionClosed, Life!dayVars
  <2> QED BY <1>1, <2>1, <2>2 DEF DayInv, Life!LifeTypeOK
<1>3. Life!HeldUntilVerified'
  <2>1. phase' \in {"READY", "TRADING"} =>
            \/ phase \in {"READY", "TRADING"}
            \/ ~semiSettled /\ pendingSnapshots = {}
    BY DEF Life!LoginSuccess, Life!ReconciliationPassed, Life!MarketOpen, Life!PhaseCall, Life!SessionClosed, Life!PhaseFrom, Life!MayBeReady
  <2> QED BY <1>1, <2>1 DEF DayInv, Life!HeldUntilVerified
<1> QED BY <1>1, <1>2, <1>3, NoTask DEF DayInv

\* A settlement is noted with its version, and leaves the account out of the market.
LEMMA SettlementKeeps ==
    ASSUME DayInv, NEW v \in Versions, Life!SettlementReady(v) \/ Life!SettlementConfirmed(v)
    PROVE  DayInv'
<1> DEFINE key == [day |-> tradingDay, task |-> "settle", version |-> v]
<1>1. /\ UNCHANGED <<tradingDay, closedInstruments, loggedIn, pendingSnapshots, conversions>>
      /\ settlement' = v /\ semiSettled' = FALSE /\ phase' \in {"SEMI_SETTLED_HOLD", "SETTLED"}
  BY DEF Life!SettlementReady, Life!SettlementConfirmed, Life!dayVars, Life!runVars
<1>2. Life!HeldUntilVerified'
  BY <1>1 DEF Life!HeldUntilVerified
<1>3. key \in Life!Keys
  BY DEF DayInv, Life!LifeTypeOK, Life!Keys
<1>4. CASE Life!SettlementConfirmed(v)
  <2>1. UNCHANGED <<tasks, settleRuns, conversions>>
    BY <1>4 DEF Life!SettlementConfirmed, Life!runVars
  <2>2. TasksInv'
    BY <1>1, <2>1, NoTask
  <2> QED BY <1>1, <1>2, <2>1, <2>2 DEF DayInv, Life!LifeTypeOK, Life!Phases
<1>5. CASE Life!SettlementReady(v)
  <2>1. /\ tasks' = tasks \union {key}
        /\ settleRuns' = [settleRuns EXCEPT ![tradingDay][v] = Life!Plus(@, key \notin tasks)]
    BY <1>5 DEF Life!SettlementReady, Life!Key
  <2>2. settleRuns \in [Life!TradingDays -> [Versions -> Nat]] /\ tradingDay \in Life!TradingDays
    BY DEF DayInv, Life!LifeTypeOK
  <2>3. settleRuns[tradingDay][v] = IF key \in tasks THEN 1 ELSE 0
    BY <2>2 DEF DayInv, TasksInv
  <2>4. Life!Plus(settleRuns[tradingDay][v], key \notin tasks) = 1
    BY <2>3 DEF Life!Plus
  <2>5. settleRuns' = [settleRuns EXCEPT ![tradingDay][v] = 1]
    <3> HIDE DEF key
    <3> QED BY <2>1, <2>2, <2>4
  <2>6. settleRuns' \in [Life!TradingDays -> [Versions -> Nat]]
    BY <2>2, <2>5
  <2>7. Life!LifeTypeOK'
    BY <1>1, <1>3, <2>1, <2>6 DEF DayInv, Life!LifeTypeOK, Life!Phases
  <2>8. ASSUME NEW d \in Life!TradingDays, NEW u \in Versions
        PROVE  settleRuns'[d][u] = IF [day |-> d, task |-> "settle", version |-> u] \in tasks' THEN 1 ELSE 0
    <3>1. CASE d = tradingDay /\ u = v
      BY <2>1, <2>2, <2>5, <3>1
    <3>2. CASE ~(d = tradingDay /\ u = v)
      <4>1. settleRuns'[d][u] = settleRuns[d][u]
        BY <2>2, <2>5, <3>2
      <4>2. [day |-> d, task |-> "settle", version |-> u] # key
        BY <3>2
      <4> QED BY <2>1, <4>1, <4>2 DEF DayInv, TasksInv
    <3> QED BY <3>1, <3>2
  <2>9. TasksInv'
    BY <1>1, <2>1, <2>8 DEF DayInv, TasksInv
  <2> QED BY <1>2, <2>7, <2>9 DEF DayInv
<1> QED BY <1>4, <1>5

\* A day is turned once: what was noted for earlier turns is about earlier days.
LEMMA AdvanceKeeps ==
    ASSUME DayInv, EndDay \in Nat, Life!AdvanceTradingDay
    PROVE  DayInv'
<1> DEFINE key == [day |-> tradingDay, task |-> "advance", version |-> settlement]
<1>1. /\ tradingDay < EndDay /\ settlement # "none" /\ tradingDay' = tradingDay + 1
      /\ closedInstruments' = {} /\ settlement' = "none" /\ semiSettled' = FALSE
      /\ phase' = "INITIALIZING" /\ tasks' = tasks \union {key}
      /\ conversions' = [conversions EXCEPT ![tradingDay] = Life!Plus(@, key \notin tasks)]
      /\ UNCHANGED <<loggedIn, pendingSnapshots, settleRuns>>
  BY DEF Life!AdvanceTradingDay, Life!Key
<1>2. /\ tradingDay \in Life!TradingDays /\ conversions \in [Life!TradingDays -> Nat]
      /\ settlement \in Versions /\ tasks \subseteq Life!Keys
  BY <1>1 DEF DayInv, Life!LifeTypeOK
<1>3. tradingDay \in Nat /\ tradingDay' \in Life!TradingDays /\ Life!TradingDays \subseteq Nat
  BY <1>1, <1>2, EndDay \in Nat DEF Life!TradingDays
<1>4. key \notin tasks
  BY <1>3 DEF DayInv, TasksInv
<1>5. conversions[tradingDay] = 0
  BY <1>2, <1>3 DEF DayInv, TasksInv
<1>6. conversions' = [conversions EXCEPT ![tradingDay] = 1]
  <2>1. Life!Plus(conversions[tradingDay], key \notin tasks) = 1
    BY <1>4, <1>5 DEF Life!Plus
  <2> HIDE DEF key
  <2> QED BY <1>1, <1>2, <2>1
<1>7. key \in Life!Keys
  BY <1>2 DEF Life!Keys
<1>8. Life!LifeTypeOK'
  <2>1. conversions' \in [Life!TradingDays -> Nat]
    BY <1>2, <1>6
  <2> QED BY <1>1, <1>3, <1>7, <2>1 DEF DayInv, Life!LifeTypeOK, Life!Phases
<1>9. Life!HeldUntilVerified'
  BY <1>1 DEF Life!HeldUntilVerified
<1>10. TasksInv'
  <2>1. ASSUME NEW d \in Life!TradingDays
        PROVE  conversions'[d] = IF d < tradingDay' THEN 1 ELSE 0
    BY <1>1, <1>2, <1>3, <1>6 DEF DayInv, TasksInv
  <2>2. \A k \in tasks' : k.task = "advance" => k.day < tradingDay'
    <3>1. ASSUME NEW k \in tasks, k.task = "advance" PROVE k.day < tradingDay'
      <4>1. k.day \in Life!TradingDays
        BY <1>2 DEF Life!Keys
      <4>2. k.day < tradingDay
        BY <3>1 DEF DayInv, TasksInv
      <4>3. k.day \in Nat /\ tradingDay \in Nat /\ tradingDay' = tradingDay + 1
        BY <1>1, <1>3, <4>1
      <4> QED BY <4>2, <4>3
    <3>2. key.day < tradingDay'
      BY <1>1, <1>3
    <3> QED BY <1>1, <3>1, <3>2
  <2>3. ASSUME NEW d \in Life!TradingDays, NEW u \in Versions
        PROVE  settleRuns'[d][u] = IF [day |-> d, task |-> "settle", version |-> u] \in tasks' THEN 1 ELSE 0
    <3>1. [day |-> d, task |-> "settle", version |-> u] # key
      OBVIOUS
    <3> QED BY <1>1, <3>1 DEF DayInv, TasksInv
  <2> QED BY <2>1, <2>2, <2>3 DEF TasksInv
<1> QED BY <1>8, <1>9, <1>10 DEF DayInv

\* A semi-settled snapshot holds the account; only a settled one of its batch takes it away.
LEMMA SnapshotsKeep ==
    ASSUME DayInv, NEW b \in Batches, Life!SnapshotVerified(b) \/ \E semi \in BOOLEAN : Life!SubmitSnapshot(b, semi)
    PROVE  DayInv'
<1>1. UNCHANGED <<tradingDay, closedInstruments, settlement, loggedIn, tasks, settleRuns, conversions>>
  BY DEF Life!SnapshotVerified, Life!SubmitSnapshot, Life!dayVars, Life!runVars
<1>2. TasksInv'
  BY <1>1, NoTask
<1>3. CASE Life!SnapshotVerified(b)
  <2>1. /\ pendingSnapshots' \subseteq pendingSnapshots
        /\ semiSettled' \in BOOLEAN /\ (semiSettled' => semiSettled)
        /\ phase' \in {phase, "SETTLED", "RECONCILING"}
    BY <1>3 DEF Life!SnapshotVerified, Life!PhaseFrom, DayInv, Life!LifeTypeOK
  <2>2. Life!LifeTypeOK'
    BY <1>1, <2>1 DEF DayInv, Life!LifeTypeOK, Life!Phases
  <2>3. Life!HeldUntilVerified'
    BY <2>1 DEF DayInv, Life!HeldUntilVerified
  <2> QED BY <1>2, <2>2, <2>3 DEF DayInv
<1>4. ASSUME NEW semi \in BOOLEAN, Life!SubmitSnapshot(b, semi)
      PROVE  DayInv'
  <2>1. /\ pendingSnapshots' = pendingSnapshots \union {[batch |-> b, semi |-> semi]}
        /\ semiSettled' = (semiSettled \/ semi)
        /\ phase' = IF semi THEN "SEMI_SETTLED_HOLD" ELSE phase
    BY <1>4 DEF Life!SubmitSnapshot
  <2>2. Life!LifeTypeOK'
    BY <1>1, <2>1 DEF DayInv, Life!LifeTypeOK, Life!Phases
  <2>3. Life!HeldUntilVerified'
    BY <2>1 DEF DayInv, Life!HeldUntilVerified
  <2> QED BY <1>2, <2>2, <2>3 DEF DayInv
<1> QED BY <1>3, <1>4

\* The types and tasks of a day, whatever is called in which order, again and again.
THEOREM DayCorrect == AccountSpec => []DayInv
<1>1. AccountInit => DayInv
  <2> SUFFICES ASSUME Life!LifeInit PROVE DayInv
    BY DEF AccountInit
  <2>1. Life!LifeTypeOK
    <3>1. 1 \in Life!TradingDays
      BY AccountAssumption DEF Life!TradingDays
    <3>2. /\ settleRuns \in [Life!TradingDays -> [Versions -> Nat]]
          /\ conversions \in [Life!TradingDays -> Nat]
      BY DEF Life!LifeInit
    <3> QED BY <3>1, <3>2 DEF Life!LifeInit, Life!LifeTypeOK, Life!Phases
  <2>2. Life!HeldUntilVerified
    BY DEF Life!LifeInit, Life!HeldUntilVerified
  <2>3. TasksInv
    BY DEF Life!LifeInit, TasksInv, Life!TradingDays
  <2> QED BY <2>1, <2>2, <2>3 DEF DayInv
<1>2. DayInv /\ [AccountNext]_accountVars => DayInv'
  <2> SUFFICES ASSUME DayInv, [AccountNext]_accountVars PROVE DayInv'
    OBVIOUS
  <2>1. Life!LifeNext \/ UNCHANGED lifeVars
    BY DEF AccountNext, InKernel, InGate, InLedger, InDay, InPrograms, InControls, accountVars
  <2>2. CASE UNCHANGED lifeVars
    BY <2>2 DEF lifeVars, DayInv, Life!LifeTypeOK, Life!HeldUntilVerified, TasksInv
  <2>3. CASE Life!LifeNext
    BY <2>3, AccountAssumption, PhasesKeep, SettlementKeeps, AdvanceKeeps, SnapshotsKeep DEF Life!LifeNext
  <2> QED BY <2>1, <2>2, <2>3
<1> QED BY <1>1, <1>2, PTL DEF AccountSpec

\* The account is neither ready nor trading on a half settled picture, each version of a
\* day's data is settled at most once, and each day that has passed was turned exactly
\* once (lifecycle.py, DailyLifecycleManager).
THEOREM AlwaysDayIsSound == AccountSpec => []DayIsSound
<1>1. DayInv => DayIsSound
  <2> SUFFICES ASSUME DayInv PROVE Life!HeldUntilVerified /\ Life!DayTasksRunOnce
    BY DEF DayIsSound, Life!DayIsSound
  <2>1. ASSUME NEW d \in Life!TradingDays, NEW v \in Versions
        PROVE  settleRuns[d][v] <= 1
    <3>1. settleRuns[d][v] \in {0, 1}
      BY DEF DayInv, TasksInv
    <3> QED BY <3>1
  <2> QED BY <2>1 DEF DayInv, TasksInv, Life!DayTasksRunOnce
<1> QED BY <1>1, DayCorrect, PTL

-------------------------------------------------------------------------------
(* The programs *)

Connected == {"connected", "verified", "holding", "reconciled", "running"}
InControl == {"holding", "reconciled", "running"}
Stages == {"off", "starting", "opening", "assembled", "closing"} \union Connected

Resources == {"database", "counter", "market", "checkpoint", "strategy"}

\* What a program has to close begins with the database and the counter, if it has them.
InOrder(resources) ==
    /\ resources \in Seq(Resources)
    /\ \A i \in 1..Len(resources) :
          (resources[i] = "database" <=> i = 1) /\ (resources[i] = "counter" <=> i = 2)

\* The funds that a program is started with, or an account opened with.
SomeFunds == Programs!Funds \union {Programs!NoFunds, Settings}

ProgramsTypeOK ==
    /\ stage \in [Programs!Programs -> Stages]
    /\ toClose \in [Programs!Programs -> Seq(Resources)]
    /\ inputs \in [Programs!Programs ->
           [day : {0} \union Programs!Days, funds : SomeFunds, ours : BOOLEAN, confirmed : BOOLEAN]]
    /\ acquired \in [Programs!Programs -> BOOLEAN]
    /\ online \in SUBSET Programs!Programs
    /\ lock \in [Programs!Databases -> Programs!Programs \union {Programs!Nobody}]
    /\ database \in [Programs!Databases -> [exists : BOOLEAN, capital : SomeFunds]]
    /\ control \in [Programs!Databases -> [by : Programs!Programs \union {Programs!Nobody}, epoch : Nat]]
    /\ misconfirmed \in BOOLEAN

\* The owner of a database is who has one to close; a session comes after that; each
\* step of the start adds what the next one and the trading rely on.
InItsPlace(p) ==
    /\ InOrder(toClose[p])
    /\ lock[MCDatabase[p]] = p <=> toClose[p] # <<>>
    /\ p \in online => Len(toClose[p]) >= 2
    /\ stage[p] \in {"off", "starting"} => toClose[p] = <<>>
    /\ stage[p] = "opening" => Len(toClose[p]) = 1
    /\ stage[p] \in Connected \union {"assembled"} => Len(toClose[p]) >= 3
    /\ stage[p] \in Connected => p \in online
    /\ stage[p] \in InControl => control[MCDatabase[p]].by = MCController[p]
    /\ stage[p] \in {"reconciled", "running"} => database[MCDatabase[p]].capital = Programs!AtCounter
    /\ acquired[p] => inputs[p].confirmed

\* A runtime's account is new, and opened with the funds of its report.
OnItsOwn(r) ==
    /\ stage[r] = "starting" => ~database[MCDatabase[r]].exists
    /\ stage[r] = "opening" => database[MCDatabase[r]].capital = Programs!NoFunds
    /\ stage[r] \in Connected \union {"assembled"} => database[MCDatabase[r]].capital = inputs[r].funds
    /\ stage[r] \in Connected \ {"connected"} => inputs[r].ours
    /\ stage[r] \in InControl => acquired[r]

ProgramInv ==
    /\ ProgramsTypeOK
    /\ \A p \in Programs!Programs : InItsPlace(p)
    /\ \A r \in Runtimes : OnItsOwn(r)
    /\ \A d \in Programs!Databases :
          ~database[d].exists => database[d].capital = Programs!NoFunds /\ lock[d] = Programs!Nobody
    /\ \A p, q \in Programs!Programs :
          p # q /\ stage[p] # "off" /\ stage[q] # "off" /\ inputs[p].confirmed /\ inputs[q].confirmed => misconfirmed

\* A runtime's database is nobody else's.
LEMMA OwnDatabase ==
    /\ MCDatabase \in [Programs!Programs -> Programs!Databases]
    /\ \A p \in Programs!Programs : \A r \in Runtimes : MCDatabase[p] = MCDatabase[r] => p = r
    /\ MCController \in [Programs!Programs -> Programs!Programs]
    /\ Programs!Nobody \notin Programs!Programs /\ Services \intersect Runtimes = {}
BY ProgramAssumption DEF MCDatabase, MCController, Programs!Programs, Programs!Databases, Programs!Nobody

LEMMA EmptyInOrder == InOrder(<<>>)
BY DEF InOrder

LEMMA DatabaseInOrder == InOrder(<<"database">>) /\ Len(<<"database">>) = 1
<1> DEFINE s == <<"database">>
<1>1. s \in Seq(Resources) /\ Len(s) = 1 /\ s[1] = "database"
  BY DEF Resources
<1> HIDE DEF s
<1>2. InOrder(s)
  BY <1>1 DEF InOrder
<1> QED BY <1>1, <1>2 DEF s

\* What is closed is the last, and the order stays.
LEMMA LastClosed ==
    ASSUME NEW s, InOrder(s), s # <<>>
    PROVE  /\ s \in Seq(Resources) /\ Len(s) \in Nat \ {0}
           /\ Programs!ToClose(s) = "database" <=> Len(s) = 1
           /\ Programs!ToClose(s) = "counter" <=> Len(s) = 2
           /\ InOrder(SubSeq(s, 1, Len(s) - 1)) /\ Len(SubSeq(s, 1, Len(s) - 1)) = Len(s) - 1
           /\ SubSeq(s, 1, Len(s) - 1) \in Seq(Resources)
           /\ SubSeq(s, 1, Len(s) - 1) = <<>> <=> Len(s) = 1
<1> DEFINE rest == SubSeq(s, 1, Len(s) - 1)
<1>1. s \in Seq(Resources) /\ Len(s) \in Nat \ {0}
  BY DEF InOrder
<1>2. rest \in Seq(Resources) /\ Len(rest) = Len(s) - 1 /\ \A i \in 1..Len(rest) : rest[i] = s[i]
  <2>1. \A i \in 1..(Len(s) - 1) : s[i] \in Resources
    BY <1>1
  <2>2. Len(s) - 1 \in Nat /\ 1 \in Int
    BY <1>1
  <2>3. /\ SubSeq(s, 1, Len(s) - 1) \in Seq(Resources)
        /\ Len(SubSeq(s, 1, Len(s) - 1)) = IF 1 <= Len(s) - 1 THEN Len(s) - 1 - 1 + 1 ELSE 0
        /\ \A i \in 1..(Len(s) - 1 - 1 + 1) : SubSeq(s, 1, Len(s) - 1)[i] = s[1 + i - 1]
    BY <2>1, <2>2, SubSeqProperties
  <2>4. ASSUME NEW i \in 1..(Len(s) - 1)
        PROVE  rest[i] = s[i]
    <3>1. i \in 1..(Len(s) - 1 - 1 + 1) /\ 1 + i - 1 = i
      BY <1>1, <2>4
    <3> QED BY <2>3, <3>1
  <2>5. Len(rest) = Len(s) - 1
    <3>1. Len(s) \in Nat /\ Len(s) >= 1
      BY <1>1
    <3>2. CASE Len(s) = 1
      BY <2>3, <3>2
    <3>3. CASE Len(s) > 1
      BY <2>3, <3>1, <3>3
    <3> QED BY <3>1, <3>2, <3>3
  <2> QED BY <2>3, <2>4, <2>5
<1> HIDE DEF rest
<1>3. InOrder(rest)
  BY <1>1, <1>2 DEF InOrder
<1>4. Len(s) \in 1..Len(s) /\ Programs!ToClose(s) = s[Len(s)]
  BY <1>1 DEF Programs!ToClose
<1>5. (s[Len(s)] = "database" <=> Len(s) = 1) /\ (s[Len(s)] = "counter" <=> Len(s) = 2)
  BY <1>4 DEF InOrder
<1>6. rest = <<>> <=> Len(s) = 1
  BY <1>1, <1>2
<1> QED BY <1>1, <1>2, <1>3, <1>4, <1>5, <1>6 DEF rest

\* Two are added at the end.
LEMMA TwoMore ==
    ASSUME NEW s, InOrder(s), s # <<>>, NEW a \in Resources, NEW b \in Resources,
           a # "database", b # "database", b # "counter", a = "counter" <=> Len(s) = 1
    PROVE  InOrder(s \o <<a, b>>) /\ Len(s \o <<a, b>>) = Len(s) + 2 /\ s \o <<a, b>> # <<>>
<1>1. s \in Seq(Resources) /\ Len(s) \in Nat \ {0} /\ <<a, b>> \in Seq(Resources) /\ Len(<<a, b>>) = 2
  BY DEF InOrder
<1>2. s \o <<a, b>> \in Seq(Resources) /\ Len(s \o <<a, b>>) = Len(s) + 2
  BY <1>1
<1>3. \A i \in 1..(Len(s) + 2) : (s \o <<a, b>>)[i] = IF i <= Len(s) THEN s[i] ELSE IF i = Len(s) + 1 THEN a ELSE b
  BY <1>1
<1>4. InOrder(s \o <<a, b>>)
  <2> DEFINE t == s \o <<a, b>>
  <2>1. t \in Seq(Resources) /\ Len(t) = Len(s) + 2
    BY <1>2
  <2>2. \A i \in 1..(Len(s) + 2) : t[i] = IF i <= Len(s) THEN s[i] ELSE IF i = Len(s) + 1 THEN a ELSE b
    BY <1>3
  <2> HIDE DEF t
  <2>3. ASSUME NEW i \in 1..Len(t)
        PROVE  (t[i] = "database" <=> i = 1) /\ (t[i] = "counter" <=> i = 2)
    <3>1. CASE i \in 1..Len(s)
      BY <1>1, <2>1, <2>2, <3>1 DEF InOrder
    <3>2. CASE i = Len(s) + 1
      <4>1. t[i] = a /\ (i = 2 <=> Len(s) = 1) /\ i # 1
        <5>1. i \in 1..(Len(s) + 2) /\ ~(i <= Len(s))
          BY <1>1, <3>2
        <5>2. t[i] = a
          BY <2>2, <5>1, <3>2
        <5>3. Len(s) \in Nat /\ Len(s) >= 1
          BY <1>1
        <5>4. \A n \in Nat : n >= 1 /\ i = n + 1 => (i = 2 <=> n = 1) /\ i # 1
          OBVIOUS
        <5>5. (i = 2 <=> Len(s) = 1) /\ i # 1
          BY <3>2, <5>3, <5>4
        <5> QED BY <5>2, <5>5
      <4> QED BY <4>1
    <3>3. CASE i = Len(s) + 2
      BY <1>1, <2>1, <2>2, <3>3
    <3> QED BY <1>1, <2>1, <3>1, <3>2, <3>3
  <2> QED BY <2>1, <2>3 DEF InOrder, t
<1> QED BY <1>1, <1>2, <1>4

LEMMA ProgramsInit ==
    ASSUME Programs!AssemblyInit
    PROVE  ProgramInv
<1> USE OwnDatabase, EmptyInOrder
<1>0. Programs!NoInputs \in [day : {0} \union Programs!Days, funds : SomeFunds, ours : BOOLEAN, confirmed : BOOLEAN]
  BY DEF Programs!NoInputs, SomeFunds
<1>1. ProgramsTypeOK
  <2>1. stage \in [Programs!Programs -> Stages] /\ toClose \in [Programs!Programs -> Seq(Resources)]
    BY DEF Programs!AssemblyInit, Stages
  <2>2. inputs \in [Programs!Programs ->
           [day : {0} \union Programs!Days, funds : SomeFunds, ours : BOOLEAN, confirmed : BOOLEAN]]
    BY <1>0 DEF Programs!AssemblyInit
  <2>3. /\ lock \in [Programs!Databases -> Programs!Programs \union {Programs!Nobody}]
        /\ control \in [Programs!Databases -> [by : Programs!Programs \union {Programs!Nobody}, epoch : Nat]]
        /\ acquired \in [Programs!Programs -> BOOLEAN] /\ online \in SUBSET Programs!Programs
        /\ misconfirmed \in BOOLEAN
    BY DEF Programs!AssemblyInit
  <2>4. database \in [Programs!Databases -> [exists : BOOLEAN, capital : SomeFunds]]
    BY DEF Programs!AssemblyInit, SomeFunds
  <2> QED BY <2>1, <2>2, <2>3, <2>4 DEF ProgramsTypeOK
<1>2. ASSUME NEW p \in Programs!Programs
      PROVE  InItsPlace(p)
  BY <1>2 DEF Programs!AssemblyInit, InItsPlace, Connected, InControl
<1>3. ASSUME NEW r \in Runtimes
      PROVE  OnItsOwn(r)
  BY <1>3 DEF Programs!AssemblyInit, OnItsOwn, Connected, InControl, Programs!Programs
<1> QED BY <1>1, <1>2, <1>3 DEF ProgramInv, Programs!AssemblyInit

\* A step that leaves what a program is about alone.
LEMMA OthersInPlace ==
    ASSUME NEW q, InItsPlace(q),
           toClose'[q] = toClose[q], stage'[q] = stage[q], acquired'[q] = acquired[q], inputs'[q] = inputs[q],
           q \in online' <=> q \in online,
           lock'[MCDatabase[q]] = q <=> lock[MCDatabase[q]] = q,
           stage[q] \in InControl => control'[MCDatabase[q]].by = control[MCDatabase[q]].by,
           stage[q] \in InControl => database'[MCDatabase[q]].capital = database[MCDatabase[q]].capital
    PROVE  InItsPlace(q)'
BY DEF InItsPlace, InControl

LEMMA OwnKeep ==
    ASSUME NEW r, OnItsOwn(r),
           stage'[r] = stage[r], acquired'[r] = acquired[r], inputs'[r] = inputs[r],
           database'[MCDatabase[r]] = database[MCDatabase[r]]
    PROVE  OnItsOwn(r)'
BY DEF OnItsOwn

-------------------------------------------------------------------------------
LEMMA StartedKeeps ==
    ASSUME ProgramInv, NEW p \in Programs!Programs, 
           NEW given \in [day : {0} \union Programs!Days, funds : SomeFunds, ours : BOOLEAN, confirmed : BOOLEAN],
           p \in Runtimes => ~database[MCDatabase[p]].exists,
           Programs!Started(p, given)
    PROVE  ProgramInv'
<1> USE OwnDatabase DEF ProgramInv
<1>1. /\ stage[p] = "off" /\ stage' = [stage EXCEPT ![p] = "starting"]
      /\ inputs' = [inputs EXCEPT ![p] = given] /\ acquired' = [acquired EXCEPT ![p] = FALSE]
      /\ misconfirmed' = (misconfirmed \/ (given.confirmed /\ \E q \in Programs!Programs \ {p} : stage[q] # "off"))
      /\ UNCHANGED <<database, control, lock, online, toClose>>
  BY DEF Programs!Started, Programs!fileVars
<1>2. ProgramsTypeOK'
  BY <1>1 DEF ProgramsTypeOK, Stages, Connected
<1>3. ASSUME NEW q \in Programs!Programs
      PROVE  InItsPlace(q)'
  <2>1. CASE q = p
    BY <1>1, <2>1 DEF ProgramsTypeOK, InItsPlace, Connected, InControl
  <2>2. CASE q # p
    BY <1>1, <2>2, OthersInPlace DEF ProgramsTypeOK
  <2> QED BY <2>1, <2>2
<1>4. ASSUME NEW r \in Runtimes
      PROVE  OnItsOwn(r)'
  BY <1>1 DEF ProgramsTypeOK, OnItsOwn, Programs!Programs, Connected, InControl
<1>5. ASSUME NEW q \in Programs!Programs, NEW o \in Programs!Programs, q # o, stage'[q] # "off", stage'[o] # "off",
             inputs'[q].confirmed, inputs'[o].confirmed
      PROVE  misconfirmed'
  BY <1>1, <1>5 DEF ProgramsTypeOK
<1> QED BY <1>1, <1>2, <1>3, <1>4, <1>5

\* A step of one program that is running, and stays so: what it must not change for others.
LEMMA OneMoves ==
    ASSUME ProgramInv, NEW p \in Programs!Programs, NEW to \in Stages \ {"off"},
           stage[p] # "off", stage' = [stage EXCEPT ![p] = to], UNCHANGED <<inputs, misconfirmed>>,
           ProgramsTypeOK', InItsPlace(p)', p \in Runtimes => OnItsOwn(p)',
           \A q \in Programs!Programs \ {p} :
              /\ toClose'[q] = toClose[q] /\ acquired'[q] = acquired[q]
              /\ q \in online' <=> q \in online
              /\ lock'[MCDatabase[q]] = q <=> lock[MCDatabase[q]] = q
              /\ stage[q] \in InControl => /\ control'[MCDatabase[q]].by = control[MCDatabase[q]].by
                                          /\ database'[MCDatabase[q]].capital = database[MCDatabase[q]].capital
              /\ q \in Runtimes => database'[MCDatabase[q]] = database[MCDatabase[q]],
           \A d \in Programs!Databases :
              ~database'[d].exists => database'[d].capital = Programs!NoFunds /\ lock'[d] = Programs!Nobody
    PROVE  ProgramInv'
<1> USE OwnDatabase
<1>1. ASSUME NEW q \in Programs!Programs
      PROVE  InItsPlace(q)'
  <2>1. CASE q # p
    <3>1. InItsPlace(q) /\ stage'[q] = stage[q] /\ inputs'[q] = inputs[q]
      BY <2>1 DEF ProgramInv, ProgramsTypeOK
    <3> QED BY <2>1, <3>1, OthersInPlace
  <2> QED BY <2>1
<1>2. ASSUME NEW r \in Runtimes
      PROVE  OnItsOwn(r)'
  <2>1. CASE r # p
    <3>1. r \in Programs!Programs /\ OnItsOwn(r) /\ stage'[r] = stage[r] /\ inputs'[r] = inputs[r]
      BY <2>1 DEF ProgramInv, ProgramsTypeOK, Programs!Programs
    <3> QED BY <2>1, <3>1, OwnKeep
  <2> QED BY <2>1
<1>3. ASSUME NEW q \in Programs!Programs, NEW o \in Programs!Programs, q # o, stage'[q] # "off", stage'[o] # "off",
             inputs'[q].confirmed, inputs'[o].confirmed
      PROVE  misconfirmed'
  BY <1>3 DEF ProgramInv, ProgramsTypeOK
<1> QED BY <1>1, <1>2, <1>3 DEF ProgramInv

\* A step of the start that acquires nothing, or the loop's end.
LEMMA StageMoves ==
    ASSUME ProgramInv, NEW p \in Programs!Programs, NEW to \in Stages \ {"off"},
           stage[p] # "off", stage' = [stage EXCEPT ![p] = to],
           UNCHANGED <<database, control, lock, online, inputs, toClose, acquired, misconfirmed>>,
           InItsPlace(p)', p \in Runtimes => OnItsOwn(p)'
    PROVE  ProgramInv'
<1>1. ProgramsTypeOK'
  BY DEF ProgramInv, ProgramsTypeOK
<1> QED BY <1>1, OneMoves DEF ProgramInv

LEMMA LeaveKeeps ==
    ASSUME ProgramInv, NEW p \in Programs!Programs, Programs!Leave(p)
    PROVE  ProgramInv'
<1>1. /\ stage[p] # "off" /\ stage' = [stage EXCEPT ![p] = "closing"]
      /\ UNCHANGED <<database, control, lock, online, inputs, toClose, acquired, misconfirmed>>
  BY DEF Programs!Leave, Programs!fileVars
<1>2. stage'[p] = "closing" /\ "closing" \in Stages \ {"off"}
  BY <1>1 DEF ProgramInv, ProgramsTypeOK, Stages
<1>3. InItsPlace(p)'
  BY <1>1, <1>2 DEF ProgramInv, InItsPlace, Connected, InControl
<1>4. p \in Runtimes => OnItsOwn(p)'
  BY <1>2 DEF OnItsOwn, Connected, InControl
<1> QED BY <1>1, <1>2, <1>3, <1>4, StageMoves

LEMMA VerifyKeeps ==
    ASSUME ProgramInv, NEW p \in Runtimes, Programs!VerifyCounterIdentity(p)
    PROVE  ProgramInv'
<1>1. /\ stage[p] = "connected" /\ inputs[p].ours /\ stage' = [stage EXCEPT ![p] = "verified"]
      /\ UNCHANGED <<database, control, lock, online, inputs, toClose, acquired, misconfirmed>>
  BY DEF Programs!VerifyCounterIdentity, Programs!fileVars
<1>2. p \in Programs!Programs /\ stage'[p] = "verified" /\ "verified" \in Stages \ {"off"}
  BY <1>1 DEF ProgramInv, ProgramsTypeOK, Stages, Connected, Programs!Programs
<1>3. InItsPlace(p)'
  BY <1>1, <1>2 DEF ProgramInv, InItsPlace, Connected, InControl
<1>4. OnItsOwn(p)'
  BY <1>1, <1>2 DEF ProgramInv, OnItsOwn, Connected, InControl
<1> QED BY <1>1, <1>2, <1>3, <1>4, StageMoves

LEMMA KeepControlKeeps ==
    ASSUME ProgramInv, NEW p \in Services, Programs!KeepControl(p)
    PROVE  ProgramInv'
<1>1. /\ p \in Programs!Programs /\ p \notin Runtimes
      /\ stage[p] = "connected" /\ control[MCDatabase[p]].by = MCController[p]
      /\ stage' = [stage EXCEPT ![p] = "holding"]
      /\ UNCHANGED <<database, control, lock, online, inputs, toClose, acquired, misconfirmed>>
  BY OwnDatabase DEF Programs!KeepControl, Programs!MayTakeControl, Programs!fileVars, Programs!Programs
<1>2. stage'[p] = "holding" /\ "holding" \in Stages \ {"off"}
  BY <1>1 DEF ProgramInv, ProgramsTypeOK, Stages, Connected
<1>3. InItsPlace(p)'
  BY <1>1, <1>2 DEF ProgramInv, InItsPlace, Connected, InControl
<1> QED BY <1>1, <1>2, <1>3, StageMoves

LEMMA ReconcileKeeps ==
    ASSUME ProgramInv, NEW p \in Programs!Programs, Programs!ReconcileAndEnable(p)
    PROVE  ProgramInv'
<1> DEFINE to == IF p \in Runtimes THEN "reconciled" ELSE "running"
<1>1. /\ stage[p] = "holding" /\ database[MCDatabase[p]].capital = Programs!AtCounter
      /\ stage' = [stage EXCEPT ![p] = to]
      /\ UNCHANGED <<database, control, lock, online, inputs, toClose, acquired, misconfirmed>>
  BY DEF Programs!ReconcileAndEnable, Programs!fileVars
<1>2. stage'[p] = to /\ to \in {"reconciled", "running"} /\ to \in Stages \ {"off"}
  BY <1>1 DEF ProgramInv, ProgramsTypeOK, Stages, Connected
<1> HIDE DEF to
<1>3. InItsPlace(p)'
  BY <1>1, <1>2 DEF ProgramInv, InItsPlace, Connected, InControl
<1>4. p \in Runtimes => OnItsOwn(p)'
  BY <1>1, <1>2 DEF ProgramInv, OnItsOwn, Connected, InControl
<1> QED BY <1>1, <1>2, <1>3, <1>4, StageMoves

\* The database: it had no owner, so none of its programs has it.
LEMMA OpenDatabaseKeeps ==
    ASSUME ProgramInv, NEW p \in Programs!Programs, Programs!OpenDatabase(p)
    PROVE  ProgramInv'
<1> USE OwnDatabase
<1>1. /\ stage[p] = "starting" /\ lock[MCDatabase[p]] = Programs!Nobody
      /\ stage' = [stage EXCEPT ![p] = "opening"]
      /\ lock' = [lock EXCEPT ![MCDatabase[p]] = p]
      /\ database' = [database EXCEPT ![MCDatabase[p]].exists = TRUE]
      /\ toClose' = [toClose EXCEPT ![p] = <<"database">>]
      /\ UNCHANGED <<control, online, inputs, acquired, misconfirmed>>
  BY DEF Programs!OpenDatabase
<1>2. <<"database">> \in Seq(Resources)
  BY DatabaseInOrder DEF InOrder
<1>3. ProgramsTypeOK'
  <2>1. stage' \in [Programs!Programs -> Stages]
    BY <1>1 DEF ProgramInv, ProgramsTypeOK, Stages
  <2>2. database' \in [Programs!Databases -> [exists : BOOLEAN, capital : SomeFunds]]
    <3>1. database \in [Programs!Databases -> [exists : BOOLEAN, capital : SomeFunds]]
      BY DEF ProgramInv, ProgramsTypeOK
    <3>2. \A old \in [exists : BOOLEAN, capital : SomeFunds] :
             [old EXCEPT !.exists = TRUE] \in [exists : BOOLEAN, capital : SomeFunds]
      OBVIOUS
    <3> QED BY <1>1, <3>1, <3>2
  <2>3. toClose' \in [Programs!Programs -> Seq(Resources)]
    BY <1>1, <1>2 DEF ProgramInv, ProgramsTypeOK
  <2>4. lock' \in [Programs!Databases -> Programs!Programs \union {Programs!Nobody}]
    BY <1>1 DEF ProgramInv, ProgramsTypeOK
  <2> QED BY <1>1, <2>1, <2>2, <2>3, <2>4 DEF ProgramInv, ProgramsTypeOK
<1>4. /\ stage'[p] = "opening" /\ "opening" \in Stages \ {"off"} /\ toClose'[p] = <<"database">>
      /\ lock'[MCDatabase[p]] = p
  BY <1>1 DEF ProgramInv, ProgramsTypeOK, Stages
<1>5. \A d \in Programs!Databases :
         /\ database'[d].capital = database[d].capital
         /\ d # MCDatabase[p] => database'[d] = database[d]
         /\ database[d].exists => database'[d].exists
  BY <1>1 DEF ProgramInv, ProgramsTypeOK
<1>6. InItsPlace(p)'
  <2>1. p \notin online /\ (acquired[p] => inputs[p].confirmed)
    BY <1>1 DEF ProgramInv, InItsPlace
  <2>2. InOrder(toClose'[p]) /\ Len(toClose'[p]) = 1 /\ toClose'[p] # <<>>
    BY <1>4, DatabaseInOrder
  <2> QED BY <1>1, <1>4, <2>1, <2>2 DEF InItsPlace, Connected, InControl
<1>7. p \in Runtimes => OnItsOwn(p)'
  BY <1>1, <1>4, <1>5 DEF ProgramInv, OnItsOwn, Connected, InControl
<1>8. ASSUME NEW q \in Programs!Programs \ {p}
      PROVE  /\ toClose'[q] = toClose[q] /\ acquired'[q] = acquired[q]
             /\ q \in online' <=> q \in online
             /\ lock'[MCDatabase[q]] = q <=> lock[MCDatabase[q]] = q
             /\ stage[q] \in InControl => /\ control'[MCDatabase[q]].by = control[MCDatabase[q]].by
                                         /\ database'[MCDatabase[q]].capital = database[MCDatabase[q]].capital
             /\ q \in Runtimes => database'[MCDatabase[q]] = database[MCDatabase[q]]
  <2>1. lock'[MCDatabase[q]] = q <=> lock[MCDatabase[q]] = q
    <3>1. CASE MCDatabase[q] = MCDatabase[p]
      BY <1>1, <1>4, <3>1
    <3>2. CASE MCDatabase[q] # MCDatabase[p]
      BY <1>1, <3>2 DEF ProgramInv, ProgramsTypeOK
    <3> QED BY <3>1, <3>2
  <2>2. toClose'[q] = toClose[q]
    BY <1>1 DEF ProgramInv, ProgramsTypeOK
  <2>3. q \in Runtimes => database'[MCDatabase[q]] = database[MCDatabase[q]]
    BY <1>5
  <2> QED BY <1>1, <1>5, <2>1, <2>2, <2>3
<1>9. ASSUME NEW d \in Programs!Databases, ~database'[d].exists
      PROVE  database'[d].capital = Programs!NoFunds /\ lock'[d] = Programs!Nobody
  <2>1. d # MCDatabase[p]
    BY <1>1, <1>9 DEF ProgramInv, ProgramsTypeOK
  <2>2. lock'[d] = lock[d]
    BY <1>1, <2>1 DEF ProgramInv, ProgramsTypeOK
  <2> QED BY <1>5, <1>9, <2>1, <2>2 DEF ProgramInv
<1>10. UNCHANGED <<inputs, misconfirmed>> /\ stage[p] # "off"
  BY <1>1
<1> QED BY <1>1, <1>3, <1>4, <1>6, <1>7, <1>8, <1>9, <1>10, OneMoves

\* The account: the gateways are made, and the capital written once.
LEMMA OpenAccountKeeps ==
    ASSUME ProgramInv, NEW p \in Programs!Programs, Programs!OpenAccount(p)
    PROVE  ProgramInv'
<1> USE OwnDatabase
<1> DEFINE now == Programs!Opened(database[MCDatabase[p]], inputs[p])
<1>1. /\ stage[p] = "opening" /\ stage' = [stage EXCEPT ![p] = "assembled"]
      /\ database' = [database EXCEPT ![MCDatabase[p]] = now]
      /\ toClose' = [toClose EXCEPT ![p] = @ \o <<"counter", "market">>]
      /\ UNCHANGED <<control, lock, online, inputs, acquired, misconfirmed>>
  BY DEF Programs!OpenAccount
<1>2. /\ now \in [exists : BOOLEAN, capital : SomeFunds]
      /\ now.exists = database[MCDatabase[p]].exists
      /\ now.capital = IF database[MCDatabase[p]].capital = Programs!NoFunds THEN inputs[p].funds
                                                                     ELSE database[MCDatabase[p]].capital
  <2>1. database[MCDatabase[p]] \in [exists : BOOLEAN, capital : SomeFunds] /\ inputs[p].funds \in SomeFunds
    BY DEF ProgramInv, ProgramsTypeOK
  <2> DEFINE old == database[MCDatabase[p]]
  <2>2. now = IF old.capital = Programs!NoFunds THEN [old EXCEPT !.capital = inputs[p].funds] ELSE old
    BY DEF Programs!Opened
  <2> HIDE DEF now, old
  <2>3. old \in [exists : BOOLEAN, capital : SomeFunds]
    BY <2>1 DEF old
  <2>4. /\ now \in [exists : BOOLEAN, capital : SomeFunds] /\ now.exists = old.exists
        /\ now.capital = IF old.capital = Programs!NoFunds THEN inputs[p].funds ELSE old.capital
    BY <2>1, <2>2, <2>3
  <2> QED BY <2>4 DEF old
<1> HIDE DEF now
<1>3. /\ InOrder(toClose[p]) /\ Len(toClose[p]) = 1 /\ toClose[p] # <<>> /\ lock[MCDatabase[p]] = p
      /\ toClose[p] \in Seq(Resources)
  <2>1. InOrder(toClose[p]) /\ Len(toClose[p]) = 1 /\ (lock[MCDatabase[p]] = p <=> toClose[p] # <<>>)
    BY <1>1 DEF ProgramInv, InItsPlace
  <2>2. toClose[p] # <<>>
    BY <2>1
  <2> QED BY <2>1, <2>2 DEF InOrder
<1>4. /\ InOrder(toClose[p] \o <<"counter", "market">>) /\ Len(toClose[p] \o <<"counter", "market">>) = 3
      /\ toClose[p] \o <<"counter", "market">> # <<>>
  <2>1. "counter" \in Resources /\ "market" \in Resources
    BY DEF Resources
  <2>2. Len(toClose[p] \o <<"counter", "market">>) = Len(toClose[p]) + 2
    BY <1>3, <2>1, TwoMore
  <2> QED BY <1>3, <2>1, <2>2, TwoMore
<1>5. ProgramsTypeOK'
  <2>1. stage' \in [Programs!Programs -> Stages]
    BY <1>1 DEF ProgramInv, ProgramsTypeOK, Stages
  <2>2. database' \in [Programs!Databases -> [exists : BOOLEAN, capital : SomeFunds]]
    BY <1>1, <1>2 DEF ProgramInv, ProgramsTypeOK
  <2>3. toClose' \in [Programs!Programs -> Seq(Resources)]
    BY <1>1, <1>4 DEF ProgramInv, ProgramsTypeOK, InOrder
  <2> QED BY <1>1, <2>1, <2>2, <2>3 DEF ProgramInv, ProgramsTypeOK
<1>6. /\ stage'[p] = "assembled" /\ "assembled" \in Stages \ {"off"}
      /\ toClose'[p] = toClose[p] \o <<"counter", "market">>
      /\ database'[MCDatabase[p]] = now
      /\ \A d \in Programs!Databases : d # MCDatabase[p] => database'[d] = database[d]
  BY <1>1 DEF ProgramInv, ProgramsTypeOK, Stages
<1>7. InItsPlace(p)'
  <2>1. acquired[p] => inputs[p].confirmed
    BY DEF ProgramInv, InItsPlace
  <2>2. InOrder(toClose'[p]) /\ Len(toClose'[p]) = 3 /\ toClose'[p] # <<>>
    BY <1>4, <1>6
  <2> QED BY <1>1, <1>3, <1>6, <2>1, <2>2 DEF InItsPlace, Connected, InControl
<1>8. p \in Runtimes => OnItsOwn(p)'
  BY <1>1, <1>2, <1>6 DEF ProgramInv, OnItsOwn, Connected, InControl
<1>9. ASSUME NEW q \in Programs!Programs \ {p}
      PROVE  /\ toClose'[q] = toClose[q] /\ acquired'[q] = acquired[q]
             /\ q \in online' <=> q \in online
             /\ lock'[MCDatabase[q]] = q <=> lock[MCDatabase[q]] = q
             /\ stage[q] \in InControl => /\ control'[MCDatabase[q]].by = control[MCDatabase[q]].by
                                         /\ database'[MCDatabase[q]].capital = database[MCDatabase[q]].capital
             /\ q \in Runtimes => database'[MCDatabase[q]] = database[MCDatabase[q]]
  <2>1. toClose'[q] = toClose[q]
    BY <1>1 DEF ProgramInv, ProgramsTypeOK
  <2>2. q \in Runtimes => database'[MCDatabase[q]] = database[MCDatabase[q]]
    BY <1>6
  <2>3. stage[q] \in InControl => MCDatabase[q] # MCDatabase[p]
    <3>1. stage[q] \in InControl => lock[MCDatabase[q]] = q
      <4>1. stage[q] \in InControl => Len(toClose[q]) >= 3
        BY DEF ProgramInv, InItsPlace, InControl, Connected
      <4>2. toClose[q] = <<>> => Len(toClose[q]) = 0
        OBVIOUS
      <4> QED BY <4>1, <4>2 DEF ProgramInv, InItsPlace
    <3> QED BY <1>3, <3>1
  <2> QED BY <1>1, <1>6, <2>1, <2>2, <2>3
<1>10. ASSUME NEW d \in Programs!Databases, ~database'[d].exists
       PROVE  database'[d].capital = Programs!NoFunds /\ lock'[d] = Programs!Nobody
  <2>1. database[MCDatabase[p]].exists
    BY <1>3 DEF ProgramInv
  <2> QED BY <1>1, <1>2, <1>6, <1>10, <2>1 DEF ProgramInv
<1>11. UNCHANGED <<inputs, misconfirmed>> /\ stage[p] # "off"
  BY <1>1
<1> QED BY <1>1, <1>5, <1>6, <1>7, <1>8, <1>9, <1>10, <1>11, OneMoves

LEMMA ConnectCounterKeeps ==
    ASSUME ProgramInv, NEW p \in Programs!Programs, Programs!ConnectCounter(p)
    PROVE  ProgramInv'
<1> USE OwnDatabase
<1> DEFINE to == IF inputs[p].day = Programs!Today THEN "connected" ELSE "closing"
<1>1. /\ stage[p] = "assembled" /\ stage' = [stage EXCEPT ![p] = to]
      /\ online' = online \union {p}
      /\ UNCHANGED <<database, control, lock, inputs, toClose, acquired, misconfirmed>>
  BY DEF Programs!ConnectCounter, Programs!fileVars
<1>2. to \in {"connected", "closing"} /\ to \in Stages \ {"off"}
  BY DEF Stages, Connected
<1> HIDE DEF to
<1>3. ProgramsTypeOK'
  BY <1>1, <1>2 DEF ProgramInv, ProgramsTypeOK
<1>4. stage'[p] = to
  BY <1>1 DEF ProgramInv, ProgramsTypeOK
<1>5. InItsPlace(p)'
  <2>1. InItsPlace(p) /\ Len(toClose[p]) >= 3 /\ Len(toClose[p]) \in Nat
    BY <1>1 DEF ProgramInv, InItsPlace, InOrder
  <2> QED BY <1>1, <1>2, <1>4, <2>1 DEF InItsPlace, Connected, InControl
<1>6. p \in Runtimes => OnItsOwn(p)'
  BY <1>1, <1>2, <1>4 DEF ProgramInv, OnItsOwn, Connected, InControl
<1> QED BY <1>1, <1>2, <1>3, <1>5, <1>6, OneMoves DEF ProgramInv

LEMMA ConnectMarketKeeps ==
    ASSUME ProgramInv, NEW p \in Runtimes, Programs!ConnectMarket(p)
    PROVE  ProgramInv'
<1> USE OwnDatabase
<1>1. /\ p \in Programs!Programs
      /\ stage[p] = "reconciled" /\ stage' = [stage EXCEPT ![p] = "running"]
      /\ toClose' = [toClose EXCEPT ![p] = @ \o <<"checkpoint", "strategy">>]
      /\ UNCHANGED <<database, control, lock, online, inputs, acquired, misconfirmed>>
  BY DEF Programs!ConnectMarket, Programs!fileVars, Programs!Programs
<1>2. /\ InItsPlace(p) /\ InOrder(toClose[p]) /\ Len(toClose[p]) >= 3 /\ Len(toClose[p]) \in Nat /\ toClose[p] # <<>>
  <2>1. InItsPlace(p) /\ InOrder(toClose[p]) /\ Len(toClose[p]) >= 3
    BY <1>1 DEF ProgramInv, InItsPlace, Connected
  <2>2. toClose[p] = <<>> => Len(toClose[p]) = 0
    OBVIOUS
  <2> QED BY <2>1, <2>2 DEF InOrder
<1>3. /\ InOrder(toClose[p] \o <<"checkpoint", "strategy">>)
      /\ Len(toClose[p] \o <<"checkpoint", "strategy">>) = Len(toClose[p]) + 2
      /\ toClose[p] \o <<"checkpoint", "strategy">> # <<>>
  <2>1. "checkpoint" \in Resources /\ "strategy" \in Resources
    BY DEF Resources
  <2>2. \A n \in Nat : n >= 3 => n # 1
    OBVIOUS
  <2>3. Len(toClose[p]) # 1
    BY <1>2, <2>2
  <2> QED BY <1>2, <2>1, <2>3, TwoMore
<1>4. /\ stage'[p] = "running" /\ "running" \in Stages \ {"off"}
      /\ toClose'[p] = toClose[p] \o <<"checkpoint", "strategy">>
  BY <1>1 DEF ProgramInv, ProgramsTypeOK, Stages, Connected
<1>5. ProgramsTypeOK'
  <2>1. toClose' \in [Programs!Programs -> Seq(Resources)]
    BY <1>1, <1>3 DEF ProgramInv, ProgramsTypeOK, InOrder
  <2>2. stage' \in [Programs!Programs -> Stages]
    BY <1>1, <1>4 DEF ProgramInv, ProgramsTypeOK
  <2> QED BY <1>1, <2>1, <2>2 DEF ProgramInv, ProgramsTypeOK
<1>6. InItsPlace(p)'
  <2>1. InOrder(toClose'[p]) /\ Len(toClose'[p]) >= 3 /\ Len(toClose'[p]) \in Nat /\ toClose'[p] # <<>>
    BY <1>2, <1>3, <1>4
  <2> QED BY <1>1, <1>2, <1>4, <2>1 DEF InItsPlace, Connected, InControl
<1>7. OnItsOwn(p)'
  BY <1>1, <1>4 DEF ProgramInv, OnItsOwn, Connected, InControl
<1>8. \A q \in Programs!Programs \ {p} : toClose'[q] = toClose[q]
  BY <1>1 DEF ProgramInv, ProgramsTypeOK
<1> QED BY <1>1, <1>4, <1>5, <1>6, <1>7, <1>8, OneMoves DEF ProgramInv

\* The next epoch: nobody else who has control is on the same database.
LEMMA ProgramTakesOver ==
    ASSUME ProgramInv, NEW p \in Programs!Programs, Programs!TakeOver(p)
    PROVE  ProgramInv'
<1> USE OwnDatabase
<1>1. /\ stage[p] \in {"connected", "verified"} /\ (p \in Runtimes => stage[p] = "verified")
      /\ inputs[p].confirmed
      /\ control' = [control EXCEPT ![MCDatabase[p]] = [by |-> MCController[p], epoch |-> @.epoch + 1]]
      /\ acquired' = [acquired EXCEPT ![p] = TRUE]
      /\ stage' = [stage EXCEPT ![p] = "holding"]
      /\ UNCHANGED <<database, lock, online, inputs, toClose, misconfirmed>>
  BY DEF Programs!TakeOver, Programs!MayTakeControl, Programs!Isolated
<1>2. ProgramsTypeOK'
  <2>1. control' \in [Programs!Databases -> [by : Programs!Programs \union {Programs!Nobody}, epoch : Nat]]
    BY <1>1 DEF ProgramInv, ProgramsTypeOK
  <2>2. stage' \in [Programs!Programs -> Stages] /\ acquired' \in [Programs!Programs -> BOOLEAN]
    BY <1>1 DEF ProgramInv, ProgramsTypeOK, Stages, Connected
  <2> QED BY <1>1, <2>1, <2>2 DEF ProgramInv, ProgramsTypeOK
<1>3. /\ stage'[p] = "holding" /\ "holding" \in Stages \ {"off"} /\ acquired'[p] = TRUE
      /\ control'[MCDatabase[p]].by = MCController[p]
  BY <1>1 DEF ProgramInv, ProgramsTypeOK, Stages, Connected
<1>4. InItsPlace(p)'
  BY <1>1, <1>3 DEF ProgramInv, InItsPlace, Connected, InControl
<1>5. p \in Runtimes => OnItsOwn(p)'
  BY <1>1, <1>3 DEF ProgramInv, OnItsOwn, Connected, InControl
<1>6. ASSUME NEW q \in Programs!Programs, stage[q] \in Connected
      PROVE  lock[MCDatabase[q]] = q
  <2>1. Len(toClose[q]) >= 3
    BY <1>6 DEF ProgramInv, InItsPlace, Connected
  <2>2. toClose[q] = <<>> => Len(toClose[q]) = 0
    OBVIOUS
  <2> QED BY <2>1, <2>2 DEF ProgramInv, InItsPlace
<1>7. ASSUME NEW q \in Programs!Programs \ {p}
      PROVE  /\ acquired'[q] = acquired[q]
             /\ stage[q] \in InControl => control'[MCDatabase[q]].by = control[MCDatabase[q]].by
  <2>1. stage[q] \in InControl => MCDatabase[q] # MCDatabase[p]
    BY <1>1, <1>6 DEF Connected, InControl
  <2> QED BY <1>1, <2>1 DEF ProgramInv, ProgramsTypeOK
<1>8. stage[p] # "off"
  BY <1>1
<1> QED BY <1>1, <1>2, <1>3, <1>4, <1>5, <1>7, <1>8, OneMoves DEF ProgramInv

\* The last that was acquired is closed: the database after the session.
LEMMA CloseKeeps ==
    ASSUME ProgramInv, NEW p \in Programs!Programs, Programs!Close(p)
    PROVE  ProgramInv'
<1> USE OwnDatabase
<1> DEFINE closed == Programs!ToClose(toClose[p])
           rest == SubSeq(toClose[p], 1, Len(toClose[p]) - 1)
<1>1. /\ stage[p] = "closing" /\ toClose[p] # <<>>
      /\ online' = IF closed = "counter" THEN online \ {p} ELSE online
      /\ lock' = IF closed = "database" THEN [lock EXCEPT ![MCDatabase[p]] = Programs!Nobody] ELSE lock
      /\ toClose' = [toClose EXCEPT ![p] = rest]
      /\ UNCHANGED <<database, control, stage, inputs, acquired, misconfirmed>>
  BY DEF Programs!Close
<1>2. InItsPlace(p) /\ InOrder(toClose[p])
  BY DEF ProgramInv, InItsPlace
<1>3. /\ Len(toClose[p]) \in Nat \ {0}
      /\ closed = "database" <=> Len(toClose[p]) = 1
      /\ closed = "counter" <=> Len(toClose[p]) = 2
      /\ InOrder(rest) /\ Len(rest) = Len(toClose[p]) - 1 /\ rest \in Seq(Resources)
      /\ rest = <<>> <=> Len(toClose[p]) = 1
  BY <1>1, <1>2, LastClosed
<1> HIDE DEF closed, rest
<1>4. stage' = [stage EXCEPT ![p] = "closing"] /\ "closing" \in Stages \ {"off"} /\ stage'[p] = "closing"
  BY <1>1 DEF ProgramInv, ProgramsTypeOK, Stages
<1>5. ProgramsTypeOK'
  <2>1. toClose' \in [Programs!Programs -> Seq(Resources)]
    BY <1>1, <1>3 DEF ProgramInv, ProgramsTypeOK
  <2>2. online' \in SUBSET Programs!Programs
    BY <1>1 DEF ProgramInv, ProgramsTypeOK
  <2>3. lock' \in [Programs!Databases -> Programs!Programs \union {Programs!Nobody}]
    BY <1>1 DEF ProgramInv, ProgramsTypeOK
  <2> QED BY <1>1, <2>1, <2>2, <2>3 DEF ProgramInv, ProgramsTypeOK
<1>6. toClose'[p] = rest /\ lock[MCDatabase[p]] = p
  BY <1>1, <1>2 DEF ProgramInv, ProgramsTypeOK, InItsPlace
<1>7. InItsPlace(p)'
  <2>1. lock'[MCDatabase[p]] = p <=> toClose'[p] # <<>>
    <3>1. CASE closed = "database"
      BY <1>1, <1>3, <1>6, <3>1 DEF ProgramInv, ProgramsTypeOK
    <3>2. CASE closed # "database"
      BY <1>1, <1>3, <1>6, <3>2
    <3> QED BY <3>1, <3>2
  <2>2. p \in online' => Len(toClose'[p]) >= 2
    <3>1. CASE closed = "counter"
      BY <1>1, <3>1
    <3>2. CASE closed # "counter"
      <4>1. p \in online' => Len(toClose[p]) >= 2 /\ Len(toClose[p]) # 2
        BY <1>1, <1>2, <1>3, <3>2 DEF InItsPlace
      <4>2. \A n \in Nat : n >= 2 /\ n # 2 => n - 1 >= 2
        OBVIOUS
      <4> QED BY <1>3, <1>6, <4>1, <4>2
    <3> QED BY <3>1, <3>2
  <2>3. acquired'[p] => inputs'[p].confirmed
    BY <1>1, <1>2 DEF InItsPlace
  <2> QED BY <1>3, <1>4, <1>6, <2>1, <2>2, <2>3 DEF InItsPlace, Connected, InControl
<1>8. p \in Runtimes => OnItsOwn(p)'
  BY <1>4 DEF OnItsOwn, Connected, InControl
<1>9. ASSUME NEW q \in Programs!Programs \ {p}
      PROVE  /\ toClose'[q] = toClose[q]
             /\ q \in online' <=> q \in online
             /\ lock'[MCDatabase[q]] = q <=> lock[MCDatabase[q]] = q
  <2>1. toClose'[q] = toClose[q]
    BY <1>1 DEF ProgramInv, ProgramsTypeOK
  <2>2. q \in online' <=> q \in online
    BY <1>1
  <2>3. lock'[MCDatabase[q]] = q <=> lock[MCDatabase[q]] = q
    <3>1. CASE MCDatabase[q] = MCDatabase[p]
      BY <1>1, <1>6, <3>1 DEF ProgramInv, ProgramsTypeOK
    <3>2. CASE MCDatabase[q] # MCDatabase[p]
      BY <1>1, <3>2 DEF ProgramInv, ProgramsTypeOK
    <3> QED BY <3>1, <3>2
  <2> QED BY <2>1, <2>2, <2>3
<1>10. ASSUME NEW d \in Programs!Databases, ~database'[d].exists
       PROVE  database'[d].capital = Programs!NoFunds /\ lock'[d] = Programs!Nobody
  BY <1>1, <1>10 DEF ProgramInv, ProgramsTypeOK
<1>11. stage[p] # "off" /\ UNCHANGED <<inputs, misconfirmed>>
  BY <1>1
<1>12. ASSUME NEW q \in Programs!Programs \ {p}
       PROVE  /\ toClose'[q] = toClose[q] /\ acquired'[q] = acquired[q]
              /\ q \in online' <=> q \in online
              /\ lock'[MCDatabase[q]] = q <=> lock[MCDatabase[q]] = q
              /\ stage[q] \in InControl => /\ control'[MCDatabase[q]].by = control[MCDatabase[q]].by
                                          /\ database'[MCDatabase[q]].capital = database[MCDatabase[q]].capital
              /\ q \in Runtimes => database'[MCDatabase[q]] = database[MCDatabase[q]]
  BY <1>1, <1>9
<1> QED BY <1>4, <1>5, <1>7, <1>8, <1>10, <1>11, <1>12, OneMoves

\* A program that has ended holds nothing, and leaves the others alone.
LEMMA Gone ==
    ASSUME ProgramInv, NEW p \in Programs!Programs,
           stage' = [stage EXCEPT ![p] = "off"],
           inputs' = [inputs EXCEPT ![p] = Programs!NoInputs],
           acquired' = [acquired EXCEPT ![p] = FALSE],
           UNCHANGED <<database, control, misconfirmed>>,
           toClose' \in [Programs!Programs -> Seq(Resources)], toClose'[p] = <<>>,
           online' \in SUBSET Programs!Programs, p \notin online',
           lock' \in [Programs!Databases -> Programs!Programs \union {Programs!Nobody}], lock'[MCDatabase[p]] # p,
           \A q \in Programs!Programs \ {p} :
              /\ toClose'[q] = toClose[q] /\ (q \in online' <=> q \in online)
              /\ (lock'[MCDatabase[q]] = q <=> lock[MCDatabase[q]] = q),
           \A d \in Programs!Databases : lock[d] = Programs!Nobody => lock'[d] = Programs!Nobody
    PROVE  ProgramInv'
<1> USE OwnDatabase
<1>1. Programs!NoInputs \in [day : {0} \union Programs!Days, funds : SomeFunds, ours : BOOLEAN, confirmed : BOOLEAN]
  BY DEF Programs!NoInputs, SomeFunds
<1>2. stage' \in [Programs!Programs -> Stages]
  BY DEF ProgramInv, ProgramsTypeOK, Stages
<1>3. ProgramsTypeOK'
  BY <1>1, <1>2 DEF ProgramInv, ProgramsTypeOK
<1>4. stage'[p] = "off" /\ acquired'[p] = FALSE
  BY DEF ProgramInv, ProgramsTypeOK
<1>5. \A q \in Programs!Programs \ {p} : stage'[q] = stage[q] /\ inputs'[q] = inputs[q] /\ acquired'[q] = acquired[q]
  BY DEF ProgramInv, ProgramsTypeOK
<1>6. ASSUME NEW q \in Programs!Programs
      PROVE  InItsPlace(q)'
  <2>1. CASE q = p
    BY <1>4, <2>1, EmptyInOrder DEF InItsPlace, Connected, InControl
  <2>2. CASE q # p
    <3>1. InItsPlace(q)
      BY DEF ProgramInv
    <3> QED BY <1>5, <2>2, <3>1, OthersInPlace
  <2> QED BY <2>1, <2>2
<1>7. ASSUME NEW r \in Runtimes
      PROVE  OnItsOwn(r)'
  <2>1. CASE r = p
    BY <1>4, <2>1 DEF OnItsOwn, Connected, InControl
  <2>2. CASE r # p
    <3>1. OnItsOwn(r) /\ r \in Programs!Programs
      BY DEF ProgramInv, Programs!Programs
    <3> QED BY <1>5, <2>2, <3>1, OwnKeep
  <2> QED BY <2>1, <2>2
<1>8. ASSUME NEW q \in Programs!Programs, NEW o \in Programs!Programs, q # o, stage'[q] # "off", stage'[o] # "off",
             inputs'[q].confirmed, inputs'[o].confirmed
      PROVE  misconfirmed'
  <2>1. q # p /\ o # p
    BY <1>4, <1>8
  <2> QED BY <1>5, <1>8, <2>1 DEF ProgramInv
<1> QED BY <1>3, <1>6, <1>7, <1>8 DEF ProgramInv

LEMMA EndKeeps ==
    ASSUME ProgramInv, NEW p \in Programs!Programs, Programs!End(p)
    PROVE  ProgramInv'
<1>1. /\ stage' = [stage EXCEPT ![p] = "off"] /\ toClose[p] = <<>>
      /\ inputs' = [inputs EXCEPT ![p] = Programs!NoInputs]
      /\ acquired' = [acquired EXCEPT ![p] = FALSE]
      /\ UNCHANGED <<database, control, lock, online, toClose, misconfirmed>>
  BY DEF Programs!End, Programs!Closed, Programs!fileVars
<1>2. p \notin online /\ lock[MCDatabase[p]] # p
  <2>1. Len(toClose[p]) = 0
    BY <1>1
  <2> QED BY <1>1, <2>1 DEF ProgramInv, InItsPlace
<1>3. /\ toClose \in [Programs!Programs -> Seq(Resources)] /\ online \in SUBSET Programs!Programs
      /\ lock \in [Programs!Databases -> Programs!Programs \union {Programs!Nobody}]
  BY DEF ProgramInv, ProgramsTypeOK
<1> QED BY <1>1, <1>2, <1>3, Gone

LEMMA DieKeeps ==
    ASSUME ProgramInv, NEW p \in Programs!Programs, Programs!Die(p)
    PROVE  ProgramInv'
<1> USE OwnDatabase
<1>1. /\ stage' = [stage EXCEPT ![p] = "off"]
      /\ toClose' = [toClose EXCEPT ![p] = <<>>]
      /\ inputs' = [inputs EXCEPT ![p] = Programs!NoInputs]
      /\ acquired' = [acquired EXCEPT ![p] = FALSE]
      /\ online' = online \ {p}
      /\ lock' = [d \in Programs!Databases |-> IF lock[d] = p THEN Programs!Nobody ELSE lock[d]]
      /\ UNCHANGED <<database, control, misconfirmed>>
  BY DEF Programs!Die, Programs!Closed
<1>2. /\ toClose \in [Programs!Programs -> Seq(Resources)] /\ online \in SUBSET Programs!Programs
      /\ lock \in [Programs!Databases -> Programs!Programs \union {Programs!Nobody}]
  BY DEF ProgramInv, ProgramsTypeOK
<1>3. toClose' \in [Programs!Programs -> Seq(Resources)] /\ toClose'[p] = <<>>
  BY <1>1, <1>2, EmptyInOrder DEF InOrder
<1>4. lock' \in [Programs!Databases -> Programs!Programs \union {Programs!Nobody}] /\ lock'[MCDatabase[p]] # p
  BY <1>1, <1>2
<1>5. online' \in SUBSET Programs!Programs /\ p \notin online'
  BY <1>1, <1>2
<1>6. \A q \in Programs!Programs \ {p} :
         /\ toClose'[q] = toClose[q] /\ (q \in online' <=> q \in online)
         /\ (lock'[MCDatabase[q]] = q <=> lock[MCDatabase[q]] = q)
  BY <1>1, <1>2
<1>7. \A d \in Programs!Databases : lock[d] = Programs!Nobody => lock'[d] = Programs!Nobody
  BY <1>1, <1>2
<1> QED BY <1>1, <1>3, <1>4, <1>5, <1>6, <1>7, Gone

\* Nothing in the invariant is the heartbeat's.
LEMMA StillProgramInv ==
    ASSUME ProgramInv, UNCHANGED <<database, control, lock, online, stage, inputs, toClose, acquired, misconfirmed>>
    PROVE  ProgramInv'
BY DEF ProgramInv, ProgramsTypeOK, InItsPlace, OnItsOwn

LEMMA AssemblyStep ==
    ASSUME ProgramInv, Programs!AssemblyNext
    PROVE  ProgramInv'
<1>1. ASSUME NEW p \in Services, Programs!StartService(p)
      PROVE  ProgramInv'
  <2>1. PICK day \in Programs!Days, confirmed \in BOOLEAN :
           Programs!Started(p, [day |-> day, funds |-> Settings, ours |-> TRUE, confirmed |-> confirmed])
    BY <1>1 DEF Programs!StartService
  <2> DEFINE given == [day |-> day, funds |-> Settings, ours |-> TRUE, confirmed |-> confirmed]
  <2>2. given \in [day : {0} \union Programs!Days, funds : SomeFunds, ours : BOOLEAN, confirmed : BOOLEAN]
    BY DEF SomeFunds
  <2>3. Programs!Started(p, given)
    BY <2>1
  <2> HIDE DEF given
  <2>4. p \in Programs!Programs /\ p \notin Runtimes
    BY <1>1, OwnDatabase DEF Programs!Programs
  <2> QED BY <2>2, <2>3, <2>4, StartedKeeps
<1>2. ASSUME NEW p \in Runtimes, Programs!StartRuntime(p)
      PROVE  ProgramInv'
  <2>1. PICK report \in Programs!Preflight : Programs!Started(p, [report EXCEPT !.confirmed = TRUE])
    BY <1>2 DEF Programs!StartRuntime
  <2> DEFINE given == [report EXCEPT !.confirmed = TRUE]
  <2>2. report \in [day : Programs!Days, funds : Programs!Funds, ours : BOOLEAN, confirmed : {FALSE}]
    BY DEF Programs!Preflight
  <2>3. given \in [day : {0} \union Programs!Days, funds : SomeFunds, ours : BOOLEAN, confirmed : BOOLEAN]
    BY <2>2 DEF SomeFunds
  <2>4. Programs!Started(p, given)
    BY <2>1
  <2> HIDE DEF given
  <2>5. p \in Programs!Programs /\ ~database[MCDatabase[p]].exists
    BY <1>2 DEF Programs!Programs, Programs!StartRuntime
  <2> QED BY <2>3, <2>4, <2>5, StartedKeeps
<1>3. ASSUME NEW p \in Programs!Programs, Programs!Beat(p)
      PROVE  ProgramInv'
  BY <1>3, StillProgramInv DEF Programs!Beat, Programs!programVars
<1>4. ASSUME NEW d \in Programs!Databases, Programs!Age(d)
      PROVE  ProgramInv'
  BY <1>4, StillProgramInv DEF Programs!Age, Programs!programVars
<1> QED BY <1>1, <1>2, <1>3, <1>4, KeepControlKeeps, VerifyKeeps, ConnectMarketKeeps, OpenDatabaseKeeps,
           OpenAccountKeeps, ConnectCounterKeeps, ProgramTakesOver, ReconcileKeeps, LeaveKeeps, CloseKeeps,
           EndKeeps, DieKeeps
        DEF Programs!AssemblyNext

\* Who trades has come all the way, and who owns a database is alone on it.
LEMMA ProgramsSound ==
    ASSUME ProgramInv
    PROVE  Programs!AssemblyIsSound
<1> USE OwnDatabase
<1>1. ASSUME NEW p \in Programs!Programs, Programs!Trades(p)
      PROVE  /\ lock[MCDatabase[p]] = p /\ p \in online
             /\ control[MCDatabase[p]].by = MCController[p]
             /\ database[MCDatabase[p]].capital = Programs!AtCounter
             /\ p \in Runtimes => inputs[p].ours /\ acquired[p] /\ inputs[p].funds = database[MCDatabase[p]].capital
  <2>1. stage[p] \in {"reconciled", "running"}
    BY <1>1 DEF Programs!Trades
  <2>2. InItsPlace(p) /\ (p \in Runtimes => OnItsOwn(p))
    BY DEF ProgramInv
  <2>3. toClose[p] # <<>>
    <3>1. toClose[p] = <<>> => Len(toClose[p]) = 0
      OBVIOUS
    <3> QED BY <2>1, <2>2, <3>1 DEF InItsPlace, Connected
  <2>4. lock[MCDatabase[p]] = p /\ p \in online /\ control[MCDatabase[p]].by = MCController[p]
    BY <2>1, <2>2, <2>3 DEF InItsPlace, Connected, InControl
  <2>5. database[MCDatabase[p]].capital = Programs!AtCounter
    BY <2>1, <2>2 DEF InItsPlace
  <2>6. p \in Runtimes => inputs[p].ours /\ acquired[p] /\ inputs[p].funds = database[MCDatabase[p]].capital
    BY <2>1, <2>2 DEF OnItsOwn, Connected, InControl
  <2> QED BY <2>4, <2>5, <2>6
<1>2. Programs!TradingIsEarned
  BY <1>1 DEF Programs!TradingIsEarned
<1>3. ASSUME NEW q \in Programs!Programs, lock[MCDatabase[q]] # q
      PROVE  q \notin online
  <2>1. toClose[q] = <<>>
    BY <1>3 DEF ProgramInv, InItsPlace
  <2>2. Len(toClose[q]) = 0
    BY <2>1
  <2> QED BY <2>2 DEF ProgramInv, InItsPlace
<1>4. ASSUME NEW p \in Programs!Programs, stage[p] = "off"
      PROVE  toClose[p] = <<>> /\ lock[MCDatabase[p]] # p
  BY <1>4 DEF ProgramInv, InItsPlace
<1>5. Programs!NothingIsLeftBehind
  BY <1>3, <1>4 DEF Programs!NothingIsLeftBehind
<1>6. ASSUME NEW p \in Programs!Programs, NEW q \in Programs!Programs, p # q, Programs!Trades(p), Programs!Trades(q)
      PROVE  MCDatabase[p] # MCDatabase[q] /\ (misconfirmed \/ ~acquired[p] \/ ~acquired[q])
  <2>1. lock[MCDatabase[p]] = p /\ lock[MCDatabase[q]] = q
    BY <1>1, <1>6
  <2>2. stage[p] # "off" /\ stage[q] # "off"
    BY <1>6 DEF Programs!Trades
  <2>3. (acquired[p] => inputs[p].confirmed) /\ (acquired[q] => inputs[q].confirmed)
    BY DEF ProgramInv, InItsPlace
  <2> QED BY <1>6, <2>1, <2>2, <2>3 DEF ProgramInv
<1>7. Programs!WritersAreSingle
  BY <1>6 DEF Programs!WritersAreSingle
<1> QED BY <1>2, <1>5, <1>7 DEF Programs!AssemblyIsSound

\* Whichever programs are started, in whatever order they take over, end and die: one
\* that trades has the database, a session, control and an account with the counter's
\* capital, one that has ended has left nothing behind, and two trade at a time only
\* after a wrong confirmation or a restart (live_assembly, run_runtime's ExitStack).
THEOREM AssemblyAlwaysSound == AccountSpec => []AssemblyIsSound
<1> DEFINE Inv == part = "programs" => ProgramInv
<1>1. AccountInit => Inv
  BY ProgramsInit DEF AccountInit
<1>2. ASSUME Inv, [AccountNext]_accountVars
      PROVE  Inv'
  <2>1. CASE InPrograms(Programs!AssemblyNext)
    BY <1>2, <2>1, AssemblyStep DEF InPrograms
  <2>2. CASE \/ InKernel(Next) \/ InGate(Gate!GateNext) \/ InLedger(Ledger!LedgerNext) \/ InDay(Life!LifeNext)
             \/ InControls(ControlNext)
    BY <2>2 DEF InKernel, InGate, InLedger, InDay, InControls
  <2>3. CASE UNCHANGED accountVars
    BY <1>2, <2>3, StillProgramInv DEF accountVars, programVars
  <2> QED BY <1>2, <2>1, <2>2, <2>3 DEF AccountNext
<1>3. Inv => AssemblyIsSound
  BY ProgramsSound DEF AssemblyIsSound
<1> QED BY <1>1, <1>2, <1>3, PTL DEF AccountSpec

-------------------------------------------------------------------------------
(* The gate before the orders *)

\* What the account knows of an order lags behind the broker, never the other way: it
\* lets the lots go only when no more of them will be traded than it has booked.
KnownIsTrue(k, e, qty) ==
    /\ k.booked <= k.cum /\ k.cum <= e.traded /\ e.traded <= qty
    /\ k.status = "ABSENT" => e.state = "none" /\ ~k.reserved
    /\ e.state \in {"none", "sent"} => e.traded = 0
    /\ e.state = "working" => e.traded < qty
    /\ k.status \in Gate!Finals => e.state \in {"none", "done"} /\ k.cum = e.traded
    /\ ~k.reserved => e.state \in {"none", "done"} /\ e.traded = k.booked

\* A report says no more than is traded, and the last one all of it.
ToldIsTrue(r, e) ==
    /\ e.state \in {"working", "done"} /\ r.filled <= e.traded
    /\ r.status \in Gate!Finals => e.state = "done" /\ r.filled = e.traded

\* What an order may bring in yet, by what the account knows: a closing order nothing
\* before it is booked.
MayHold(known) ==
    [o \in GateOrders |-> IF Gate!Opening(o) /\ known[o].reserved THEN GateTerms[o].qty ELSE known[o].booked]

LimitInv == \A side \in {"long", "short"} : Gate!Position(side, MayHold(account)) <= MaxPosition

GateInv ==
    /\ Gate!GateTypeOK
    /\ \A o \in GateOrders : KnownIsTrue(account[o], exchange[o], GateTerms[o].qty)
    /\ \A r \in told : ToldIsTrue(r, exchange[r.order])
    /\ LimitInv
    /\ Gate!NoSelfTrade

-------------------------------------------------------------------------------
(* Positions as sums *)

HeldOn(side) == IF side = "long" THEN HeldLong ELSE 0

LEMMA GateSum ==
    ASSUME NEW S, NEW f
    PROVE  Gate!MapThenSumSet(LAMBDA o : f[o], S) = Total(f, S)
<1> DEFINE next(s) == CHOOSE x \in s : TRUE
           u == CHOOSE t : t = [s \in SUBSET S |-> IF s = {} THEN 0 ELSE f[next(s)] + t[s \ {next(s)}]]
<1>1. u = CHOOSE t : Totals(t, f, S)
  BY DEF Totals
<1>2. Gate!MapThenSumSet(LAMBDA o : f[o], S) = u[S]
  BY DEF Gate!MapThenSumSet, Gate!MapThenFoldSet
<1> HIDE DEF u
<1> QED BY <1>1, <1>2 DEF Total

LEMMA OrdersOnFinite ==
    ASSUME NEW side, NEW opening
    PROVE  /\ Gate!OrdersOn(side, opening) \in SUBSET GateOrders
           /\ IsFiniteSet(Gate!OrdersOn(side, opening))
           /\ \A o \in Gate!OrdersOn(side, opening) :
                 o \in GateOrders /\ Gate!TargetOf(o) = side /\ Gate!Opening(o) = opening
<1>1. Gate!OrdersOn(side, opening) \in SUBSET GateOrders
  BY DEF Gate!OrdersOn
<1> QED BY <1>1, FS_Subset, GateAssumption DEF Gate!OrdersOn

LEMMA PositionIs ==
    ASSUME NEW side, NEW f
    PROVE  Gate!Position(side, f)
             = HeldOn(side) + Total(f, Gate!OrdersOn(side, TRUE)) - Total(f, Gate!OrdersOn(side, FALSE))
BY GateSum DEF Gate!Position, HeldOn

\* Fewer lots opened and more closed are no more than before.
LEMMA PositionAtMost ==
    ASSUME NEW side, NEW f, NEW g,
           \A o \in GateOrders : f[o] \in Int /\ g[o] \in Int,
           \A o \in Gate!OrdersOn(side, TRUE) : f[o] <= g[o],
           \A o \in Gate!OrdersOn(side, FALSE) : g[o] <= f[o]
    PROVE  Gate!Position(side, f) <= Gate!Position(side, g)
<1>1. Total(f, Gate!OrdersOn(side, TRUE)) <= Total(g, Gate!OrdersOn(side, TRUE))
  BY OrdersOnFinite, TotalAtMost
<1>2. Total(g, Gate!OrdersOn(side, FALSE)) <= Total(f, Gate!OrdersOn(side, FALSE))
  BY OrdersOnFinite, TotalAtMost
<1>3. /\ Total(f, Gate!OrdersOn(side, TRUE)) \in Int /\ Total(g, Gate!OrdersOn(side, TRUE)) \in Int
      /\ Total(f, Gate!OrdersOn(side, FALSE)) \in Int /\ Total(g, Gate!OrdersOn(side, FALSE)) \in Int
  BY OrdersOnFinite, TotalType
<1>4. HeldOn(side) \in Int
  BY GateAssumption DEF HeldOn
<1> DEFINE a == Total(f, Gate!OrdersOn(side, TRUE))
           b == Total(g, Gate!OrdersOn(side, TRUE))
           c == Total(f, Gate!OrdersOn(side, FALSE))
           d == Total(g, Gate!OrdersOn(side, FALSE))
           h == HeldOn(side)
<1>5. a <= b /\ d <= c /\ a \in Int /\ b \in Int /\ c \in Int /\ d \in Int /\ h \in Int
  BY <1>1, <1>2, <1>3, <1>4
<1>6. Gate!Position(side, f) = h + a - c /\ Gate!Position(side, g) = h + b - d
  BY PositionIs
<1> HIDE DEF a, b, c, d, h
<1> QED BY <1>5, <1>6

LEMMA PositionInt ==
    ASSUME NEW side, NEW f, \A o \in GateOrders : f[o] \in Int
    PROVE  Gate!Position(side, f) \in Int
<1> DEFINE a == Total(f, Gate!OrdersOn(side, TRUE))
           c == Total(f, Gate!OrdersOn(side, FALSE))
           h == HeldOn(side)
<1>1. a \in Int /\ c \in Int
  BY OrdersOnFinite, TotalType
<1>2. h \in Int
  BY GateAssumption DEF HeldOn
<1>3. Gate!Position(side, f) = h + a - c
  BY PositionIs
<1> HIDE DEF a, c, h
<1> QED BY <1>1, <1>2, <1>3

LEMMA GateTermsTyped ==
    ASSUME NEW o \in GateOrders
    PROVE  /\ GateTerms[o].side \in {"buy", "sell"} /\ GateTerms[o].price \in Nat
           /\ GateTerms[o].qty \in Nat /\ GateTerms[o].qty > 0
           /\ Gate!TargetOf(o) \in {"long", "short"} /\ Gate!Opening(o) \in BOOLEAN
BY GateAssumption DEF Gate!TargetOf, Gate!Opening

LEMMA KnownTyped ==
    ASSUME Gate!GateTypeOK, NEW o \in GateOrders
    PROVE  /\ account[o] \in Gate!Known /\ account[o].booked \in Nat /\ account[o].cum \in Nat
           /\ account[o].reserved \in BOOLEAN
           /\ exchange[o] \in Gate!AtBroker /\ exchange[o].traded \in Nat
           /\ exchange[o].state \in {"none", "sent", "working", "done"}
BY DEF Gate!GateTypeOK, Gate!Known, Gate!AtBroker

LEMMA MayHoldTyped ==
    ASSUME Gate!GateTypeOK, NEW o \in GateOrders
    PROVE  /\ MayHold(account)[o] \in Nat
           /\ MayHold(account)[o] = IF Gate!Opening(o) /\ account[o].reserved THEN GateTerms[o].qty ELSE account[o].booked
<1>1. MayHold(account)[o] = IF Gate!Opening(o) /\ account[o].reserved THEN GateTerms[o].qty ELSE account[o].booked
  BY DEF MayHold
<1> QED BY <1>1, KnownTyped, GateTermsTyped

\* What the limits are checked with is the worst that may be held.
LEMMA PendingIsWorst ==
    ASSUME Gate!GateTypeOK, NEW side
    PROVE  Gate!HeldBy(side) + Gate!Pending(side) = Gate!Position(side, MayHold(account))
<1> DEFINE Op == Gate!OrdersOn(side, TRUE)
           Cl == Gate!OrdersOn(side, FALSE)
           booked == [o \in GateOrders |-> account[o].booked]
           rest == [o \in GateOrders |-> GateTerms[o].qty - account[o].booked]
           pending == [o \in GateOrders |-> IF account[o].reserved THEN GateTerms[o].qty - account[o].booked ELSE 0]
           R == {o \in Op : account[o].reserved}
           worst == MayHold(account)
<1>1. /\ IsFiniteSet(Op) /\ IsFiniteSet(Cl) /\ R \in SUBSET Op
      /\ \A o \in Op : o \in GateOrders /\ Gate!Opening(o) = TRUE
      /\ \A o \in Cl : o \in GateOrders /\ Gate!Opening(o) = FALSE
  BY OrdersOnFinite
<1>2. /\ \A o \in GateOrders : booked[o] \in Int /\ rest[o] \in Int /\ pending[o] \in Int
      /\ \A o \in R : rest[o] \in Int /\ pending[o] = rest[o]
      /\ \A o \in Op \ R : pending[o] = 0
  <2>1. ASSUME NEW o \in GateOrders
        PROVE  booked[o] \in Int /\ rest[o] \in Int /\ pending[o] \in Int
    BY KnownTyped, GateTermsTyped
  <2> QED BY <1>1, <2>1
<1>3. \A o \in Op : worst[o] = booked[o] + pending[o]
  <2>1. ASSUME NEW o \in Op
        PROVE  worst[o] = booked[o] + pending[o]
    <3>1. o \in GateOrders /\ Gate!Opening(o)
      BY <1>1
    <3>2. account[o].booked \in Nat /\ GateTerms[o].qty \in Nat /\ account[o].reserved \in BOOLEAN
      BY <3>1, KnownTyped, GateTermsTyped
    <3>3. worst[o] = IF account[o].reserved THEN GateTerms[o].qty ELSE account[o].booked
      BY <3>1, MayHoldTyped
    <3> QED BY <3>1, <3>2, <3>3
  <2> QED BY <2>1
<1>4. \A o \in Cl : worst[o] = booked[o]
  BY <1>1, MayHoldTyped
<1>5. Gate!HeldBy(side) = HeldOn(side) + Total(booked, Op) - Total(booked, Cl)
  BY PositionIs DEF Gate!HeldBy
<1>6. Gate!Position(side, worst) = HeldOn(side) + Total(worst, Op) - Total(worst, Cl)
  BY PositionIs
<1>7. Gate!Pending(side) = Total(rest, R)
  <2> DEFINE next(s) == CHOOSE x \in s : TRUE
             val(o) == GateTerms[o].qty - account[o].booked
             Is(t) == t = [s \in SUBSET R |-> IF s = {} THEN 0 ELSE val(next(s)) + t[s \ {next(s)}]]
             u == CHOOSE t : Is(t)
  <2>1. Gate!Pending(side) = u[R]
    BY DEF Gate!Pending, Gate!QtyOf, Gate!MapThenSumSet, Gate!MapThenFoldSet
  <2>2. ASSUME NEW s \in SUBSET R, s # {}
        PROVE  val(next(s)) = rest[next(s)]
    <3>1. next(s) \in s
      BY <2>2
    <3>2. next(s) \in GateOrders
      BY <1>1, <3>1
    <3> QED BY <3>2
  <2> HIDE DEF val, rest, next, R
  <2>3. \A t : [s \in SUBSET R |-> IF s = {} THEN 0 ELSE val(next(s)) + t[s \ {next(s)}]]
             = [s \in SUBSET R |-> IF s = {} THEN 0 ELSE rest[next(s)] + t[s \ {next(s)}]]
    BY <2>2
  <2>4. \A t : Is(t) <=> t = [s \in SUBSET R |-> IF s = {} THEN 0 ELSE rest[next(s)] + t[s \ {next(s)}]]
    BY <2>3
  <2>5. \A t : Is(t) <=> Totals(t, rest, R)
    BY <2>4 DEF Totals, next
  <2> HIDE DEF Is
  <2>6. u = CHOOSE t : Totals(t, rest, R)
    BY <2>5
  <2> QED BY <2>1, <2>6 DEF Total
<1> HIDE DEF Op, Cl, booked, rest, pending, R, worst
<1>8. Total(pending, Op) = Total(rest, R)
  BY <1>1, <1>2, TotalOfPart
<1>9. Total(worst, Op) = Total(booked, Op) + Total(pending, Op)
  BY <1>1, <1>2, <1>3, TotalAdds
<1>10. Total(worst, Cl) = Total(booked, Cl)
  BY <1>1, <1>4, TotalSame
<1>11. Total(booked, Op) \in Int /\ Total(pending, Op) \in Int /\ Total(booked, Cl) \in Int
  BY <1>1, <1>2, TotalType
<1>12. HeldOn(side) \in Int
  BY GateAssumption DEF HeldOn
<1>13. Gate!HeldBy(side) + Gate!Pending(side)
         = HeldOn(side) + Total(booked, Op) - Total(booked, Cl) + Total(pending, Op)
  BY <1>5, <1>7, <1>8
<1>14. Gate!Position(side, worst) = HeldOn(side) + (Total(booked, Op) + Total(pending, Op)) - Total(booked, Cl)
  BY <1>6, <1>9, <1>10
<1>15. Gate!HeldBy(side) + Gate!Pending(side) = Gate!Position(side, worst)
  BY <1>11, <1>12, <1>13, <1>14
<1> QED BY <1>15 DEF worst

-------------------------------------------------------------------------------
(* Steps *)

LEMMA GateStart ==
    ASSUME Gate!GateInit
    PROVE  GateInv
<1>1. Gate!GateTypeOK
  BY DEF Gate!GateInit, Gate!GateTypeOK, Gate!Known, Gate!AtBroker
<1>2. ASSUME NEW o \in GateOrders
      PROVE  KnownIsTrue(account[o], exchange[o], GateTerms[o].qty)
  BY <1>2, GateTermsTyped DEF Gate!GateInit, KnownIsTrue, Gate!Finals
<1>3. ASSUME NEW side \in {"long", "short"}
      PROVE  Gate!Position(side, MayHold(account)) <= MaxPosition
  <2> DEFINE z == [o \in GateOrders |-> 0]
  <2>1. \A o \in GateOrders : MayHold(account)[o] = 0
    BY DEF Gate!GateInit, MayHold
  <2>2. \A opening \in BOOLEAN : Total(MayHold(account), Gate!OrdersOn(side, opening)) = 0
    <3>1. ASSUME NEW opening \in BOOLEAN
          PROVE  Total(MayHold(account), Gate!OrdersOn(side, opening)) = 0
      <4> DEFINE S == Gate!OrdersOn(side, opening)
      <4>1. IsFiniteSet(S) /\ {} \in SUBSET S /\ S \in SUBSET GateOrders
        BY OrdersOnFinite
      <4>2. \A o \in S \ {} : MayHold(account)[o] = 0
        BY <2>1, <4>1
      <4> HIDE DEF S
      <4>3. Total(MayHold(account), S) = Total(z, {})
        BY <4>1, <4>2, TotalOfPart
      <4> QED BY <4>3, TotalEmpty DEF S
    <3> QED BY <3>1
  <2>3. Gate!Position(side, MayHold(account)) = HeldOn(side) + 0 - 0
    BY <2>2, PositionIs
  <2> QED BY <2>3, GateAssumption DEF HeldOn
<1>4. Gate!NoSelfTrade
  BY DEF Gate!NoSelfTrade, Gate!GateInit
<1>5. told = {}
  BY DEF Gate!GateInit
<1> QED BY <1>1, <1>2, <1>3, <1>4, <1>5 DEF GateInv, LimitInv

\* Two orders cross or they do not.
LEMMA CrossesBoth ==
    ASSUME NEW o \in GateOrders, NEW other \in GateOrders
    PROVE  /\ Gate!Crosses(o, other) <=> Gate!Crosses(other, o)
           /\ ~Gate!Crosses(o, o)
BY GateTermsTyped DEF Gate!Crosses

\* What is at the broker is active for the account.
LEMMA AtBrokerIsActive ==
    ASSUME GateInv, NEW o \in GateOrders, exchange[o].state \in {"sent", "working"}
    PROVE  Gate!Active(o)
BY DEF GateInv, KnownIsTrue, Gate!Active

\* One order of the account's picture is changed, no more of it may be held.
LEMMA LessMayBeHeld ==
    ASSUME Gate!GateTypeOK, Gate!GateTypeOK', LimitInv, NEW o \in GateOrders, NEW k,
           account' = [account EXCEPT ![o] = k],
           k.reserved \in BOOLEAN, k.booked \in Nat, k.booked <= GateTerms[o].qty, account[o].booked <= k.booked,
           k.reserved => account[o].reserved \/ ~Gate!Opening(o),
           ~account[o].reserved => k.booked = account[o].booked \/ ~Gate!Opening(o)
    PROVE  LimitInv'
<1>1. account'[o] = k /\ \A x \in GateOrders : x # o => account'[x] = account[x]
  BY DEF Gate!GateTypeOK
<1>2. ASSUME NEW x \in GateOrders
      PROVE  /\ MayHold(account')[x] \in Int /\ MayHold(account)[x] \in Int
             /\ Gate!Opening(x) = TRUE => MayHold(account')[x] <= MayHold(account)[x]
             /\ Gate!Opening(x) = FALSE => MayHold(account)[x] <= MayHold(account')[x]
  <2>1. /\ MayHold(account')[x] = IF Gate!Opening(x) /\ account'[x].reserved THEN GateTerms[x].qty ELSE account'[x].booked
        /\ MayHold(account)[x] = IF Gate!Opening(x) /\ account[x].reserved THEN GateTerms[x].qty ELSE account[x].booked
    BY DEF MayHold
  <2>2. /\ account[x].booked \in Nat /\ account[x].reserved \in BOOLEAN /\ GateTerms[x].qty \in Nat
        /\ Gate!Opening(x) \in BOOLEAN
    BY KnownTyped, GateTermsTyped
  <2>3. CASE x = o
    BY <1>1, <2>1, <2>2, <2>3
  <2>4. CASE x # o
    BY <1>1, <2>1, <2>2, <2>4
  <2> QED BY <2>3, <2>4
<1>3. ASSUME NEW side \in {"long", "short"}
      PROVE  Gate!Position(side, MayHold(account')) <= MaxPosition
  <2>1. Gate!Position(side, MayHold(account')) <= Gate!Position(side, MayHold(account))
    BY <1>2, OrdersOnFinite, PositionAtMost
  <2>2. Gate!Position(side, MayHold(account)) <= MaxPosition
    BY DEF LimitInv
  <2>3. /\ Gate!Position(side, MayHold(account')) \in Int /\ Gate!Position(side, MayHold(account)) \in Int
        /\ MaxPosition \in Int
    <3>1. Gate!Position(side, MayHold(account')) \in Int
      BY <1>2, PositionInt
    <3>2. Gate!Position(side, MayHold(account)) \in Int
      BY <1>2, PositionInt
    <3> QED BY <3>1, <3>2, GateAssumption
  <2> QED BY <2>1, <2>2, <2>3
<1>4. (\A side \in {"long", "short"} : Gate!Position(side, MayHold(account)) <= MaxPosition)'
      <=> \A side \in {"long", "short"} : Gate!Position(side, MayHold(account')) <= MaxPosition
  BY PositionIs DEF MayHold
<1> QED BY <1>3, <1>4 DEF LimitInv

\* An opening order that is submitted may bring in all its lots, and they fit.
LEMMA OpenedMayBeHeld ==
    ASSUME GateInv, Gate!GateTypeOK', NEW o \in GateOrders, NEW k,
           account' = [account EXCEPT ![o] = k], k.reserved = TRUE, k.booked = 0, account[o].booked = 0,
           account[o].reserved = FALSE, Gate!Opening(o), Gate!WithinLimits(o)
    PROVE  LimitInv'
<1>0. Gate!GateTypeOK
  BY DEF GateInv
<1>1. account'[o] = k /\ \A x \in GateOrders : x # o => account'[x] = account[x]
  BY <1>0 DEF Gate!GateTypeOK
<1> DEFINE f == MayHold(account)
           g == MayHold(account')
           q == GateTerms[o].qty
<1>2. /\ \A x \in GateOrders : x # o => g[x] = f[x]
      /\ g[o] = q /\ f[o] = 0 /\ q \in Nat
  BY <1>1, GateTermsTyped DEF MayHold
<1> HIDE DEF g
<1>3. \A x \in GateOrders : f[x] \in Int /\ g[x] \in Int
  <2>1. \A x \in GateOrders : f[x] \in Nat
    BY <1>0, MayHoldTyped
  <2> QED BY <1>2, <2>1
<1> HIDE DEF f
<1>4. Gate!Position(Gate!TargetOf(o), f) + q <= MaxPosition
  <2>1. Gate!HeldBy(Gate!TargetOf(o)) + Gate!Pending(Gate!TargetOf(o)) + q <= MaxPosition
    BY DEF Gate!WithinLimits, Gate!QtyOf
  <2>2. Gate!HeldBy(Gate!TargetOf(o)) + Gate!Pending(Gate!TargetOf(o)) = Gate!Position(Gate!TargetOf(o), f)
    BY <1>0, PendingIsWorst DEF f
  <2> QED BY <2>1, <2>2
<1>5. ASSUME NEW side \in {"long", "short"}
      PROVE  Gate!Position(side, g) <= MaxPosition
  <2> DEFINE Op == Gate!OrdersOn(side, TRUE)
             Cl == Gate!OrdersOn(side, FALSE)
  <2>1. /\ IsFiniteSet(Op) /\ IsFiniteSet(Cl) /\ Op \in SUBSET GateOrders /\ Cl \in SUBSET GateOrders
        /\ o \notin Cl
    BY OrdersOnFinite
  <2>2. o \in Op <=> Gate!TargetOf(o) = side
    BY DEF Gate!OrdersOn
  <2>3. /\ Gate!Position(side, f) = HeldOn(side) + Total(f, Op) - Total(f, Cl)
        /\ Gate!Position(side, g) = HeldOn(side) + Total(g, Op) - Total(g, Cl)
    BY PositionIs
  <2>4. Gate!Position(side, f) <= MaxPosition
    BY DEF GateInv, LimitInv, f
  <2> HIDE DEF Op, Cl
  <2>5. Total(g, Cl) = Total(f, Cl)
    BY <1>2, <2>1, TotalSame
  <2>6. HeldOn(side) \in Int /\ Total(f, Op) \in Int /\ Total(f, Cl) \in Int
    <3>1. Total(f, Op) \in Int
      BY <1>3, <2>1, TotalType
    <3>2. Total(f, Cl) \in Int
      BY <1>3, <2>1, TotalType
    <3> QED BY <3>1, <3>2, GateAssumption DEF HeldOn
  <2>7. CASE Gate!TargetOf(o) = side
    <3>1. Total(g, Op) = Total(f, Op) + g[o] - f[o]
      <4>1. o \in Op /\ \A x \in Op : f[x] \in Int /\ g[x] \in Int
        BY <1>3, <2>1, <2>2, <2>7
      <4>2. \A x \in Op : x # o => g[x] = f[x]
        BY <1>2, <2>1
      <4> QED BY <2>1, <4>1, <4>2, TotalChanged
    <3>2. Gate!Position(side, g) = Gate!Position(side, f) + q
      BY <1>2, <2>3, <2>5, <2>6, <3>1
    <3> QED BY <1>4, <2>7, <3>2
  <2>8. CASE Gate!TargetOf(o) # side
    <3>1. Total(g, Op) = Total(f, Op)
      BY <1>2, <2>1, <2>2, <2>8, TotalSame
    <3> QED BY <2>3, <2>4, <2>5, <3>1
  <2> QED BY <2>7, <2>8
<1>6. (\A side \in {"long", "short"} : Gate!Position(side, MayHold(account)) <= MaxPosition)'
      <=> \A side \in {"long", "short"} : Gate!Position(side, MayHold(account')) <= MaxPosition
  BY PositionIs DEF MayHold
<1> QED BY <1>5, <1>6 DEF LimitInv, g

LEMMA SubmitKeeps ==
    ASSUME GateInv, NEW o \in GateOrders, NEW ok \in BOOLEAN, Gate!Submit(o, ok)
    PROVE  GateInv'
<1> DEFINE k == [account[o] EXCEPT !.status = IF ok THEN "SUBMITTING" ELSE "REJECTED", !.reserved = ok]
           e == [exchange[o] EXCEPT !.state = IF ok THEN "sent" ELSE @]
<1>0. Gate!GateTypeOK
  BY DEF GateInv
<1>1. /\ account[o].status = "ABSENT" /\ Gate!Allowed(o)
      /\ account' = [account EXCEPT ![o] = k] /\ exchange' = [exchange EXCEPT ![o] = e]
      /\ UNCHANGED <<openLots, cancelled, asking, told>>
  BY <1>0 DEF Gate!Submit, Gate!GateTypeOK
<1>2. /\ account[o].reserved = FALSE /\ account[o].booked = 0 /\ account[o].cum = 0
      /\ exchange[o].state = "none" /\ exchange[o].traded = 0
  <2>1. KnownIsTrue(account[o], exchange[o], GateTerms[o].qty)
    BY DEF GateInv
  <2>2. account[o].booked \in Nat /\ account[o].cum \in Nat /\ account[o].reserved \in BOOLEAN
    BY <1>0, KnownTyped
  <2> QED BY <1>1, <2>1, <2>2 DEF KnownIsTrue
<1>3. /\ k \in Gate!Known /\ k.booked = 0 /\ k.cum = 0 /\ k.reserved = ok
      /\ k.status = IF ok THEN "SUBMITTING" ELSE "REJECTED"
      /\ e \in Gate!AtBroker /\ e.traded = 0 /\ e.state = IF ok THEN "sent" ELSE "none"
  <2>1. account[o] \in Gate!Known /\ exchange[o] \in Gate!AtBroker
    BY <1>0, KnownTyped
  <2>2. /\ k \in Gate!Known /\ k.booked = account[o].booked /\ k.cum = account[o].cum /\ k.reserved = ok
        /\ k.status = IF ok THEN "SUBMITTING" ELSE "REJECTED"
    BY <2>1 DEF Gate!Known, Gate!Finals
  <2>3. e \in Gate!AtBroker /\ e.traded = exchange[o].traded /\ e.state = IF ok THEN "sent" ELSE exchange[o].state
    BY <2>1 DEF Gate!AtBroker
  <2> QED BY <1>2, <2>2, <2>3
<1> HIDE DEF k, e
<1>4. Gate!GateTypeOK'
  BY <1>0, <1>1, <1>3 DEF Gate!GateTypeOK
<1>5. /\ account'[o] = k /\ exchange'[o] = e
      /\ \A x \in GateOrders : x # o => account'[x] = account[x] /\ exchange'[x] = exchange[x]
  BY <1>0, <1>1 DEF Gate!GateTypeOK
<1>6. ASSUME NEW x \in GateOrders
      PROVE  KnownIsTrue(account'[x], exchange'[x], GateTerms[x].qty)
  <2>1. CASE x = o
    BY <1>3, <1>5, <2>1, GateTermsTyped DEF KnownIsTrue, Gate!Finals
  <2>2. CASE x # o
    BY <1>5, <2>2 DEF GateInv
  <2> QED BY <2>1, <2>2
<1>7. ASSUME NEW r \in told
      PROVE  ToldIsTrue(r, exchange'[r.order])
  <2>1. r.order \in GateOrders /\ ToldIsTrue(r, exchange[r.order])
    BY <1>0 DEF GateInv, Gate!GateTypeOK, Gate!Told
  <2>2. r.order # o
    BY <1>2, <2>1 DEF ToldIsTrue
  <2> QED BY <1>5, <2>1, <2>2
<1>8. LimitInv'
  <2>1. CASE ok /\ Gate!Opening(o)
    <3>1. Gate!WithinLimits(o)
      BY <1>1, <2>1 DEF Gate!Allowed
    <3> QED BY <1>1, <1>2, <1>3, <1>4, <2>1, <3>1, OpenedMayBeHeld
  <2>2. CASE ~ok \/ ~Gate!Opening(o)
    <3>1. /\ k.reserved \in BOOLEAN /\ k.booked \in Nat /\ k.booked <= GateTerms[o].qty
          /\ account[o].booked <= k.booked /\ LimitInv
          /\ k.reserved => account[o].reserved \/ ~Gate!Opening(o)
          /\ ~account[o].reserved => k.booked = account[o].booked \/ ~Gate!Opening(o)
      BY <1>2, <1>3, <2>2, GateTermsTyped DEF GateInv
    <3> QED BY <1>0, <1>1, <1>4, <3>1, LessMayBeHeld
  <2> QED BY <2>1, <2>2
<1>9. Gate!NoSelfTrade'
  <2>1. ASSUME NEW x \in GateOrders, NEW y \in GateOrders,
               {exchange'[x].state, exchange'[y].state} \subseteq {"sent", "working"}
        PROVE  ~Gate!Crosses(x, y)
    <3>1. CASE x # o /\ y # o
      BY <1>5, <2>1, <3>1 DEF GateInv, Gate!NoSelfTrade
    <3>2. CASE x = o /\ y = o
      BY <3>2, CrossesBoth
    <3>3. ASSUME NEW z \in {x, y}, z # o
          PROVE  ~Gate!Crosses(o, z)
      <4>1. z \in GateOrders /\ exchange[z].state \in {"sent", "working"}
        BY <1>5, <2>1, <3>3
      <4>2. Gate!Active(z)
        BY <4>1, AtBrokerIsActive
      <4> QED BY <1>1, <4>1, <4>2 DEF Gate!Allowed, Gate!SelfTrade
    <3> QED BY <3>1, <3>2, <3>3, CrossesBoth
  <2> QED BY <2>1 DEF Gate!NoSelfTrade, Gate!Crosses
<1>10. \A r \in told' : ToldIsTrue(r, exchange'[r.order])
  BY <1>1, <1>7
<1> QED BY <1>4, <1>6, <1>8, <1>9, <1>10 DEF GateInv, KnownIsTrue, ToldIsTrue

\* Gate steps that leave the account's picture alone.
LEMMA StillWithin ==
    ASSUME LimitInv, UNCHANGED account
    PROVE  LimitInv'
<1>1. \A side \in {"long", "short"} :
         (Gate!Position(side, MayHold(account)))' = Gate!Position(side, MayHold(account'))
  BY PositionIs DEF MayHold
<1> QED BY <1>1 DEF LimitInv

\* An order that the broker has no more of is not of two that cross.
LEMMA StillApart ==
    ASSUME Gate!NoSelfTrade,
           \A o \in GateOrders : exchange'[o].state \in {"sent", "working"} => exchange[o].state \in {"sent", "working"}
    PROVE  Gate!NoSelfTrade'
BY DEF Gate!NoSelfTrade, Gate!Crosses

\* A step of the broker on an order that he has.
LEMMA BrokerKeeps ==
    ASSUME GateInv, NEW o \in GateOrders, NEW e \in Gate!AtBroker,
           exchange' = [exchange EXCEPT ![o] = e],
           NEW r \in Gate!Told, r.order = o, told' = told \union {r},
           UNCHANGED <<account, openLots, cancelled, asking>>,
           exchange[o].state \in {"sent", "working"},
           KnownIsTrue(account[o], e, GateTerms[o].qty), ToldIsTrue(r, e), e.traded >= exchange[o].traded,
           exchange[o].state = "sent" => ~\E x \in told : x.order = o
    PROVE  GateInv'
<1>0. Gate!GateTypeOK
  BY DEF GateInv
<1>1. Gate!GateTypeOK'
  BY <1>0 DEF Gate!GateTypeOK
<1>2. exchange'[o] = e /\ \A x \in GateOrders : x # o => exchange'[x] = exchange[x]
  BY <1>0 DEF Gate!GateTypeOK
<1>3. \A x \in GateOrders : KnownIsTrue(account'[x], exchange'[x], GateTerms[x].qty)
  BY <1>2 DEF GateInv
<1>4. ASSUME NEW x \in told'
      PROVE  ToldIsTrue(x, exchange'[x.order])
  <2>1. CASE x = r
    BY <1>2, <2>1
  <2>2. CASE x \in told
    <3>1. x \in Gate!Told /\ x.order \in GateOrders /\ ToldIsTrue(x, exchange[x.order]) /\ x.filled \in Nat
      BY <1>0, <2>2 DEF GateInv, Gate!GateTypeOK, Gate!Told
    <3>2. CASE x.order # o
      BY <1>2, <3>1, <3>2
    <3>3. CASE x.order = o
      <4>1. exchange[o].state = "working" /\ x.filled <= exchange[o].traded /\ x.status \notin Gate!Finals
        BY <2>2, <3>1, <3>3 DEF ToldIsTrue
      <4>2. exchange[o].traded \in Nat /\ e.traded \in Nat
        BY <1>0, KnownTyped DEF Gate!AtBroker
      <4>3. e.state \in {"working", "done"}
        BY DEF ToldIsTrue
      <4> QED BY <1>2, <3>1, <3>3, <4>1, <4>2, <4>3 DEF ToldIsTrue
    <3> QED BY <3>2, <3>3
  <2> QED BY <2>1, <2>2
<1>5. LimitInv'
  BY StillWithin DEF GateInv
<1>6. Gate!NoSelfTrade'
  BY <1>2, StillApart DEF GateInv
<1> QED BY <1>1, <1>3, <1>4, <1>5, <1>6 DEF GateInv, KnownIsTrue, ToldIsTrue

LEMMA BrokerTakesKeeps ==
    ASSUME GateInv, NEW o \in GateOrders, NEW ok \in BOOLEAN, Gate!BrokerTakes(o, ok)
    PROVE  GateInv'
<1> DEFINE e == [exchange[o] EXCEPT !.state = IF ok THEN "working" ELSE "done"]
           r == [order |-> o, status |-> IF ok THEN "ACCEPTED" ELSE "REJECTED", filled |-> 0, fresh |-> TRUE]
<1>0. Gate!GateTypeOK /\ KnownIsTrue(account[o], exchange[o], GateTerms[o].qty)
  BY DEF GateInv
<1>1. /\ exchange[o].state = "sent" /\ exchange' = [exchange EXCEPT ![o] = e] /\ told' = told \union {r}
      /\ UNCHANGED <<account, openLots, cancelled, asking>>
  BY <1>0 DEF Gate!BrokerTakes, Gate!Says, Gate!GateTypeOK
<1>2. /\ e \in Gate!AtBroker /\ e.traded = exchange[o].traded /\ e.state = IF ok THEN "working" ELSE "done"
      /\ r \in Gate!Told /\ r.order = o /\ r.filled = 0 /\ r.status = IF ok THEN "ACCEPTED" ELSE "REJECTED"
  <2>1. exchange[o] \in Gate!AtBroker
    BY <1>0, KnownTyped
  <2> QED BY <2>1 DEF Gate!AtBroker, Gate!Told, Gate!Finals
<1> HIDE DEF e, r
<1>3. exchange[o].traded = 0 /\ account[o].status \notin Gate!Finals /\ account[o].reserved
  BY <1>0, <1>1, KnownTyped DEF KnownIsTrue
<1>4. KnownIsTrue(account[o], e, GateTerms[o].qty)
  BY <1>0, <1>1, <1>2, <1>3, GateTermsTyped DEF KnownIsTrue
<1>5. ToldIsTrue(r, e)
  BY <1>2, <1>3 DEF ToldIsTrue, Gate!Finals
<1>6. ~\E x \in told : x.order = o
  BY <1>1 DEF GateInv, ToldIsTrue
<1>7. e.traded >= exchange[o].traded
  BY <1>2, <1>3
<1> QED BY <1>1, <1>2, <1>4, <1>5, <1>6, <1>7, BrokerKeeps

LEMMA BrokerTradesKeeps ==
    ASSUME GateInv, NEW o \in GateOrders, Gate!BrokerTrades(o)
    PROVE  GateInv'
<1> DEFINE n == exchange[o].traded + 1
           q == GateTerms[o].qty
           e == [state |-> IF n = q THEN "done" ELSE "working", traded |-> n]
           r == [order |-> o, status |-> IF n = q THEN "FILLED" ELSE "PARTIALLY_FILLED", filled |-> n, fresh |-> TRUE]
<1>0. Gate!GateTypeOK /\ KnownIsTrue(account[o], exchange[o], q)
  BY DEF GateInv
<1>1. /\ exchange[o].state = "working" /\ exchange' = [exchange EXCEPT ![o] = e] /\ told' = told \union {r}
      /\ UNCHANGED <<account, openLots, cancelled, asking>>
  BY DEF Gate!BrokerTrades, Gate!Says, Gate!QtyOf
<1>2. n \in Nat /\ q \in Nat /\ exchange[o].traded \in Nat /\ n = exchange[o].traded + 1
  BY <1>0, KnownTyped, GateTermsTyped
<1>3. /\ e \in Gate!AtBroker /\ e.traded = n /\ e.state = IF n = q THEN "done" ELSE "working"
      /\ r \in Gate!Told /\ r.order = o /\ r.filled = n /\ r.status = IF n = q THEN "FILLED" ELSE "PARTIALLY_FILLED"
  BY <1>2 DEF Gate!AtBroker, Gate!Told, Gate!Finals
<1> HIDE DEF e, r, n, q
<1>4. /\ exchange[o].traded < q /\ account[o].status \notin Gate!Finals /\ account[o].reserved
      /\ account[o].booked \in Nat /\ account[o].cum \in Nat
  BY <1>0, <1>1, KnownTyped DEF KnownIsTrue
<1>5. KnownIsTrue(account[o], e, q)
  BY <1>0, <1>1, <1>2, <1>3, <1>4 DEF KnownIsTrue
<1>6. ToldIsTrue(r, e)
  BY <1>2, <1>3 DEF ToldIsTrue, Gate!Finals
<1>7. e.traded >= exchange[o].traded
  BY <1>2, <1>3
<1> QED BY <1>1, <1>3, <1>5, <1>6, <1>7, BrokerKeeps DEF q

LEMMA BrokerCancelsKeeps ==
    ASSUME GateInv, NEW o \in GateOrders, Gate!BrokerCancels(o)
    PROVE  GateInv'
<1> DEFINE e == [exchange[o] EXCEPT !.state = "done"]
           r == [order |-> o, status |-> "CANCELLED", filled |-> exchange[o].traded, fresh |-> TRUE]
<1>0. Gate!GateTypeOK /\ KnownIsTrue(account[o], exchange[o], GateTerms[o].qty)
  BY DEF GateInv
<1>1. /\ exchange[o].state = "working" /\ exchange' = [exchange EXCEPT ![o] = e] /\ told' = told \union {r}
      /\ UNCHANGED <<account, openLots, cancelled, asking>>
  BY <1>0 DEF Gate!BrokerCancels, Gate!Says, Gate!GateTypeOK
<1>2. /\ e \in Gate!AtBroker /\ e.traded = exchange[o].traded /\ e.state = "done" /\ exchange[o].traded \in Nat
      /\ r \in Gate!Told /\ r.order = o /\ r.filled = exchange[o].traded /\ r.status = "CANCELLED"
  <2>1. exchange[o] \in Gate!AtBroker /\ exchange[o].traded \in Nat
    BY <1>0, KnownTyped
  <2> QED BY <2>1 DEF Gate!AtBroker, Gate!Told, Gate!Finals
<1> HIDE DEF e, r
<1>3. account[o].status \notin Gate!Finals /\ account[o].reserved
  BY <1>0, <1>1, KnownTyped DEF KnownIsTrue
<1>4. KnownIsTrue(account[o], e, GateTerms[o].qty)
  BY <1>0, <1>1, <1>2, <1>3 DEF KnownIsTrue
<1>5. ToldIsTrue(r, e)
  BY <1>2 DEF ToldIsTrue
<1>6. e.traded >= exchange[o].traded
  BY <1>2
<1> QED BY <1>1, <1>2, <1>4, <1>5, <1>6, BrokerKeeps

LEMMA GateCancelKeeps ==
    ASSUME GateInv, NEW o \in GateOrders, Gate!RequestCancel(o)
    PROVE  GateInv'
<1>1. asking' = asking \union {o} /\ UNCHANGED <<account, openLots, cancelled, exchange, told>>
  BY DEF Gate!RequestCancel
<1>2. Gate!GateTypeOK'
  BY <1>1 DEF GateInv, Gate!GateTypeOK
<1>3. LimitInv'
  BY <1>1, StillWithin DEF GateInv
<1>4. Gate!NoSelfTrade'
  BY <1>1, StillApart DEF GateInv
<1> QED BY <1>1, <1>2, <1>3, <1>4 DEF GateInv, KnownIsTrue, ToldIsTrue

\* What a report changes: more is known to be filled, a final state stays, and the lots
\* are let go when no trade is missing.
LEMMA ReportedIs ==
    ASSUME NEW k \in Gate!Known, NEW o, NEW r \in Gate!Told, NEW e \in Gate!AtBroker, NEW q \in Nat,
           KnownIsTrue(k, e, q), ToldIsTrue(r, e)
    PROVE  /\ Gate!Reported(k, o, r) \in Gate!Known /\ KnownIsTrue(Gate!Reported(k, o, r), e, q)
           /\ Gate!Reported(k, o, r).booked = k.booked
           /\ Gate!Reported(k, o, r).reserved => k.reserved
<1> DEFINE cum == Gate!AtLeast(k.cum, r.filled)
           status == IF k.status \in Gate!Finals THEN k.status ELSE r.status
           known == [k EXCEPT !.cum = cum, !.status = status]
           n == Gate!Reported(k, o, r)
<1>1. /\ k.cum \in Nat /\ k.booked \in Nat /\ k.reserved \in BOOLEAN /\ r.filled \in Nat /\ e.traded \in Nat
      /\ e.state \in {"none", "sent", "working", "done"}
      /\ r.status \in {"ACCEPTED", "PARTIALLY_FILLED"} \union Gate!Finals
      /\ k.status \in {"ABSENT", "SUBMITTING", "ACCEPTED", "PARTIALLY_FILLED"} \union Gate!Finals
  BY DEF Gate!Known, Gate!Told, Gate!AtBroker
<1>2. cum \in Nat /\ cum >= k.cum /\ cum >= r.filled /\ cum \in {k.cum, r.filled}
  BY <1>1 DEF Gate!AtLeast
<1>3. /\ status \in {"ABSENT", "SUBMITTING", "ACCEPTED", "PARTIALLY_FILLED"} \union Gate!Finals
      /\ status = IF k.status \in Gate!Finals THEN k.status ELSE r.status
  BY <1>1
<1>4. n = IF r.status \in {"CANCELLED", "REJECTED"} THEN [known EXCEPT !.reserved = Gate!StillReserved(known)] ELSE known
  BY DEF Gate!Reported
<1> HIDE DEF n, cum, status
<1>5. /\ known \in Gate!Known /\ known.cum = cum /\ known.status = status /\ known.booked = k.booked
      /\ known.reserved = k.reserved
  BY <1>2, <1>3 DEF Gate!Known
<1>6. Gate!StillReserved(known) \in BOOLEAN /\ (Gate!StillReserved(known) <=> k.reserved /\ k.booked < cum)
  BY <1>5 DEF Gate!StillReserved
<1> HIDE DEF known
<1>7. /\ n \in Gate!Known /\ n.cum = cum /\ n.status = status /\ n.booked = k.booked
      /\ n.reserved <=> IF r.status \in {"CANCELLED", "REJECTED"} THEN k.reserved /\ k.booked < cum ELSE k.reserved
  <2>1. CASE r.status \in {"CANCELLED", "REJECTED"}
    <3>1. n = [known EXCEPT !.reserved = Gate!StillReserved(known)]
      BY <1>4, <2>1
    <3>2. n \in Gate!Known /\ n.cum = known.cum /\ n.status = known.status /\ n.booked = known.booked
      BY <1>5, <1>6, <3>1 DEF Gate!Known
    <3>3. n.reserved = Gate!StillReserved(known)
      BY <1>5, <3>1 DEF Gate!Known
    <3> QED BY <1>5, <1>6, <2>1, <3>2, <3>3
  <2>2. CASE r.status \notin {"CANCELLED", "REJECTED"}
    BY <1>4, <1>5, <2>2
  <2> QED BY <2>1, <2>2
<1>8. cum <= e.traded /\ k.booked <= cum /\ (r.status \in Gate!Finals => cum = e.traded)
  BY <1>1, <1>2 DEF KnownIsTrue, ToldIsTrue
<1>9. status \in Gate!Finals => e.state \in {"none", "done"} /\ cum = e.traded
  <2>1. CASE k.status \in Gate!Finals
    BY <1>1, <1>2, <1>3, <1>8, <2>1 DEF KnownIsTrue
  <2>2. CASE k.status \notin Gate!Finals
    BY <1>3, <1>8, <2>2 DEF ToldIsTrue
  <2> QED BY <2>1, <2>2
<1>10. status # "ABSENT"
  BY <1>1, <1>3 DEF KnownIsTrue, ToldIsTrue, Gate!Finals
<1>11. ~n.reserved => e.state \in {"none", "done"} /\ e.traded = k.booked
  <2>1. CASE ~k.reserved
    BY <2>1 DEF KnownIsTrue
  <2>2. CASE k.reserved /\ ~n.reserved
    <3>1. r.status \in Gate!Finals /\ ~(k.booked < cum)
      BY <1>7, <2>2 DEF Gate!Finals
    <3> QED BY <1>1, <1>8, <3>1 DEF ToldIsTrue
  <2> QED BY <2>1, <2>2
<1>12. e.state \in {"none", "sent"} => e.traded = 0
  BY DEF KnownIsTrue
<1>13. KnownIsTrue(n, e, q)
  BY <1>7, <1>8, <1>9, <1>10, <1>11, <1>12 DEF KnownIsTrue
<1> QED BY <1>7, <1>13 DEF n

LEMMA ReceiveReportKeeps ==
    ASSUME GateInv, NEW r \in told, Gate!ReceiveReport(r)
    PROVE  GateInv'
<1> DEFINE o == r.order
           k == Gate!Reported(account[o], o, r)
<1>0. /\ Gate!GateTypeOK /\ LimitInv /\ r \in Gate!Told /\ o \in GateOrders
      /\ KnownIsTrue(account[o], exchange[o], GateTerms[o].qty) /\ ToldIsTrue(r, exchange[o])
  BY DEF GateInv, Gate!GateTypeOK, Gate!Told
<1>1. /\ account' = [account EXCEPT ![o] = k] /\ Gate!Counted(o, r) /\ UNCHANGED exchange
      /\ told' = (told \ {r}) \union (IF r.fresh THEN {[r EXCEPT !.fresh = FALSE]} ELSE {})
      /\ asking' = IF account'[o].status \in Gate!Finals THEN asking \ {o} ELSE asking
  BY DEF Gate!ReceiveReport
<1>2. /\ k \in Gate!Known /\ KnownIsTrue(k, exchange[o], GateTerms[o].qty)
      /\ k.booked = account[o].booked /\ (k.reserved => account[o].reserved)
  BY <1>0, KnownTyped, GateTermsTyped, ReportedIs
<1> DEFINE again == [r EXCEPT !.fresh = FALSE]
<1>3. again \in Gate!Told /\ again.order = o /\ again.status = r.status /\ again.filled = r.filled
  BY <1>0 DEF Gate!Told
<1>4. told' \subseteq told \union {again}
  BY <1>1
<1> HIDE DEF o, k, again
<1>5. account'[o] = k /\ (\A x \in GateOrders : x # o => account'[x] = account[x]) /\ account' \in [GateOrders -> Gate!Known]
  BY <1>0, <1>1, <1>2 DEF Gate!GateTypeOK
<1>6. openLots' \in Nat /\ cancelled' \in Nat
  <2>1. account'[o].cum \in Nat /\ GateTerms[o].qty \in Nat /\ openLots \in Nat /\ cancelled \in Nat
    BY <1>0, <1>2, <1>5, GateTermsTyped DEF Gate!Known, Gate!GateTypeOK
  <2>2. cancelled' = cancelled + (IF r.status = "CANCELLED" THEN 1 ELSE 0)
    BY <1>1 DEF Gate!Counted
  <2>3. openLots' \in {openLots, openLots + GateTerms[o].qty, 0}
        \/ (openLots > GateTerms[o].qty - account'[o].cum /\ openLots' = openLots - (GateTerms[o].qty - account'[o].cum))
    BY <1>1 DEF Gate!Counted, Gate!QtyOf
  <2> QED BY <2>1, <2>2, <2>3
<1>7. Gate!GateTypeOK'
  <2>1. told' \subseteq Gate!Told /\ asking' \subseteq GateOrders
    BY <1>0, <1>1, <1>3, <1>4 DEF Gate!GateTypeOK
  <2> QED BY <1>0, <1>1, <1>5, <1>6, <2>1 DEF Gate!GateTypeOK
<1>8. \A x \in GateOrders : KnownIsTrue(account'[x], exchange'[x], GateTerms[x].qty)
  BY <1>1, <1>2, <1>5 DEF GateInv
<1>9. ASSUME NEW x \in told'
      PROVE  ToldIsTrue(x, exchange'[x.order])
  <2>1. CASE x \in told
    BY <1>1, <2>1 DEF GateInv
  <2>2. CASE x = again
    BY <1>0, <1>1, <1>3, <2>2 DEF ToldIsTrue
  <2> QED BY <1>4, <2>1, <2>2
<1>10. LimitInv'
  <2>1. /\ k.reserved \in BOOLEAN /\ k.booked \in Nat /\ k.booked <= GateTerms[o].qty /\ account[o].booked <= k.booked
    <3>1. k.reserved \in BOOLEAN /\ k.booked \in Nat /\ k.cum \in Nat /\ exchange[o].traded \in Nat /\ GateTerms[o].qty \in Nat
      BY <1>0, <1>2, KnownTyped, GateTermsTyped DEF Gate!Known
    <3>2. k.booked <= k.cum /\ k.cum <= exchange[o].traded /\ exchange[o].traded <= GateTerms[o].qty
      BY <1>2 DEF KnownIsTrue
    <3> QED BY <1>2, <3>1, <3>2
  <2> QED BY <1>0, <1>1, <1>2, <1>7, <2>1, LessMayBeHeld
<1>11. Gate!NoSelfTrade'
  BY <1>1, StillApart DEF GateInv
<1> QED BY <1>7, <1>8, <1>9, <1>10, <1>11 DEF GateInv, KnownIsTrue, ToldIsTrue

\* A trade is booked: of an order that still has its lots, and with the last one they go.
LEMMA ReceiveTradeKeeps ==
    ASSUME GateInv, NEW o \in GateOrders, Gate!ReceiveTrade(o)
    PROVE  GateInv'
<1> DEFINE old == account[o]
           e == exchange[o]
           q == GateTerms[o].qty
           cum == Gate!AtLeast(old.cum, old.booked + 1)
           status == IF old.status \notin Gate!Finals /\ cum >= q THEN "FILLED" ELSE old.status
           fill == [old EXCEPT !.booked = @ + 1, !.cum = Gate!AtLeast(@, old.booked + 1),
                               !.status = IF @ \notin Gate!Finals /\ cum >= q THEN "FILLED" ELSE @]
           done == fill.status \in Gate!Finals /\ fill.cum = fill.booked
           k == [fill EXCEPT !.reserved = @ /\ ~done]
<1>0. Gate!GateTypeOK /\ LimitInv /\ KnownIsTrue(old, e, q)
  BY DEF GateInv
<1>1. /\ old.booked < e.traded /\ account' = [account EXCEPT ![o] = k]
      /\ asking' = IF fill.status \in Gate!Finals THEN asking \ {o} ELSE asking
      /\ UNCHANGED <<openLots, cancelled, exchange, told>>
  BY DEF Gate!ReceiveTrade, Gate!QtyOf
<1>2. /\ old \in Gate!Known /\ old.cum \in Nat /\ old.booked \in Nat /\ old.reserved \in BOOLEAN
      /\ e.traded \in Nat /\ e.state \in {"none", "sent", "working", "done"} /\ q \in Nat /\ q > 0
      /\ old.status \in {"ABSENT", "SUBMITTING", "ACCEPTED", "PARTIALLY_FILLED"} \union Gate!Finals
  BY <1>0, KnownTyped, GateTermsTyped DEF Gate!Known
<1>3. cum \in Nat /\ cum >= old.cum /\ cum >= old.booked + 1 /\ cum \in {old.cum, old.booked + 1}
  BY <1>2 DEF Gate!AtLeast
<1>4. /\ fill \in Gate!Known /\ fill.booked = old.booked + 1 /\ fill.cum = cum /\ fill.status = status
      /\ fill.reserved = old.reserved
  <2>1. fill = [old EXCEPT !.booked = old.booked + 1, !.cum = cum, !.status = status]
    BY <1>2 DEF Gate!Known
  <2>2. status \in {"ABSENT", "SUBMITTING", "ACCEPTED", "PARTIALLY_FILLED"} \union Gate!Finals /\ old.booked + 1 \in Nat
    BY <1>2 DEF Gate!Finals
  <2> HIDE DEF fill, cum, status
  <2> QED BY <1>2, <1>3, <2>1, <2>2 DEF Gate!Known
<1>5. /\ status = IF old.status \notin Gate!Finals /\ cum >= q THEN "FILLED" ELSE old.status
      /\ done \in BOOLEAN /\ (done <=> status \in Gate!Finals /\ cum = old.booked + 1)
  BY <1>4
<1> HIDE DEF cum, status, fill, done
<1>6. /\ k \in Gate!Known /\ k.booked = old.booked + 1 /\ k.cum = cum /\ k.status = status
      /\ k.reserved <=> old.reserved /\ ~done
  <2>1. (fill.reserved /\ ~done) \in BOOLEAN
    BY <1>4
  <2>2. k \in Gate!Known /\ k.booked = fill.booked /\ k.cum = fill.cum /\ k.status = fill.status
    BY <1>4, <2>1 DEF Gate!Known
  <2>3. k.reserved = (fill.reserved /\ ~done)
    BY <1>4 DEF Gate!Known
  <2> QED BY <1>4, <2>2, <2>3
<1> HIDE DEF k, old, e, q
<1>7. old.booked + 1 <= e.traded /\ cum <= e.traded /\ e.traded <= q /\ old.booked + 1 <= cum
  BY <1>0, <1>1, <1>2, <1>3 DEF KnownIsTrue
<1>8. e.state # "none" /\ e.state # "sent" /\ old.reserved /\ e.traded # 0
  BY <1>0, <1>1, <1>2 DEF KnownIsTrue
<1>9. status # "ABSENT"
  BY <1>0, <1>5, <1>8 DEF KnownIsTrue
<1>10. status \in Gate!Finals => e.state \in {"none", "done"} /\ cum = e.traded
  <2>1. CASE old.status \in Gate!Finals
    <3>1. e.state \in {"none", "done"} /\ old.cum = e.traded
      BY <1>0, <2>1 DEF KnownIsTrue
    <3> QED BY <1>2, <1>3, <1>7, <3>1
  <2>2. CASE old.status \notin Gate!Finals /\ cum >= q
    <3>1. cum = e.traded /\ e.traded = q
      BY <1>2, <1>3, <1>7, <2>2
    <3>2. e.state # "working"
      BY <1>0, <1>2, <3>1 DEF KnownIsTrue
    <3> QED BY <1>2, <1>8, <3>1, <3>2
  <2> QED BY <1>5, <2>1, <2>2
<1>11. KnownIsTrue(k, e, q)
  <2>1. ~k.reserved => e.state \in {"none", "done"} /\ e.traded = k.booked
    BY <1>5, <1>6, <1>8, <1>10
  <2>2. e.state = "working" => e.traded < q
    BY <1>0 DEF KnownIsTrue
  <2> QED BY <1>6, <1>7, <1>8, <1>9, <1>10, <2>1, <2>2 DEF KnownIsTrue
<1>12. /\ account'[o] = k /\ \A x \in GateOrders : x # o => account'[x] = account[x]
       /\ account' \in [GateOrders -> Gate!Known]
  BY <1>0, <1>1, <1>6 DEF Gate!GateTypeOK
<1>13. Gate!GateTypeOK'
  BY <1>0, <1>1, <1>12 DEF Gate!GateTypeOK
<1>14. \A x \in GateOrders : KnownIsTrue(account'[x], exchange'[x], GateTerms[x].qty)
  BY <1>1, <1>11, <1>12 DEF GateInv, e, q
<1>15. LimitInv'
  <2>1. /\ k.reserved \in BOOLEAN /\ k.booked \in Nat /\ k.booked <= q /\ old.booked <= k.booked
        /\ k.reserved => old.reserved
    BY <1>2, <1>6, <1>7 DEF Gate!Known
  <2> QED BY <1>0, <1>1, <1>8, <1>13, <2>1, LessMayBeHeld DEF old, q
<1>16. Gate!NoSelfTrade'
  BY <1>1, StillApart DEF GateInv
<1>17. \A r \in told' : ToldIsTrue(r, exchange'[r.order])
  BY <1>1 DEF GateInv
<1> QED BY <1>13, <1>14, <1>15, <1>16, <1>17 DEF GateInv, KnownIsTrue, ToldIsTrue

LEMMA StillGateInv ==
    ASSUME GateInv, UNCHANGED <<account, openLots, cancelled, asking, exchange, told>>
    PROVE  GateInv'
<1>1. Gate!GateTypeOK'
  BY DEF GateInv, Gate!GateTypeOK
<1>2. LimitInv'
  BY StillWithin DEF GateInv
<1>3. Gate!NoSelfTrade'
  BY StillApart DEF GateInv
<1> QED BY <1>1, <1>2, <1>3 DEF GateInv, KnownIsTrue, ToldIsTrue

\* What the broker may still trade is within what the account believes it may hold.
LEMMA GateHolds ==
    ASSUME GateInv
    PROVE  Gate!OrdersAreSafe
<1> DEFINE exposed == [o \in GateOrders |-> IF Gate!Opening(o) THEN Gate!Exposure(o) ELSE exchange[o].traded]
           worst == MayHold(account)
<1>0. Gate!GateTypeOK
  BY DEF GateInv
<1>1. ASSUME NEW o \in GateOrders
      PROVE  /\ exposed[o] \in Int /\ worst[o] \in Int
             /\ Gate!Opening(o) = TRUE => exposed[o] <= worst[o]
             /\ Gate!Opening(o) = FALSE => worst[o] <= exposed[o]
  <2>1. /\ account[o].booked \in Nat /\ account[o].cum \in Nat /\ exchange[o].traded \in Nat
        /\ GateTerms[o].qty \in Nat /\ account[o].reserved \in BOOLEAN
        /\ exchange[o].state \in {"none", "sent", "working", "done"} /\ Gate!Opening(o) \in BOOLEAN
    BY <1>0, KnownTyped, GateTermsTyped
  <2>2. KnownIsTrue(account[o], exchange[o], GateTerms[o].qty)
    BY DEF GateInv
  <2>3. worst[o] = IF Gate!Opening(o) /\ account[o].reserved THEN GateTerms[o].qty ELSE account[o].booked
    BY <1>0, MayHoldTyped
  <2>4. exposed[o] = IF Gate!Opening(o)
                     THEN exchange[o].traded + (IF exchange[o].state \in {"sent", "working"}
                                                THEN GateTerms[o].qty - exchange[o].traded ELSE 0)
                     ELSE exchange[o].traded
    BY DEF Gate!Exposure, Gate!QtyOf
  <2> HIDE DEF exposed, worst
  <2>5. CASE Gate!Opening(o) /\ account[o].reserved
    BY <2>1, <2>2, <2>3, <2>4, <2>5 DEF KnownIsTrue
  <2>6. CASE Gate!Opening(o) /\ ~account[o].reserved
    BY <2>1, <2>2, <2>3, <2>4, <2>6 DEF KnownIsTrue
  <2>7. CASE ~Gate!Opening(o)
    BY <2>1, <2>2, <2>3, <2>4, <2>7 DEF KnownIsTrue
  <2> QED BY <2>5, <2>6, <2>7
<1>2. ASSUME NEW side \in {"long", "short"}
      PROVE  Gate!Position(side, exposed) <= MaxPosition
  <2> HIDE DEF exposed, worst
  <2>1. Gate!Position(side, exposed) <= Gate!Position(side, worst)
    BY <1>1, OrdersOnFinite, PositionAtMost
  <2>2. Gate!Position(side, worst) <= MaxPosition
    BY DEF GateInv, LimitInv, worst
  <2>3. Gate!Position(side, exposed) \in Int
    BY <1>1, PositionInt
  <2>4. Gate!Position(side, worst) \in Int
    BY <1>1, PositionInt
  <2> QED BY <2>1, <2>2, <2>3, <2>4, GateAssumption
<1>3. Gate!HoldingLimitKept
  BY <1>2 DEF Gate!HoldingLimitKept
<1> QED BY <1>3 DEF Gate!OrdersAreSafe, GateInv

\* Whichever orders there are, in whatever order trades, reports and cancellations come and
\* however often: what the broker has traded for the account and may trade yet is within
\* the position limit, and no two of its orders there cross (RiskManager.check_and_reserve,
\* ExchangeLimits.check_order).
THEOREM OrdersAlwaysSafe == AccountSpec => []OrdersAreSafe
<1> DEFINE Inv == part = "gate" => GateInv
<1>1. AccountInit => Inv
  BY GateStart DEF AccountInit
<1>2. ASSUME Inv, [AccountNext]_accountVars
      PROVE  Inv'
  <2>1. CASE InGate(Gate!GateNext)
    <3>1. part = "gate" /\ part' = part /\ Gate!GateNext /\ GateInv
      BY <1>2, <2>1 DEF InGate
    <3> QED BY <3>1, SubmitKeeps, BrokerTakesKeeps, GateCancelKeeps, ReceiveTradeKeeps, BrokerTradesKeeps,
               BrokerCancelsKeeps, ReceiveReportKeeps
            DEF Gate!GateNext
  <2>2. CASE \/ InKernel(Next) \/ InPrograms(Programs!AssemblyNext) \/ InLedger(Ledger!LedgerNext)
             \/ InDay(Life!LifeNext) \/ InControls(ControlNext)
    BY <2>2 DEF InKernel, InPrograms, InLedger, InDay, InControls
  <2>3. CASE UNCHANGED accountVars
    BY <1>2, <2>3, StillGateInv DEF accountVars, gateVars
  <2> QED BY <1>2, <2>1, <2>2, <2>3 DEF AccountNext
<1>3. Inv => OrdersAreSafe
  BY GateHolds DEF OrdersAreSafe
<1> QED BY <1>1, <1>2, <1>3, PTL DEF AccountSpec

-------------------------------------------------------------------------------
(* What lots have earned *)

TradeSides == Ledger!TradeSides
Lots == Seq(Ledger!Lot)
Gains(held, s) == [n \in DOMAIN held |-> Ledger!Sign[s] * (held[n].basis - held[n].price)]

\* The sum the model takes is the one of Sums_proofs.
LEMMA LedgerSum ==
    ASSUME NEW f
    PROVE  Ledger!SumOf(f) = Total(f, DOMAIN f)
<1> DEFINE next(s) == CHOOSE x \in s : TRUE
           u == CHOOSE t : t = [s \in SUBSET DOMAIN f |-> IF s = {} THEN 0 ELSE f[next(s)] + t[s \ {next(s)}]]
<1>1. u = CHOOSE t : Totals(t, f, DOMAIN f)
  BY DEF Totals
<1>2. Ledger!SumOf(f) = u[DOMAIN f]
  BY DEF Ledger!SumOf, Ledger!MapThenSumSet, Ledger!MapThenFoldSet
<1> HIDE DEF u
<1> QED BY <1>1, <1>2 DEF Total

\* A long lot gains what a short one loses.
LEMMA SignIs == \A s \in TradeSides : Ledger!Sign[s] \in {-1, 1}
BY DEF TradeSides, Ledger!TradeSides, Ledger!Sign

\* A price is a number, and not the one that stands for none.
LEMMA PricesAre == \A p \in Prices : p \in Int /\ p # 0
BY LedgerAssumption

\* The prices of a lot are numbers.
LEMMA LotFields ==
    ASSUME NEW lot \in Ledger!Lot
    PROVE  lot.basis \in Int /\ lot.price \in Int
BY PricesAre DEF Ledger!Lot

\* The gains of lots are numbers, one for each.
LEMMA GainsAre ==
    ASSUME NEW held \in Lots, NEW s \in TradeSides
    PROVE  /\ DOMAIN held = 1..Len(held) /\ Len(held) \in Nat /\ IsFiniteSet(DOMAIN held)
           /\ DOMAIN Gains(held, s) = DOMAIN held
           /\ \A n \in DOMAIN held : held[n] \in Ledger!Lot /\ Gains(held, s)[n] \in Int
           /\ Ledger!Earned(held, s) = Total(Gains(held, s), DOMAIN held)
           /\ Ledger!Earned(held, s) \in Int
<1>1. DOMAIN held = 1..Len(held) /\ Len(held) \in Nat /\ IsFiniteSet(DOMAIN held)
  BY FS_Interval DEF Lots
<1>2. \A n \in DOMAIN held : held[n] \in Ledger!Lot
  BY <1>1 DEF Lots
<1>3. \A n \in DOMAIN held : Gains(held, s)[n] \in Int
  BY <1>2, LotFields, SignIs DEF Gains
<1>4. Ledger!Earned(held, s) = Total(Gains(held, s), DOMAIN held)
  <2>1. DOMAIN Gains(held, s) = DOMAIN held /\ Ledger!Earned(held, s) = Ledger!SumOf(Gains(held, s))
    BY DEF Gains, Ledger!Earned
  <2> QED BY <2>1, LedgerSum
<1> QED BY <1>1, <1>2, <1>3, <1>4, TotalType DEF Gains

\* A lot that is added adds what lies between its price and its basis.
LEMMA EarnedAppended ==
    ASSUME NEW held \in Lots, NEW s \in TradeSides, NEW lot \in Ledger!Lot
    PROVE  /\ Append(held, lot) \in Lots
           /\ Ledger!Earned(Append(held, lot), s)
                = Ledger!Earned(held, s) + Ledger!Sign[s] * (lot.basis - lot.price)
<1> DEFINE longer == Append(held, lot)
           n == Len(held) + 1
           f == Gains(longer, s)
<1>1. /\ longer \in Lots /\ Len(longer) = n /\ longer[n] = lot
      /\ \A k \in 1..Len(held) : longer[k] = held[k]
  BY AppendProperties DEF Lots
<1> HIDE DEF longer
<1>2. /\ DOMAIN held = 1..Len(held) /\ Len(held) \in Nat /\ IsFiniteSet(DOMAIN held)
      /\ Ledger!Earned(held, s) = Total(Gains(held, s), DOMAIN held)
  BY GainsAre
<1>3. /\ DOMAIN longer = 1..n /\ \A k \in 1..n : f[k] \in Int
      /\ Ledger!Earned(longer, s) = Total(f, 1..n)
  BY <1>1, GainsAre
<1>4. 1..n = (1..Len(held)) \union {n} /\ n \notin 1..Len(held)
  BY <1>2
<1>5. Total(f, 1..n) = f[n] + Total(f, 1..Len(held))
  <2> HIDE DEF f, n
  <2> QED BY <1>2, <1>3, <1>4, TotalWith
<1>6. Total(f, 1..Len(held)) = Total(Gains(held, s), 1..Len(held))
  <2>1. \A k \in 1..Len(held) : f[k] = Gains(held, s)[k]
    BY <1>1, <1>2, <1>3, <1>4 DEF Gains
  <2> HIDE DEF f
  <2> QED BY <1>2, <2>1, TotalSame
<1>7. f[n] = Ledger!Sign[s] * (lot.basis - lot.price)
  BY <1>1, <1>3, <1>4 DEF Gains
<1>8. Total(Gains(held, s), 1..Len(held)) \in Int /\ f[n] \in Int
  BY <1>2, <1>3, <1>4, GainsAre
<1> QED BY <1>1, <1>2, <1>3, <1>5, <1>6, <1>7, <1>8 DEF longer

\* A lot that is taken out takes what it has earned; those behind it move up.
LEMMA EarnedRemoved ==
    ASSUME NEW held \in Lots, NEW s \in TradeSides, NEW n \in DOMAIN held
    PROVE  /\ Ledger!RemoveAt(held, n) \in Lots
           /\ Ledger!Earned(Ledger!RemoveAt(held, n), s)
                = Ledger!Earned(held, s) - Ledger!Sign[s] * (held[n].basis - held[n].price)
<1> DEFINE rest == Ledger!RemoveAt(held, n)
           last == Len(held)
           f == Gains(held, s)
           g == Gains(rest, s)
           h == [k \in 1..(last - 1) |-> IF k < n THEN k ELSE k + 1]
<1>1. /\ DOMAIN held = 1..last /\ last \in Nat /\ n \in 1..last
      /\ \A k \in 1..last : f[k] \in Int /\ held[k] \in Ledger!Lot
      /\ Ledger!Earned(held, s) = Total(f, 1..last)
  BY GainsAre
<1>2. /\ rest \in Lots /\ Len(rest) = last - 1
      /\ \A k \in 1..(last - 1) : rest[k] = held[h[k]]
  <2> DEFINE a == SubSeq(held, 1, n - 1)
             z == SubSeq(held, n + 1, last)
  <2>1. /\ a \in Seq(Ledger!Lot) /\ Len(a) = n - 1 /\ \A k \in 1..(n - 1) : a[k] = held[k]
    BY <1>1, SubSeqProperties
  <2>2. /\ z \in Seq(Ledger!Lot) /\ Len(z) = last - n /\ \A k \in 1..(last - n) : z[k] = held[n + k]
    BY <1>1, SubSeqProperties
  <2>3. rest = a \o z
    BY DEF Ledger!RemoveAt
  <2> HIDE DEF a, z, rest
  <2>4. /\ rest \in Seq(Ledger!Lot) /\ Len(rest) = last - 1
        /\ \A k \in 1..(last - 1) : rest[k] = IF k <= n - 1 THEN a[k] ELSE z[k - (n - 1)]
    <3>1. (n - 1) + (last - n) = last - 1
      BY <1>1
    <3>2. /\ rest \in Seq(Ledger!Lot) /\ Len(rest) = Len(a) + Len(z)
          /\ \A k \in 1..(Len(a) + Len(z)) : rest[k] = IF k <= Len(a) THEN a[k] ELSE z[k - Len(a)]
      BY <2>1, <2>2, <2>3, ConcatProperties
    <3> QED BY <2>1, <2>2, <3>1, <3>2
  <2>5. ASSUME NEW k \in 1..(last - 1) PROVE rest[k] = held[h[k]]
    <3>1. CASE k < n
      BY <1>1, <2>1, <2>4, <3>1
    <3>2. CASE ~(k < n)
      <4>1. k - (n - 1) \in 1..(last - n) /\ n + (k - (n - 1)) = k + 1
        BY <1>1, <3>2
      <4>2. rest[k] = z[k - (n - 1)]
        BY <1>1, <2>4, <3>2
      <4>3. z[k - (n - 1)] = held[k + 1]
        BY <2>2, <4>1
      <4> QED BY <3>2, <4>2, <4>3
    <3> QED BY <3>1, <3>2
  <2> QED BY <2>4, <2>5 DEF Lots
<1> HIDE DEF rest
<1>3. /\ IsFiniteSet(1..(last - 1)) /\ Ledger!Earned(rest, s) = Total(g, 1..(last - 1))
      /\ \A k \in 1..(last - 1) : g[k] \in Int
  BY <1>2, GainsAre
<1>4. \A k \in 1..(last - 1) : f[h[k]] = g[k]
  <2>1. \A k \in 1..(last - 1) : h[k] \in 1..last
    BY <1>1
  <2> HIDE DEF h
  <2> QED BY <1>1, <1>2, <2>1, GainsAre DEF Gains
<1>5. \A k, l \in 1..(last - 1) : h[k] = h[l] => k = l
  BY <1>1
<1>6. {h[k] : k \in 1..(last - 1)} = (1..last) \ {n}
  <2>1. ASSUME NEW k \in 1..(last - 1) PROVE h[k] \in (1..last) \ {n}
    BY <1>1
  <2>2. ASSUME NEW j \in (1..last) \ {n} PROVE \E k \in 1..(last - 1) : h[k] = j
    <3>1. CASE j < n
      BY <1>1, <3>1
    <3>2. CASE j > n
      <4>1. j - 1 \in 1..(last - 1) /\ h[j - 1] = j
        BY <1>1, <3>2
      <4> QED BY <4>1
    <3> QED BY <1>1, <3>1, <3>2
  <2> HIDE DEF h
  <2> QED BY <2>1, <2>2
<1>7. Total(g, 1..(last - 1)) = Total(f, (1..last) \ {n})
  <2> DEFINE S == 1..(last - 1)
             R == (1..last) \ {n}
  <2>1. IsFiniteSet(R)
    <3>1. IsFiniteSet(1..last) /\ R \subseteq 1..last
      BY <1>1, FS_Interval
    <3> HIDE DEF R
    <3> QED BY <3>1, FS_Subset
  <2>2. \A x \in S : g[x] \in Int /\ f[h[x]] = g[x]
    BY <1>3, <1>4
  <2>3. IsFiniteSet(S) /\ R = {h[x] : x \in S} /\ \A x, y \in S : h[x] = h[y] => x = y
    BY <1>3, <1>5, <1>6
  <2> HIDE DEF f, g, h, S, R
  <2>4. Total(g, S) = Total(f, R)
    BY <2>1, <2>2, <2>3, TotalRenamed
  <2> QED BY <2>4 DEF S, R
<1>8. Total(f, 1..last) = f[n] + Total(f, (1..last) \ {n})
  <2>1. IsFiniteSet(1..last)
    BY <1>1, GainsAre
  <2> HIDE DEF f
  <2> QED BY <1>1, <2>1, TotalWithout
<1>9. f[n] = Ledger!Sign[s] * (held[n].basis - held[n].price) /\ f[n] \in Int
  BY <1>1 DEF Gains
<1>10. Total(g, 1..(last - 1)) \in Int
  BY <1>2, <1>3, GainsAre
<1> HIDE DEF f, g
<1> QED BY <1>1, <1>2, <1>3, <1>7, <1>8, <1>9, <1>10 DEF rest

\* A settlement posts what its lots have earned since the last one.
LEMMA EarnedMarked ==
    ASSUME NEW held \in Lots, NEW s \in TradeSides, NEW day \in 0..LedgerDays, NEW price,
           held # <<>> => price \in Prices
    PROVE  /\ Ledger!Marked(held, day, price) \in Lots
           /\ Ledger!MarkedGain(held, s, price) \in Int
           /\ Ledger!Earned(Ledger!Marked(held, day, price), s)
                = Ledger!Earned(held, s) + Ledger!MarkedGain(held, s, price)
<1> DEFINE new == Ledger!Marked(held, day, price)
           gain == [n \in DOMAIN held |-> Ledger!Sign[s] * (price - held[n].basis)]
           f == Gains(held, s)
           g == Gains(new, s)
<1>1. /\ DOMAIN held = 1..Len(held) /\ Len(held) \in Nat /\ IsFiniteSet(DOMAIN held)
      /\ \A n \in DOMAIN held : held[n] \in Ledger!Lot /\ f[n] \in Int
      /\ Ledger!Earned(held, s) = Total(f, DOMAIN held)
  BY GainsAre
<1>2. DOMAIN held # {} => price \in Prices /\ price \in Int
  <2>1. DOMAIN held # {} => held # <<>>
    OBVIOUS
  <2> QED BY <2>1, PricesAre
<1>3. \A n \in DOMAIN held : /\ new[n] = [held[n] EXCEPT !.basis = price, !.settled = day]
                             /\ new[n] \in Ledger!Lot
  BY <1>1, <1>2 DEF Ledger!Marked, Ledger!Lot
<1>4. new \in Lots /\ DOMAIN new = DOMAIN held
  <2>1. new = [n \in 1..Len(held) |-> new[n]] /\ DOMAIN new = DOMAIN held
    BY <1>1 DEF Ledger!Marked
  <2>2. \A n \in 1..Len(held) : new[n] \in Ledger!Lot
    BY <1>1, <1>3
  <2> HIDE DEF new
  <2> QED BY <1>1, <2>1, <2>2 DEF Lots
<1>5. \A n \in DOMAIN held : new[n].basis = price /\ new[n].price = held[n].price
  BY <1>1, <1>3 DEF Ledger!Lot
<1>6. \A n \in DOMAIN held : /\ held[n].basis \in Int /\ held[n].price \in Int
                             /\ price \in Int /\ Ledger!Sign[s] \in {-1, 1}
  BY <1>1, <1>2, LotFields, SignIs
<1>7. \A n \in DOMAIN held : gain[n] \in Int /\ g[n] = f[n] + gain[n]
  <2> HIDE DEF new
  <2> QED BY <1>4, <1>5, <1>6 DEF Gains
<1>8. Ledger!MarkedGain(held, s, price) = Total(gain, DOMAIN held)
  <2>1. DOMAIN gain = DOMAIN held /\ Ledger!MarkedGain(held, s, price) = Ledger!SumOf(gain)
    BY DEF Ledger!MarkedGain
  <2> QED BY <2>1, LedgerSum
<1> HIDE DEF new
<1>9. Ledger!Earned(new, s) = Total(g, DOMAIN held)
  BY <1>4, GainsAre
<1> HIDE DEF gain, f, g
<1>10. Total(g, DOMAIN held) = Total(f, DOMAIN held) + Total(gain, DOMAIN held) /\ Total(gain, DOMAIN held) \in Int
  <2>1. \A n \in DOMAIN held : gain[n] \in Int
    BY <1>7
  <2>2. \A n \in DOMAIN held : f[n] \in Int /\ gain[n] \in Int /\ g[n] = f[n] + gain[n]
    BY <1>1, <1>7
  <2>3. Total(gain, DOMAIN held) \in Int
    BY <1>1, <2>1, TotalType
  <2> QED BY <1>1, <2>2, <2>3, TotalAdds
<1> QED BY <1>1, <1>4, <1>8, <1>9, <1>10 DEF new

\* A revision moves what its lots have earned by the difference of the prices.
LEMMA EarnedRebased ==
    ASSUME NEW held \in Lots, NEW s \in TradeSides, NEW day, NEW old \in Int, NEW price \in Prices
    PROVE  /\ Ledger!Rebased(held, day, old, price) \in Lots
           /\ Ledger!Moved(held, s, day, old) \in Int
           /\ Ledger!Earned(Ledger!Rebased(held, day, old, price), s)
                = Ledger!Earned(held, s) + (price - old) * Ledger!Moved(held, s, day, old)
<1> DEFINE new == Ledger!Rebased(held, day, old, price)
           sign == [n \in DOMAIN held |-> IF Ledger!Revised(held[n], day, old) THEN Ledger!Sign[s] ELSE 0]
           change == [n \in DOMAIN held |-> (price - old) * sign[n]]
           f == Gains(held, s)
           g == Gains(new, s)
<1>1. /\ DOMAIN held = 1..Len(held) /\ Len(held) \in Nat /\ IsFiniteSet(DOMAIN held)
      /\ \A n \in DOMAIN held : held[n] \in Ledger!Lot /\ f[n] \in Int
      /\ Ledger!Earned(held, s) = Total(f, DOMAIN held)
  BY GainsAre
<1>2. price \in Int
  BY PricesAre
<1>3. \A n \in DOMAIN held :
          /\ new[n] = IF Ledger!Revised(held[n], day, old) THEN [held[n] EXCEPT !.basis = price] ELSE held[n]
          /\ new[n] \in Ledger!Lot
  BY <1>1 DEF Ledger!Rebased, Ledger!Lot
<1>4. new \in Lots /\ DOMAIN new = DOMAIN held
  <2>1. new = [n \in 1..Len(held) |-> new[n]] /\ DOMAIN new = DOMAIN held
    BY <1>1 DEF Ledger!Rebased
  <2>2. \A n \in 1..Len(held) : new[n] \in Ledger!Lot
    BY <1>1, <1>3
  <2> HIDE DEF new
  <2> QED BY <1>1, <2>1, <2>2 DEF Lots
<1>5. \A n \in DOMAIN held :
          /\ new[n].price = held[n].price
          /\ new[n].basis = IF Ledger!Revised(held[n], day, old) THEN price ELSE held[n].basis
          /\ Ledger!Revised(held[n], day, old) => held[n].basis = old
  BY <1>1, <1>3 DEF Ledger!Lot, Ledger!Revised
<1>6. Ledger!Sign[s] \in {-1, 1} /\ \A n \in DOMAIN held : held[n].basis \in Int /\ held[n].price \in Int
  BY <1>1, LotFields, SignIs
<1>7. \A n \in DOMAIN held : sign[n] \in Int /\ change[n] \in Int /\ change[n] = (price - old) * sign[n]
  BY <1>2, <1>6
<1>8. \A n \in DOMAIN held : g[n] = f[n] + change[n]
  <2> SUFFICES ASSUME NEW n \in DOMAIN held PROVE g[n] = f[n] + change[n]
    OBVIOUS
  <2>1. /\ g[n] = Ledger!Sign[s] * (new[n].basis - new[n].price)
        /\ f[n] = Ledger!Sign[s] * (held[n].basis - held[n].price)
    BY <1>4 DEF Gains
  <2>2. CASE Ledger!Revised(held[n], day, old)
    <3>1. change[n] = (price - old) * Ledger!Sign[s]
      BY <2>2
    <3>2. g[n] = Ledger!Sign[s] * (price - held[n].price) /\ f[n] = Ledger!Sign[s] * (old - held[n].price)
      BY <1>5, <2>1, <2>2
    <3> HIDE DEF change, f, g
    <3> QED BY <1>2, <1>6, <3>1, <3>2
  <2>3. CASE ~Ledger!Revised(held[n], day, old)
    <3>1. change[n] = 0
      BY <1>2, <2>3
    <3>2. g[n] = f[n]
      BY <1>5, <2>1, <2>3
    <3> HIDE DEF change, f, g
    <3> QED BY <1>1, <3>1, <3>2
  <2> QED BY <2>2, <2>3
<1>9. Ledger!Moved(held, s, day, old) = Total(sign, DOMAIN held)
  <2>1. DOMAIN sign = DOMAIN held /\ Ledger!Moved(held, s, day, old) = Ledger!SumOf(sign)
    BY DEF Ledger!Moved
  <2> QED BY <2>1, LedgerSum
<1> HIDE DEF new
<1>10. Ledger!Earned(new, s) = Total(g, DOMAIN held)
  BY <1>4, GainsAre
<1> HIDE DEF sign, change, f, g
<1>11. Total(g, DOMAIN held) = Total(f, DOMAIN held) + Total(change, DOMAIN held)
  <2>1. \A n \in DOMAIN held : f[n] \in Int /\ change[n] \in Int /\ g[n] = f[n] + change[n]
    BY <1>1, <1>7, <1>8
  <2> QED BY <1>1, <2>1, TotalAdds
<1>12. Total(sign, DOMAIN held) \in Int
  <2>1. \A n \in DOMAIN held : sign[n] \in Int
    BY <1>7
  <2> QED BY <1>1, <2>1, TotalType
<1>13. Total(change, DOMAIN held) = (price - old) * Total(sign, DOMAIN held)
  <2> DEFINE c == price - old
  <2>1. c \in Int /\ \A n \in DOMAIN held : sign[n] \in Int /\ change[n] = c * sign[n]
    BY <1>2, <1>7
  <2> HIDE DEF c
  <2>2. Total(change, DOMAIN held) = c * Total(sign, DOMAIN held)
    BY <1>1, <2>1, TotalScaled
  <2> QED BY <2>2 DEF c
<1> QED BY <1>1, <1>4, <1>9, <1>10, <1>11, <1>12, <1>13 DEF new

-------------------------------------------------------------------------------
(* The books *)

Sides == Instruments \X TradeSides
Holdings == [Instruments -> [TradeSides -> Lots]]
MaybePrices == [Instruments -> Prices \union {0}]
Books ==
    [day : Ledger!Days, balance : Int, fees : Int, tradeResult : Int, lots : Holdings,
     preSettlement : MaybePrices, settlements : [Ledger!Days -> [Instruments -> Seq(Ledger!Settlement)]],
     prices : [Ledger!Days -> MaybePrices], pendingAdvance : 0..LedgerDays]

\* What open lots have earned, by instrument and side, and together.
EarnedBy(l) == [x \in Sides |-> Ledger!Earned(l[x[1]][x[2]], x[2])]
Unrealized(l) == Total(EarnedBy(l), Sides)

\* There are finitely many sides to sum over.
LEMMA SidesFinite == IsFiniteSet(Sides)
<1>1. IsFiniteSet(Instruments)
  BY LedgerAssumption
<1>2. IsFiniteSet(TradeSides)
  <2>1. TradeSides = {"long"} \union {"short"}
    BY DEF TradeSides, Ledger!TradeSides
  <2> QED BY <2>1, FS_Singleton, FS_Union
<1> QED BY <1>1, <1>2, FS_Product DEF Sides

\* The result of closes and open lots, by the sum of Sums_proofs.
LEMMA ResultIs ==
    ASSUME NEW b
    PROVE  Ledger!Result(b) = b.tradeResult - b.fees + Unrealized(b.lots)
<1> DEFINE f == [x \in Instruments \X TradeSides |-> Ledger!Earned(b.lots[x[1]][x[2]], x[2])]
<1>1. f = EarnedBy(b.lots) /\ DOMAIN f = Sides
  BY DEF EarnedBy, Sides
<1>2. Ledger!Result(b) = b.tradeResult - b.fees + Ledger!SumOf(f)
  BY DEF Ledger!Result, TradeSides
<1> HIDE DEF f
<1> QED BY <1>1, <1>2, LedgerSum DEF Unrealized

\* What open lots have earned is a number.
LEMMA UnrealizedIs ==
    ASSUME NEW l \in Holdings
    PROVE  /\ \A x \in Sides : l[x[1]][x[2]] \in Lots /\ x[2] \in TradeSides /\ EarnedBy(l)[x] \in Int
           /\ Unrealized(l) \in Int
<1>1. \A x \in Sides : l[x[1]][x[2]] \in Lots /\ x[2] \in TradeSides
  BY DEF Sides, Holdings
<1>2. \A x \in Sides : EarnedBy(l)[x] \in Int
  BY <1>1, GainsAre DEF EarnedBy
<1>3. Unrealized(l) \in Int
  BY <1>2, SidesFinite, TotalType DEF Unrealized
<1> QED BY <1>1, <1>2, <1>3

\* One side of one instrument changes.
LEMMA UnrealizedChanged ==
    ASSUME NEW l \in Holdings, NEW i \in Instruments, NEW s \in TradeSides, NEW q \in Lots
    PROVE  /\ [l EXCEPT ![i][s] = q] \in Holdings
           /\ Unrealized([l EXCEPT ![i][s] = q])
                = Unrealized(l) + Ledger!Earned(q, s) - Ledger!Earned(l[i][s], s)
<1> DEFINE m == [l EXCEPT ![i][s] = q]
           x == <<i, s>>
<1>1. m \in Holdings /\ m[i][s] = q
  BY DEF Holdings
<1>2. x \in Sides /\ x[1] = i /\ x[2] = s
  BY DEF Sides
<1>3. \A y \in Sides : y # x => m[y[1]][y[2]] = l[y[1]][y[2]]
  BY DEF Sides, Holdings
<1> HIDE DEF m, x
<1>4. \A y \in Sides : EarnedBy(l)[y] \in Int /\ EarnedBy(m)[y] \in Int
  BY <1>1, UnrealizedIs
<1>5. \A y \in Sides : y # x => EarnedBy(m)[y] = EarnedBy(l)[y]
  BY <1>3 DEF EarnedBy
<1>6. EarnedBy(m)[x] = Ledger!Earned(q, s) /\ EarnedBy(l)[x] = Ledger!Earned(l[i][s], s)
  BY <1>1, <1>2 DEF EarnedBy
<1>7. Total(EarnedBy(m), Sides) = Total(EarnedBy(l), Sides) + EarnedBy(m)[x] - EarnedBy(l)[x]
  BY <1>2, <1>4, <1>5, SidesFinite, TotalChanged
<1> QED BY <1>1, <1>6, <1>7 DEF Unrealized, m

\* Everything is marked to the price of its instrument.
LEMMA UnrealizedMarked ==
    ASSUME NEW l \in Holdings, NEW day \in 0..LedgerDays, NEW price,
           \A x \in Sides : l[x[1]][x[2]] # <<>> => price[x[1]] \in Prices
    PROVE  LET m == [i \in Instruments |-> [s \in TradeSides |-> Ledger!Marked(l[i][s], day, price[i])]]
               gain == [x \in Sides |-> Ledger!MarkedGain(l[x[1]][x[2]], x[2], price[x[1]])] IN
           /\ m \in Holdings
           /\ Ledger!SumOf(gain) \in Int
           /\ Unrealized(m) = Unrealized(l) + Ledger!SumOf(gain)
<1> DEFINE m == [i \in Instruments |-> [s \in TradeSides |-> Ledger!Marked(l[i][s], day, price[i])]]
           gain == [x \in Sides |-> Ledger!MarkedGain(l[x[1]][x[2]], x[2], price[x[1]])]
<1>1. ASSUME NEW x \in Sides
      PROVE  /\ m[x[1]][x[2]] \in Lots /\ gain[x] \in Int /\ EarnedBy(l)[x] \in Int
             /\ EarnedBy(m)[x] = EarnedBy(l)[x] + gain[x]
  <2>1. l[x[1]][x[2]] \in Lots /\ x[1] \in Instruments /\ x[2] \in TradeSides /\ EarnedBy(l)[x] \in Int
    BY UnrealizedIs DEF Sides
  <2>2. m[x[1]][x[2]] = Ledger!Marked(l[x[1]][x[2]], day, price[x[1]])
    BY <2>1
  <2>3. /\ EarnedBy(m)[x] = Ledger!Earned(m[x[1]][x[2]], x[2])
        /\ EarnedBy(l)[x] = Ledger!Earned(l[x[1]][x[2]], x[2])
        /\ gain[x] = Ledger!MarkedGain(l[x[1]][x[2]], x[2], price[x[1]])
    BY DEF EarnedBy
  <2> HIDE DEF m, gain
  <2> QED BY <2>1, <2>2, <2>3, EarnedMarked
<1>2. m \in Holdings
  <2>1. ASSUME NEW i \in Instruments, NEW s \in TradeSides PROVE Ledger!Marked(l[i][s], day, price[i]) \in Lots
    <3>1. <<i, s>> \in Sides /\ <<i, s>>[1] = i /\ <<i, s>>[2] = s /\ m[i][s] = Ledger!Marked(l[i][s], day, price[i])
      BY DEF Sides
    <3> HIDE DEF m
    <3> QED BY <1>1, <3>1
  <2> QED BY <2>1 DEF Holdings
<1>3. Ledger!SumOf(gain) = Total(gain, Sides)
  <2>1. DOMAIN gain = Sides
    OBVIOUS
  <2> HIDE DEF gain
  <2> QED BY <2>1, LedgerSum
<1> HIDE DEF m, gain
<1>4. \A x \in Sides : EarnedBy(l)[x] \in Int /\ gain[x] \in Int /\ EarnedBy(m)[x] = EarnedBy(l)[x] + gain[x]
  BY <1>1
<1>5. Total(EarnedBy(m), Sides) = Total(EarnedBy(l), Sides) + Total(gain, Sides)
  BY <1>4, SidesFinite, TotalAdds
<1>6. Total(gain, Sides) \in Int
  BY <1>4, SidesFinite, TotalType
<1> QED BY <1>2, <1>3, <1>5, <1>6 DEF Unrealized, m, gain

-------------------------------------------------------------------------------
(* The facts *)

Views(b, u) == b.balance + u = Ledger!Result(b)
Pending(b) == b.pendingAdvance # 0 => b.pendingAdvance = b.day /\ b.day < LedgerDays

\* The books are books, their two views agree, and a day that is to end is today.
LedgerInv == books \in Books /\ unposted \in Int /\ Views(books, unposted) /\ Pending(books)

\* What a close finds is a lot of its side.
LEMMA CandidatesAre ==
    ASSUME NEW b \in Books, NEW i \in Instruments, NEW s \in TradeSides, NEW offset,
           Ledger!Candidates(b, i, s, offset) # {},
           offset \in {"CLOSE_TODAY", "CLOSE_YESTERDAY", "CLOSE"}
    PROVE  Ledger!Min(Ledger!Candidates(b, i, s, offset)) \in DOMAIN b.lots[i][s]
<1> DEFINE from == Ledger!Candidates(b, i, s, offset)
<1>1. from \subseteq DOMAIN b.lots[i][s]
  BY DEF Ledger!Candidates
<1>2. b.lots[i][s] \in Lots
  BY DEF Books, Holdings
<1>3. from \subseteq Nat
  BY <1>1, <1>2, GainsAre
<1> HIDE DEF from
<1>4. PICK n \in from : \A k \in from : n <= k
  <2>1. \E k \in from : TRUE
    BY DEF from
  <2> QED BY <1>3, <2>1, NatsHaveLeast
<1>5. Ledger!Min(from) = CHOOSE k \in from : \A l \in from : k <= l
  BY DEF Ledger!Min
<1>6. Ledger!Min(from) \in from
  BY <1>4, <1>5
<1> QED BY <1>1, <1>6 DEF from

\* A lot that is opened has earned what lies between its price and its basis.
LEMMA LotOpenKeeps ==
    ASSUME NEW b \in Books, NEW u \in Int, Views(b, u), Pending(b),
           NEW i \in Instruments, NEW s \in TradeSides, NEW p \in Prices, NEW d \in Ledger!Days,
           d < b.day => b.preSettlement[i] # 0
    PROVE  LET b2 == Ledger!OpenLot(Ledger!Charged(b), i, s, p, d)
               u2 == u + Ledger!Sign[s] * (Ledger!BasisOf(b, i, p, d) - p) IN
           b2 \in Books /\ u2 \in Int /\ Views(b2, u2) /\ Pending(b2) /\ b2.day = b.day
<1> DEFINE lot == [price |-> p, basis |-> Ledger!BasisOf(b, i, p, d), open |-> d,
                   settled |-> IF d < b.day THEN d ELSE 0]
           b2 == Ledger!OpenLot(Ledger!Charged(b), i, s, p, d)
           u2 == u + Ledger!Sign[s] * (Ledger!BasisOf(b, i, p, d) - p)
<1>1. lot.basis \in Prices
  BY DEF Ledger!BasisOf, Books, MaybePrices
<1>2. d \in 0..LedgerDays
  BY LedgerAssumption DEF Ledger!Days
<1>3. lot \in Ledger!Lot
  BY <1>1, <1>2, LedgerAssumption DEF Ledger!Lot
<1>4. b.lots \in Holdings /\ b.lots[i][s] \in Lots
  BY DEF Books, Holdings
<1>5. b2 = [b EXCEPT !.balance = b.balance - Fee, !.fees = b.fees + Fee,
                     !.lots = [b.lots EXCEPT ![i][s] = Append(b.lots[i][s], lot)]]
  BY DEF Ledger!OpenLot, Ledger!Charged, Ledger!BasisOf, Books, Holdings
<1> DEFINE q == Append(b.lots[i][s], lot)
           l == [b.lots EXCEPT ![i][s] = q]
<1>6. /\ q \in Lots
      /\ Ledger!Earned(q, s) = Ledger!Earned(b.lots[i][s], s) + Ledger!Sign[s] * (lot.basis - lot.price)
  <2> HIDE DEF lot
  <2> QED BY <1>3, <1>4, EarnedAppended
<1>7. Ledger!Earned(b.lots[i][s], s) \in Int
  BY <1>4, GainsAre
<1> DEFINE gain == Ledger!Sign[s] * (lot.basis - p)
<1>8. gain \in Int /\ lot.price = p /\ Fee \in Int
  <2>1. lot.basis \in Int /\ p \in Int
    BY <1>1, PricesAre
  <2> HIDE DEF lot
  <2> QED BY <2>1, SignIs, LedgerAssumption DEF lot
<1> HIDE DEF q
<1>9. l \in Holdings /\ Unrealized(l) = Unrealized(b.lots) + gain /\ Unrealized(b.lots) \in Int
  <2>1. l \in Holdings /\ Unrealized(l) = Unrealized(b.lots) + Ledger!Earned(q, s) - Ledger!Earned(b.lots[i][s], s)
    BY <1>4, <1>6, UnrealizedChanged
  <2>2. Ledger!Earned(q, s) = Ledger!Earned(b.lots[i][s], s) + gain
    BY <1>6, <1>8
  <2> HIDE DEF l, gain, lot
  <2> QED BY <1>4, <1>7, <1>8, <2>1, <2>2, UnrealizedIs
<1> HIDE DEF b2, l
<1>10. /\ b2 \in Books /\ b2.balance = b.balance - Fee /\ b2.fees = b.fees + Fee /\ b2.lots = l
       /\ b2.tradeResult = b.tradeResult /\ b2.day = b.day /\ b2.pendingAdvance = b.pendingAdvance
  <2>1. b2 = [b EXCEPT !.balance = b.balance - Fee, !.fees = b.fees + Fee, !.lots = l]
    BY <1>5 DEF l, q
  <2>2. b.balance - Fee \in Int /\ b.fees + Fee \in Int
    BY <1>8 DEF Books
  <2> QED BY <1>9, <2>1, <2>2 DEF Books
<1>11. u2 = u + gain
  OBVIOUS
<1>12. b.balance + u = b.tradeResult - b.fees + Unrealized(b.lots)
  BY ResultIs DEF Views
<1>13. /\ b.balance \in Int /\ b.tradeResult \in Int /\ b.fees \in Int
  BY DEF Books
<1>14. b2.balance + u2 = b2.tradeResult - b2.fees + Unrealized(b2.lots)
  <2> HIDE DEF gain, u2
  <2> QED BY <1>8, <1>9, <1>10, <1>11, <1>12, <1>13
<1> HIDE DEF gain, u2, lot
<1>15. Views(b2, u2)
  BY <1>14, ResultIs DEF Views
<1> QED BY <1>8, <1>10, <1>11, <1>15 DEF Pending, b2, u2

\* What a close posts and what it counts differ by what its lot had earned.
LEMMA LotCloseKeeps ==
    ASSUME NEW b \in Books, NEW u \in Int, Views(b, u), Pending(b),
           NEW i \in Instruments, NEW s \in TradeSides, NEW p \in Prices, NEW n \in DOMAIN b.lots[i][s]
    PROVE  LET b2 == Ledger!CloseLot(Ledger!Charged(b), i, s, p, n) IN
           b2 \in Books /\ Views(b2, u) /\ Pending(b2) /\ b2.day = b.day
<1> DEFINE b2 == Ledger!CloseLot(Ledger!Charged(b), i, s, p, n)
           lot == b.lots[i][s][n]
           q == Ledger!RemoveAt(b.lots[i][s], n)
           l == [b.lots EXCEPT ![i][s] = q]
           marked == Ledger!Sign[s] * (p - lot.basis)
           result == Ledger!Sign[s] * (p - lot.price)
           gain == Ledger!Sign[s] * (lot.basis - lot.price)
<1>1. b.lots \in Holdings /\ b.lots[i][s] \in Lots
  BY DEF Books, Holdings
<1>2. lot \in Ledger!Lot
  BY <1>1, GainsAre
<1>3. lot.basis \in Int /\ lot.price \in Int /\ p \in Int /\ Fee \in Int
  BY <1>2, LotFields, PricesAre, LedgerAssumption
<1>4. marked \in Int /\ result \in Int /\ gain \in Int /\ result = marked + gain
  <2> HIDE DEF lot
  <2> QED BY <1>3, SignIs
<1>5. b2 = [b EXCEPT !.balance = b.balance - Fee + marked, !.fees = b.fees + Fee,
                     !.tradeResult = b.tradeResult + result, !.lots = l]
  BY DEF Ledger!CloseLot, Ledger!Charged, Books, Holdings
<1>6. q \in Lots /\ Ledger!Earned(q, s) = Ledger!Earned(b.lots[i][s], s) - gain
  BY <1>1, EarnedRemoved
<1>7. Ledger!Earned(b.lots[i][s], s) \in Int
  BY <1>1, GainsAre
<1> HIDE DEF q, gain
<1>8. l \in Holdings /\ Unrealized(l) = Unrealized(b.lots) - gain /\ Unrealized(b.lots) \in Int
  <2>1. l \in Holdings /\ Unrealized(l) = Unrealized(b.lots) + Ledger!Earned(q, s) - Ledger!Earned(b.lots[i][s], s)
    BY <1>1, <1>6, UnrealizedChanged
  <2> HIDE DEF l
  <2> QED BY <1>1, <1>4, <1>6, <1>7, <2>1, UnrealizedIs
<1> HIDE DEF b2, l, marked, result, lot
<1>9. /\ b2 \in Books /\ b2.balance = b.balance - Fee + marked /\ b2.fees = b.fees + Fee /\ b2.lots = l
      /\ b2.tradeResult = b.tradeResult + result /\ b2.day = b.day /\ b2.pendingAdvance = b.pendingAdvance
  <2>1. b.balance - Fee + marked \in Int /\ b.fees + Fee \in Int /\ b.tradeResult + result \in Int
    BY <1>3, <1>4 DEF Books
  <2> QED BY <1>5, <1>8, <2>1 DEF Books
<1>10. b.balance + u = b.tradeResult - b.fees + Unrealized(b.lots)
  BY ResultIs DEF Views
<1>11. b.balance \in Int /\ b.tradeResult \in Int /\ b.fees \in Int
  BY DEF Books
<1>12. b2.balance + u = b2.tradeResult - b2.fees + Unrealized(b2.lots)
  BY <1>3, <1>4, <1>8, <1>9, <1>10, <1>11
<1>13. Views(b2, u)
  BY <1>12, ResultIs DEF Views
<1> QED BY <1>9, <1>13 DEF Pending, b2

\* A day that is settled posts what lots have earned since the last settlement,
\* and every lot is at the settlement price of the day.
LEMMA SettleKeeps ==
    ASSUME NEW b \in Books, NEW u \in Int, Views(b, u), b.day < LedgerDays, ~Ledger!MissingPrice(b, b.day)
    PROVE  LET b2 == Ledger!SettleDay(b, b.day) IN
           b2 \in Books /\ Views(b2, u) /\ Pending(b2) /\ Ledger!EndsSettled(b, b2)
<1> DEFINE day == b.day
           price == b.prices[day]
           m == [i \in Instruments |-> [s \in TradeSides |-> Ledger!Marked(b.lots[i][s], day, price[i])]]
           gain == [x \in Sides |-> Ledger!MarkedGain(b.lots[x[1]][x[2]], x[2], price[x[1]])]
           before == [i \in Instruments |-> IF i \in Ledger!Held(b) THEN price[i] ELSE b.preSettlement[i]]
           entries == [i \in Instruments |->
               IF i \in Ledger!Held(b)
               THEN Append(b.settlements[day][i], [price |-> price[i], net |-> Ledger!Net(b, i)])
               ELSE b.settlements[day][i]]
           b2 == Ledger!SettleDay(b, day)
<1>1. /\ day \in Ledger!Days /\ day \in 0..LedgerDays /\ day + 1 \in Ledger!Days /\ 0 \in 0..LedgerDays
  BY LedgerAssumption DEF Books, Ledger!Days
<1>2. b.lots \in Holdings /\ price \in MaybePrices /\ b.preSettlement \in MaybePrices
  BY <1>1 DEF Books
<1>3. \A i \in Ledger!Held(b) : i \in Instruments /\ price[i] \in Prices
  BY <1>2 DEF Ledger!MissingPrice, Ledger!Held, MaybePrices
<1>4. \A x \in Sides : b.lots[x[1]][x[2]] # <<>> => price[x[1]] \in Prices
  <2>1. ASSUME NEW x \in Sides, b.lots[x[1]][x[2]] # <<>> PROVE x[1] \in Ledger!Held(b)
    BY <2>1 DEF Ledger!Held, Sides, TradeSides
  <2> QED BY <1>3, <2>1
<1>5. b2 = [b EXCEPT !.balance = b.balance + Ledger!SumOf(gain), !.lots = m, !.preSettlement = before,
                     !.settlements = [b.settlements EXCEPT ![day] = entries],
                     !.day = day + 1, !.pendingAdvance = 0]
  BY DEF Ledger!SettleDay, Sides, TradeSides, Books
<1>6. m \in Holdings /\ Ledger!SumOf(gain) \in Int /\ Unrealized(m) = Unrealized(b.lots) + Ledger!SumOf(gain)
  <2> HIDE DEF m, gain, price, day
  <2> QED BY <1>1, <1>2, <1>4, UnrealizedMarked DEF m, gain
<1>7. before \in MaybePrices
  BY <1>2, <1>3 DEF MaybePrices
<1>8. entries \in [Instruments -> Seq(Ledger!Settlement)]
  <2> SUFFICES ASSUME NEW i \in Instruments PROVE entries[i] \in Seq(Ledger!Settlement)
    OBVIOUS
  <2>1. b.settlements[day][i] \in Seq(Ledger!Settlement)
    BY <1>1 DEF Books
  <2>2. Ledger!Net(b, i) \in Int
    <3>1. b.lots[i]["long"] \in Lots /\ b.lots[i]["short"] \in Lots
      BY <1>2 DEF Holdings, TradeSides, Ledger!TradeSides
    <3> QED BY <3>1 DEF Ledger!Net, Lots
  <2>3. i \in Ledger!Held(b) => [price |-> price[i], net |-> Ledger!Net(b, i)] \in Ledger!Settlement
    BY <1>3, <2>2 DEF Ledger!Settlement
  <2>4. i \in Ledger!Held(b) =>
            Append(b.settlements[day][i], [price |-> price[i], net |-> Ledger!Net(b, i)]) \in Seq(Ledger!Settlement)
    BY <2>1, <2>3, AppendProperties
  <2> QED BY <2>1, <2>4
<1> HIDE DEF m, before, entries, b2
<1>9. /\ b2.balance = b.balance + Ledger!SumOf(gain) /\ b2.lots = m /\ b2.pendingAdvance = 0
      /\ b2.fees = b.fees /\ b2.tradeResult = b.tradeResult /\ b2.prices = b.prices
      /\ b2.day = day + 1 /\ b2.preSettlement = before
      /\ b2.settlements = [b.settlements EXCEPT ![day] = entries]
  BY <1>5 DEF Books
<1>10. b2 \in Books
  <2>1. b.balance + Ledger!SumOf(gain) \in Int
    BY <1>6 DEF Books
  <2>2. [b.settlements EXCEPT ![day] = entries] \in [Ledger!Days -> [Instruments -> Seq(Ledger!Settlement)]]
    BY <1>8 DEF Books
  <2> HIDE DEF gain, day, price
  <2> QED BY <1>1, <1>5, <1>6, <1>7, <2>1, <2>2 DEF Books
<1>11. Views(b2, u)
  <2>1. b.balance + u = b.tradeResult - b.fees + Unrealized(b.lots)
    BY ResultIs DEF Views
  <2>2. b.balance \in Int /\ b.tradeResult \in Int /\ b.fees \in Int /\ Unrealized(b.lots) \in Int
    BY <1>2, UnrealizedIs DEF Books
  <2>3. b2.balance + u = b2.tradeResult - b2.fees + Unrealized(b2.lots)
    <3> HIDE DEF gain
    <3> QED BY <1>6, <1>9, <2>1, <2>2
  <2> QED BY <2>3, ResultIs DEF Views
<1>12. Ledger!EndsSettled(b, b2)
  <2> SUFFICES ASSUME NEW i \in Instruments, NEW s \in TradeSides, NEW n \in DOMAIN m[i][s]
               PROVE  m[i][s][n].settled = day /\ m[i][s][n].basis = price[i]
    BY <1>9 DEF Ledger!EndsSettled, TradeSides
  <2>1. m[i][s] = Ledger!Marked(b.lots[i][s], day, price[i])
    BY DEF m
  <2>2. b.lots[i][s] \in Lots
    BY <1>2 DEF Holdings
  <2> DEFINE held == b.lots[i][s]
  <2>3. n \in DOMAIN held /\ held[n] \in Ledger!Lot
    <3>1. n \in DOMAIN held
      BY <2>1 DEF Ledger!Marked
    <3> QED BY <2>2, <3>1, GainsAre
  <2>4. m[i][s][n] = [held[n] EXCEPT !.basis = price[i], !.settled = day]
    BY <2>1, <2>3 DEF Ledger!Marked
  <2> QED BY <2>3, <2>4 DEF Ledger!Lot
<1>13. Pending(b2)
  BY <1>9 DEF Pending
<1> QED BY <1>10, <1>11, <1>12, <1>13 DEF b2

\* A day that is to end ends once, when all prices are there, or stays pending.
LEMMA BooksAdvance ==
    ASSUME NEW b \in Books, NEW u \in Int, Views(b, u),
           b.pendingAdvance # 0 => b.pendingAdvance \in {b.day, b.day - 1} /\ b.pendingAdvance < LedgerDays
    PROVE  LET b2 == Ledger!TryAdvance(b) IN
           /\ b2 \in Books /\ Views(b2, u) /\ Pending(b2)
           /\ b2.day # b.day => Ledger!EndsSettled(b, b2)
<1> DEFINE b2 == Ledger!TryAdvance(b)
<1>1. b.day \in Int /\ b.pendingAdvance \in Int
  BY LedgerAssumption DEF Books, Ledger!Days
<1>2. CASE b.pendingAdvance = 0
  <2>1. b2 = b
    BY <1>2 DEF Ledger!TryAdvance
  <2> QED BY <1>2, <2>1 DEF Pending
<1>3. CASE b.pendingAdvance # 0 /\ b.pendingAdvance + 1 = b.day
  <2>1. b2 = [b EXCEPT !.pendingAdvance = 0]
    BY <1>3 DEF Ledger!TryAdvance
  <2>2. 0 \in 0..LedgerDays
    BY LedgerAssumption
  <2> HIDE DEF b2
  <2>3. /\ b2 \in Books /\ b2.day = b.day /\ b2.pendingAdvance = 0 /\ b2.balance = b.balance
        /\ b2.tradeResult = b.tradeResult /\ b2.fees = b.fees /\ b2.lots = b.lots
    BY <2>1, <2>2 DEF Books
  <2>4. Views(b2, u)
    BY <2>3, ResultIs DEF Views
  <2> QED BY <2>3, <2>4 DEF Pending, b2
<1>4. CASE b.pendingAdvance # 0 /\ b.pendingAdvance + 1 # b.day
  <2>1. b.pendingAdvance = b.day /\ b.day < LedgerDays
    BY <1>1, <1>4
  <2>2. CASE Ledger!MissingPrice(b, b.day)
    <3>1. b2 = b
      BY <1>4, <2>1, <2>2 DEF Ledger!TryAdvance
    <3> QED BY <2>1, <3>1 DEF Pending
  <2>3. CASE ~Ledger!MissingPrice(b, b.day)
    <3>1. b2 = Ledger!SettleDay(b, b.day)
      BY <1>4, <2>1, <2>3 DEF Ledger!TryAdvance
    <3> QED BY <2>1, <2>3, <3>1, SettleKeeps
  <2> QED BY <2>2, <2>3
<1> QED BY <1>2, <1>3, <1>4

BothRebased(l, i, day, old, price) ==
    [l EXCEPT ![i] = [s \in TradeSides |-> Ledger!Rebased(l[i][s], day, old, price)]]
BothMoved(l, i, day, old) == Ledger!SumOf([s \in TradeSides |-> Ledger!Moved(l[i][s], s, day, old)])

\* The two sides of an instrument are revised.
LEMMA UnrealizedRevised ==
    ASSUME NEW l \in Holdings, NEW i \in Instruments, NEW day, NEW old \in Int, NEW price \in Prices
    PROVE  /\ BothRebased(l, i, day, old, price) \in Holdings
           /\ BothMoved(l, i, day, old) \in Int
           /\ Unrealized(BothRebased(l, i, day, old, price))
                = Unrealized(l) + (price - old) * BothMoved(l, i, day, old)
<1> DEFINE q == [s \in TradeSides |-> Ledger!Rebased(l[i][s], day, old, price)]
           f == [s \in TradeSides |-> Ledger!Moved(l[i][s], s, day, old)]
           m == [l EXCEPT ![i] = q]
           m1 == [l EXCEPT ![i]["long"] = q["long"]]
           m2 == [m1 EXCEPT ![i]["short"] = q["short"]]
<1>1. TradeSides = {"long", "short"}
  BY DEF TradeSides, Ledger!TradeSides
<1>2. ASSUME NEW s \in TradeSides
      PROVE  /\ l[i][s] \in Lots /\ q[s] \in Lots /\ f[s] \in Int
             /\ Ledger!Earned(q[s], s) = Ledger!Earned(l[i][s], s) + (price - old) * f[s]
             /\ Ledger!Earned(l[i][s], s) \in Int
  <2>1. l[i][s] \in Lots
    BY DEF Holdings
  <2>2. q[s] = Ledger!Rebased(l[i][s], day, old, price) /\ f[s] = Ledger!Moved(l[i][s], s, day, old)
    OBVIOUS
  <2> HIDE DEF q, f
  <2> QED BY <2>1, <2>2, EarnedRebased, GainsAre
<1>3. Ledger!SumOf(f) = f["long"] + f["short"]
  <2>1. DOMAIN f = {"short"} \union {"long"}
    BY <1>1
  <2>2. f["long"] \in Int /\ f["short"] \in Int
    BY <1>1, <1>2
  <2> HIDE DEF f
  <2>3. Ledger!SumOf(f) = Total(f, {"short"} \union {"long"})
    BY <2>1, LedgerSum
  <2>4. IsFiniteSet({"short"}) /\ IsFiniteSet({})
    BY FS_Singleton, FS_EmptySet
  <2>5. Total(f, {"short"} \union {"long"}) = f["long"] + Total(f, {"short"})
    BY <2>2, <2>4, TotalWith
  <2>6. Total(f, {} \union {"short"}) = f["short"] + Total(f, {})
    BY <2>2, <2>4, TotalWith
  <2>7. Total(f, {"short"}) = f["short"]
    <3>1. {} \union {"short"} = {"short"}
      OBVIOUS
    <3> QED BY <2>2, <2>6, <3>1, TotalEmpty
  <2> QED BY <2>3, <2>5, <2>7
<1>4. q = [s \in TradeSides |-> q[s]] /\ q \in [TradeSides -> Lots]
  <2>1. q = [s \in TradeSides |-> q[s]]
    OBVIOUS
  <2>2. \A s \in TradeSides : q[s] \in Lots
    BY <1>2
  <2> HIDE DEF q
  <2> QED BY <2>1, <2>2
<1> HIDE DEF q, f
<1>5. m1 \in Holdings /\ Unrealized(m1) = Unrealized(l) + (price - old) * f["long"]
  <2>1. m1 \in Holdings /\ Unrealized(m1) = Unrealized(l) + Ledger!Earned(q["long"], "long") - Ledger!Earned(l[i]["long"], "long")
    BY <1>1, <1>2, UnrealizedChanged
  <2> HIDE DEF m1
  <2>2. price \in Int /\ Unrealized(l) \in Int
    BY PricesAre, UnrealizedIs
  <2> DEFINE c == (price - old) * f["long"]
  <2>3. c \in Int /\ Ledger!Earned(q["long"], "long") = Ledger!Earned(l[i]["long"], "long") + c
    BY <1>1, <1>2, <2>2
  <2> HIDE DEF c
  <2>4. Unrealized(m1) = Unrealized(l) + c
    BY <1>1, <1>2, <2>1, <2>2, <2>3
  <2> QED BY <2>1, <2>4 DEF c
<1>6. m1[i]["short"] = l[i]["short"]
  BY <1>1 DEF Holdings
<1> HIDE DEF m1
<1>7. m2 \in Holdings /\ Unrealized(m2) = Unrealized(m1) + (price - old) * f["short"]
  <2>1. m2 \in Holdings /\ Unrealized(m2) = Unrealized(m1) + Ledger!Earned(q["short"], "short") - Ledger!Earned(l[i]["short"], "short")
    BY <1>1, <1>2, <1>5, <1>6, UnrealizedChanged
  <2> HIDE DEF m2
  <2>2. price \in Int /\ Unrealized(m1) \in Int
    BY <1>5, PricesAre, UnrealizedIs
  <2> DEFINE c == (price - old) * f["short"]
  <2>3. c \in Int /\ Ledger!Earned(q["short"], "short") = Ledger!Earned(l[i]["short"], "short") + c
    BY <1>1, <1>2, <2>2
  <2> HIDE DEF c
  <2>4. Unrealized(m2) = Unrealized(m1) + c
    BY <1>1, <1>2, <2>1, <2>2, <2>3
  <2> QED BY <2>1, <2>4 DEF c
<1>8. m = m2
  <2>1. l[i] \in [TradeSides -> Lots]
    BY DEF Holdings
  <2>2. [[l[i] EXCEPT !["long"] = q["long"]] EXCEPT !["short"] = q["short"]] = q
    BY <1>1, <1>4, <2>1
  <2>3. m2 = [l EXCEPT ![i] = [[l[i] EXCEPT !["long"] = q["long"]] EXCEPT !["short"] = q["short"]]]
    BY DEF m1, m2, Holdings
  <2> QED BY <2>2, <2>3
<1> HIDE DEF m, m2
<1>9. Unrealized(m) = Unrealized(l) + (price - old) * (f["long"] + f["short"])
  <2>1. price \in Int /\ Unrealized(l) \in Int /\ f["long"] \in Int /\ f["short"] \in Int
    BY <1>1, <1>2, PricesAre, UnrealizedIs
  <2>2. (price - old) * (f["long"] + f["short"]) = (price - old) * f["long"] + (price - old) * f["short"]
    BY <2>1
  <2>3. (price - old) * f["long"] \in Int /\ (price - old) * f["short"] \in Int
    BY <2>1
  <2> QED BY <1>5, <1>7, <1>8, <2>1, <2>2, <2>3
<1>10. f["long"] + f["short"] \in Int
  BY <1>1, <1>2
<1> QED BY <1>3, <1>7, <1>8, <1>9, <1>10 DEF BothRebased, BothMoved, m, q, f

-------------------------------------------------------------------------------
(* Steps *)

Kept == LedgerInv' /\ Ledger!StepIsSound

\* What a step has to keep, by its parts.
LEMMA KeptFrom ==
    ASSUME books' \in Books, unposted' \in Int, Views(books', unposted'), Pending(books'),
           books'.day # books.day => Ledger!EndsSettled(books, books')
    PROVE  Kept
BY DEF Kept, LedgerInv, Ledger!StepIsSound, Ledger!TwoViewsAgree, Views, Pending

\* A trade opens a lot or closes the first one it may.
LEMMA TradeKeeps ==
    ASSUME LedgerInv, NEW i \in Instruments, NEW s \in TradeSides, NEW p \in Prices, NEW d \in Ledger!Days,
           NEW offset \in {"OPEN", "CLOSE_TODAY", "CLOSE_YESTERDAY", "CLOSE"},
           Ledger!TradeFact(i, s, offset, p, d)
    PROVE  Kept
<1>1. books \in Books /\ unposted \in Int /\ Views(books, unposted) /\ Pending(books)
  BY DEF LedgerInv
<1>2. CASE offset = "OPEN"
  <2>1. /\ d < books.day => books.preSettlement[i] # 0
        /\ books' = Ledger!OpenLot(Ledger!Charged(books), i, s, p, d)
        /\ unposted' = unposted + Ledger!Sign[s] * (Ledger!BasisOf(books, i, p, d) - p)
    BY <1>2 DEF Ledger!TradeFact
  <2> QED BY <1>1, <2>1, LotOpenKeeps, KeptFrom
<1>3. CASE offset # "OPEN"
  <2> DEFINE way == Ledger!Effective(books, offset, d)
             from == Ledger!Candidates(books, i, s, way)
  <2>1. way \in {"CLOSE_TODAY", "CLOSE_YESTERDAY", "CLOSE"}
    BY <1>3 DEF Ledger!Effective
  <2>2. /\ from # {} /\ unposted' = unposted
        /\ books' = Ledger!CloseLot(Ledger!Charged(books), i, s, p, Ledger!Min(from))
    BY <1>3 DEF Ledger!TradeFact
  <2> HIDE DEF way
  <2>3. Ledger!Min(from) \in DOMAIN books.lots[i][s]
    BY <1>1, <2>1, <2>2, CandidatesAre
  <2> HIDE DEF from
  <2> QED BY <1>1, <2>2, <2>3, LotCloseKeeps, KeptFrom
<1> QED BY <1>2, <1>3

\* A settlement price may end the day that waited for it.
LEMMA PriceKeeps ==
    ASSUME LedgerInv, NEW i \in Instruments, NEW p \in Prices, NEW d \in Ledger!Days,
           Ledger!SettlementPriceFact(d, i, p)
    PROVE  Kept
<1> DEFINE b == [books EXCEPT !.prices[d][i] = p, !.preSettlement[i] = p]
<1>1. books \in Books /\ unposted \in Int /\ Views(books, unposted) /\ Pending(books)
  BY DEF LedgerInv
<1>2. books' = Ledger!TryAdvance(b) /\ unposted' = unposted
  BY DEF Ledger!SettlementPriceFact
<1>3. /\ [books.prices EXCEPT ![d][i] = p] \in [Ledger!Days -> MaybePrices]
      /\ [books.preSettlement EXCEPT ![i] = p] \in MaybePrices
  BY <1>1 DEF Books, MaybePrices
<1>4. b = [books EXCEPT !.prices = [books.prices EXCEPT ![d][i] = p],
                        !.preSettlement = [books.preSettlement EXCEPT ![i] = p]]
  BY <1>1 DEF Books
<1> HIDE DEF b
<1>5. /\ b \in Books /\ b.day = books.day /\ b.pendingAdvance = books.pendingAdvance
      /\ b.balance = books.balance /\ b.tradeResult = books.tradeResult /\ b.fees = books.fees /\ b.lots = books.lots
  BY <1>1, <1>3, <1>4 DEF Books
<1>6. Views(b, unposted)
  BY <1>1, <1>5, ResultIs DEF Views
<1>7. b.pendingAdvance # 0 => b.pendingAdvance \in {b.day, b.day - 1} /\ b.pendingAdvance < LedgerDays
  BY <1>1, <1>5 DEF Pending
<1>8. /\ books' \in Books /\ Views(books', unposted) /\ Pending(books')
      /\ books'.day # b.day => Ledger!EndsSettled(b, books')
  BY <1>1, <1>2, <1>5, <1>6, <1>7, BooksAdvance
<1>9. Ledger!EndsSettled(b, books') => Ledger!EndsSettled(books, books')
  BY <1>5 DEF Ledger!EndsSettled
<1> QED BY <1>1, <1>2, <1>5, <1>8, <1>9, KeptFrom

\* The order to end a day ends it, or waits, or comes too late.
LEMMA OrderToEndKeeps ==
    ASSUME LedgerInv, NEW d \in Ledger!Days, Ledger!AdvanceFact(d)
    PROVE  Kept
<1> DEFINE b == [books EXCEPT !.pendingAdvance = d]
<1>1. books \in Books /\ unposted \in Int /\ Views(books, unposted)
  BY DEF LedgerInv
<1>2. books' = Ledger!TryAdvance(b) /\ unposted' = unposted /\ d \in {books.day, books.day - 1} /\ d # LedgerDays
  BY DEF Ledger!AdvanceFact
<1>3. d \in 0..LedgerDays /\ d < LedgerDays
  BY <1>2, LedgerAssumption DEF Ledger!Days
<1> HIDE DEF b
<1>4. /\ b \in Books /\ b.day = books.day /\ b.pendingAdvance = d
      /\ b.balance = books.balance /\ b.tradeResult = books.tradeResult /\ b.fees = books.fees /\ b.lots = books.lots
  BY <1>1, <1>3 DEF b, Books
<1>5. Views(b, unposted)
  BY <1>1, <1>4, ResultIs DEF Views
<1>6. /\ books' \in Books /\ Views(books', unposted) /\ Pending(books')
      /\ books'.day # b.day => Ledger!EndsSettled(b, books')
  BY <1>1, <1>2, <1>3, <1>4, <1>5, BooksAdvance
<1>7. Ledger!EndsSettled(b, books') => Ledger!EndsSettled(books, books')
  BY <1>4 DEF Ledger!EndsSettled
<1> QED BY <1>1, <1>2, <1>4, <1>6, <1>7, KeptFrom

\* A revision posts for what was held then; what was closed since is unposted.
LEMMA ReviseKeeps ==
    ASSUME LedgerInv, NEW i \in Instruments, NEW p \in Prices, NEW d \in Ledger!Days,
           Ledger!ReviseSettlement(d, i, p)
    PROVE  Kept
<1> DEFINE history == books.settlements[d][i]
           latest == Ledger!Last(history)
           delta == p - latest.price
           moved == Ledger!SumOf([s \in TradeSides |-> Ledger!Moved(books.lots[i][s], s, d, latest.price)])
           l == [books.lots EXCEPT ![i] = [s \in TradeSides |-> Ledger!Rebased(books.lots[i][s], d, latest.price, p)]]
           before == [books.preSettlement EXCEPT ![i] =
                         IF books.preSettlement[i] = latest.price THEN p ELSE books.preSettlement[i]]
           entries == [books.settlements EXCEPT ![d][i] = Append(history, [price |-> p, net |-> latest.net])]
<1>1. books \in Books /\ unposted \in Int /\ Views(books, unposted) /\ Pending(books)
  BY DEF LedgerInv
<1>2. /\ history # <<>>
      /\ books' = [books EXCEPT !.balance = books.balance + delta * latest.net, !.lots = l,
                                !.preSettlement = before, !.settlements = entries]
      /\ unposted' = unposted - delta * (latest.net - moved)
  BY <1>1 DEF Ledger!ReviseSettlement, TradeSides, Books
<1>3. history \in Seq(Ledger!Settlement) /\ latest \in Ledger!Settlement
  <2>1. history \in Seq(Ledger!Settlement)
    BY <1>1 DEF Books
  <2>2. latest = history[Len(history)]
    BY DEF Ledger!Last
  <2> HIDE DEF history, latest
  <2>3. Len(history) \in 1..Len(history)
    BY <1>2, <2>1, EmptySeq
  <2> QED BY <2>1, <2>2, <2>3
<1>4. latest.price \in Prices /\ latest.price \in Int /\ latest.net \in Int /\ p \in Int
  BY <1>3, PricesAre DEF Ledger!Settlement
<1>5. /\ l \in Holdings /\ moved \in Int /\ Unrealized(l) = Unrealized(books.lots) + delta * moved
      /\ Unrealized(books.lots) \in Int
  <2>1. books.lots \in Holdings
    BY <1>1 DEF Books
  <2>2. Unrealized(books.lots) \in Int
    BY <2>1, UnrealizedIs
  <2>3. l = BothRebased(books.lots, i, d, latest.price, p) /\ moved = BothMoved(books.lots, i, d, latest.price)
    BY DEF BothRebased, BothMoved
  <2> HIDE DEF l, moved, latest
  <2> QED BY <1>4, <2>1, <2>2, <2>3, UnrealizedRevised
<1>6. before \in MaybePrices
  BY <1>1, <1>4 DEF Books, MaybePrices
<1>7. entries \in [Ledger!Days -> [Instruments -> Seq(Ledger!Settlement)]]
  <2>1. [price |-> p, net |-> latest.net] \in Ledger!Settlement
    BY <1>4 DEF Ledger!Settlement
  <2>2. Append(history, [price |-> p, net |-> latest.net]) \in Seq(Ledger!Settlement)
    BY <1>3, <2>1, AppendProperties
  <2> QED BY <1>1, <2>2 DEF Books
<1>8. delta \in Int /\ delta * latest.net \in Int /\ delta * moved \in Int
      /\ delta * (latest.net - moved) = delta * latest.net - delta * moved
  <2> HIDE DEF moved, latest
  <2> QED BY <1>4, <1>5
<1> HIDE DEF l, before, entries, moved, delta, latest
<1>9. /\ books' \in Books /\ books'.day = books.day /\ books'.pendingAdvance = books.pendingAdvance
      /\ books'.balance = books.balance + delta * latest.net /\ books'.lots = l
      /\ books'.tradeResult = books.tradeResult /\ books'.fees = books.fees
  <2>1. books.balance + delta * latest.net \in Int
    BY <1>1, <1>8 DEF Books
  <2> QED BY <1>1, <1>2, <1>5, <1>6, <1>7, <2>1 DEF Books
<1>10. books'.balance + unposted' = books'.tradeResult - books'.fees + Unrealized(books'.lots)
  <2>1. books.balance + unposted = books.tradeResult - books.fees + Unrealized(books.lots)
    BY <1>1, ResultIs DEF Views
  <2>2. books.balance \in Int /\ books.tradeResult \in Int /\ books.fees \in Int
    BY <1>1 DEF Books
  <2> DEFINE posted == delta * latest.net
             gained == delta * moved
  <2>3. /\ posted \in Int /\ gained \in Int /\ unposted' = unposted - (posted - gained)
        /\ books'.balance = books.balance + posted /\ Unrealized(l) = Unrealized(books.lots) + gained
    BY <1>2, <1>5, <1>8, <1>9
  <2> HIDE DEF posted, gained
  <2> QED BY <1>1, <1>5, <1>9, <2>1, <2>2, <2>3
<1>11. Views(books', unposted')
  BY <1>10, ResultIs DEF Views
<1>12. unposted' \in Int
  BY <1>1, <1>2, <1>8
<1>13. Pending(books')
  BY <1>1, <1>9 DEF Pending
<1> QED BY <1>9, <1>11, <1>12, <1>13, KeptFrom

\* Every fact keeps the books.
LEMMA LedgerStep ==
    ASSUME LedgerInv, Ledger!LedgerNext
    PROVE  Kept
<1>1. CASE \E i \in Instruments, s \in Ledger!TradeSides, p \in Prices, d \in Ledger!Days :
               \E offset \in {"OPEN", "CLOSE_TODAY", "CLOSE_YESTERDAY", "CLOSE"} :
                   Ledger!TradeFact(i, s, offset, p, d)
  BY <1>1, TradeKeeps DEF TradeSides
<1>2. CASE \E i \in Instruments, p \in Prices, d \in Ledger!Days :
               Ledger!SettlementPriceFact(d, i, p) \/ Ledger!ReviseSettlement(d, i, p)
  BY <1>2, PriceKeeps, ReviseKeeps
<1>3. CASE \E d \in Ledger!Days : Ledger!AdvanceFact(d)
  BY <1>3, OrderToEndKeeps
<1> QED BY <1>1, <1>2, <1>3 DEF Ledger!LedgerNext

\* The books begin empty.
LEMMA LedgerStarts ==
    ASSUME Ledger!LedgerInit
    PROVE  LedgerInv
<1>1. /\ books.day = 1 /\ books.balance = 0 /\ books.fees = 0 /\ books.tradeResult = 0
      /\ books.lots = [i \in Instruments |-> [s \in TradeSides |-> <<>>]] /\ books.pendingAdvance = 0
      /\ unposted = 0
  BY DEF Ledger!LedgerInit, TradeSides
<1>2. books \in Books
  <2>1. 1 \in Ledger!Days /\ 0 \in 0..LedgerDays
    BY LedgerAssumption DEF Ledger!Days
  <2>2. <<>> \in Lots /\ <<>> \in Seq(Ledger!Settlement)
    BY DEF Lots
  <2> QED BY <2>1, <2>2 DEF Ledger!LedgerInit, Books, Holdings, MaybePrices, TradeSides
<1>3. Unrealized(books.lots) = 0
  <2> DEFINE f == EarnedBy(books.lots)
  <2>1. books.lots \in Holdings
    BY <1>2 DEF Books
  <2>2. ASSUME NEW x \in Sides PROVE f[x] = 0
    <3>1. f[x] = Ledger!Earned(<<>>, x[2])
      BY <1>1 DEF EarnedBy, Sides
    <3>2. x[2] \in TradeSides /\ <<>> \in Lots /\ DOMAIN <<>> = {}
      BY DEF Sides, Lots
    <3>3. Ledger!Earned(<<>>, x[2]) = Total(Gains(<<>>, x[2]), {})
      BY <3>2, GainsAre
    <3> QED BY <3>1, <3>3, TotalEmpty
  <2> HIDE DEF f
  <2>3. \A x \in Sides : f[x] \in Int /\ f[x] = 0 * f[x]
    BY <2>2
  <2>4. Total(f, Sides) = 0 * Total(f, Sides) /\ Total(f, Sides) \in Int
    BY <2>3, SidesFinite, TotalScaled, TotalType
  <2> QED BY <2>4 DEF f, Unrealized
<1>4. Views(books, unposted)
  BY <1>1, <1>3, ResultIs DEF Views
<1> QED BY <1>1, <1>2, <1>4 DEF LedgerInv, Pending

\* The books of an account over its days, for any instruments, prices and fee: whatever
\* has been booked, settled and revised, the balance is the result trade by trade less
\* what the history variable says was never posted (AccountLedger.apply, settle_day,
\* revise_settlement), and a day that is to end is today (_try_advance).
THEOREM LedgerCorrect == AccountSpec => []LedgerInv
<1>1. AccountInit => LedgerInv
  BY LedgerStarts DEF AccountInit
<1>2. LedgerInv /\ [AccountNext]_accountVars => LedgerInv'
  <2> SUFFICES ASSUME LedgerInv, [AccountNext]_accountVars PROVE LedgerInv'
    OBVIOUS
  <2>1. Ledger!LedgerNext \/ UNCHANGED ledgerVars
    BY DEF AccountNext, InKernel, InGate, InLedger, InDay, InPrograms, InControls, accountVars
  <2>2. CASE Ledger!LedgerNext
    BY <2>2, LedgerStep DEF Kept
  <2>3. CASE UNCHANGED ledgerVars
    BY <2>3 DEF ledgerVars, LedgerInv
  <2> QED BY <2>1, <2>2, <2>3
<1> QED BY <1>1, <1>2, PTL DEF AccountSpec

\* Every trade, price, settlement and revision keeps the balance and the results trade
\* by trade one account, and a day ends with every lot at the official price of its day
\* (AccountLedger, LiveAccountKernel._try_advance).
THEOREM LedgerAlwaysSound == AccountSpec => LedgerIsSound
<1>1. ASSUME LedgerInv, [AccountNext]_accountVars
      PROVE  [part = "ledger" => Ledger!StepIsSound]_accountVars
  <2>1. CASE InLedger(Ledger!LedgerNext)
    BY <1>1, <2>1, LedgerStep DEF InLedger, Kept
  <2>2. CASE \/ InKernel(Next) \/ InGate(Gate!GateNext) \/ InDay(Life!LifeNext)
             \/ InPrograms(Programs!AssemblyNext) \/ InControls(ControlNext)
    BY <2>2 DEF InKernel, InGate, InDay, InPrograms, InControls
  <2>3. CASE UNCHANGED accountVars
    BY <2>3
  <2> QED BY <1>1, <2>1, <2>2, <2>3 DEF AccountNext
<1> QED BY <1>1, LedgerCorrect, PTL DEF AccountSpec, LedgerIsSound
=================================================================================
