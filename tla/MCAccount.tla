------------------------------- MODULE MCAccount --------------------------------
(* The account for TLC: what an order reserves and how trades and reports settle *)
(* it (AccountKernel), the checks before it (RiskGate), the money and the lots   *)
(* over days (AccountLedger), the account's day (AccountLifecycle), who may      *)
(* restrict it (RiskControl) and the programs that trade it (Assembly).  They    *)
(* share no state; a behaviour follows one of them.  The name of an order says   *)
(* its offset.                                                                   *)
EXTENDS AccountKernel, RiskControl

CONSTANTS
    Parts,                                      \* what this run follows
    GateOrders, GateTerms, HeldLong, MaxOpenLots, MaxPosition, MaxCancelled,
    Instruments, Prices, Fee, LedgerDays, MaxTrades, MaxQuotes, MaxRevisions,
    Versions, Batches, EndDay,
    Services, Runtimes, Settings, MaxRunning, MaxEpoch

VARIABLES
    part,
    account, openLots, cancelled, asking, exchange, told,
    books, unposted, trades, quotes,
    phase, tradingDay, closedInstruments, settlement, semiSettled, loggedIn, pendingSnapshots, tasks,
    settleRuns, conversions,
    database, control, lock, heartbeat, online, stage, inputs, toClose, acquired, misconfirmed

MCOffsetOf ==
    [o \in Orders |->
        CASE o \in {"open1", "open2"} -> "OPEN"
          [] o = "today1"             -> "CLOSE_TODAY"
          [] OTHER                    -> "CLOSE_YESTERDAY"]

\* There is a trading day.
ASSUME AccountAssumption == EndDay \in Nat \ {0}

\* Two lots, but for the second closing order of a run.
MCQty == [o \in Orders |-> IF o \in {"open2", "old1"} THEN 1 ELSE 2]

MCThree == [o \in Orders |-> 3]

\* Two buys that together reach the limits, and a sell that the first crosses.
MCTerms ==
    [o \in GateOrders |->
        CASE o = "buy2" -> [side |-> "buy", offset |-> "OPEN", price |-> 2, qty |-> 2]
          [] o = "buy1" -> [side |-> "buy", offset |-> "OPEN", price |-> 1, qty |-> 1]
          [] OTHER      -> [side |-> "sell", offset |-> "CLOSE", price |-> 2, qty |-> 1]]

\* What is held when the day begins is within the limit.
ASSUME GateAssumption ==
    /\ IsFiniteSet(GateOrders)
    /\ GateTerms \in [GateOrders ->
           [side : {"buy", "sell"}, offset : {"OPEN", "CLOSE"}, price : Nat, qty : Nat \ {0}]]
    /\ HeldLong \in Nat /\ MaxPosition \in Nat /\ HeldLong <= MaxPosition

Gate == INSTANCE RiskGate WITH
    asked <- asking, Intents <- GateOrders, Terms <- GateTerms

\* Prices and fees are whole, and no price is 0.
ASSUME LedgerAssumption ==
    /\ IsFiniteSet(Instruments) /\ Prices \subseteq Nat \ {0} /\ Fee \in Nat
    /\ LedgerDays \in Nat \ {0} /\ {MaxTrades, MaxQuotes, MaxRevisions} \subseteq Nat

Ledger == INSTANCE AccountLedger WITH
    NoPrice <- 0, LateTrades <- TRUE, LastDay <- LedgerDays, MaxVersions <- MaxRevisions

Life == INSTANCE AccountLifecycle WITH Enabled <- Instruments

\* A program is a service or a strategy runtime, and none is called nobody.
ASSUME ProgramAssumption ==
    Services \intersect Runtimes = {} /\ {"nobody", "services"} \intersect (Services \union Runtimes) = {}

\* The services share a database; a runtime has its own.
MCDatabase == [p \in Services \union Runtimes |-> IF p \in Services THEN "services" ELSE p]
MCController == [p \in Services \union Runtimes |-> p]

Programs == INSTANCE Assembly WITH
    Controller <- MCController, Database <- MCDatabase, pc <- stage, held <- toClose

gateVars == <<account, openLots, cancelled, asking, exchange, told>>
ledgerVars == <<books, unposted, trades, quotes>>
lifeVars == <<phase, tradingDay, closedInstruments, settlement, semiSettled, loggedIn, pendingSnapshots,
              tasks, settleRuns, conversions>>
programVars ==
    <<database, control, lock, heartbeat, online, stage, inputs, toClose, acquired, misconfirmed>>
accountVars == <<part, vars, gateVars, ledgerVars, lifeVars, programVars, controlVars>>

AccountInit ==
    part \in Parts /\ Init /\ Gate!GateInit /\ Ledger!LedgerInit /\ Life!LifeInit /\ Programs!AssemblyInit
    /\ ControlInit /\ record.holder = "op1"     \* the operators are alike

InKernel(A) == part = "kernel" /\ A /\ UNCHANGED <<part, gateVars, ledgerVars, lifeVars, programVars, controlVars>>
InGate(A) == part = "gate" /\ A /\ UNCHANGED <<part, vars, ledgerVars, lifeVars, programVars, controlVars>>
InLedger(A) == part = "ledger" /\ A /\ UNCHANGED <<part, vars, gateVars, lifeVars, programVars, controlVars>>
InDay(A) == part = "day" /\ A /\ UNCHANGED <<part, vars, gateVars, ledgerVars, programVars, controlVars>>
InPrograms(A) == part = "programs" /\ A /\ UNCHANGED <<part, vars, gateVars, ledgerVars, lifeVars, controlVars>>

InControls(A) ==
    part = "controls" /\ A /\ UNCHANGED <<part, vars, gateVars, ledgerVars, lifeVars, programVars>>

AccountNext ==
    \/ InKernel(Next) \/ InGate(Gate!GateNext) \/ InLedger(Ledger!LedgerNext) \/ InDay(Life!LifeNext)
    \/ InPrograms(Programs!AssemblyNext) \/ InControls(ControlNext)

AccountSpec == AccountInit /\ [][AccountNext]_accountVars

\* Limits hold for what is on its way, and no order crosses another (RiskGate).
OrdersAreSafe == part = "gate" => Gate!OrdersAreSafe
\* The balance and the results trade by trade are one account, and a day ends with
\* every lot at the settlement price of its day (AccountLedger).
LedgerIsSound == [][part = "ledger" => Ledger!StepIsSound]_accountVars
\* No new risk on a half settled account; a day's tasks run once (AccountLifecycle).
DayIsSound == part = "day" => Life!DayIsSound
\* Programs start, trade and end in order (Assembly).
AssemblyIsSound == part = "programs" => Programs!AssemblyIsSound
=================================================================================
