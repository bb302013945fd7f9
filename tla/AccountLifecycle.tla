---------------------------- MODULE AccountLifecycle ----------------------------
(***************************************************************************)
(* The trading day of an account: DailyLifecycleManager's phases, the      *)
(* settlement of a day, the turn to the next one, and the snapshots of     *)
(* queries that may be taken half way through a settlement.                *)
(*                                                                         *)
(* One thread calls it; the counter, the exchanges and an operator decide  *)
(* what is called next, and anything may be called at any time, again.     *)
(* (Nothing in the repository but its tests calls it yet.)                 *)
(***************************************************************************)
EXTENDS Naturals, FiniteSets

CONSTANTS
    Enabled,        \* enabled_instruments
    Versions,       \* versions of settlement data
    Batches,        \* batch_id of a snapshot
    EndDay          \* model bound: trading days 1..EndDay

VARIABLES
    phase, tradingDay,
    closedInstruments,
    settlement,     \* is_settlement_complete and settled_version: a version, or "none"
    semiSettled,    \* semi_settled_warning
    loggedIn,
    pendingSnapshots,   \* batch and whether it is semi-settled
    tasks,          \* the keys of completed_tasks
    settleRuns,     \* history: how often a version of a day was settled
    conversions     \* history: how often today was converted into yesterday

lifeVars == <<phase, tradingDay, closedInstruments, settlement, semiSettled, loggedIn,
              pendingSnapshots, tasks, settleRuns, conversions>>
dayVars == <<tradingDay, closedInstruments, settlement>>
runVars == <<tasks, settleRuns, conversions>>

Phases == {"INITIALIZING", "RECONCILING", "READY", "TRADING", "POST_CLOSE", "SETTLEMENT_PENDING",
           "SETTLED", "MAINTENANCE", "SEMI_SETTLED_HOLD"}
TradingDays == 1..EndDay
Keys == [day : TradingDays, task : {"settle", "advance"}, version : Versions]

LifeTypeOK ==
    /\ phase \in Phases /\ tradingDay \in TradingDays /\ closedInstruments \subseteq Enabled
    /\ settlement \in Versions \union {"none"} /\ semiSettled \in BOOLEAN /\ loggedIn \in BOOLEAN
    /\ pendingSnapshots \subseteq [batch : Batches, semi : BOOLEAN] /\ tasks \subseteq Keys
    /\ settleRuns \in [TradingDays -> [Versions -> Nat]] /\ conversions \in [TradingDays -> Nat]

LifeInit ==
    /\ phase = "INITIALIZING" /\ tradingDay = 1 /\ closedInstruments = {} /\ settlement = "none"
    /\ semiSettled = FALSE /\ loggedIn = FALSE /\ pendingSnapshots = {} /\ tasks = {}
    /\ settleRuns = [d \in TradingDays |-> [v \in Versions |-> 0]]
    /\ conversions = [d \in TradingDays |-> 0]

PhaseFrom(from, to) == phase' = IF phase \in from THEN to ELSE phase

\* on_login_success: a login does not resume trading.
LoginSuccess ==
    /\ loggedIn' = TRUE /\ PhaseFrom({"INITIALIZING"}, "RECONCILING")
    /\ UNCHANGED <<dayVars, semiSettled, pendingSnapshots, runVars>>

\* Mutant of MayBeReady: the warning alone decides.
NoWarning == ~semiSettled
MayBeReady == ~semiSettled /\ pendingSnapshots = {}

\* on_reconciliation_passed
ReconciliationPassed ==
    /\ MayBeReady
    /\ PhaseFrom({"INITIALIZING", "RECONCILING", "SETTLED", "MAINTENANCE"}, "READY")
    /\ UNCHANGED <<dayVars, semiSettled, loggedIn, pendingSnapshots, runVars>>

\* on_market_open: out of any other phase there is an alarm and no more.
MarketOpen ==
    /\ phase = "READY" /\ ~semiSettled /\ phase' = "TRADING"
    /\ UNCHANGED <<dayVars, semiSettled, loggedIn, pendingSnapshots, runVars>>

\* on_session_closed, of the current day: the account closes with the last.
SessionClosed(i) ==
    /\ closedInstruments' = closedInstruments \union {i}
    /\ IF Enabled \subseteq closedInstruments' THEN PhaseFrom({"TRADING"}, "POST_CLOSE")
                                               ELSE UNCHANGED phase
    /\ UNCHANGED <<tradingDay, settlement, semiSettled, loggedIn, pendingSnapshots, runVars>>

\* on_market_close, on_settlement_pending, on_maintenance_started, _ended.
PhaseCall ==
    /\ \/ PhaseFrom({"TRADING"}, "POST_CLOSE")
       \/ PhaseFrom({"POST_CLOSE", "TRADING"}, "SETTLEMENT_PENDING")
       \/ PhaseFrom({"POST_CLOSE", "SETTLEMENT_PENDING", "SETTLED"}, "MAINTENANCE")
       \/ PhaseFrom({"MAINTENANCE"}, "RECONCILING")
    /\ UNCHANGED <<dayVars, semiSettled, loggedIn, pendingSnapshots, runVars>>

\* The key of run_once.
Key(task, version) == [day |-> tradingDay, task |-> task, version |-> version]

Plus(n, runs) == IF runs THEN n + 1 ELSE n

\* on_settlement_ready, of the current day; a version is settled once.
SettlementReady(v) ==
    LET key == Key("settle", v) IN
    /\ settleRuns' = [settleRuns EXCEPT ![tradingDay][v] = Plus(@, key \notin tasks)]
    /\ tasks' = tasks \union {key}
    /\ settlement' = v /\ semiSettled' = FALSE
    /\ phase' = IF phase = "SEMI_SETTLED_HOLD" THEN phase ELSE "SETTLED"
    /\ UNCHANGED <<tradingDay, closedInstruments, loggedIn, pendingSnapshots, conversions>>

\* on_settlement_confirmed, of the current day.
SettlementConfirmed(v) ==
    /\ settlement' = v /\ semiSettled' = FALSE /\ phase' = "SETTLED"
    /\ UNCHANGED <<tradingDay, closedInstruments, loggedIn, pendingSnapshots, runVars>>

\* advance_trading_day: refused until the day is settled; a day that has come
\* already is not advanced to again.
AdvanceTradingDay ==
    LET key == Key("advance", settlement) IN
    /\ tradingDay < EndDay /\ settlement # "none"
    /\ conversions' = [conversions EXCEPT ![tradingDay] = Plus(@, key \notin tasks)]
    /\ tasks' = tasks \union {key}
    /\ tradingDay' = tradingDay + 1 /\ closedInstruments' = {} /\ settlement' = "none"
    /\ semiSettled' = FALSE /\ phase' = "INITIALIZING"
    /\ UNCHANGED <<loggedIn, pendingSnapshots, settleRuns>>

\* submit_query_snapshot: one that is incomplete or of another day waits, and
\* so does a semi-settled one, which holds the account.
SubmitSnapshot(b, semi) ==
    /\ pendingSnapshots' = pendingSnapshots \union {[batch |-> b, semi |-> semi]}
    /\ semiSettled' = (semiSettled \/ semi)
    /\ phase' = IF semi THEN "SEMI_SETTLED_HOLD" ELSE phase
    /\ UNCHANGED <<dayVars, loggedIn, runVars>>

\* on_snapshot_verified, with a complete and settled snapshot of the batch.
SnapshotVerified(b) ==
    LET rest == {s \in pendingSnapshots : s.batch # b}
        clears == \A s \in rest : ~s.semi
    IN /\ pendingSnapshots' = rest
       /\ semiSettled' = (semiSettled /\ ~clears)
       /\ IF clears
          THEN PhaseFrom({"SEMI_SETTLED_HOLD"}, IF settlement # "none" THEN "SETTLED" ELSE "RECONCILING")
          ELSE UNCHANGED phase
       /\ UNCHANGED <<dayVars, loggedIn, runVars>>

LifeNext ==
    \/ LoginSuccess \/ ReconciliationPassed \/ MarketOpen \/ PhaseCall \/ AdvanceTradingDay
    \/ \E i \in Enabled : SessionClosed(i)
    \/ \E v \in Versions : SettlementReady(v) \/ SettlementConfirmed(v)
    \/ \E b \in Batches : SnapshotVerified(b) \/ \E semi \in BOOLEAN : SubmitSnapshot(b, semi)

LifeSpec == LifeInit /\ [][LifeNext]_lifeVars

-------------------------------------------------------------------------------
(* Properties *)

\* The account is never ready for new risk, nor trading, on a half settled
\* picture: a settlement confirmed or a day advanced meanwhile clears the
\* warning but not the snapshot that gave it.
HeldUntilVerified ==
    phase \in {"READY", "TRADING"} => ~semiSettled /\ \A s \in pendingSnapshots : ~s.semi

\* The tasks of a day run once: each version is settled at most once however
\* often its data come, and every day that has passed was converted exactly once.
DayTasksRunOnce ==
    /\ \A d \in TradingDays, v \in Versions : settleRuns[d][v] <= 1
    /\ \A d \in TradingDays : conversions[d] = IF d < tradingDay THEN 1 ELSE 0

DayIsSound == HeldUntilVerified /\ DayTasksRunOnce
===============================================================================
