------------------------------- MODULE MCRestart --------------------------------
(* What a process that starts finds, for TLC: the strategy and its checkpoint,   *)
(* the order references of former sessions, the reconciliation before trading is *)
(* enabled, and the account's history.  A behaviour follows one of the four.     *)
EXTENDS StrategyRuntime, Integers

CONSTANTS
    Parts,      \* what this run follows
    Orders, MaxSessions, MaxFaults, MaxDeaths, LastDay, MaxFacts, MaxFailures,
    Products, Deals, TradeOf

\* There is an order to follow, and "none" is not one.
ASSUME RestartAssumption ==
    /\ Orders # {} /\ IsFiniteSet(Orders) /\ "none" \notin Orders
    /\ MaxSessions \in Nat /\ MaxDeaths \in Nat
    /\ IsFiniteSet(Products) /\ IsFiniteSet(Deals)
    /\ TradeOf \in [Deals -> [product : Products, lots : Int, cash : Int]]

\* Of one product, a buy and a sell at one price.
MCTradeOf == [bought |-> [product |-> "a", lots |-> 1, cash |-> -1],
              sold   |-> [product |-> "a", lots |-> -1, cash |-> 1]]

VARIABLES
    part,
    step, current, session, nextRef, book, ingress, intended, evidence, identity, bySession, byExchange,
    held, applied, refsPerUser, logins, placed, news, unresolved, deaths,
    counter, own, booked, before, calls, heard, online, doing, query, asked, answers, got, diffs, enabled, faults,
    journal, model, service, account, exchange, failures

Refs == INSTANCE CtpOrderRefs WITH None <- "none", MaxCrashes <- MaxDeaths, pc <- step, crashes <- deaths

Recover == INSTANCE Recovery WITH broker <- counter, facts <- heard

History == INSTANCE AccountHistory

refVars == <<step, current, session, nextRef, book, ingress, intended, evidence, identity, bySession,
             byExchange, held, applied, refsPerUser, logins, placed, news, unresolved, deaths>>
recoverVars == <<counter, own, booked, before, calls, heard, online, doing, query, asked, answers, got, diffs,
                 enabled, faults>>
historyVars == <<journal, model, service, account, exchange, failures>>
restartVars == <<part, vars, refVars, recoverVars, historyVars>>

\* A part that is not followed begins in one state.
RestartInit ==
    /\ part \in Parts
    /\ Init /\ Refs!Init /\ Recover!RecoveryInit /\ History!HistoryInit
    /\ part # "references" => refsPerUser
    /\ part # "reconciliation" => counter = [o \in Deals |-> "none"] /\ own = [o \in Deals |-> "absent"]

Strategy(A) == part = "strategy" /\ A /\ UNCHANGED <<part, refVars, recoverVars, historyVars>>
References(A) == part = "references" /\ A /\ UNCHANGED <<part, vars, recoverVars, historyVars>>
Reconciliation(A) == part = "reconciliation" /\ A /\ UNCHANGED <<part, vars, refVars, historyVars>>
Commits(A) == part = "history" /\ A /\ UNCHANGED <<part, vars, refVars, recoverVars>>

RestartNext ==
    \/ Strategy(Next) \/ References(Refs!Next) \/ Reconciliation(Recover!RecoveryNext)
    \/ Commits(History!HistoryNext)

RestartSpec == RestartInit /\ [][RestartNext]_restartVars

\* A callback is applied to its own order or to none, and trades, reports and
\* cancels find the orders they were told of (CtpOrderRefs).
AttributionIsSound == part = "references" => Refs!NeverMisattributed /\ Refs!NothingIsLost
\* Trading is enabled on the truth (Recovery).
EnabledOnTruth == part = "reconciliation" => Recover!EnabledOnTruth
\* The account in memory is the one in the journal; only finished orders retire (AccountHistory).
HistoryIsDurable == part = "history" => History!HistoryIsDurable
\* Checkpoints and restarts are invisible to readers of the account (AccountHistory).
ImplementsPlain == History!ImplementsPlain
=================================================================================
