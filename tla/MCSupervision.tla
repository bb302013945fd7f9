----------------------------- MODULE MCSupervision ------------------------------
(* Watchdog, Rollover and CommandStore for TLC: what must come to an end, an      *)
(* incident and a roll, and the database through which processes speak.  They    *)
(* share no state; a behaviour follows one of them.                              *)
EXTENDS Watchdog, TLC

CONSTANTS Size, MaxRetries, BarsPerDay, OpenFirst, RiskRefuses,
          Executors, MaxTransactions, MaxSnapshots

\* A strategy trades at least one lot.
ASSUME RollAssumption ==
    /\ Size \in Nat \ {0} /\ MaxRetries \in Nat /\ BarsPerDay \in Nat
    /\ OpenFirst \in BOOLEAN

VARIABLES
    part, strategy, phase, budget, barsLeft, dominant, missed,
    journal, tables, queue, snapshots, owner, cached, staged, accepted, heard

Roll == INSTANCE Rollover

\* A command of which two contents are sent, and an application.
Store == INSTANCE CommandStore WITH
    Requests <- [c |-> {1, 2}, t |-> {1}], TakeoverIds <- {"t"}, Facts <- {"f"},
    Changes <- {<<>>, [k |-> 1, l |-> 1], [k |-> 0]}, Reserved <- {<<>>}

rollVars == <<strategy, phase, budget, barsLeft, dominant, missed>>
commandVars == <<journal, tables, queue, snapshots, owner, cached, staged, accepted, heard>>
supervisionVars == <<part, vars, rollVars, commandVars>>

SupervisionInit ==
    part \in {"watchdog", "roll", "store"} /\ Init /\ Roll!Init /\ Store!StoreInit

Watching(A) == part = "watchdog" /\ A /\ UNCHANGED <<part, rollVars, commandVars>>
Rolls(A) == part = "roll" /\ A /\ UNCHANGED <<part, vars, commandVars>>
Stores(A) == part = "store" /\ A /\ UNCHANGED <<part, vars, rollVars>>

SupervisionNext == Watching(Next) \/ Rolls(Roll!Next) \/ Stores(Store!StoreNext)

\* The fairness of the two modules, each in its own part.
SupervisionFairness ==
    /\ SF_supervisionVars(Watching(Evaluate(Roles)))
    /\ WF_supervisionVars(Watching(Refuse \/ Build) \/ Rolls(Roll!Next))
    /\ SF_supervisionVars(Watching(Submit))
    /\ WF_supervisionVars(Watching(Beat("execution")))

SupervisionSpec == SupervisionInit /\ [][SupervisionNext]_supervisionVars /\ SupervisionFairness

\* A roll counts what the account holds and has an order that drives it (Rollover).
RollIsSound == part = "roll" => Roll!RollIsCounted /\ Roll!RollIsDriven
\* A roll is completed or given up in the end, and completed only when the whole
\* position has moved (Rollover).
RollEndsMoved == Roll!RollEnds /\ Roll!CompletedIsMoved
\* Journal, projections, queue and subscriptions are one history (CommandStore).
StoreIsOneHistory == part = "store" => Store!StoreIsOneHistory
=================================================================================
