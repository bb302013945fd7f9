------------------------------- MODULE Rollover -------------------------------
(***************************************************************************)
(* RollAwareTrendStrategy moves its position from the old main contract to *)
(* the new one: RollManager plans one leg order after the other, the       *)
(* backtest engine holds, sends, refuses and expires them, the simulated   *)
(* gateway fills what the volume of a bar allows.                          *)
(*                                                                         *)
(* One round is one trading day of BacktestEngine.run over daily bars: the *)
(* day switch expires what is left of yesterday's orders, the orders held  *)
(* since yesterday's close go out, both contracts are matched at their     *)
(* open, and at the close on_bar is called for the bar of every contract.  *)
(* What is sent in reaction to a fill waits for the next open as well.     *)
(*                                                                         *)
(* The position is long and the signal asks for Size lots or for none.     *)
(* A closing order that the router splits by today's and yesterday's lots  *)
(* counts as one: its children carry the same contract and expire together.*)
(* Prices, fees and the ledger are left out.                               *)
(***************************************************************************)
EXTENDS Naturals, Sequences, SequencesExt

CONSTANTS
    Size,             \* order_size
    MaxRetries,       \* max_leg_retries
    BarsPerDay,       \* contracts with a bar of the day: calls of on_bar
    OpenFirst,        \* LegOrderPolicy.OPEN_FIRST, otherwise CLOSE_FIRST
    RiskRefuses       \* an order may be refused (limits, holidays, margin, no session)

Contracts == {"old", "new"}
States == {"PLANNED", "LEG_1_SUBMITTED", "LEG_1_PARTIAL", "LEG_1_FILLED",
           "LEG_2_SUBMITTED", "LEG_2_PARTIAL", "COMPLETED", "PAUSED"}
Lots == 0..(2 * Size)

VARIABLES
    strategy,    \* what the strategy, its roll task and the account know
    phase,       \* where BacktestEngine.run is within the day
    budget,      \* volume left in the bar being matched
    barsLeft,    \* calls of on_bar left at this close
    dominant,    \* the main contract as published
    missed       \* history: an order of this roll ended while the roll was paused

vars == <<strategy, phase, budget, barsLeft, dominant, missed>>

Leg == [filled : Lots, placed : BOOLEAN, batch : Lots, batchFilled : Lots]
Task == [state : States, total : 1..Size, leg : [1..2 -> Leg], retries : 0..MaxRetries]
NoTask == [state |-> "none"]
Order == [contract : Contracts, opens : BOOLEAN, left : 1..(2 * Size), sent : BOOLEAN]

TypeOK ==
    /\ strategy.held \in Contracts \union {"none"}
    /\ strategy.task \in Task \union {NoTask}
    /\ strategy.position \in [Contracts -> Lots]
    /\ strategy.orders \in Seq(Order) /\ Len(strategy.orders) <= 4
    /\ phase \in {"settled", "expiring", "old", "new", "close"}
    /\ budget \in 0..(2 * Size) /\ barsLeft \in 0..BarsPerDay
    /\ dominant \in Contracts /\ missed \in BOOLEAN

Init ==
    /\ strategy = [held |-> "none", task |-> NoTask,
                   position |-> [c \in Contracts |-> 0], orders |-> <<>>]
    /\ phase = "settled" /\ budget = 0 /\ barsLeft = 0
    /\ dominant = "old" /\ missed = FALSE

Rolling(s) == s.task # NoTask
LegOf(contract) == IF contract = "old" THEN 1 ELSE 2

-------------------------------------------------------------------------------
(* BaseEngine.send_order *)

LeftOf(s, which) == MapThenSumSet(LAMBDA i : s.orders[i].left, which)
Closing(s, contract) == {i \in DOMAIN s.orders : ~s.orders[i].opens /\ s.orders[i].contract = contract}
Frozen(s, contract) == LeftOf(s, Closing(s, contract))

\* An order may be refused by risk or the session gate, a closing one also for
\* want of lots that are not frozen: at once, before send_order returns.
Accepted(s, opens, contract, quantity, refused) ==
    ~refused /\ (~opens => s.position[contract] - Frozen(s, contract) >= quantity)

\* Held until the market opens again.
Send(s, opens, contract, quantity) ==
    [s EXCEPT !.orders = Append(@, [contract |-> contract, opens |-> opens,
                                    left |-> quantity, sent |-> FALSE])]

-------------------------------------------------------------------------------
(* RollManager *)

\* on_leg_failed
LegFailed(t, n) ==
    [t EXCEPT !.state = "PAUSED",
              !.leg[n] = [filled |-> t.leg[n].filled, placed |-> FALSE, batch |-> 0, batchFilled |-> 0]]

FirstLegDue(t) == t.leg[1].filled < t.total /\ ~t.leg[1].placed
SecondLegDue(t) == t.leg[2].filled < t.leg[1].filled /\ ~t.leg[2].placed
NextLeg(t) ==
    IF t.state \in {"PAUSED", "COMPLETED"} THEN 0
    ELSE IF FirstLegDue(t) THEN 1 ELSE IF SecondLegDue(t) THEN 2 ELSE 0

\* Mutant of LegQuantity: the second leg makes up the whole position.
LegQuantityWhole(t, n) == t.total - t.leg[n].filled

\* The first leg takes what is left, the second what the first is ahead.
LegQuantity(t, n) ==
    IF n = 1 THEN t.total - t.leg[1].filled ELSE t.leg[1].filled - t.leg[2].filled

\* The contract a leg is planned in, by LegOrderPolicy.
PlannedContract(n) == IF (n = 1) = OpenFirst THEN "new" ELSE "old"

\* plan_next_order
Placed(leg, quantity) == [filled |-> leg.filled, placed |-> TRUE, batch |-> quantity, batchFilled |-> 0]
Planned(t, n) ==
    [t EXCEPT !.state = IF n = 1 THEN "LEG_1_SUBMITTED" ELSE "LEG_2_SUBMITTED",
              !.leg[n] = Placed(t.leg[n], LegQuantity(t, n))]

\* bind_submitted_order: the order is bound to the leg of its contract.
Bound(t, contract) == [t EXCEPT !.leg[LegOf(contract)].placed = TRUE]

\* _advance_roll: plan, send_order, bind; a refused order fails its leg.
Advance(s, refused) ==
    LET n == NextLeg(s.task)
        contract == PlannedContract(n)
        opens == contract = "new"
        quantity == LegQuantity(s.task, n)
        bound == Bound(Planned(s.task, n), contract)
    IN IF n = 0 THEN s
       ELSE IF Accepted(s, opens, contract, quantity, refused)
       THEN [Send(s, opens, contract, quantity) EXCEPT !.task = bound]
       ELSE [s EXCEPT !.task = LegFailed(bound, LegOf(contract))]

\* Mutant of StateAfterFill: the second leg is done when it has caught up.
StateAfterCatchUp(t, n, filled) ==
    CASE n = 1 -> IF filled >= t.total THEN "LEG_1_FILLED" ELSE "LEG_1_PARTIAL"
      [] n = 2 -> IF filled >= t.leg[1].filled THEN "COMPLETED" ELSE "LEG_2_PARTIAL"

StateAfterFill(t, n, filled) ==
    CASE n = 1 -> IF filled >= t.total THEN "LEG_1_FILLED" ELSE "LEG_1_PARTIAL"
      [] n = 2 -> IF filled >= t.total THEN "COMPLETED" ELSE "LEG_2_PARTIAL"

\* on_fill: a fill counts for the leg of its contract, whichever order it is
\* of; a leg may be planned again when the whole batch has been filled.
LegFilled(t, n, quantity) ==
    LET leg == t.leg[n]
        filled == leg.filled + quantity
        batchFilled == leg.batchFilled + quantity
    IN [t EXCEPT !.state = StateAfterFill(t, n, filled),
                 !.leg[n] = [filled |-> filled, placed |-> leg.placed /\ batchFilled < leg.batch,
                             batch |-> leg.batch, batchFilled |-> batchFilled]]

RetriesLeft(t) == t.retries < MaxRetries

\* resume, below the limit of retries.
Resumed(t) ==
    [t EXCEPT !.retries = @ + 1,
              !.state = CASE t.leg[1].filled >= t.total /\ t.leg[2].filled > 0 -> "LEG_2_PARTIAL"
                          [] t.leg[1].filled >= t.total /\ t.leg[2].filled = 0 -> "LEG_1_FILLED"
                          [] t.leg[1].filled \in 1..(t.total - 1) -> "LEG_1_PARTIAL"
                          [] t.leg[1].filled = 0 -> "PLANNED"]

-------------------------------------------------------------------------------
(* RollAwareTrendStrategy *)

\* on_order, for an order that ended with lots left: whichever order of the
\* contract it is.  A paused roll does not listen.
OnFailedOrder(s, contract) ==
    IF Rolling(s) /\ s.task.state # "PAUSED"
    THEN [s EXCEPT !.task = LegFailed(@, LegOf(contract))] ELSE s

\* on_trade
OnTrade(s, contract, quantity, refused) ==
    LET task == LegFilled(s.task, LegOf(contract), quantity)
    IN CASE ~Rolling(s) -> s
         [] Rolling(s) /\ task.state = "COMPLETED" -> [s EXCEPT !.task = NoTask, !.held = "new"]
         [] Rolling(s) /\ task.state # "COMPLETED" -> Advance([s EXCEPT !.task = task], refused)

\* _start_roll
StartRoll(s, refused) ==
    LET idle == [filled |-> 0, placed |-> FALSE, batch |-> 0, batchFilled |-> 0]
        task == [state |-> "PLANNED", total |-> s.position["old"],
                 leg |-> [n \in 1..2 |-> idle], retries |-> 0]
    IN Advance([s EXCEPT !.task = task], refused)

\* _retry_or_abandon_roll: a roll that is given up leaves what was moved, and
\* what was not, and the strategy goes on with one of the two contracts.
RetryOrAbandon(s, refused) ==
    IF RetriesLeft(s.task)
    THEN Advance([s EXCEPT !.task = Resumed(@)], refused)
    ELSE [s EXCEPT !.task = NoTask,
                   !.held = IF s.position["new"] = 0 /\ s.position["old"] # 0 THEN "old" ELSE "new"]

\* _apply_target on the main contract, unless an order is still pending.
ApplyTarget(s, target, refused) ==
    LET current == s.position[dominant]
        opens == target > current
        quantity == IF opens THEN target - current ELSE current - target
        next == [s EXCEPT !.held = dominant]
    IN IF s.orders # <<>> \/ current = target
          \/ ~Accepted(s, opens, dominant, quantity, refused)
       THEN next ELSE Send(next, opens, dominant, quantity)

-------------------------------------------------------------------------------
(* BacktestEngine.run *)

\* The first bar of a new trading day; the main contract may have changed.
BeginDay ==
    /\ phase = "settled" /\ phase' = "expiring"
    /\ dominant' \in {dominant, "new"}
    /\ UNCHANGED <<strategy, budget, barsLeft, missed>>

Expires(o) == o.sent

\* expire_orders: one after the other, in the order they were sent.
Expire ==
    /\ phase = "expiring" /\ strategy.orders # <<>> /\ Expires(Head(strategy.orders))
    /\ strategy' = OnFailedOrder([strategy EXCEPT !.orders = Tail(@)], Head(strategy.orders).contract)
    /\ missed' = (missed \/ (Rolling(strategy) /\ strategy.task.state = "PAUSED"))
    /\ UNCHANGED <<phase, budget, barsLeft, dominant>>

Activated(orders) == [i \in DOMAIN orders |-> [orders[i] EXCEPT !.sent = TRUE]]

\* The timers of the orders held since the last close or fill are due.
SendDeferred ==
    /\ phase = "expiring" /\ (strategy.orders # <<>> => ~Expires(Head(strategy.orders)))
    /\ strategy' = [strategy EXCEPT !.orders = Activated(@)]
    /\ phase' = "old" /\ budget' \in 0..(2 * Size)
    /\ UNCHANGED <<barsLeft, dominant, missed>>

Matchable == {i \in DOMAIN strategy.orders :
                 strategy.orders[i].contract = phase /\ strategy.orders[i].sent}

\* match_bar and its trade: the oldest order takes what the bar's volume leaves.
Fill(refused) ==
    /\ phase \in Contracts /\ budget > 0 /\ Matchable # {}
    /\ LET i == CHOOSE j \in Matchable : \A k \in Matchable : j <= k
           o == strategy.orders[i]
           quantity == IF o.left <= budget THEN o.left ELSE budget
           rest == IF quantity = o.left THEN RemoveAt(strategy.orders, i)
                   ELSE [strategy.orders EXCEPT ![i].left = @ - quantity]
           booked == [strategy EXCEPT !.orders = rest,
                        !.position[phase] = IF o.opens THEN @ + quantity ELSE @ - quantity]
       IN /\ strategy' = OnTrade(booked, phase, quantity, refused)
          /\ budget' = budget - quantity
    /\ missed' = (missed /\ Rolling(strategy'))
    /\ UNCHANGED <<phase, barsLeft, dominant>>

\* The next contract's bar, or the close.
EndMatch ==
    /\ phase \in Contracts /\ (budget = 0 \/ Matchable = {})
    /\ IF phase = "old" THEN phase' = "new" /\ budget' \in 0..(2 * Size) /\ UNCHANGED barsLeft
       ELSE phase' = "close" /\ budget' = 0 /\ barsLeft' = BarsPerDay
    /\ UNCHANGED <<strategy, dominant, missed>>

\* on_bar, once for each contract's bar.  No signal may be taken while a roll
\* is unfinished, nor on a degraded day.
OnBar(refused) ==
    /\ phase = "close" /\ barsLeft > 0 /\ barsLeft' = barsLeft - 1
    /\ LET s == strategy IN
       CASE Rolling(s) ->
              strategy' = IF s.task.state = "PAUSED" THEN RetryOrAbandon(s, refused) ELSE s
         [] ~Rolling(s) /\ s.held = "old" /\ dominant = "new" /\ s.position["old"] # 0 ->
              strategy' = StartRoll(s, refused)
         [] OTHER ->
              \/ strategy' = [s EXCEPT !.held = IF @ = "none" THEN @ ELSE dominant]
              \/ \E target \in {0, Size} : strategy' = ApplyTarget(s, target, refused)
    /\ missed' = (missed /\ Rolling(strategy'))
    /\ UNCHANGED <<phase, budget, dominant>>

EndDay ==
    /\ phase = "close" /\ barsLeft = 0 /\ phase' = "settled"
    /\ UNCHANGED <<strategy, budget, barsLeft, dominant, missed>>

Refusals == IF RiskRefuses THEN BOOLEAN ELSE {FALSE}

Next ==
    \/ BeginDay \/ Expire \/ SendDeferred \/ EndMatch \/ EndDay
    \/ \E refused \in Refusals : Fill(refused) \/ OnBar(refused)

Spec == Init /\ [][Next]_vars

\* The run goes on to the next bar as long as there are bars.
LiveSpec == Spec /\ WF_vars(Next)

-------------------------------------------------------------------------------
(* Properties *)

Total(s) == s.position["old"] + s.position["new"]
Opening(s) == {i \in DOMAIN s.orders : s.orders[i].opens /\ s.orders[i].contract = "new"}
Arriving(s) == LeftOf(s, Opening(s))

\* The legs of a roll are what the account holds: what the first leg counts has
\* left the old contract, what the second counts is in the new one, although
\* fills are counted by contract and orders of before the roll may be alive.
LegsAreFills ==
    Rolling(strategy) =>
        /\ strategy.position["old"] + strategy.task.leg[1].filled = strategy.task.total
        /\ strategy.position["new"] = strategy.task.leg[2].filled

\* With CLOSE_FIRST the account does not hold, nor can the day's market make it
\* hold, more lots than the position that is rolled: no leg is sent twice by a
\* retry, by an expiry, by a fill that comes while the roll is paused, or by a
\* roll that was given up with an order alive.
NeverDoubled ==
    Rolling(strategy) /\ phase \in Contracts
        => Total(strategy) + Arriving(strategy) <= strategy.task.total

\* A roll counts what the account holds, and risks no more than it rolls.
RollIsCounted == TypeOK /\ LegsAreFills /\ NeverDoubled

\* A roll that ends as COMPLETED has moved the whole position.
CompletedIsMoved ==
    [][LET ends == Rolling(strategy) /\ ~Rolling(strategy') /\ phase \in Contracts IN
       ends => strategy'.position["old"] = 0 /\ strategy'.position["new"] = strategy.task.total]_vars

\* At the end of a day a roll that is not paused has an order that drives it
\* on, since on_bar does nothing for it, unless one of its orders expired while
\* it was paused: on_order does not listen then.  (docs/06: a failed leg pauses
\* the roll, which is retried and given up after max_leg_retries.)
RollIsDriven ==
    phase = "settled" /\ Rolling(strategy) /\ strategy.task.state # "PAUSED"
        => strategy.orders # <<>> \/ missed

\* A roll is completed or given up in the end, with the same exception.
RollEnds == Rolling(strategy) ~> (~Rolling(strategy) \/ missed)
===============================================================================
