------------------------------ MODULE Routing ------------------------------
(* From an intent to what an exchange understands.  The engine of the backtest *)
(* plans a closing order into children (domain/smart_router.py), freezes the   *)
(* lots of each (domain/positions.py), holds or sends them, and may send one a *)
(* day after it was planned.  The live translator (run_simnow_strategy.py)     *)
(* chooses the flag and the price of one lot, and the counter's mapping        *)
(* (ctp_gateway.py) decides whether the flag may be used.  One instrument, and *)
(* the side of it that is closed.                                              *)
EXTENDS Integers, Sequences, FiniteSets, FiniteSetsExt

CONSTANTS
    MaxLots,        \* model bound: lots of a bucket at the beginning, and of an order
    MaxOrders,      \* model bound: orders of a behaviour
    MaxDays         \* model bound: trading days of a behaviour

VARIABLES
    terms,          \* capability of the exchange, priority of the router, today's fee
    position,       \* PositionDetail
    children,       \* what is reserved for each child, and what became of it
    requests,       \* history: the orders asked for, with their answers
    day

routingVars == <<terms, position, children, requests, day>>

Explicit == {"CLOSE_TODAY", "CLOSE_YESTERDAY"}
Offsets == {"OPEN", "CLOSE"} \union Explicit

\* default_close_capability_table: SHFE and INE; DCE, CFFEX and GFEX; CZCE.
Capabilities == {"split", "both", "unified"}
SupportsToday(cap) == cap # "unified"

AvailableYd(p) == p.yd - p.frozenYd
AvailableTd(p) == p.td - p.frozenTd
Available(p) == AvailableYd(p) + AvailableTd(p)

-----------------------------------------------------------------------------
\* SmartRouter.plan_order.  The lots of either day that an order takes.
Allocate(p, quantity) ==
    LET yd == IF terms.priority = "yesterday" THEN Min({AvailableYd(p), quantity})
              ELSE quantity - Min({AvailableTd(p), quantity})
    IN  [CLOSE_YESTERDAY |-> yd, CLOSE_TODAY |-> quantity - yd]

Child(offset, quantity) == [offset |-> offset, quantity |-> quantity]
Attribution(p, quantity) ==
    LET lots == Allocate(p, quantity)
        part(offset) == IF lots[offset] > 0 THEN <<Child(offset, lots[offset])>> ELSE <<>>
    IN  IF terms.priority = "yesterday" THEN part("CLOSE_YESTERDAY") \o part("CLOSE_TODAY")
        ELSE part("CLOSE_TODAY") \o part("CLOSE_YESTERDAY")

Plannable(p, offset, quantity) ==
    CASE offset = "OPEN"            -> TRUE
      [] offset = "CLOSE"           -> Available(p) >= quantity
      [] offset = "CLOSE_TODAY"     -> SupportsToday(terms.capability) /\ AvailableTd(p) >= quantity
      [] offset = "CLOSE_YESTERDAY" -> SupportsToday(terms.capability) /\ AvailableYd(p) >= quantity
Plan(p, offset, quantity) ==
    IF offset = "CLOSE" /\ terms.capability = "split" THEN Attribution(p, quantity)
    ELSE <<Child(offset, quantity)>>

\* PositionDetail.freeze_for_close: the lots that an order freezes.
Freezes(p, c) ==
    LET yd == CASE c.offset \in {"OPEN", "CLOSE_TODAY"} -> 0
                [] c.offset = "CLOSE_YESTERDAY"         -> c.quantity
                [] c.offset = "CLOSE"                   -> Min({AvailableYd(p), c.quantity})
    IN  [yd |-> yd, td |-> IF c.offset = "OPEN" THEN 0 ELSE c.quantity - yd]
CanFreeze(p, c) ==
    Freezes(p, c).yd <= AvailableYd(p) /\ Freezes(p, c).td <= AvailableTd(p)
Frozen(p, c) ==
    [p EXCEPT !.frozenYd = @ + Freezes(p, c).yd, !.frozenTd = @ + Freezes(p, c).td]

\* CommissionSchedule.commission: one closing flag for two fees says too little.
FeeKnown(c) == c.offset = "CLOSE" => terms.sameFee

\* Children are reserved in order; one that cannot be ends them all.
Reserve(p, plan) ==
    LET after[i \in 0..Len(plan)] == IF i = 0 THEN p ELSE Frozen(after[i - 1], plan[i])
    IN  [fits |-> \A i \in 1..Len(plan) : CanFreeze(after[i - 1], plan[i]) /\ FeeKnown(plan[i]),
         position |-> after[Len(plan)],
         children |-> [i \in 1..Len(plan) |->
             [parent |-> Len(requests) + 1, offset |-> plan[i].offset, flag |-> plan[i].offset,
              quantity |-> plan[i].quantity, filled |-> 0, state |-> "held",
              frozenYd |-> Freezes(after[i - 1], plan[i]).yd, frozenTd |-> Freezes(after[i - 1], plan[i]).td]]]

Answer(offset, quantity) ==
    IF ~Plannable(position, offset, quantity) THEN "routing"
    ELSE IF ~Reserve(position, Plan(position, offset, quantity)).fits THEN "reservation"
    ELSE "accepted"

-----------------------------------------------------------------------------
\* BaseEngine.send_order.  Children wait for a time at which they may be sent.
SendOrder(offset, quantity) ==
    /\ Len(requests) < MaxOrders                                    \* model bound
    /\ requests' = Append(requests, [offset |-> offset, quantity |-> quantity, answer |-> Answer(offset, quantity)])
    /\ IF Answer(offset, quantity) = "accepted"
       THEN LET reserved == Reserve(position, Plan(position, offset, quantity))
            IN  position' = reserved.position /\ children' = children \o reserved.children
       ELSE UNCHANGED <<position, children>>
    /\ UNCHANGED <<terms, day>>

\* A plausible slip: the flag that was planned, on whatever day that was.
SubmitAsPlanned(i) ==
    /\ children[i].state = "held"
    /\ children' = [children EXCEPT ![i].state = "sent"]
    /\ UNCHANGED <<terms, position, requests, day>>

\* _submit_to_gateway: with the flag of the lots that are frozen for it by then.
Submit(i) ==
    /\ children[i].state = "held"
    /\ children' = [children EXCEPT ![i].state = "sent", ![i].flag = children[i].offset]
    /\ UNCHANGED <<terms, position, requests, day>>

\* A trade of one lot: PositionManager.apply_trade, PositionDetail.apply_fill.
Fill(i) ==
    LET c == children[i]
        takesYd == c.flag = "CLOSE_YESTERDAY" \/ (c.flag = "CLOSE" /\ c.frozenYd > 0)
        done == c.filled + 1 = c.quantity
    IN  /\ c.state = "sent"
        /\ position' = IF c.flag = "OPEN" THEN [position EXCEPT !.td = @ + 1]
                       ELSE IF takesYd THEN [position EXCEPT !.yd = @ - 1, !.frozenYd = @ - 1]
                       ELSE [position EXCEPT !.td = @ - 1, !.frozenTd = @ - 1]
        /\ children' = [children EXCEPT ![i] =
               [c EXCEPT !.filled = @ + 1, !.state = IF done THEN "done" ELSE "sent",
                         !.frozenYd = IF c.flag # "OPEN" /\ takesYd THEN @ - 1 ELSE @,
                         !.frozenTd = IF c.flag # "OPEN" /\ ~takesYd THEN @ - 1 ELSE @]]
        /\ UNCHANGED <<terms, requests, day>>

\* on_order_canceled_or_rejected: what was not traded is free again.
Ended(c) == [c EXCEPT !.state = "done", !.frozenYd = 0, !.frozenTd = 0]
Cancel(i) ==
    /\ children[i].state # "done"
    /\ children' = [children EXCEPT ![i] = Ended(@)]
    /\ position' = [position EXCEPT !.frozenYd = @ - children[i].frozenYd, !.frozenTd = @ - children[i].frozenTd]
    /\ UNCHANGED <<terms, requests, day>>

\* The end of a trading day, when no order is at the exchange: lots of today, and
\* what is frozen of them, become lots of yesterday (advance_trading_day).
Rolled(c) ==
    [c EXCEPT !.frozenYd = @ + c.frozenTd, !.frozenTd = 0,
              !.offset = IF @ = "CLOSE_TODAY" /\ c.state = "held" THEN "CLOSE_YESTERDAY" ELSE @]
AdvanceTradingDay ==
    /\ day < MaxDays                                                \* model bound
    /\ \A i \in 1..Len(children) : children[i].state # "sent"
    /\ day' = day + 1
    /\ position' = [yd |-> position.yd + position.td, td |-> 0,
                    frozenYd |-> position.frozenYd + position.frozenTd, frozenTd |-> 0]
    /\ children' = [i \in 1..Len(children) |-> Rolled(children[i])]
    /\ UNCHANGED <<terms, requests>>

RoutingInit ==
    /\ terms \in [capability : Capabilities, priority : {"yesterday", "today"}, sameFee : BOOLEAN]
    /\ position \in [yd : 0..MaxLots, td : 0..MaxLots, frozenYd : {0}, frozenTd : {0}]
    /\ children = <<>> /\ requests = <<>> /\ day = 1

RoutingNext ==
    \/ \E offset \in Offsets, quantity \in 1..MaxLots : SendOrder(offset, quantity)
    \/ \E i \in 1..Len(children) : Submit(i) \/ Fill(i) \/ Cancel(i)
    \/ AdvanceTradingDay

-----------------------------------------------------------------------------
\* The live translator: one lot, of yesterday while there is one, at a price of
\* the other side, worse by some ticks, on the grid.
Translated(offset, p) ==
    LET chosen == IF offset # "CLOSE" THEN offset
                  ELSE IF AvailableYd(p) > 0 THEN "CLOSE_YESTERDAY" ELSE "CLOSE_TODAY"
        room == CASE chosen = "OPEN" -> p.yd + p.td = 0
                  [] chosen = "CLOSE_TODAY" -> AvailableTd(p) >= 1
                  [] chosen = "CLOSE_YESTERDAY" -> AvailableYd(p) >= 1
    IN  IF room THEN chosen ELSE "blocked"

\* A multiple of the tick, away from the order's own interest (ROUND_CEILING, ROUND_FLOOR).
Priced(side, quote, slippage, tick) ==
    LET aimed == IF side = "buy" THEN quote.ask + slippage * tick ELSE quote.bid - slippage * tick
    IN  tick * (IF side = "buy" THEN (aimed + tick - 1) \div tick ELSE aimed \div tick)

-----------------------------------------------------------------------------
Sum(S, f(_)) == MapThenSumSet(f, S)
Remaining(c) == c.quantity - c.filled
Live == {i \in 1..Len(children) : children[i].state # "done"}

\* A flag that leaves for the exchange is one it knows, and names the day of the
\* lots that are frozen for it, all of which it still has.
FlagsNameTheirLots ==
    \A i \in Live :
        LET c == children[i]
        IN  c.state = "sent" =>
              /\ (c.flag \in Explicit => SupportsToday(terms.capability))
              /\ (c.flag = "CLOSE" => terms.capability # "split")
              /\ (c.flag = "CLOSE_TODAY" => c.frozenTd = Remaining(c) /\ c.frozenYd = 0)
              /\ (c.flag = "CLOSE_YESTERDAY" => c.frozenYd = Remaining(c) /\ c.frozenTd = 0)

\* What is frozen is what live orders hold, and orders hold no lot twice.
LotsAreHeldOnce ==
    /\ position.frozenYd = Sum(Live, LAMBDA i : children[i].frozenYd)
    /\ position.frozenTd = Sum(Live, LAMBDA i : children[i].frozenTd)
    /\ position.frozenYd \in 0..position.yd /\ position.frozenTd \in 0..position.td
    /\ \A i \in Live : children[i].offset # "OPEN" =>
           children[i].frozenYd + children[i].frozenTd = Remaining(children[i])

\* An order is divided without loss or is not sent at all.
OrdersAreWhole ==
    \A r \in 1..Len(requests) :
        LET own == {i \in 1..Len(children) : children[i].parent = r}
        IN  /\ (own = {}) = (requests[r].answer # "accepted")
            /\ own # {} => Sum(own, LAMBDA i : children[i].quantity) = requests[r].quantity

\* What may be closed can be: with one flag for both days it takes one fee for both.
ClosableIsClosed ==
    \A quantity \in 1..Available(position) :
        terms.capability = "split" \/ terms.sameFee => Answer("CLOSE", quantity) = "accepted"

\* The translator agrees with the books: an order it lets through can be frozen.
TranslationFits ==
    \A offset \in Offsets :
        LET flag == Translated(offset, position)
        IN  flag \in Explicit => CanFreeze(position, Child(flag, 1))

\* Its prices are prices of the exchange and reach the other side.
PricesReach ==
    \A side \in {"buy", "sell"}, ask \in 2..5, slippage \in 0..2, tick \in 1..2 :
        LET quote == [ask |-> ask, bid |-> ask - 1]
            price == Priced(side, quote, slippage, tick)
        IN  /\ price % tick = 0
            /\ IF side = "buy" THEN price >= ask + slippage * tick /\ price < ask + (slippage + 1) * tick
               ELSE price <= quote.bid - slippage * tick /\ price > quote.bid - (slippage + 1) * tick

\* From intent to exchange nothing is lost, doubled, or named wrongly
\* (SmartRouter.plan_order, BaseEngine.send_order, PositionManager).
RoutesAreWhole ==
    /\ FlagsNameTheirLots /\ LotsAreHeldOnce /\ OrdersAreWhole /\ ClosableIsClosed
    /\ TranslationFits
    /\ children = <<>> => PricesReach
=============================================================================
