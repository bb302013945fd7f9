------------------------------- MODULE FillPrices -------------------------------
(***************************************************************************)
(* At what price an order trades in a bar: the candidate at the opening    *)
(* and the estimate at the end of SimulatedGateway, with slippage, price   *)
(* limits and the liquidity that a limit leaves.                           *)
(*                                                                         *)
(* Prices are whole; the order prices that the exchange takes are          *)
(* multiples of the tick, those of bars and limits need not be.            *)
(***************************************************************************)
EXTENDS Integers

CONSTANTS
    Tick,           \* price_tick
    Slippage,       \* slippage_ticks
    CrossOneTick,   \* IntrabarTouchRule.CROSS_ONE_TICK
    BothSides       \* a price limit stops both sides (LimitLiquidityScenario)

NoFill == -1

Smaller(a, b) == IF a <= b THEN a ELSE b
Larger(a, b) == IF a >= b THEN a ELSE b
Within(p, low, high) == Smaller(Larger(p, low), high)

\* _limit_liquidity: whether an order of the side finds the other one.
Liquid(side, price, limits) ==
    LET atUpper == price >= limits.upper
        atLower == price <= limits.lower
    IN IF BothSides THEN ~atUpper /\ ~atLower
       ELSE IF side = "buy" THEN ~atUpper ELSE ~atLower

\* _round_to_tick, against the order.
Rounded(p, side) ==
    IF p % Tick = 0 THEN p
    ELSE IF side = "buy" THEN (p \div Tick + 1) * Tick ELSE (p \div Tick) * Tick

\* _bound_price
Bound(p, side, bar, limits) ==
    LET traded == Within(p, bar.low, bar.high)
        legal == Larger(Smaller(traded, limits.upper), limits.lower)
    IN Within(Rounded(legal, side), bar.low, bar.high)

\* _open_candidate_price: slippage does not go past the order's own limit.
OpenPrice(order, bar, limits) ==
    LET buy == order.side = "buy"
        limited == order.kind = "limit"
        slipped == IF buy THEN bar.open + Slippage * Tick ELSE bar.open - Slippage * Tick
        raw == IF ~limited THEN slipped
               ELSE IF buy THEN Smaller(slipped, order.price) ELSE Larger(slipped, order.price)
    IN IF \/ limited /\ (IF buy THEN bar.open > order.price ELSE bar.open < order.price)
          \/ ~Liquid(order.side, bar.open, limits)
       THEN NoFill ELSE Bound(raw, order.side, bar, limits)

\* _intrabar_candidate_price: the bar's range reached the limit, or went past it.
IntrabarPrice(order, bar, limits) ==
    LET margin == IF CrossOneTick THEN Tick ELSE 0
        reached == IF order.side = "buy" THEN bar.low <= order.price - margin
                                         ELSE bar.high >= order.price + margin
    IN IF order.kind = "limit" /\ reached /\ Liquid(order.side, bar.close, limits)
       THEN Bound(order.price, order.side, bar, limits) ELSE NoFill

-------------------------------------------------------------------------------
(* Properties *)

Accepts(order, p) ==
    order.kind = "limit" => IF order.side = "buy" THEN p <= order.price ELSE p >= order.price

\* A price at which an order may trade in a bar: one that the bar traded at,
\* the order takes and the exchange's limits allow.
Possible(order, bar, limits, p) ==
    p # NoFill =>
        /\ p \in bar.low..bar.high
        /\ Accepts(order, p)
        /\ p \in limits.lower..limits.upper

\* The two candidates are possible prices, whatever the tick, slippage, limits
\* and rounding; for market orders the opening is never better than the bar's.
PossiblePrices(order, bar, limits) ==
    LET p == OpenPrice(order, bar, limits) IN
    /\ Possible(order, bar, limits, p)
    /\ Possible(order, bar, limits, IntrabarPrice(order, bar, limits))
    /\ p # NoFill => IF order.side = "buy" THEN p >= bar.open ELSE p <= bar.open
===============================================================================
