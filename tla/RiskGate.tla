-------------------------------- MODULE RiskGate --------------------------------
(***************************************************************************)
(* The checks before an order: RiskManager.check_and_reserve and           *)
(* ExchangeLimits, on the account's own picture of what is held, what is   *)
(* reserved and what is still active, and that picture kept by reports and *)
(* trades that come in any order and, reports, once more.                  *)
(*                                                                         *)
(* One instrument and one trading day; an order is for its side, offset,   *)
(* price and quantity.  Funds, a price band, a delivery rule, a cooldown or *)
(* the risk state may refuse any order and are left out: an order that is  *)
(* not submitted.  Control epochs are ExecutionService's.  The broker is   *)
(* external.                                                               *)
(***************************************************************************)
EXTENDS Naturals, FiniteSets, FiniteSetsExt

CONSTANTS
    Intents,        \* the orders of the instance: client_order_id
    Terms,          \* [Intents -> Term], OrderIntent
    HeldLong,       \* lots held when the day begins
    MaxOpenLots,    \* LimitKind.MAX_OPEN_LOTS_PER_DAY
    MaxPosition,    \* LimitKind.MAX_POSITION_LOTS
    MaxCancelled    \* LimitKind.MAX_CANCELS_PER_DAY

Finals == {"FILLED", "CANCELLED", "REJECTED"}

VARIABLES
    account,        \* Order, PositionReservation: per order, as the account knows it
    openLots,       \* RiskManager._counters.open_lots
    cancelled,      \* RiskManager._counters.cancels
    asked,          \* orders with a cancel request on its way
    exchange,       \* per order: state at the broker and lots traded
    told            \* reports on their way, and whether they are new

gateVars == <<account, openLots, cancelled, asked, exchange, told>>

Known == [status : {"ABSENT", "SUBMITTING", "ACCEPTED", "PARTIALLY_FILLED"} \union Finals,
          cum : Nat, booked : Nat, reserved : BOOLEAN]
AtBroker == [state : {"none", "sent", "working", "done"}, traded : Nat]
Told == [order : Intents, status : {"ACCEPTED", "PARTIALLY_FILLED"} \union Finals,
         filled : Nat, fresh : BOOLEAN]

GateTypeOK ==
    /\ account \in [Intents -> Known] /\ exchange \in [Intents -> AtBroker]
    /\ openLots \in Nat /\ cancelled \in Nat
    /\ asked \subseteq Intents /\ told \subseteq Told

GateInit ==
    /\ account = [o \in Intents |-> [status |-> "ABSENT", cum |-> 0, booked |-> 0, reserved |-> FALSE]]
    /\ exchange = [o \in Intents |-> [state |-> "none", traded |-> 0]]
    /\ openLots = 0 /\ cancelled = 0 /\ asked = {} /\ told = {}

-------------------------------------------------------------------------------
(* The account's picture *)

QtyOf(o) == Terms[o].qty
Opening(o) == Terms[o].offset = "OPEN"

\* target_position_side: a sell closes what was bought.
TargetOf(o) == IF (Terms[o].side = "buy") = Opening(o) THEN "long" ELSE "short"

OrdersOn(side, opening) == {o \in Intents : TargetOf(o) = side /\ Opening(o) = opening}

Position(side, lots) ==
    (IF side = "long" THEN HeldLong ELSE 0)
        + MapThenSumSet(LAMBDA o : lots[o], OrdersOn(side, TRUE))
        - MapThenSumSet(LAMBDA o : lots[o], OrdersOn(side, FALSE))

HeldBy(side) == Position(side, [o \in Intents |-> account[o].booked])

Active(o) == account[o].status \notin Finals \union {"ABSENT"}

\* Mutant of Pending: what the broker has confirmed only counts.
PendingAccepted(side) ==
    MapThenSumSet(LAMBDA o : QtyOf(o) - account[o].booked,
                  {o \in OrdersOn(side, TRUE) : account[o].reserved /\ account[o].status # "SUBMITTING"})

\* Lots that reserved opening orders may still bring in.
Pending(side) ==
    MapThenSumSet(LAMBDA o : QtyOf(o) - account[o].booked,
                  {o \in OrdersOn(side, TRUE) : account[o].reserved})

\* freeze_for_close: what closing orders have reserved, less what they booked.
Frozen(side) ==
    MapThenSumSet(LAMBDA o : QtyOf(o) - account[o].booked,
                  {o \in OrdersOn(side, FALSE) : account[o].reserved})

\* ExchangeLimits.check_order
WithinLimits(o) ==
    /\ openLots + QtyOf(o) <= MaxOpenLots
    /\ HeldBy(TargetOf(o)) + Pending(TargetOf(o)) + QtyOf(o) <= MaxPosition

\* A market order (price 0) crosses every order of the other side.
Crosses(o, other) ==
    /\ Terms[o].side # Terms[other].side
    /\ \/ 0 \in {Terms[o].price, Terms[other].price}
       \/ IF Terms[o].side = "buy" THEN Terms[o].price >= Terms[other].price
                                   ELSE Terms[o].price <= Terms[other].price

\* _check_self_trade
SelfTrade(o) == \E other \in Intents : Active(other) /\ Crosses(o, other)

\* check_order and, for a close, the lots that are free.
Allowed(o) ==
    /\ ~SelfTrade(o)
    /\ IF Opening(o) THEN WithinLimits(o)
       ELSE HeldBy(TargetOf(o)) - Frozen(TargetOf(o)) >= QtyOf(o)

-------------------------------------------------------------------------------
(* The account thread *)

\* A submit command: check_and_reserve, the intent, the call and its result.
Submit(o, sent) ==
    /\ account[o].status = "ABSENT" /\ Allowed(o)
    /\ account' = [account EXCEPT ![o].status = IF sent THEN "SUBMITTING" ELSE "REJECTED",
                                  ![o].reserved = sent]
    /\ exchange' = [exchange EXCEPT ![o].state = IF sent THEN "sent" ELSE @]
    /\ UNCHANGED <<openLots, cancelled, asked, told>>

\* A cancel command: the exchange's limit does.
RequestCancel(o) ==
    /\ Active(o) /\ o \notin asked /\ cancelled < MaxCancelled
    /\ asked' = asked \union {o}
    /\ UNCHANGED <<account, openLots, cancelled, exchange, told>>

AtLeast(a, b) == IF a >= b THEN a ELSE b

\* on_order_canceled_or_rejected: lots filled and not booked stay reserved.
StillReserved(k) == k.reserved /\ k.booked < k.cum

\* apply_order_update, then what _apply_order_report does for a final state.
Reported(k, o, r) ==
    LET known == [k EXCEPT !.cum = AtLeast(@, r.filled),
                           !.status = IF @ \in Finals THEN @ ELSE r.status]
    IN IF r.status \in {"CANCELLED", "REJECTED"}
       THEN [known EXCEPT !.reserved = StillReserved(known)] ELSE known

\* The counters go by the report and count one that comes again, again.
Counted(o, r) ==
    /\ LET unfilled == QtyOf(o) - account'[o].cum IN
       openLots' = IF Opening(o) /\ r.status = "ACCEPTED" THEN openLots + QtyOf(o)
                   ELSE IF Opening(o) /\ r.status = "CANCELLED"
                   THEN IF openLots > unfilled THEN openLots - unfilled ELSE 0
                   ELSE openLots
    /\ cancelled' = cancelled + (IF r.status = "CANCELLED" THEN 1 ELSE 0)

ReceiveReport(r) ==
    LET o == r.order IN
    /\ account' = [account EXCEPT ![o] = Reported(@, o, r)]
    /\ Counted(o, r)
    /\ told' = (told \ {r}) \union (IF r.fresh THEN {[r EXCEPT !.fresh = FALSE]} ELSE {})
    /\ asked' = IF account'[o].status \in Finals THEN asked \ {o} ELSE asked
    /\ UNCHANGED exchange

\* _apply_trade: one lot.  A final order with all its lots holds nothing.
ReceiveTrade(o) ==
    LET k == account[o]
        fill == [k EXCEPT !.booked = @ + 1, !.cum = AtLeast(@, k.booked + 1),
                          !.status = IF @ \notin Finals /\ AtLeast(k.cum, k.booked + 1) >= QtyOf(o)
                                     THEN "FILLED" ELSE @]
        done == fill.status \in Finals /\ fill.cum = fill.booked
    IN /\ k.booked < exchange[o].traded
       /\ account' = [account EXCEPT ![o] = [fill EXCEPT !.reserved = @ /\ ~done]]
       /\ asked' = IF fill.status \in Finals THEN asked \ {o} ELSE asked
       /\ UNCHANGED <<openLots, cancelled, exchange, told>>

-------------------------------------------------------------------------------
(* The broker *)

Says(o, status, filled) == told' = told \union {[order |-> o, status |-> status, filled |-> filled, fresh |-> TRUE]}

BrokerTakes(o, ok) ==
    /\ exchange[o].state = "sent"
    /\ exchange' = [exchange EXCEPT ![o].state = IF ok THEN "working" ELSE "done"]
    /\ Says(o, IF ok THEN "ACCEPTED" ELSE "REJECTED", 0)
    /\ UNCHANGED <<account, openLots, cancelled, asked>>

BrokerTrades(o) ==
    LET traded == exchange[o].traded + 1 IN
    /\ exchange[o].state = "working"
    /\ exchange' = [exchange EXCEPT ![o] = [state |-> IF traded = QtyOf(o) THEN "done" ELSE "working",
                                            traded |-> traded]]
    /\ Says(o, IF traded = QtyOf(o) THEN "FILLED" ELSE "PARTIALLY_FILLED", traded)
    /\ UNCHANGED <<account, openLots, cancelled, asked>>

BrokerCancels(o) ==
    /\ exchange[o].state = "working" /\ o \in asked
    /\ exchange' = [exchange EXCEPT ![o].state = "done"]
    /\ Says(o, "CANCELLED", exchange[o].traded)
    /\ UNCHANGED <<account, openLots, cancelled, asked>>

GateNext ==
    \/ \E o \in Intents :
          \/ \E flag \in BOOLEAN : Submit(o, flag) \/ BrokerTakes(o, flag)
          \/ RequestCancel(o) \/ ReceiveTrade(o) \/ BrokerTrades(o) \/ BrokerCancels(o)
    \/ \E r \in told : ReceiveReport(r)

GateSpec == GateInit /\ [][GateNext]_gateVars

-------------------------------------------------------------------------------
(* Properties *)

\* Lots of an order that are traded or may still be.
Exposure(o) ==
    exchange[o].traded + (IF exchange[o].state \in {"sent", "working"} THEN QtyOf(o) - exchange[o].traded ELSE 0)

\* What the account holds at the broker, with all that its orders may still
\* open, stays within the position limit: whether trades come before or after
\* the reports, cancellations before the last trades, or a report twice.
HoldingLimitKept ==
    \A side \in {"long", "short"} :
        Position(side, [o \in Intents |-> IF Opening(o) THEN Exposure(o) ELSE exchange[o].traded]) <= MaxPosition

\* The broker never has two orders of the account that would trade with one
\* another, also while the one is on its way and the other's end is not known.
NoSelfTrade ==
    \A o, other \in Intents :
        {exchange[o].state, exchange[other].state} \subseteq {"sent", "working"} => ~Crosses(o, other)

\* The account's limits and its own orders are safe from one another.
OrdersAreSafe == HoldingLimitKept /\ NoSelfTrade
===============================================================================
