-------------------------------- MODULE Backtest --------------------------------
(***************************************************************************)
(* The event driven backtest: BacktestEngine.run walks over the openings   *)
(* and ends of bars, BaseEngine sends or holds the strategies' orders and  *)
(* gives them the reports, and SimulatedGateway matches.                   *)
(*                                                                         *)
(* A strategy may answer every bar, timer and report with any of its       *)
(* orders or cancellations, and what it knows is the latest time of which  *)
(* it has seen something.  Prices are FillPrices; an order that a check    *)
(* refuses is one that is not sent (RiskGate), money and lots are          *)
(* AccountKernel's and AccountLedger's.  Times are even and a microsecond  *)
(* is one.  Timers that are due at one time fire in any order.             *)
(***************************************************************************)
EXTENDS Integers, Sequences, FiniteSets, FiniteSetsExt, SequencesExt

CONSTANTS
    Bars,           \* sequence of bars, by opening: instrument, day, open, end and whether it is usable
    Shapes,         \* prices of a bar: open, high, low, close
    Sessions,       \* start, end and day of a session: permissions of the session gate
    Intents,        \* orders that the strategies may send
    Terms,          \* [Intents -> side, kind, price, quantity, instrument]
    Policies,       \* ExecutionPolicy: "next bar", "next session"
    MayDefer,       \* MissedExecutionPolicy.DEFER
    OrderDelay, CancelDelay,
    Volumes,        \* volume of a bar times the participation rate
    Wakeups,        \* times for which a strategy has set a timer
    Limits,         \* price limits
    Tick, Slippage, CrossOneTick, BothSides     \* FillPrices

VARIABLES
    policy,         \* execution_policy
    step,           \* the event of the timeline that is being processed
    doing,          \* "roll", "clock", "bar", "cancel", "end", "over"
    now, tradingDay,
    orders,         \* Order, _SimulatedOrderState and _DeferredIntent in one
    arriving,       \* _pending_cancels: <<arrival, order>>
    timers,         \* times still in the clock, of strategies
    refreshed,      \* when _following_open was computed
    reports,        \* times of the reports that wait in a dispatch
    turn,           \* who may act: "engine", or a strategy "direct" or in a "report"
    known,          \* history: the latest time of which strategies know something
    fills           \* history: <<order, bar, price>>

backtestVars == <<policy, step, doing, now, tradingDay, orders, arriving, timers, refreshed,
                  reports, turn, known, fills>>

Price == INSTANCE FillPrices

Never == 1000
Earlier(a, b) == IF a <= b THEN a ELSE b
Later(a, b) == IF a >= b THEN a ELSE b

\* Ends come before openings at the same time (timeline.sort).
Rank(e) == (e.at * 2 + (IF e.opens THEN 1 ELSE 0)) * (Len(Bars) + 1) + e.bar
Events ==
    [n \in DOMAIN Bars |-> [at |-> Bars[n].open, opens |-> TRUE, bar |-> n]] \o
    [n \in DOMAIN Bars |-> [at |-> Bars[n].end, opens |-> FALSE, bar |-> n]]
Timeline == SortSeq(Events, LAMBDA e, f : Rank(e) < Rank(f))
LastEnd(k) == Max({Timeline[n].at : n \in {n \in 1..k : ~Timeline[n].opens}} \union {0})
EndOfBars == Last(Bars).end

First(times) == IF times = {} THEN Never ELSE Min(times)
Openings(i) == {Bars[n].open : n \in {n \in DOMAIN Bars : Bars[n].instrument = i}}
NextOpenAfter(t) == First({Bars[n].open : n \in DOMAIN Bars} \ (0..(t - 1)))
FollowingOpen(i) == First(Openings(i) \ (0..refreshed))

\* CalendarSessionGate: submitting, cancelling and matching alike.
Permitted(t) == \E s \in Sessions : s.start <= t /\ t < s.end
NextSubmitTime(t) == IF Permitted(t) THEN t ELSE First({s.start : s \in Sessions} \ (0..t))
NextSessionOpen(t) == First({s.start : s \in Sessions} \ (0..t))
DayAt(t) == (CHOOSE s \in Sessions : s.start <= t /\ t <= s.end).day

States == {"idle", "held", "working", "filled", "cancelled", "expired", "rejected"}
BacktestTypeOK ==
    /\ policy \in Policies /\ step \in 1..(Len(Timeline) + 1) /\ now \in Nat /\ tradingDay \in Nat
    /\ \A o \in Intents : orders[o].state \in States /\ orders[o].filled \in 0..Terms[o].quantity
    /\ \A c \in arriving : c[2] \in Intents
    /\ turn \in {"engine", "direct", "report"} /\ known \in Nat

BacktestInit ==
    /\ policy \in Policies /\ step = 1 /\ doing = "roll" /\ now = 0
    /\ tradingDay = Bars[1].day
    /\ orders = [o \in Intents |-> [state |-> "idle", filled |-> 0, knew |-> 0, effective |-> 0,
                                    target |-> 0, why |-> "none", attempts |-> 0, ended |-> 0, cancelKnew |-> 0]]
    /\ arriving = {} /\ timers = Wakeups /\ refreshed = 0
    /\ reports = {} /\ turn = "engine" /\ known = 0 /\ fills = {}

Event == Timeline[step]
AtEnd == step > Len(Timeline)
NextBarOpen == IF AtEnd THEN Never ELSE IF Event.opens THEN Event.at ELSE NextOpenAfter(Event.at)

-------------------------------------------------------------------------------
(* Sending: BaseEngine and SimulatedGateway.submit *)

Held(r, target, why) == [r EXCEPT !.state = "held", !.target = target, !.why = why]
Refused(r) == [r EXCEPT !.state = "rejected", !.ended = now]

\* submit; what a report causes takes effect after it.
Sent(r, reactive) ==
    LET arrival == now + OrderDelay + (IF reactive THEN 1 ELSE 0) IN
    [r EXCEPT !.state = IF Permitted(arrival) THEN "working" ELSE "rejected",
              !.effective = arrival, !.ended = now]

\* _hold_for_session, then the gateway.
HeldOrSent(r, reactive) ==
    IF Permitted(now) THEN Sent(r, reactive)
    ELSE IF NextSubmitTime(now) = Never THEN Refused(r)
    ELSE Held(r, NextSubmitTime(now), "session-gate")

\* _dispatch_intent: no session to aim at has refused the order before.
Dispatched(r, i, reactive) ==
    IF policy = "next session"
    THEN IF NextSessionOpen(now) = Never THEN Refused(r)
         ELSE Held(r, NextSessionOpen(now), "execution-policy")
    ELSE IF reactive /\ FollowingOpen(i) > now /\ FollowingOpen(i) # Never
         THEN Held(r, FollowingOpen(i), "intrabar-arrival") ELSE HeldOrSent(r, reactive)

\* An order is sent in answer to a bar, a timer or a report; its own first
\* report is given to the strategies at once.
SendOrder(o) ==
    /\ turn # "engine" /\ orders[o].state = "idle"
    /\ orders' = [orders EXCEPT ![o] = Dispatched([@ EXCEPT !.knew = known], Terms[o].instrument, turn = "report")]
    /\ turn' \in {turn} \union (IF orders'[o].effective # 0 THEN {"report"} ELSE {})
    /\ UNCHANGED <<policy, step, doing, now, tradingDay, arriving, timers, refreshed, reports, known, fills>>

\* SimulatedGateway.cancel: refused if the phase of its arrival forbids it, in
\* effect at once without a delay.
GatewayCancel(o) ==
    LET arrival == now + CancelDelay IN
    /\ orders[o].state = "working" /\ Permitted(arrival) /\ ~\E c \in arriving : c[2] = o
    /\ IF CancelDelay = 0
       THEN /\ orders' = [orders EXCEPT ![o].state = "cancelled", ![o].ended = now, ![o].cancelKnew = known]
            /\ turn' \in {turn, "report"} /\ UNCHANGED arriving
       ELSE /\ orders' = [orders EXCEPT ![o].cancelKnew = known]
            /\ arriving' = arriving \union {<<arrival, o>>} /\ UNCHANGED turn

\* cancel_order: what is held is refused, else the gateway gets the request.
CancelOrder(o) ==
    /\ turn # "engine"
    /\ \/ /\ orders[o].state = "held"
          /\ orders' = [orders EXCEPT ![o] = Refused(@)]
          /\ UNCHANGED <<arriving, turn>>
       \/ GatewayCancel(o)
    /\ UNCHANGED <<policy, step, doing, now, tradingDay, timers, refreshed, reports, known, fills>>

\* dispatch_gateway_events: the earliest report of the batch.
DispatchReport ==
    /\ reports # {} /\ reports' = reports \ {Min(reports)}
    /\ known' = Later(known, Min(reports)) /\ turn' = "report"
    /\ UNCHANGED <<policy, step, doing, now, tradingDay, orders, arriving, timers, refreshed, fills>>

-------------------------------------------------------------------------------
(* The run *)

\* The engine goes on when the strategies have had their turn.
Engine(from) == doing = from /\ reports = {} /\ turn' = "engine"

\* apply_pending_cancels
CancelledBy(os, t) ==
    [o \in Intents |-> IF os[o].state = "working" /\ \E c \in arriving : c[1] <= t /\ c[2] = o
                       THEN [os[o] EXCEPT !.state = "cancelled", !.ended = (CHOOSE c \in arriving : c[2] = o)[1]]
                       ELSE os[o]]
EndedSince(os) == {os[o].ended : o \in {o \in Intents : os[o] # orders[o] /\ os[o].state # orders[o].state
                                                      /\ os[o].state \in {"cancelled", "expired"}}}

\* The day ends before the timers of the next one fire.
RollsBefore == IF AtEnd THEN TRUE ELSE Event.opens /\ Bars[Event.bar].day > tradingDay

\* _roll_trading_day: day orders expire at the end of the last bar.
Roll ==
    /\ Engine("roll") /\ RollsBefore
    /\ LET at == IF AtEnd THEN EndOfBars ELSE LastEnd(step - 1)
           cancelled == CancelledBy(orders, at)
       IN orders' = [o \in Intents |-> IF cancelled[o].state = "working"
                                       THEN [cancelled[o] EXCEPT !.state = "expired", !.ended = at] ELSE cancelled[o]]
    /\ arriving' = {} /\ reports' = EndedSince(orders')
    /\ tradingDay' = IF AtEnd THEN tradingDay ELSE Bars[Event.bar].day
    /\ doing' = IF AtEnd THEN "over" ELSE "clock"
    /\ UNCHANGED <<policy, step, now, timers, refreshed, known, fills>>

SameDay ==
    /\ Engine("roll") /\ ~RollsBefore /\ doing' = "clock"
    /\ UNCHANGED <<policy, step, now, tradingDay, orders, arriving, timers, refreshed, reports, known, fills>>

Due(t) == t <= IF AtEnd THEN EndOfBars ELSE Event.at
Targets == {orders[o].target : o \in {o \in Intents : orders[o].state = "held"}}
NextTimer == First(Targets \union timers)

\* _fire_deferred: the opening that was aimed at has no data, or it is time.
Fired(r) ==
    LET missed == r.why = "execution-policy" /\ NextBarOpen # Never /\ now' < NextBarOpen
        retry == NextSessionOpen(now')
        gated == r.why # "session-gate" /\ ~Permitted(now')
        hopeless == IF missed THEN ~MayDefer \/ r.attempts >= 5 \/ retry = Never
                    ELSE gated /\ NextSubmitTime(now') = Never
    IN IF hopeless THEN [r EXCEPT !.state = "rejected", !.ended = now']
       ELSE IF missed THEN [r EXCEPT !.target = retry, !.attempts = @ + 1]
       ELSE IF gated THEN [r EXCEPT !.target = NextSubmitTime(now'), !.why = "session-gate"]
       ELSE [r EXCEPT !.state = IF Permitted(now' + OrderDelay) THEN "working" ELSE "rejected",
                      !.effective = now' + OrderDelay, !.ended = now']

\* The timer of an order that is held; a refusal is told at once, and what the
\* gateway says to it in a dispatch.
FireDeferred(o) ==
    /\ doing = "clock" /\ reports = {}
    /\ orders[o].state = "held" /\ orders[o].target = NextTimer /\ Due(NextTimer)
    /\ now' = NextTimer /\ orders' = [orders EXCEPT ![o] = Fired(@)]
    /\ turn' = IF orders'[o].effective # 0 THEN "report" ELSE IF orders'[o].state = "held" THEN "engine" ELSE "direct"
    /\ known' = Later(known, now')
    /\ UNCHANGED <<policy, step, doing, tradingDay, arriving, timers, refreshed, reports, fills>>

FireTimer ==
    /\ doing = "clock" /\ reports = {} /\ NextTimer \in timers /\ Due(NextTimer)
    /\ now' = NextTimer /\ timers' = timers \ {NextTimer} /\ turn' = "direct"
    /\ known' = Later(known, now')
    /\ UNCHANGED <<policy, step, doing, tradingDay, orders, arriving, refreshed, reports, fills>>

\* advance_clock is done; after the last event what is held is cancelled.
ClockArrives ==
    /\ Engine("clock") /\ ~Due(NextTimer)
    /\ IF AtEnd
       THEN /\ doing' = "cancel" /\ UNCHANGED <<now, refreshed>>
            /\ orders' = [o \in Intents |-> [orders[o] EXCEPT !.why = IF orders[o].state = "held" THEN "cancelling" ELSE @]]
       ELSE doing' = "bar" /\ now' = Event.at /\ refreshed' = Event.at /\ UNCHANGED orders
    /\ UNCHANGED <<policy, step, tradingDay, arriving, timers, reports, known, fills>>

NextEvent == step' = step + 1 /\ doing' = IF step = Len(Timeline) THEN "clock" ELSE "roll"

\* A bar has ended: the strategies see it.
BarEnds ==
    /\ doing = "bar" /\ reports = {} /\ ~Event.opens /\ NextEvent /\ turn' = "direct"
    /\ known' = Later(known, now)
    /\ UNCHANGED <<policy, now, tradingDay, orders, arriving, timers, refreshed, reports, fills>>

-------------------------------------------------------------------------------
(* match_bar: all of the bar, when it opens *)

\* _ordered_active, by effective_at; orders of one time in the order of Intents.
ByArrival(os) == SetToSortSeq(os, LAMBDA a, b : orders[a].effective < orders[b].effective)

Candidates(os) == {o \in Intents : os[o].state = "working" /\ Terms[o].instrument = Bars[Event.bar].instrument
                                   /\ os[o].effective <= Bars[Event.bar].open}

\* Mutant of InBarCandidates: orders that arrive while the bar is under way.
ArrivedSince(os) == {o \in Intents : os[o].state = "working" /\ Terms[o].instrument = Bars[Event.bar].instrument
                                     /\ os[o].effective <= Bars[Event.bar].end}
InBarCandidates(os) == Candidates(os)

Unfilled(m, o) == Terms[o].quantity - m.orders[o].filled

\* One candidate after the other, until the volume is used up.
Matched(m, queue, price, at) ==
    FoldLeft(LAMBDA acc, o :
        LET p == price[o]
            lots == Earlier(acc.left, Unfilled(acc, o))
            done == lots = Unfilled(acc, o)
        IN IF p = Price!NoFill \/ lots = 0 THEN acc
           ELSE [left   |-> acc.left - lots,
                 orders |-> [acc.orders EXCEPT ![o].filled = @ + lots,
                                               ![o].state = IF done THEN "filled" ELSE @,
                                               ![o].ended = IF done THEN at ELSE @],
                 fills  |-> acc.fills \union {<<o, Event.bar, p>>},
                 times  |-> acc.times \union {at}],
        m, queue)

\* Openings at the price of the opening; cancellations that arrive before the
\* end; then, for what is left, the range of the whole bar.
OpenMatched(shape, volume) ==
    LET bar == Bars[Event.bar]
        start == [left |-> volume, orders |-> CancelledBy(orders, bar.open), fills |-> fills, times |-> {}]
    IN IF Permitted(bar.open)
       THEN Matched(start, ByArrival(Candidates(start.orders)),
                    [o \in Intents |-> Price!OpenPrice(Terms[o], shape, Limits)], bar.open)
       ELSE start
RangeMatched(opened, shape) ==
    LET bar == Bars[Event.bar]
        waited == [opened EXCEPT !.orders = CancelledBy(@, bar.end)]
    IN IF Permitted(bar.end - 1)
       THEN Matched(waited, ByArrival(InBarCandidates(waited.orders)),
                    [o \in Intents |-> Price!IntrabarPrice(Terms[o], shape, Limits)], bar.end)
       ELSE waited

MatchBar(shape, volume) ==
    /\ Engine("bar") /\ Event.opens /\ Bars[Event.bar].usable /\ NextEvent
    /\ \E opened \in {OpenMatched(shape, volume)} : \E ended \in {RangeMatched(opened, shape)} :
           /\ orders' = ended.orders /\ fills' = ended.fills
           /\ reports' = ended.times \union EndedSince(ended.orders)
           /\ arriving' = {c \in arriving : c[1] > Bars[Event.bar].end}
    /\ UNCHANGED <<policy, now, tradingDay, timers, refreshed, known>>

\* A bar of rejected quality is not matched.
SkipBar ==
    /\ Engine("bar") /\ Event.opens /\ ~Bars[Event.bar].usable /\ NextEvent
    /\ UNCHANGED <<policy, now, tradingDay, orders, arriving, timers, refreshed, reports, known, fills>>

\* cancel_deferred_intents, one after the other; a strategy may answer, and
\* what it sends and is held in the meantime is forgotten.
Cancelling(o) == orders[o].state = "held" /\ orders[o].why = "cancelling"
CancelDeferred(o) ==
    /\ doing = "cancel" /\ reports = {} /\ turn' = "direct" /\ Cancelling(o)
    /\ orders' = [orders EXCEPT ![o] = Refused(@)]
    /\ UNCHANGED <<policy, step, doing, now, tradingDay, arriving, timers, refreshed, reports, known, fills>>

NoneHeld ==
    /\ Engine("cancel") /\ (\A o \in Intents : ~Cancelling(o)) /\ doing' = "roll"
    /\ UNCHANGED <<policy, step, now, tradingDay, orders, arriving, timers, refreshed, reports, known, fills>>

BacktestNext ==
    \/ \E o \in Intents : SendOrder(o) \/ CancelOrder(o) \/ FireDeferred(o) \/ CancelDeferred(o)
    \/ DispatchReport \/ Roll \/ SameDay \/ FireTimer \/ ClockArrives \/ BarEnds \/ SkipBar \/ NoneHeld
    \/ \E shape \in Shapes, volume \in Volumes : MatchBar(shape, volume)

BacktestSpec == BacktestInit /\ [][BacktestNext]_backtestVars

-------------------------------------------------------------------------------
(* Properties *)

\* An order trades in a bar that opens when it has arrived and all that it was
\* decided on is past, although the engine gives strategies the reports of a bar
\* when it opens: for bars of all instruments that open together, whatever the
\* delays, the policy, the timers and the deferrals.
FillsAreFair ==
    \A f \in fills : LET o == orders[f[1]] IN Bars[f[2]].open >= o.effective /\ Bars[f[2]].open >= o.knew

Opened(n) == \E k \in 1..(step - 1) : Timeline[k].opens /\ Timeline[k].bar = n

\* An order lives for the trading day on which it arrives: it trades on no other,
\* and it does not expire while a bar of its instrument is still to open that day.
OrdersLiveOneDay ==
    /\ \A f \in fills : Bars[f[2]].day = DayAt(orders[f[1]].effective)
    /\ \A o \in Intents : orders[o].state = "expired" =>
           \A n \in DOMAIN Bars : Bars[n].instrument = Terms[o].instrument
                                   /\ Bars[n].day = DayAt(orders[o].effective) => Opened(n)

TradingIsFair == FillsAreFair /\ OrdersLiveOneDay

\* What has the effect of a decision comes after all that the decision knew.
\* (docs/05: the whole range of a bar is used when the bar ends, not before.)
NoLookAhead ==
    \A o \in Intents : orders[o].state = "cancelled" => orders[o].cancelKnew <= orders[o].ended
===============================================================================
