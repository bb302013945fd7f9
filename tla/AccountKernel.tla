----------------------------- MODULE AccountKernel -----------------------------
(***************************************************************************)
(* The account that LiveAccountModel keeps: orders, the long position of   *)
(* one instrument in a yesterday and a today bucket, the reservations of   *)
(* lots and of funds made for every order, and the lots of the ledger.     *)
(*                                                                         *)
(* The kernel changes by facts only, one after the other, on the account   *)
(* thread: an order that was dispatched, a report, a trade, a settlement   *)
(* price, the order to advance the trading day.  The broker (external)     *)
(* trades on its own, and what it says may arrive in any order, again and  *)
(* again, or after the day it speaks of.                                   *)
(*                                                                         *)
(* Reports of different submit status repeat the same order status, so a   *)
(* report may be applied twice.  Trades are of one lot.  The instrument    *)
(* has been settled before: late opening trades have a basis price.        *)
(***************************************************************************)
EXTENDS Naturals, FiniteSets, FiniteSetsExt

CONSTANTS
    Orders,           \* client_order_id
    OffsetOf,         \* [Orders -> Offsets]
    Qty,              \* [Orders -> 1..MaxQty], OrderIntent.quantity
    HeldYd, HeldTd,   \* lots held from orders that are retired by now
    Resolved,         \* orders whose trades CtpIdentityResolver gives the session triple;
                      \* those of the others carry the exchange's number only
    MaxQty,           \* model bound: the largest quantity
    LotFunds,         \* units of money reserved for one lot
    LastDay,          \* model bound: trading days 1..LastDay
    MaxCrashes,       \* model bound: crashes between a call and its result
    MaxCancels        \* model bound: cancel requests

Offsets == {"OPEN", "CLOSE_TODAY", "CLOSE_YESTERDAY"}

ASSUME KernelAssumption ==
    /\ IsFiniteSet(Orders)
    /\ OffsetOf \in [Orders -> Offsets] /\ MaxQty \in Nat /\ Qty \in [Orders -> 1..MaxQty]
    /\ HeldYd \in Nat /\ HeldTd \in Nat /\ Resolved \subseteq Orders
    /\ LotFunds \in Nat \ {0} /\ LastDay \in Nat \ {0}
    /\ MaxCrashes \in Nat /\ MaxCancels \in Nat

AtLeast(a, b) == IF a >= b THEN a ELSE b
AtMost(a, b) == IF a <= b THEN a ELSE b

Trades == {t \in Orders \X (1..MaxQty) : t[2] <= Qty[t[1]]}
Days == 0..LastDay
Statuses == {"ABSENT", "SUBMITTING", "UNKNOWN", "ACCEPTED", "PARTIALLY_FILLED",
             "FILLED", "CANCELLED", "REJECTED"}
Terminal == {"FILLED", "CANCELLED", "REJECTED"}

VARIABLES
    kernel,      \* LiveAccountModel's _Kernel
    fault,       \* the service keeps a fact it could not book
    (* the broker *)
    brokerDay, brokerState, brokerPos,
    tradeDay,    \* the trading day of every trade made, 0 for one that is not
    reports,     \* order reports it has emitted
    cancelReq,   \* per order: a cancel request on its way, or refused
    crashes, cancels

brokerVars == <<brokerDay, brokerState, brokerPos, tradeDay, reports, cancelReq>>
boundVars == <<crashes, cancels>>
vars == <<kernel, fault, brokerVars, boundVars>>

Order == [status : Statuses, cum : Nat, accounted : Nat, linked : BOOLEAN,
          sysLinked : BOOLEAN, cancelPending : BOOLEAN]
Reservation == [held : BOOLEAN, offset : Offsets, yd : Nat, td : Nat, accounted : Nat]
Position == [yd : Nat, td : Nat, frozenYd : Nat, frozenTd : Nat]
Kernel == [day : Days, advancing : BOOLEAN, priced : BOOLEAN,
           orders : [Orders -> Order], reserved : [Orders -> Reservation],
           funds : [Orders -> Nat], pos : Position, lots : [Days -> Nat],
           seen : SUBSET Trades, unlinked : SUBSET Trades]
Report == [order : Orders, status : Statuses, filled : Nat, sys : BOOLEAN]

TypeOK ==
    /\ kernel \in Kernel /\ fault \in BOOLEAN
    /\ brokerDay \in Days
    /\ brokerState \in [Orders -> {"none", "sent", "working", "filled", "cancelled", "rejected"}]
    /\ brokerPos \in [yd : Nat, td : Nat]
    /\ tradeDay \in [Trades -> Days]
    /\ reports \subseteq Report
    /\ cancelReq \in [Orders -> {"none", "asked", "refused"}]
    /\ crashes \in Nat /\ cancels \in Nat

Init ==
    /\ kernel =
         [day |-> 1, advancing |-> FALSE, priced |-> FALSE,
          orders |-> [o \in Orders |->
              [status |-> "ABSENT", cum |-> 0, accounted |-> 0, linked |-> FALSE,
               sysLinked |-> FALSE, cancelPending |-> FALSE]],
          reserved |-> [o \in Orders |->
              [held |-> FALSE, offset |-> OffsetOf[o], yd |-> 0, td |-> 0, accounted |-> 0]],
          funds |-> [o \in Orders |-> 0],
          pos |-> [yd |-> HeldYd, td |-> HeldTd, frozenYd |-> 0, frozenTd |-> 0],
          lots |-> [d \in Days |-> CASE d = 0 -> HeldYd [] d = 1 -> HeldTd [] OTHER -> 0],
          seen |-> {}, unlinked |-> {}]
    /\ fault = FALSE
    /\ brokerDay = 1
    /\ brokerState = [o \in Orders |-> "none"]
    /\ brokerPos = [yd |-> HeldYd, td |-> HeldTd]
    /\ tradeDay = [t \in Trades |-> 0]
    /\ reports = {}
    /\ cancelReq = [o \in Orders |-> "none"]
    /\ crashes = 0 /\ cancels = 0

-------------------------------------------------------------------------------
(* Orders: OrderManager *)

IsTerminal(k, o) == k.orders[o].status \in Terminal

\* unaccounted_fill_qty: filled by the broker's word, not booked yet.
Unaccounted(k, o) == IF k.orders[o].cum > k.orders[o].accounted
                     THEN k.orders[o].cum - k.orders[o].accounted ELSE 0

\* _find_by_identity: by the session triple or by the exchange's number.
Finds(k, o, triple, sys) ==
    (triple /\ k.orders[o].linked) \/ (sys /\ k.orders[o].sysLinked)

Index(k, o, triple, sys) ==
    [k EXCEPT !.orders[o].linked = @ \/ triple, !.orders[o].sysLinked = @ \/ sys]

\* Order.apply_order_update: the filled quantity only grows; a terminal order
\* keeps its status whatever is reported later.
OrderUpdate(k, o, status, filled) ==
    LET closed == IsTerminal(k, o)
    IN [k EXCEPT !.orders[o].cum = AtLeast(@, AtMost(filled, Qty[o])),
                 !.orders[o].status = IF closed THEN @ ELSE status,
                 !.orders[o].cancelPending = @ /\ (closed \/ status \notin Terminal)]

\* Order.apply_trade, for n trades of one lot at once.
OrderFill(k, o, n) ==
    LET accounted == k.orders[o].accounted + n
        cum == AtLeast(k.orders[o].cum, accounted)
        fills == ~IsTerminal(k, o) /\ cum >= Qty[o]
    IN [k EXCEPT !.orders[o].accounted = accounted,
                 !.orders[o].cum = cum,
                 !.orders[o].status = IF fills THEN "FILLED" ELSE @,
                 !.orders[o].cancelPending = @ /\ ~fills]

\* _check_unlinked_trades: the order takes the trades that waited for it.
LinkTrades(k, o) ==
    LET mine == {t \in k.unlinked : t[1] = o /\ Finds(k, o, o \in Resolved, TRUE)}
    IN IF mine = {} THEN k
       ELSE [OrderFill(k, o, Cardinality(mine)) EXCEPT !.unlinked = @ \ mine]

-------------------------------------------------------------------------------
(* Positions: PositionManager *)

FreeYd(k) == k.pos.yd - k.pos.frozenYd
FreeTd(k) == k.pos.td - k.pos.frozenTd

CanReserve(k, o) ==
    CASE OffsetOf[o] = "OPEN"            -> TRUE
      [] OffsetOf[o] = "CLOSE_TODAY"     -> FreeTd(k) >= Qty[o]
      [] OffsetOf[o] = "CLOSE_YESTERDAY" -> FreeYd(k) >= Qty[o]

\* reserve_for_order and freeze_for_close, an opening order freezes nothing.
Reserve(k, o) ==
    LET yd == IF OffsetOf[o] = "CLOSE_YESTERDAY" THEN Qty[o] ELSE 0
        td == IF OffsetOf[o] = "CLOSE_TODAY" THEN Qty[o] ELSE 0
    IN [k EXCEPT !.reserved[o] = [held |-> TRUE, offset |-> OffsetOf[o],
                                  yd |-> yd, td |-> td, accounted |-> 0],
                 !.pos.frozenYd = @ + yd, !.pos.frozenTd = @ + td]

Unheld(o) == [held |-> FALSE, offset |-> OffsetOf[o], yd |-> 0, td |-> 0, accounted |-> 0]

\* Mutant of ReleaseUnfilled: a terminal order is released as a whole.
ReleaseWhole(k, o, cum) ==
    [k EXCEPT !.reserved[o] = Unheld(o),
              !.pos.frozenYd = @ - k.reserved[o].yd, !.pos.frozenTd = @ - k.reserved[o].td]

\* on_order_canceled_or_rejected: what the broker says it filled stays frozen
\* until the trades are booked; of the rest today's lots are released first.
ReleaseUnfilled(k, o, cum) ==
    LET res == k.reserved[o]
        confirmed == AtMost(Qty[o], AtLeast(res.accounted, cum))
        keep == confirmed - res.accounted
        release == IF res.yd + res.td > keep THEN res.yd + res.td - keep ELSE 0
        td == AtMost(res.td, release)
        yd == AtMost(res.yd, release - td)
        gone == res.accounted >= confirmed /\ res.yd = yd /\ res.td = td
    IN IF ~res.held THEN k
       ELSE [k EXCEPT !.reserved[o] = IF gone THEN Unheld(o)
                                      ELSE [res EXCEPT !.yd = @ - yd, !.td = @ - td],
                      !.pos.frozenYd = @ - yd, !.pos.frozenTd = @ - td]

\* A trade of a day the account has left behind.
IsLate(k, d) == d < k.day

\* effective_offset: today's lots of a former day are yesterday's by now, and
\* a reservation that was carried over the day names its bucket.
EffectiveOffset(k, o, linked, d) ==
    IF OffsetOf[o] = "CLOSE_TODAY"
       /\ (IsLate(k, d) \/ (linked /\ k.reserved[o].held /\ k.reserved[o].offset = "CLOSE_YESTERDAY"))
    THEN "CLOSE_YESTERDAY" ELSE OffsetOf[o]

-------------------------------------------------------------------------------
(* The ledger's lots, and one trade: AccountLedger.on_trade *)

LotsOf(k, days) == MapThenSumSet(LAMBDA d : k.lots[d], days \intersect Days)
TodaysDays(k) == k.day..LastDay
FormerDays(k) == 0..(k.day - 1)

\* The days whose lots close_lot may take for an effective offset; of them the
\* oldest is taken.  The code keeps single lots in the order of their trades:
\* the two agree on every day's total as long as trades come in day order, and
\* on what is left of today and of before in any case.
Candidates(k, offset) ==
    {d \in (IF offset = "CLOSE_TODAY" THEN TodaysDays(k) ELSE FormerDays(k)) : k.lots[d] > 0}

\* Lots the reservation of the trade's own order gives up for it.
Consumed(k, o, linked, offset) ==
    LET res == k.reserved[o] IN
    [yd |-> IF linked /\ res.held /\ offset = "CLOSE_YESTERDAY" THEN AtMost(res.yd, 1) ELSE 0,
     td |-> IF linked /\ res.held /\ offset = "CLOSE_TODAY" THEN AtMost(res.td, 1) ELSE 0]

\* apply_fill and close_lot raise otherwise: no lot in the bucket, or only
\* lots frozen for other orders.
Bookable(k, o, linked, d) ==
    LET offset == EffectiveOffset(k, o, linked, d)
        used == Consumed(k, o, linked, offset)
    IN CASE offset = "OPEN" -> TRUE
         [] offset = "CLOSE_TODAY" ->
               /\ k.pos.td >= 1 /\ 1 - used.td <= FreeTd(k)
               /\ Candidates(k, offset) # {}
         [] offset = "CLOSE_YESTERDAY" ->
               /\ k.pos.yd >= 1 /\ 1 - used.yd <= FreeYd(k)
               /\ Candidates(k, offset) # {}

\* PositionManager.apply_trade and the lots; d is the trade's trading day.
BookPosition(k, o, linked, d) ==
    LET offset == EffectiveOffset(k, o, linked, d)
        used == Consumed(k, o, linked, offset)
        res == k.reserved[o]
        booked == [res EXCEPT !.accounted = @ + 1, !.yd = @ - used.yd, !.td = @ - used.td]
        done == booked.accounted >= Qty[o] /\ booked.yd = 0 /\ booked.td = 0
        held == [k EXCEPT !.reserved[o] = IF ~(linked /\ res.held) THEN @
                                          ELSE IF done THEN Unheld(o) ELSE booked]
    IN CASE offset = "OPEN" ->
              [held EXCEPT !.pos.yd = @ + (IF IsLate(k, d) THEN 1 ELSE 0),
                           !.pos.td = @ + (IF IsLate(k, d) THEN 0 ELSE 1),
                           !.lots[d] = @ + 1]
         [] offset = "CLOSE_TODAY" ->
              [held EXCEPT !.pos.td = @ - 1, !.pos.frozenTd = @ - used.td,
                           !.lots[Min(Candidates(k, offset))] = @ - 1]
         [] offset = "CLOSE_YESTERDAY" ->
              [held EXCEPT !.pos.yd = @ - 1, !.pos.frozenYd = @ - used.yd,
                           !.lots[Min(Candidates(k, offset))] = @ - 1]

\* release_funds: the part of the present reservation that is still needed, in
\* whole units; what is multiplied by a positive part does not vanish.
KeepFunds(k, o, part) ==
    [k EXCEPT !.funds[o] = IF part = 0 \/ @ = 0 THEN 0 ELSE AtLeast(1, (@ * part) \div Qty[o])]

\* The end of on_trade: nothing reserved, nothing needed; otherwise the share
\* of what the reservation has not seen traded.
FundsAfterTrade(k, o) ==
    KeepFunds(k, o, IF k.reserved[o].held /\ Qty[o] > k.reserved[o].accounted
                    THEN Qty[o] - k.reserved[o].accounted ELSE 0)

-------------------------------------------------------------------------------
(* Facts: LiveAccountModel._apply_fact, staged on a replica of the kernel *)

\* The intent and, by the same command, the local send result.  Only a result
\* that came back tells the account the order's session triple.
Intend(k, o) ==
    [Reserve(k, o) EXCEPT !.orders[o].status = "SUBMITTING", !.funds[o] = Qty[o] * LotFunds]

SendResult(k, o, outcome) ==
    IF outcome = "not_sent"
    THEN [ReleaseUnfilled(k, o, 0) EXCEPT !.orders[o].status = "REJECTED", !.funds[o] = 0]
    ELSE [k EXCEPT !.orders[o].linked = (outcome = "sent")]

\* _apply_order_report.  A report of an order the account cannot find is an
\* external order; a final one releases what will not trade any more.
ApplyReport(k, r) ==
    LET o == r.order
        known == OrderUpdate(Index(k, o, TRUE, r.sys), o, r.status, r.filled)
        l == LinkTrades(known, o)
    IN IF ~Finds(k, o, TRUE, r.sys) THEN k
       ELSE IF r.status \notin {"CANCELLED", "REJECTED"} THEN l
       ELSE KeepFunds(ReleaseUnfilled(l, o, l.orders[o].cum), o, Unaccounted(l, o))

\* TradeDeduplicator.is_duplicate
Seen(k, t) == t \in k.seen

\* _apply_trade: the trade is deduplicated, told to its order if that can be
\* found, and posted to position, lots and funds in any case.  A terminal
\* order whose last trade this was holds nothing any more.
ApplyTrade(k, t, d) ==
    LET o == t[1]
        linked == Finds(k, o, o \in Resolved, TRUE)
        told == IF linked THEN OrderFill(Index(k, o, o \in Resolved, TRUE), o, 1)
                ELSE [k EXCEPT !.unlinked = @ \union {t}]
        posted == BookPosition(told, o, linked, d)
        paid == IF linked THEN FundsAfterTrade(posted, o) ELSE posted
    IN IF Seen(k, t) THEN k
       ELSE IF linked /\ IsTerminal(paid, o) /\ Unaccounted(paid, o) = 0
       THEN [ReleaseUnfilled(paid, o, paid.orders[o].cum) EXCEPT !.funds[o] = 0, !.seen = @ \union {t}]
       ELSE [paid EXCEPT !.seen = @ \union {t}]

CanApplyTrade(k, t, d) ==
    Seen(k, t) \/ Bookable(k, t[1], Finds(k, t[1], t[1] \in Resolved, TRUE), d)

Holding(k) == k.pos.yd + k.pos.td > 0 \/ \E d \in Days : k.lots[d] > 0

\* Mutant of Rollover: the reservations keep the bucket they froze.
RolloverPositionOnly(k) ==
    [k EXCEPT !.day = @ + 1, !.advancing = FALSE, !.priced = FALSE,
              !.pos = [yd |-> @.yd + @.td, td |-> 0,
                       frozenYd |-> @.frozenYd + @.frozenTd, frozenTd |-> 0]]

\* advance_trading_day: today's lots, and what is frozen of them, become
\* yesterday's; a reservation of a close-today order follows its lots.
Rollover(k) ==
    [k EXCEPT !.day = @ + 1, !.advancing = FALSE, !.priced = FALSE,
              !.pos = [yd |-> @.yd + @.td, td |-> 0,
                       frozenYd |-> @.frozenYd + @.frozenTd, frozenTd |-> 0],
              !.reserved = [o \in Orders |->
                  LET res == k.reserved[o] IN
                  [res EXCEPT !.yd = @ + res.td, !.td = 0,
                              !.offset = IF res.held /\ @ = "CLOSE_TODAY" THEN "CLOSE_YESTERDAY" ELSE @]]]

\* _try_advance: the day ends when it is asked to and its price is known.
TryAdvance(k) ==
    IF k.advancing /\ (k.priced \/ ~Holding(k)) THEN Rollover(k) ELSE k

-------------------------------------------------------------------------------
(* The account thread *)

Serving == ~fault

\* A command: risk approved it, and its lots are free.  The call is made, or
\* refused, or the process dies before its result is committed: then the next
\* start records an unknown result, before any other fact.
Dispatch(o, outcome) ==
    /\ Serving
    /\ kernel.orders[o].status = "ABSENT"
    /\ OffsetOf[o] = "OPEN" => ~kernel.advancing
    /\ CanReserve(kernel, o)
    /\ crashes' = crashes + (IF outcome = "crashed" THEN 1 ELSE 0) /\ crashes' <= MaxCrashes
    /\ kernel' = SendResult(Intend(kernel, o), o, outcome)
    /\ brokerState' = [brokerState EXCEPT ![o] = IF outcome = "not_sent" THEN @ ELSE "sent"]
    /\ UNCHANGED <<fault, brokerDay, brokerPos, tradeDay, reports, cancelReq, cancels>>

\* A cancel command and its local result: a request that was not sent is not
\* pending any more.
Cancel(o, sent) ==
    /\ Serving
    /\ kernel.orders[o].status # "ABSENT" /\ ~IsTerminal(kernel, o)
    /\ ~kernel.orders[o].cancelPending
    /\ cancels < MaxCancels /\ cancels' = cancels + 1
    /\ kernel' = [kernel EXCEPT !.orders[o].cancelPending = sent]
    /\ cancelReq' = [cancelReq EXCEPT ![o] = IF sent THEN "asked" ELSE @]
    /\ UNCHANGED <<fault, brokerDay, brokerState, brokerPos, tradeDay, reports, crashes>>

ReceiveReport(r) ==
    /\ Serving /\ r \in reports
    /\ kernel' = ApplyReport(kernel, r)
    /\ UNCHANGED <<fault, brokerVars, boundVars>>

\* A trade the kernel cannot book leaves it as it was; the service keeps the
\* fact and refuses to go on.
ReceiveTrade(t) ==
    /\ Serving /\ tradeDay[t] # 0
    /\ IF CanApplyTrade(kernel, t, tradeDay[t])
       THEN kernel' = ApplyTrade(kernel, t, tradeDay[t]) /\ UNCHANGED fault
       ELSE fault' = TRUE /\ UNCHANGED kernel
    /\ UNCHANGED <<brokerVars, boundVars>>

\* A restart forgets the fact that was kept; the kernel is durable.
Restart ==
    /\ fault /\ fault' = FALSE
    /\ UNCHANGED <<kernel, brokerVars, boundVars>>

\* A refused cancellation cannot be expressed as a report: it becomes an entry
\* of the normalizer's gap list and no fact.
ReceiveCancelRefusal(o) ==
    /\ cancelReq[o] = "refused"
    /\ cancelReq' = [cancelReq EXCEPT ![o] = "none"]
    /\ UNCHANGED <<kernel, fault, brokerDay, brokerState, brokerPos, tradeDay, reports, boundVars>>

SettlementPrice ==
    /\ Serving /\ brokerDay > kernel.day /\ ~kernel.priced
    /\ kernel' = TryAdvance([kernel EXCEPT !.priced = TRUE])
    /\ UNCHANGED <<fault, brokerVars, boundVars>>

AdvanceTradingDay ==
    /\ Serving /\ brokerDay > kernel.day /\ ~kernel.advancing
    /\ kernel' = TryAdvance([kernel EXCEPT !.advancing = TRUE])
    /\ UNCHANGED <<fault, brokerVars, boundVars>>

-------------------------------------------------------------------------------
(* The broker: accepts what its own position covers, trades, cancels *)

Working(o) == brokerState[o] = "working"
TradedOf(o) == {t \in Trades : t[1] = o /\ tradeDay[t] # 0}
Left(o) == Qty[o] - Cardinality(TradedOf(o))

BrokerFrozen(offset) ==
    MapThenSumSet(Left, {o \in Orders : Working(o) /\ OffsetOf[o] = offset})

Covered(o) ==
    CASE OffsetOf[o] = "OPEN"            -> TRUE
      [] OffsetOf[o] = "CLOSE_TODAY"     -> brokerPos.td - BrokerFrozen("CLOSE_TODAY") >= Qty[o]
      [] OffsetOf[o] = "CLOSE_YESTERDAY" -> brokerPos.yd - BrokerFrozen("CLOSE_YESTERDAY") >= Qty[o]

Says(o, status, filled, sys) == [order |-> o, status |-> status, filled |-> filled, sys |-> sys]

\* Orders of a day whose beginning the account has not booked yet are not
\* taken: the day is advanced before the session opens.
BrokerReceive(o) ==
    /\ brokerState[o] = "sent" /\ brokerDay = kernel.day
    /\ brokerState' = [brokerState EXCEPT ![o] = IF Covered(o) THEN "working" ELSE "rejected"]
    /\ reports' = reports \union
          IF Covered(o) THEN {Says(o, "UNKNOWN", 0, FALSE), Says(o, "ACCEPTED", 0, TRUE)}
                        ELSE {Says(o, "REJECTED", 0, FALSE)}
    /\ UNCHANGED <<kernel, fault, brokerDay, brokerPos, tradeDay, cancelReq, boundVars>>

BrokerTrade(o) ==
    LET n == Cardinality(TradedOf(o)) + 1 IN
    /\ Working(o)
    /\ tradeDay' = [tradeDay EXCEPT ![<<o, n>>] = brokerDay]
    /\ brokerPos' = CASE OffsetOf[o] = "OPEN"            -> [brokerPos EXCEPT !.td = @ + 1]
                      [] OffsetOf[o] = "CLOSE_TODAY"     -> [brokerPos EXCEPT !.td = @ - 1]
                      [] OffsetOf[o] = "CLOSE_YESTERDAY" -> [brokerPos EXCEPT !.yd = @ - 1]
    /\ brokerState' = [brokerState EXCEPT ![o] = IF n = Qty[o] THEN "filled" ELSE @]
    /\ reports' = reports \union
          {Says(o, IF n = Qty[o] THEN "FILLED" ELSE "PARTIALLY_FILLED", n, TRUE)}
    /\ UNCHANGED <<kernel, fault, brokerDay, cancelReq, boundVars>>

\* On request, or by the exchange's own rules.
BrokerCancel(o) ==
    /\ Working(o)
    /\ brokerState' = [brokerState EXCEPT ![o] = "cancelled"]
    /\ reports' = reports \union {Says(o, "CANCELLED", Cardinality(TradedOf(o)), TRUE)}
    /\ cancelReq' = [cancelReq EXCEPT ![o] = "none"]
    /\ UNCHANGED <<kernel, fault, brokerDay, brokerPos, tradeDay, boundVars>>

BrokerRefuseCancel(o) ==
    /\ cancelReq[o] = "asked"
    /\ cancelReq' = [cancelReq EXCEPT ![o] = "refused"]
    /\ UNCHANGED <<kernel, fault, brokerDay, brokerState, brokerPos, tradeDay, reports, boundVars>>

\* No order outlives its trading day; a request still on its way is lost.
BrokerNewDay ==
    /\ brokerDay < LastDay /\ \A o \in Orders : ~Working(o)
    /\ brokerDay' = brokerDay + 1
    /\ brokerPos' = [yd |-> brokerPos.yd + brokerPos.td, td |-> 0]
    /\ brokerState' = [o \in Orders |-> IF brokerState[o] = "sent" THEN "none" ELSE brokerState[o]]
    /\ UNCHANGED <<kernel, fault, tradeDay, reports, cancelReq, boundVars>>

-------------------------------------------------------------------------------
Account ==
    \/ \E o \in Orders :
          \/ \E outcome \in {"sent", "not_sent", "crashed"} : Dispatch(o, outcome)
          \/ \E sent \in BOOLEAN : Cancel(o, sent)
          \/ ReceiveCancelRefusal(o)
    \/ \E r \in reports : ReceiveReport(r)
    \/ \E t \in Trades : ReceiveTrade(t)
    \/ SettlementPrice \/ AdvanceTradingDay \/ Restart

Broker ==
    \/ \E o \in Orders : BrokerReceive(o) \/ BrokerTrade(o) \/ BrokerCancel(o) \/ BrokerRefuseCancel(o)
    \/ BrokerNewDay

Next == Account \/ Broker

Spec == Init /\ [][Next]_vars

-------------------------------------------------------------------------------
(* Properties *)

\* The aggregate freeze of each bucket is the sum of the orders' reservations
\* and never more than the bucket, whatever is released, consumed, carried over
\* the day or reported twice.  (verify_frozen_invariant, FR-ORD-03.)
FrozenIsReserved ==
    /\ kernel.pos.frozenYd = MapThenSumSet(LAMBDA o : kernel.reserved[o].yd, Orders)
    /\ kernel.pos.frozenTd = MapThenSumSet(LAMBDA o : kernel.reserved[o].td, Orders)
    /\ kernel.pos.frozenYd <= kernel.pos.yd /\ kernel.pos.frozenTd <= kernel.pos.td

\* Position buckets and ledger lots tell the same story of what is today's.
LotsMatchBuckets ==
    /\ kernel.pos.td = LotsOf(kernel, TodaysDays(kernel))
    /\ kernel.pos.yd = LotsOf(kernel, FormerDays(kernel))

Opens(S) == Cardinality({t \in S : OffsetOf[t[1]] = "OPEN"})

\* Every trade the account has seen is in its position exactly once, in
\* whatever order trades and reports came and however often.
PositionIsTrades ==
    kernel.pos.yd + kernel.pos.td + Cardinality(kernel.seen)
        = HeldYd + HeldTd + 2 * Opens(kernel.seen)

\* The account's books agree with one another and with the trades it has seen:
\* freezes with reservations, buckets with lots, lots with trades.
BooksAgree == TypeOK /\ FrozenIsReserved /\ LotsMatchBuckets /\ PositionIsTrades

Terminated(o) == kernel.orders[o].status \in Terminal

\* What the broker may still take from the account for a closing order is
\* frozen for it: traded and not yet booked, or open at the broker.
Exposed(o) ==
    Cardinality(TradedOf(o) \ kernel.seen)
        + (IF brokerState[o] \in {"sent", "working"} THEN Left(o) ELSE 0)

ExposureIsFrozen ==
    \A o \in Orders : OffsetOf[o] # "OPEN" =>
        kernel.reserved[o].yd + kernel.reserved[o].td >= Exposed(o)

\* A trade of an order whose session triple the account knows can always be
\* booked, after a cancellation was reported, on a later day, in any order.
LinkedTradesAreBookable ==
    \A t \in Trades : tradeDay[t] # 0 /\ kernel.orders[t[1]].linked /\ t[1] \in Resolved
        => CanApplyTrade(kernel, t, tradeDay[t])

\* An order is settled when the account has its final state and all its trades.
Settled(o) == Terminated(o) /\ {t \in Trades : t[1] = o /\ tradeDay[t] # 0} \subseteq kernel.seen
              /\ brokerState[o] \notin {"sent", "working"}

\* A settled order holds neither lots nor funds: nothing leaks, as long as its
\* trades are not posted before the account can find the order.
SettledOrdersHoldNothing ==
    \A o \in Resolved : Settled(o) => ~kernel.reserved[o].held /\ kernel.funds[o] = 0

\* Reservations fit what the orders may still take: enough while they are open, so
\* that their trades can be booked, and nothing once they are settled.
ReservationsFit == ExposureIsFrozen /\ LinkedTradesAreBookable /\ SettledOrdersHoldNothing

\* What is reserved for an order covers every lot it may still trade.
\* (docs/02 FR-ORD-03: the remaining active quantity stays reserved.)
FundsCoverExposure ==
    \A o \in Orders : kernel.funds[o] >= Exposed(o) * LotFunds
===============================================================================
