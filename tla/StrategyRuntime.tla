---------------------------- MODULE StrategyRuntime ----------------------------
(***************************************************************************)
(* A strategy run live: LiveEngine drives EmaTrendStrategy with closed     *)
(* bars and ticks, and turns its intents into commands of the account's    *)
(* queue; the loop of run_simnow_strategy drains the account's facts,      *)
(* shows them to the engine after they are committed, and lets the         *)
(* execution service take one command at its end.                          *)
(*                                                                         *)
(* One thread does all this; the broker, and the market, are beside it.    *)
(* The process may end at every step, by a crash or by an exception, and   *)
(* a new one starts from what is durable: the queue, the account and the   *)
(* strategy's own checkpoint.                                              *)
(*                                                                         *)
(* The strategy trades one lot (max_lots is 1) and is shown long only: the *)
(* short side is its mirror.  When it wants to enter or to leave is not    *)
(* modelled, it may at every event.  A market event has a number, which is *)
(* the time of it, and names the one command it can lead to.               *)
(***************************************************************************)
EXTENDS Naturals, FiniteSets, Sequences

CONSTANTS
    MaxEvents,        \* model bound: market events
    QueueBound,       \* model bound: observed events waiting (the code's is unbounded)
    MaxCrashes,       \* model bound: how often the process ends
    ReportsNameOrder  \* a report carries client_order_id (simulated gateway), or not (CTP)

ASSUME RuntimeAssumption ==
    /\ MaxEvents \in Nat \ {0} /\ QueueBound \in Nat \ {0}
    /\ MaxCrashes \in Nat /\ ReportsNameOrder \in BOOLEAN

None == 0
Commands == 1..MaxEvents
Numbers == 0..MaxEvents
Kinds == {"bar", "tick"}
Refused == {"rejected", "not_sent"}
Outstanding == {"pending", "dispatching"}

VARIABLES
    pc,         \* where the thread is
    (* durable *)
    status,     \* the command queue: status of every command
    offset,     \* what the command asks for
    orders,     \* the account's orders: active or terminal, linked with the broker's, trade booked
    position,   \* the account's position
    checkpoint, \* StrategyCheckpoint
    (* of the process *)
    engine,     \* LiveEngine: running, pending commands, seen trades, gate, event
    strategy,   \* EmaTrendStrategy: position, open and close it waits for, risk plan
    observed,   \* events committed and not yet shown to the engine
    ready,      \* the service is reconciled and no quality fault has paused the run
    (* outside *)
    events,     \* market events there have been
    broker,     \* what the broker did with every command it received
    facts,      \* reports and trades it has sent; each may arrive more than once
    crashes

durable == <<status, offset, orders, position, checkpoint>>
process == <<engine, strategy, observed, ready>>
outside == <<events, broker, facts, crashes>>
vars == <<pc, durable, process, outside>>

NoEvent == [kind |-> "bar", id |-> None]
Unstarted == [running |-> FALSE, pending |-> {}, seen |-> {}, gate |-> "outside", event |-> NoEvent]
Fresh == [position |-> 0, opening |-> None, closing |-> None, planned |-> FALSE]

Items == [kind : Kinds \union {"trade", "filled", "cancelled", "rejected"}, id : Numbers]
Facts == [kind : {"trade", "filled", "cancelled", "rejected"}, id : Commands]

TypeOK ==
    /\ pc \in {"down", "startup", "step", "deliver", "callback", "called", "command"}
    /\ status \in [Commands -> {"none", "pending", "dispatching", "unknown"} \union Refused]
    /\ offset \in [Commands -> {"open", "close"}]
    /\ orders \in [Commands -> [state : {"none", "active", "terminal"}, linked : BOOLEAN, booked : BOOLEAN]]
    /\ position \in 0..MaxEvents
    /\ checkpoint \in [bar : Numbers, tick : Numbers, processing : BOOLEAN, pending : SUBSET Commands]
    /\ engine \in [running : BOOLEAN, pending : SUBSET Commands, seen : SUBSET Commands,
                   gate : {"outside", "processed", "blocked"},
                   event : [kind : Kinds, id : Numbers]]
    /\ strategy \in [position : 0..1, opening : Numbers, closing : Numbers, planned : BOOLEAN]
    /\ observed \in Seq(Items) /\ Len(observed) <= QueueBound
    /\ ready \in BOOLEAN /\ events \in Numbers
    /\ broker \in [Commands -> {"none", "received", "working", "filled", "cancelled", "rejected"}]
    /\ facts \subseteq Facts
    /\ crashes \in 0..MaxCrashes

Init ==
    /\ pc = "startup"
    /\ status = [c \in Commands |-> "none"] /\ offset = [c \in Commands |-> "open"]
    /\ orders = [c \in Commands |-> [state |-> "none", linked |-> FALSE, booked |-> FALSE]]
    /\ position = 0
    /\ checkpoint = [bar |-> 0, tick |-> 0, processing |-> FALSE, pending |-> {}]
    /\ engine = Unstarted /\ strategy = Fresh /\ observed = <<>> /\ ready = FALSE
    /\ events = 0 /\ broker = [c \in Commands |-> "none"] /\ facts = {} /\ crashes = 0

-------------------------------------------------------------------------------
(* EmaTrendStrategy *)

\* _enter and _exit: the intent is remembered until its fate is known.
MayEnter(s) == s.position = 0 /\ s.opening = None /\ s.closing = None
MayExit(s) == s.position # 0 /\ s.closing = None
Enter(s, c) == [s EXCEPT !.opening = c, !.planned = TRUE]
Exit(s, c) == [s EXCEPT !.closing = c]

\* An intent of that number is given up.
GivenUp(s, c) ==
    [s EXCEPT !.opening = IF @ = c THEN None ELSE @,
              !.closing = IF @ = c THEN None ELSE @]

\* on_order: FILLED is not a trade; the intent waits for it.  For one lot the
\* other final reports say that nothing was filled.
OnOrder(s, kind, c) ==
    IF kind = "filled" THEN s ELSE GivenUp(s, c)

\* on_trade, where it does not raise.
TradeFits(s, c) ==
    IF offset[c] = "open" THEN s.planned /\ s.position = 0 ELSE s.position # 0

OnTrade(s, c) ==
    IF offset[c] = "open"
    THEN [s EXCEPT !.position = @ + 1, !.opening = None]
    ELSE [s EXCEPT !.position = @ - 1, !.closing = None]

-------------------------------------------------------------------------------
(* LiveEngine *)

\* _pending_commands: what is still outstanding stays, and the strategy learns
\* of every command that was refused before it reached the broker.
StillOut(c) ==
    \/ status[c] \in Outstanding
    \/ orders[c].state = "active"
    \/ status[c] = "unknown" /\ orders[c].state = "none"
Retained(pending) == {c \in pending : StillOut(c)}

AfterRefusals(s, pending) ==
    LET refused == {c \in pending : status[c] \in Refused}
    IN [s EXCEPT !.opening = IF @ \in refused THEN None ELSE @,
                 !.closing = IF @ \in refused THEN None ELSE @]

AnyActive == \E c \in Commands : orders[c].state = "active"

PendingOrders(pending) == Retained(pending) # {} \/ AnyActive

\* Mutant of Saved: a callback that begins looks like one that ended.
SavedAsDone(e, pending, processing) ==
    [checkpoint EXCEPT !.bar = IF e.kind = "bar" THEN e.id ELSE @,
                       !.tick = IF e.kind = "tick" THEN e.id ELSE @,
                       !.processing = FALSE, !.pending = pending]
Saved(e, pending, processing) ==
    [SavedAsDone(e, pending, processing) EXCEPT !.processing = processing]

IsNew(e) == IF e.kind = "bar" THEN e.id > checkpoint.bar ELSE e.id > checkpoint.tick

-------------------------------------------------------------------------------
(* The process *)

Running == engine.running

\* The process ends: a crash, or an exception nobody catches.
Down == [pc |-> "down", engine |-> Unstarted, strategy |-> Fresh]
GoesDown ==
    /\ pc' = Down.pc /\ engine' = Down.engine /\ strategy' = Down.strategy
    /\ observed' = <<>> /\ ready' = FALSE
    /\ crashes < MaxCrashes /\ crashes' = crashes + 1

Crash ==
    /\ pc # "down" /\ GoesDown
    /\ UNCHANGED <<durable, events, broker, facts>>

\* A new process: the service makes every unfinished dispatch an unknown one.
\* The gateway does not repeat to it the trades a former process has booked.
Restart ==
    /\ pc = "down" /\ pc' = "startup"
    /\ status' = [c \in Commands |-> IF status[c] = "dispatching" THEN "unknown" ELSE status[c]]
    /\ facts' = {f \in facts : f.kind = "trade" => ~orders[f.id].booked}
    /\ UNCHANGED <<offset, orders, position, checkpoint, process, events, broker, crashes>>

Closed(c) == offset[c] = "close" /\ broker[c] = "filled"
Opened(c) == offset[c] = "open" /\ broker[c] = "filled"
BrokerPosition == Cardinality({c \in Commands : Opened(c)}) - Cardinality({c \in Commands : Closed(c)})

\* reconcile_and_enable: the account's position is the broker's, the orders it
\* holds for active are known there, and none is there that it does not know.
Consistent ==
    /\ position = BrokerPosition
    /\ \A c \in Commands : /\ orders[c].state = "active" => orders[c].linked
                           /\ broker[c] # "none" => orders[c].linked
Reconcile ==
    /\ pc = "startup" /\ ~ready /\ Consistent
    /\ ready' = TRUE
    /\ UNCHANGED <<pc, durable, engine, strategy, observed, outside>>

Restored == checkpoint.pending

\* LiveEngine.start, after the warmup replayed the bars up to the cursor.
Start ==
    /\ pc = "startup" /\ ready /\ ~checkpoint.processing
    /\ position = 0 /\ ~PendingOrders(Restored)
    /\ pc' = "step"
    /\ engine' = [engine EXCEPT !.running = TRUE, !.pending = Retained(Restored)]
    /\ UNCHANGED <<durable, strategy, observed, ready, outside>>

\* pause: the market data is not to be trusted, for the rest of the run.
Pause ==
    /\ pc = "step" /\ ready
    /\ ready' = FALSE
    /\ UNCHANGED <<pc, durable, engine, strategy, observed, outside>>

-------------------------------------------------------------------------------
(* A turn of the loop: drain the facts into the account ... *)

\* Every report there can be of one lot is final.
Booked(f) ==
    LET c == f.id
        told == [orders[c] EXCEPT !.state = "terminal", !.booked = @ \/ f.kind = "trade"]
    IN
    /\ orders' = [orders EXCEPT ![c] = told]
    /\ position' = IF f.kind # "trade" \/ orders[c].booked THEN position
                   ELSE IF offset[c] = "open" THEN position + 1 ELSE position - 1

\* Mutant of Named: the report has the exchange's number only.
NamedByNumber(f) == None
\* The order a report names for the strategy.
Named(f) == IF ReportsNameOrder THEN f.id ELSE None

DrainFact(f) ==
    /\ pc = "step" /\ Len(observed) < QueueBound
    /\ f \in facts /\ orders[f.id].linked
    /\ Booked(f)
    /\ observed' = Append(observed, [kind |-> f.kind, id |-> Named(f)])
    /\ UNCHANGED <<pc, status, offset, checkpoint, engine, strategy, ready, outside>>

\* A market event reaches the queue, a new one or the last one again.
MarketEvent(kind, n) ==
    /\ pc = "step" /\ Len(observed) < QueueBound
    /\ n \in 1..MaxEvents /\ n \in {events, events + 1}
    /\ events' = n
    /\ observed' = Append(observed, [kind |-> kind, id |-> n])
    /\ UNCHANGED <<pc, durable, engine, strategy, ready, broker, facts, crashes>>

Deliver ==
    /\ pc = "step" /\ pc' = "deliver"
    /\ UNCHANGED <<durable, process, outside>>

(* ... show them to the engine, one after the other ... *)

Shown == Head(observed)
Delivering(kinds) == pc = "deliver" /\ observed # <<>> /\ Shown.kind \in kinds

ShowOrder ==
    /\ Delivering({"filled", "cancelled", "rejected"})
    /\ observed' = Tail(observed)
    /\ strategy' = IF Shown.id = None THEN strategy ELSE OnOrder(strategy, Shown.kind, Shown.id)
    /\ UNCHANGED <<pc, durable, engine, ready, outside>>

HasSeen(c) == c \in engine.seen

\* A trade of this run that was not told before; on_trade raises for one that
\* does not fit, FillsFit says that there is none.
ToTell == Shown.id # None /\ ~HasSeen(Shown.id)

ShowTrade ==
    /\ Delivering({"trade"}) /\ (ToTell => TradeFits(strategy, Shown.id))
    /\ observed' = Tail(observed)
    /\ engine' = IF ToTell THEN [engine EXCEPT !.seen = @ \union {Shown.id}] ELSE engine
    /\ strategy' = IF ToTell THEN OnTrade(strategy, Shown.id) ELSE strategy
    /\ UNCHANGED <<pc, durable, ready, outside>>

\* on_bar and on_tick up to the callback: a repeated event, or one of a paused
\* run, is dropped; otherwise the gate is judged, then the cursor is saved.
\* The market may have become stale in the meantime.
DropMarket ==
    /\ Delivering(Kinds) /\ (~IsNew(Shown) \/ ~ready)
    /\ observed' = Tail(observed)
    /\ UNCHANGED <<pc, durable, engine, strategy, ready, outside>>

BeginCallback(fresh) ==
    /\ Delivering(Kinds) /\ IsNew(Shown) /\ ready
    /\ LET judged == IF fresh THEN Retained(engine.pending) ELSE engine.pending
           blocked == ~fresh \/ PendingOrders(engine.pending)
       IN /\ engine' = [engine EXCEPT !.pending = judged, !.event = Shown,
                                      !.gate = IF blocked THEN "blocked" ELSE "processed"]
          /\ checkpoint' = Saved(Shown, judged, TRUE)
    /\ strategy' = IF fresh THEN AfterRefusals(strategy, engine.pending) ELSE strategy
    /\ observed' = Tail(observed) /\ pc' = "callback"
    /\ UNCHANGED <<status, offset, orders, position, ready, outside>>

Quiet ==
    /\ pc = "callback" /\ pc' = "called"
    /\ UNCHANGED <<durable, process, outside>>

Suppressed(s) == strategy

\* The strategy wants to trade.  A gate that is shut takes the intent and
\* rejects it when the callback is over; an open one makes it a command.
Trade(want, s) ==
    LET c == engine.event.id IN
    /\ pc = "callback" /\ pc' = "called"
    /\ IF engine.gate = "blocked"
       THEN strategy' = Suppressed(s) /\ UNCHANGED <<status, offset, engine>>
       ELSE /\ status[c] = "none"
            /\ strategy' = s
            /\ status' = [status EXCEPT ![c] = "pending"]
            /\ offset' = [offset EXCEPT ![c] = want]
            /\ engine' = [engine EXCEPT !.pending = @ \union {c}]
    /\ UNCHANGED <<orders, position, checkpoint, observed, ready, outside>>

\* Only a bar may open, and the translator opens from a flat account only.
WantEntry ==
    /\ engine.event.kind = "bar" /\ MayEnter(strategy)
    /\ engine.gate = "processed" => position = 0 /\ ~AnyActive
    /\ Trade("open", Enter(strategy, engine.event.id))

WantExit ==
    /\ MayExit(strategy)
    /\ engine.gate = "processed" => position > 0
    /\ Trade("close", Exit(strategy, engine.event.id))

EndCallback ==
    /\ pc = "called" /\ pc' = "deliver"
    /\ checkpoint' = Saved(engine.event, engine.pending, FALSE)
    /\ engine' = [engine EXCEPT !.gate = "outside", !.event = NoEvent]
    /\ UNCHANGED <<status, offset, orders, position, strategy, observed, ready, outside>>

(* ... and let the service take one command *)

EndDelivery ==
    /\ pc = "deliver" /\ observed = <<>> /\ pc' = "command"
    /\ UNCHANGED <<durable, process, outside>>

SomePending == \E c \in Commands : status[c] = "pending"

\* A command that finds the run not ready stays, and pauses it for good.
NoCommand ==
    /\ pc = "command" /\ pc' = "step"
    /\ ready => ~SomePending
    /\ ready' = (ready /\ ~SomePending)
    /\ UNCHANGED <<durable, engine, strategy, observed, outside>>

First(c) == status[c] = "pending" /\ \A d \in Commands : status[d] = "pending" => c <= d

RefuseCommand(c, result) ==
    /\ pc = "command" /\ ready /\ First(c) /\ pc' = "step"
    /\ status' = [status EXCEPT ![c] = result]
    /\ orders' = [orders EXCEPT ![c].state = IF result = "not_sent" THEN "terminal" ELSE @]
    /\ UNCHANGED <<offset, position, checkpoint, process, outside>>

SendCommand(c) ==
    /\ pc = "command" /\ ready /\ First(c) /\ pc' = "step"
    /\ status' = [status EXCEPT ![c] = "unknown"]
    /\ orders' = [orders EXCEPT ![c].state = "active", ![c].linked = TRUE]
    /\ broker' = [broker EXCEPT ![c] = "received"]
    /\ UNCHANGED <<offset, position, checkpoint, process, events, facts, crashes>>

\* The process ends between the call and its result.
CrashInDispatch(c, received) ==
    /\ pc = "command" /\ ready /\ First(c) /\ GoesDown
    /\ status' = [status EXCEPT ![c] = "dispatching"]
    /\ orders' = [orders EXCEPT ![c].state = "active"]
    /\ broker' = [broker EXCEPT ![c] = IF received THEN "received" ELSE @]
    /\ UNCHANGED <<offset, position, checkpoint, events, facts>>

-------------------------------------------------------------------------------
(* The broker *)

BrokerAct(c, from, to, news) ==
    /\ broker[c] = from
    /\ broker' = [broker EXCEPT ![c] = to]
    /\ facts' = facts \union {[kind |-> k, id |-> c] : k \in news}
    /\ UNCHANGED <<pc, durable, process, events, crashes>>

Broker(c) ==
    \/ BrokerAct(c, "received", "working", {})
    \/ BrokerAct(c, "received", "rejected", {"rejected"})
    \/ BrokerAct(c, "working", "cancelled", {"cancelled"})
    \/ (offset[c] = "close" => BrokerPosition > 0) /\ BrokerAct(c, "working", "filled", {"filled", "trade"})

Loop ==
    \/ Pause \/ Deliver \/ ShowOrder \/ ShowTrade \/ DropMarket
    \/ \E f \in facts : DrainFact(f)
    \/ \E kind \in Kinds, n \in Commands : MarketEvent(kind, n)
    \/ \E fresh \in BOOLEAN : BeginCallback(fresh)
    \/ Quiet \/ WantEntry \/ WantExit \/ EndCallback \/ EndDelivery \/ NoCommand
    \/ \E c \in Commands :
          SendCommand(c) \/ \E result \in Refused : RefuseCommand(c, result)

Next ==
    \/ Loop \/ Crash \/ Restart \/ Reconcile \/ Start
    \/ \E c \in Commands : Broker(c) \/ \E received \in BOOLEAN : CrashInDispatch(c, received)

Spec == Init /\ [][Next]_vars

-------------------------------------------------------------------------------
(* Properties *)

\* The strategy never puts more than one lot at risk and never goes short:
\* what is open or may still open at the broker is at most one lot, and no
\* more closes are on their way than there are lots.
AtMostOneLot ==
    LET AtRisk(o) == {c \in Commands : offset[c] = o /\ broker[c] \in {"received", "working", "filled"}}
    IN /\ Cardinality(AtRisk("open")) <= 1 + Cardinality({c \in Commands : Closed(c)})
       /\ Cardinality(AtRisk("close")) <= Cardinality({c \in Commands : Opened(c)})

\* No restart forgets an order that may still trade: whatever the process was
\* doing when it ended, a command of open fate is in the strategy's checkpoint,
\* or the checkpoint forbids to start.
NothingForgotten ==
    \A c \in Commands :
        status[c] # "none" /\ StillOut(c) => c \in checkpoint.pending \/ checkpoint.processing

\* No genuine fill makes the strategy raise: an opening one finds its risk
\* plan, a closing one the position it closes.
FillsFit ==
    Delivering({"trade"}) /\ ToTell => TradeFits(strategy, Shown.id)

\* The position in lots is bounded and every fill finds its place in it.
PositionIsSound == TypeOK /\ AtMostOneLot /\ FillsFit

\* When all committed events have been shown, the strategy holds what the
\* account holds: a fill it does not know of has no stop.
StrategyInStep ==
    Running /\ observed = <<>> => strategy.position = position

\* An intent the strategy waits for is one whose fate will be told.
\* (live_engine.py: no false undecided state is left behind.)
ToBeTold(c) ==
    \/ c \in engine.pending
    \/ orders[c].state = "active"
    \/ broker[c] = "filled" /\ c \notin engine.seen
    \/ \E i \in 1..Len(observed) : observed[i].id = c /\ observed[i].kind \in {"cancelled", "rejected"}
IntentsAreToldOf ==
    Running => \A c \in {strategy.opening, strategy.closing} \ {None} : ToBeTold(c)

\* The fate of every command is known, or will be: no restart forgets one, and
\* the strategy waits for none in vain.
FatesAreKept == NothingForgotten /\ IntentsAreToldOf

\* The strategy's position is bounded, every fill finds its place in it, and it is
\* the account's when all has been shown.
StrategyIsSound == PositionIsSound /\ StrategyInStep
===============================================================================
