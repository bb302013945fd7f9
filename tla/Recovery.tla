------------------------------- MODULE Recovery -------------------------------
(***************************************************************************)
(* The reconciliation before trading is enabled: CtpQueryAdapter asks the  *)
(* counter for orders, trades, positions and funds, one after the other,   *)
(* RecoveryCoordinator merges each result into a replica of the account,   *)
(* and the service opens its gate if nothing differs.                      *)
(*                                                                         *)
(* The four answers are four moments: orders trade between them, records   *)
(* come one by one in other threads, and callbacks of trades overtake the  *)
(* answers or come after them.  A callback that came before this process   *)
(* listened, or was lost with the session, never comes again (the private  *)
(* flow is subscribed with QUICK).  A failed attempt ends the process.     *)
(* Prices stand still and a trade changes the balance by a fixed amount;   *)
(* CtpSession has the session, AccountKernel what a fact does.  The broker *)
(* is external.                                                            *)
(***************************************************************************)
EXTENDS Integers, FiniteSets, FiniteSetsExt, Sequences

CONSTANTS
    Products,       \* (instrument, side)
    Deals,          \* orders of the account at the broker, one trade each
    TradeOf,        \* per order, its one trade: product, lots and change of the balance
    MaxFaults       \* model bound: requests, answers and records that fail, sessions lost

VARIABLES
    broker,         \* per order: "none" | "working" | "traded" | "cancelled"
    own,            \* per order, what the account knows: "absent", "unsent", "unknown", "confirmed", "done"
    booked,         \* orders whose trade is in the account
    before,         \* history: booked when the attempt began
    calls, facts,   \* callbacks on their way, and in _trade_queue: <<order, what>>
    online,         \* connected, logged in, settlement confirmed
    doing, query,   \* the main thread, and the number of the query it is at
    asked, answers, \* requests at the counter, and what is left of its answers
    got,            \* _Pending.records
    diffs,          \* RecoveryReport: categories with a blocking difference
    enabled,        \* ExecutionService._ready
    faults          \* model bound

recoveryVars == <<broker, own, booked, before, calls, facts, online, doing, query, asked, answers, got, diffs,
                  enabled, faults>>
outsideVars == <<own, booked, before, doing, query, got, diffs, enabled>>
counterVars == <<broker, own, booked, before, calls, facts, online>>

Kinds == <<"orders", "trades", "positions", "funds">>

LotsOf(p, orders) == MapThenSumSet(LAMBDA o : IF TradeOf[o].product = p THEN TradeOf[o].lots ELSE 0, orders)
CashOf(orders) == MapThenSumSet(LAMBDA o : TradeOf[o].cash, orders)
TradedAt(b) == {o \in Deals : b[o] = "traded"}

\* What a restart may find: the counter has gone on since the account last
\* heard of it, an order may be another client's, and of one that is done the
\* report may have been booked and the trade not.
Possible(o) ==
    CASE own[o] = "absent"    -> TRUE
      [] own[o] = "unsent"    -> broker[o] = "none"
      [] own[o] = "unknown"   -> TRUE
      [] own[o] = "confirmed" -> broker[o] # "none"
      [] own[o] = "done"      -> broker[o] \in {"traded", "cancelled"}

RecoveryInit ==
    /\ broker \in [Deals -> {"none", "working", "traded", "cancelled"}]
    /\ own \in [Deals -> {"absent", "unsent", "unknown", "confirmed", "done"}]
    /\ booked \in SUBSET {o \in TradedAt(broker) : own[o] = "done"}
    /\ before = booked /\ \A o \in Deals : Possible(o)
    /\ calls = {} /\ facts = {} /\ online = TRUE
    /\ doing = "ask" /\ query = 1 /\ asked = {} /\ answers = {} /\ got = {}
    /\ diffs = {} /\ enabled = FALSE /\ faults = 0

RecoveryTypeOK ==
    /\ booked \subseteq Deals /\ before \subseteq Deals /\ calls \union facts \subseteq Deals \X {"order", "trade"}
    /\ doing \in {"ask", "wait", "merge", "mark", "enable", "run", "stopped"}
    /\ query \in 1..Len(Kinds) /\ asked \subseteq 1..Len(Kinds)
    /\ diffs \subseteq {"query", "order", "trade", "position", "funds"}
    /\ enabled \in BOOLEAN /\ online \in BOOLEAN /\ faults \in 0..MaxFaults

\* An event of which there are not more than the bound.
Fault(happens) ==
    IF happens THEN faults < MaxFaults /\ faults' = faults + 1 ELSE UNCHANGED faults

-------------------------------------------------------------------------------
(* The counter *)

\* An order that the account sent before may reach the counter as late as now.
OrderArrives(o) ==
    /\ broker[o] = "none" /\ own[o] = "unknown"
    /\ broker' = [broker EXCEPT ![o] = "working"] /\ calls' = calls \union {<<o, "order">>}
    /\ UNCHANGED <<outsideVars, facts, online, asked, answers, faults>>

OrderEnds(o, end) ==
    /\ broker[o] = "working" /\ end \in {"traded", "cancelled"}
    /\ broker' = [broker EXCEPT ![o] = end]
    /\ calls' = calls \union (IF end = "traded" THEN {<<o, "order">>, <<o, "trade">>} ELSE {<<o, "order">>})
    /\ UNCHANGED <<outsideVars, facts, online, asked, answers, faults>>

\* Records of a query at the moment it is answered; finished orders come too
\* and query_orders drops them.
Records(q) ==
    CASE Kinds[q] = "orders"    -> {o \in Deals : broker[o] = "working"}
      [] Kinds[q] = "trades"    -> TradedAt(broker)
      [] Kinds[q] = "positions" -> {<<p, LotsOf(p, TradedAt(broker))>> :
                                        p \in {p \in Products : LotsOf(p, TradedAt(broker)) # 0}}
      [] Kinds[q] = "funds"     -> {CashOf(TradedAt(broker))}

Answer(q, ok) ==
    /\ q \in asked /\ asked' = asked \ {q} /\ Fault(~ok)
    /\ answers' = answers \union {[to |-> q, records |-> IF ok THEN Records(q) ELSE {}, ok |-> ok]}
    /\ UNCHANGED <<outsideVars, broker, calls, facts, online>>

\* Nothing comes over a session that is lost; _maintain_session would log in
\* again, and the main thread does not get to it during an attempt.
SessionLost ==
    /\ online /\ online' = FALSE /\ Fault(TRUE)
    /\ calls' = {} /\ asked' = {} /\ answers' = {}
    /\ UNCHANGED <<outsideVars, broker, facts>>

-------------------------------------------------------------------------------
(* The callback thread *)

Callback(c) ==
    /\ c \in calls /\ calls' = calls \ {c} /\ facts' = facts \union {c}
    /\ UNCHANGED <<outsideVars, broker, online, asked, answers, faults>>

LastOf(rest) == rest = {}

\* on_query_response: some records of an answer, and is_last with the last of
\* them.  An answer to a request that was given up finds nobody waiting.
QueryResponse(a, records) ==
    LET rest == a.records \ records
        mine == doing = "wait" /\ a.to = query
    IN /\ records \subseteq a.records /\ (records = {} => a.records = {})
       /\ answers' = (answers \ {a}) \union
                     (IF rest = {} \/ (mine /\ LastOf(rest)) THEN {} ELSE {[a EXCEPT !.records = rest]})
       /\ got' = IF mine THEN got \union records ELSE got
       /\ diffs' = IF mine /\ ~a.ok THEN diffs \union {"query"} ELSE diffs
       /\ doing' = IF mine /\ LastOf(rest) THEN "merge" ELSE doing
       /\ UNCHANGED <<counterVars, query, asked, enabled, faults>>

-------------------------------------------------------------------------------
(* The main thread: reconcile_and_enable *)

\* _collect; what cannot be sent is answered at once, with an error.
Ask(sent) ==
    /\ doing = "ask" /\ got' = {} /\ Fault(~sent)
    /\ IF sent /\ online
       THEN doing' = "wait" /\ asked' = asked \union {query} /\ UNCHANGED diffs
       ELSE doing' = "merge" /\ diffs' = diffs \union {"query"} /\ UNCHANGED asked
    /\ UNCHANGED <<counterVars, query, answers, enabled>>

\* Mutant of Incomplete: what was not answered in time is taken as empty.
NothingFound == {}
Incomplete == {"query"}

\* The records so far are dropped, and the result is not complete.
GiveUp ==
    /\ doing = "wait" /\ doing' = "merge" /\ Fault(TRUE) /\ got' = {} /\ diffs' = diffs \union Incomplete
    /\ UNCHANGED <<counterVars, query, asked, answers, enabled>>

Active == {o \in Deals : own[o] \in {"unsent", "unknown", "confirmed"}}

\* merge_order_query: another's order, or one of ours that the counter does
\* not have at work.
OrderDiffs(records) ==
    IF \/ \E o \in records : own[o] = "absent"
       \/ \E o \in Active \ records : own[o] # "unsent"
    THEN {"order"} ELSE {}

\* merge_trade_query: only a trade without an order counts; what is new of the
\* others goes to the replica's orders and, without a trade_sink, no further.
TradeDiffs(records) == IF \E o \in records : own[o] = "absent" THEN {"trade"} ELSE {}

\* reconcile_positions, both ways
PositionDiffs(records) ==
    LET remote(p) == MapThenSumSet(LAMBDA r : IF r[1] = p THEN r[2] ELSE 0, records)
    IN IF \E p \in Products : remote(p) # LotsOf(p, booked) THEN {"position"} ELSE {}

\* reconcile_funds, and the record that enable_after_reconciliation asks for.
FundsDiffs(records) == IF records = {CashOf(booked)} THEN {} ELSE {"funds"}

\* A record that cannot be converted is left out and makes the result incomplete.
Converted(records) == {[records |-> records, bad |-> {}]} \union
                      {[records |-> records \ {r}, bad |-> {"query"}] : r \in records}

Merge ==
    /\ doing = "merge"
    /\ \E result \in Converted(got) :
        /\ Fault(result.bad # {})
        /\ diffs' = diffs \union result.bad \union
                    CASE Kinds[query] = "orders"    -> OrderDiffs(result.records)
                      [] Kinds[query] = "trades"    -> TradeDiffs(result.records)
                      [] Kinds[query] = "positions" -> PositionDiffs(result.records)
                      [] Kinds[query] = "funds"     -> FundsDiffs(result.records)
    /\ IF query < Len(Kinds) THEN query' = query + 1 /\ doing' = "ask"
                             ELSE doing' = "mark" /\ UNCHANGED query
    /\ UNCHANGED <<counterVars, asked, answers, got, enabled>>

\* mark_reconciled; without a session the attempt is over.
MarkReconciled ==
    /\ doing = "mark" /\ doing' = IF online THEN "enable" ELSE "stopped"
    /\ UNCHANGED <<counterVars, query, asked, answers, got, diffs, enabled, faults>>

\* _enable_after_reconciliation: no difference, and no callback that waits.
Enable ==
    /\ doing = "enable"
    /\ enabled' = (diffs = {} /\ facts = {})
    /\ doing' = IF enabled' THEN "run" ELSE "stopped"
    /\ UNCHANGED <<counterVars, query, asked, answers, got, diffs, faults>>

\* The loop takes a fact.
TakeFact(f) ==
    LET o == f[1] IN
    /\ doing = "run" /\ f \in facts /\ facts' = facts \ {f}
    /\ booked' = IF f[2] = "trade" /\ own[o] # "absent" THEN booked \union {o} ELSE booked
    /\ own' = IF own[o] = "absent" THEN own
              ELSE [own EXCEPT ![o] = IF f[2] = "order" /\ broker[o] = "working" /\ @ # "done"
                                      THEN "confirmed" ELSE "done"]
    /\ UNCHANGED <<broker, before, calls, online, doing, query, asked, answers, got, diffs, enabled, faults>>

RecoveryNext ==
    \/ \E o \in Deals : OrderArrives(o) \/ \E end \in {"traded", "cancelled"} : OrderEnds(o, end)
    \/ \E q \in asked, ok \in BOOLEAN : Answer(q, ok)
    \/ SessionLost
    \/ \E c \in calls : Callback(c)
    \/ \E a \in answers : \E records \in SUBSET a.records : QueryResponse(a, records)
    \/ \E sent \in BOOLEAN : Ask(sent)
    \/ GiveUp \/ Merge \/ MarkReconciled \/ Enable
    \/ \E f \in facts : TakeFact(f)

RecoverySpec == RecoveryInit /\ [][RecoveryNext]_recoveryVars

-------------------------------------------------------------------------------
(* Properties *)

\* Trades that the account has not booked and will not hear of any more.
Missed == {o \in TradedAt(broker) \ booked : <<o, "trade">> \notin calls \union facts}

\* Trades that were made while the attempt ran, or came after: all are told.
Told == TradedAt(broker) \ (Missed \union before)

\* Trading is enabled on the truth, whenever trades, answers, callbacks and the
\* loss of a session fall between the four queries.  A trade is booked or will
\* be; one that is missed is of an order whose end the account had booked, and
\* the positions and the balance agreed only because other trades that are
\* missed, or were made before they were asked for, undo it (the code has no
\* other way to see it).  An order that the account takes for active is at work
\* or its end will be told, and no other order is at work.
EnabledOnTruth ==
    enabled /\ online =>
        /\ \A o \in Missed : own[o] = "done"
        /\ \E made \in SUBSET Told : \A p \in Products : LotsOf(p, Missed \union made) = 0
        /\ \E made \in SUBSET Told : CashOf(Missed \union made) = 0
        /\ \A o \in Deals : own[o] \in {"unknown", "confirmed"} =>
               broker[o] = "working" \/ {<<o, "order">>, <<o, "trade">>} \intersect (calls \union facts) # {}
        /\ ~\E o \in Deals : own[o] = "absent" /\ broker[o] = "working"
===============================================================================
