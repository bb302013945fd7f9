---------------------------- MODULE AccountHistory ----------------------------
(***************************************************************************)
(* The history of an account: facts that are committed to the journal one  *)
(* by one under numbers of their own, the checkpoint that replaces them    *)
(* when a day is settled, the finished orders that a checkpoint retires,   *)
(* and the account in memory, which follows the journal fact by fact or is *)
(* built again from it.                                                    *)
(*                                                                         *)
(* A commit may fail, or be durable and seem to fail; the process may die  *)
(* at any time.  The counter reports again what it has reported before.    *)
(* Orders are of one lot; a day is settled when it ends (AccountLedger has *)
(* the prices); ExecutionService has the calls and the retry of a fact.    *)
(***************************************************************************)
EXTENDS Integers, FiniteSets, Sequences

CONSTANTS
    Orders,         \* client_order_id
    LastDay,        \* model bound: trading days 1..LastDay
    MaxFacts,       \* model bound: facts committed
    MaxFailures     \* model bound: commits that fail, and crashes

VARIABLES
    journal,        \* the database: checkpoint, the facts after it, and trade keys
    model,          \* LiveAccountModel: kernel, and the checkpoint and number of facts applied
    service,        \* "up", "publishing" after a commit, "down"
    account,        \* history: what a process that starts now would build
    exchange,       \* per order: "none", "working", "filled", "cancelled"
    failures        \* model bound

historyVars == <<journal, account, model, service, exchange, failures>>

Nothing == [none |-> TRUE]

-------------------------------------------------------------------------------
(* The account: _Kernel, a function of its facts *)

NewKernel ==
    [day |-> 1, lots |-> 0, order |-> [o \in Orders |-> "absent"], reported |-> {}, known |-> {},
     retired |-> {}, candidates |-> {}, external |-> {}]

Final == {"filled", "cancelled"}

\* _find_by_identity: orders that were retired are in no index.
Found(k, o) == k.order[o] # "absent"

\* A report of an order that is not found is kept as another's order.
Reported(k, o, status) ==
    IF ~Found(k, o) THEN [k EXCEPT !.external = @ \union {o}]
    ELSE [k EXCEPT !.order[o] = IF @ \in Final THEN @ ELSE status,
                   !.reported = IF status = "filled" THEN @ \union {o} ELSE @]

\* _apply_trade: booked for a known order or for none.
Traded(k, o) ==
    IF o \in k.known THEN k
    ELSE [k EXCEPT !.known = @ \union {o}, !.lots = @ + 1,
                   !.order[o] = IF Found(k, o) /\ @ \notin Final THEN "filled" ELSE @,
                   !.reported = IF Found(k, o) THEN @ \union {o} ELSE @]

\* A day that has ended is not ended again.
Advanced(k, d) == IF k.day = d THEN [k EXCEPT !.day = d + 1] ELSE k

Apply(k, f) ==
    CASE f.kind = "intent"  -> [k EXCEPT !.order[f.of] = "active"]
      [] f.kind = "report"  -> Reported(k, f.of, f.status)
      [] f.kind = "trade"   -> Traded(k, f.of)
      [] f.kind = "advance" -> Advanced(k, f.of)

ApplyAll(k, facts) ==
    LET after[n \in 0..Len(facts)] == IF n = 0 THEN k ELSE Apply(after[n - 1], facts[n])
    IN after[Len(facts)]

\* Mutant of Retirable: a final report is enough.
FinalOnly(k) == {o \in Orders : k.order[o] \in Final}
\* retirable_orders: final, and all that was filled is booked.
Retirable(k) == {o \in Orders : k.order[o] \in Final /\ (o \in k.reported => o \in k.known)}

\* retire_history: what could have been retired at the last checkpoint goes,
\* with its indexes and the keys of its trades.
Retire(k) ==
    LET retired == k.candidates \intersect Retirable(k) IN
    [k EXCEPT !.order = [o \in Orders |-> IF o \in retired THEN "absent" ELSE @[o]],
              !.known = @ \ retired, !.reported = @ \ retired,
              !.retired = @ \union retired, !.candidates = Retirable(k) \ retired]

\* _dump_kernel: an order with what it is and whether it is filled; the keys of
\* trades, what is of others, and which orders are, and may be, retired.
Dumped(k) ==
    [trading_day |-> k.day, positions |-> k.lots,
     orders |-> {[id |-> o, status |-> k.order[o], filled |-> o \in k.reported] :
                    o \in {known \in Orders : Found(k, known)}},
     trade_keys |-> k.known, external |-> k.external,
     retire_candidates |-> k.candidates, retired_order_ids |-> k.retired]

\* _restore_kernel: into a new kernel, field by field.
Restored(data) ==
    [NewKernel EXCEPT
        !.day = data.trading_day, !.lots = data.positions,
        !.order = [o \in Orders |-> IF \E e \in data.orders : e.id = o
                                    THEN (CHOOSE e \in data.orders : e.id = o).status ELSE "absent"],
        !.reported = {e.id : e \in {order \in data.orders : order.filled}},
        !.known = data.trade_keys, !.external = data.external,
        !.candidates = data.retire_candidates, !.retired = data.retired_order_ids]

Active(k) == {o \in Orders : k.order[o] = "active"}

-------------------------------------------------------------------------------
(* The journal *)

\* The account as it is stored: a checkpoint through some fact, and the rest.
Rebuilt(j) == ApplyAll(Restored(j.saved), j.facts)

HistoryInit ==
    /\ journal = [through |-> 0, saved |-> Dumped(NewKernel), facts |-> <<>>, keys |-> {}]
    /\ account = NewKernel /\ service = "up" /\ failures = 0
    /\ model = [kernel |-> NewKernel, through |-> 0, applied |-> 0]
    /\ exchange = [o \in Orders |-> "none"]

\* _compact: the checkpoint covers the facts so far and the one that ends the day.
Compacted(j, k, f) ==
    [j EXCEPT !.through = j.through + Len(j.facts) + 1, !.saved = Dumped(Retire(k)), !.facts = <<>>]

\* stage_fact on a replica: the fact to write, or the checkpoint instead, when
\* the day has turned and the checkpoint was not refused.
Staged(j, f, compacts) ==
    LET before == Rebuilt(j)
        after == Apply(before, f)
        next == [j EXCEPT !.keys = IF f.kind = "trade" THEN @ \union {f.of} ELSE @]
    IN IF after.day > before.day /\ compacts THEN Compacted(next, after, f)
       ELSE [next EXCEPT !.facts = Append(@, f)]

Fail == failures < MaxFailures /\ failures' = failures + 1

Commit(f, outcome) ==
    /\ service = "up" /\ journal.through + Len(journal.facts) < MaxFacts
    /\ journal' = IF outcome = "lost" THEN journal ELSE Staged(journal, f, outcome # "refused")
    /\ account' = Rebuilt(journal')
    /\ IF outcome \in {"done", "refused"} THEN service' = "publishing" /\ UNCHANGED failures
                                          ELSE service' = "down" /\ Fail
    /\ UNCHANGED model

Outcomes == {"done", "refused", "lost", "unsure"}

\* Nothing is in memory, or the checkpoint is another.
MustRebuild == model = Nothing \/ (model # Nothing /\ journal.through # model.through)

\* publish: build all again, or apply what is new.
Publish ==
    /\ service = "publishing" /\ service' = "up"
    /\ model' = [kernel  |-> IF MustRebuild THEN Rebuilt(journal)
                             ELSE ApplyAll(model.kernel,
                                           SubSeq(journal.facts, model.applied + 1, Len(journal.facts))),
                 through |-> journal.through, applied |-> Len(journal.facts)]
    /\ UNCHANGED <<journal, account, exchange, failures>>

\* A service that failed, or a process that died, is started again.
Crash ==
    /\ service # "down" /\ service' = "down" /\ Fail
    /\ UNCHANGED <<journal, account, model, exchange>>

Restart ==
    /\ service = "down" /\ service' = "publishing" /\ model' = Nothing
    /\ UNCHANGED <<journal, account, exchange, failures>>

-------------------------------------------------------------------------------
(* What is committed *)

\* _stage_submit: a name of an order, present or retired, is not used again.
Taken(k, o) == Found(k, o) \/ o \in k.retired

Submit(o, outcome) ==
    /\ service = "up" /\ ~Taken(model.kernel, o)
    /\ Commit([kind |-> "intent", of |-> o], outcome)
    /\ UNCHANGED exchange

\* Mutant of Duplicate: the account's own keys, of the orders it still has.
KnownToAccount(o) == o \in model.kernel.known
\* contains_trade: the journal keeps the key of every trade.
Duplicate(o) == o \in journal.keys

TradeReport(o, outcome) ==
    /\ service = "up" /\ exchange[o] = "filled" /\ ~Duplicate(o)
    /\ Commit([kind |-> "trade", of |-> o], outcome)
    /\ UNCHANGED exchange

\* The report of the end, first or again; that an order works changes nothing here.
OrderReport(o, outcome) ==
    /\ exchange[o] \in Final
    /\ Commit([kind |-> "report", of |-> o, status |-> exchange[o]], outcome)
    /\ UNCHANGED exchange

\* The order to end a day; it may come again for the day before.
EndDay(d, outcome) ==
    /\ service = "up" /\ d \in {model.kernel.day, model.kernel.day - 1} \intersect 1..(LastDay - 1)
    /\ Commit([kind |-> "advance", of |-> d], outcome)
    /\ UNCHANGED exchange

\* The exchange (external): an order that the account has committed.
ExchangeStep(o) ==
    /\ \/ exchange[o] = "none" /\ account.order[o] = "active"
          /\ exchange' = [exchange EXCEPT ![o] = "working"]
       \/ exchange[o] = "working" /\ \E end \in Final : exchange' = [exchange EXCEPT ![o] = end]
    /\ UNCHANGED <<journal, account, model, service, failures>>

HistoryNext ==
    \/ \E o \in Orders, outcome \in Outcomes \ {"refused"} :
           Submit(o, outcome) \/ TradeReport(o, outcome) \/ OrderReport(o, outcome)
    \/ \E d \in 1..LastDay, outcome \in Outcomes : EndDay(d, outcome)
    \/ \E o \in Orders : ExchangeStep(o)
    \/ Publish \/ Crash \/ Restart

HistorySpec == HistoryInit /\ [][HistoryNext]_historyVars

-------------------------------------------------------------------------------
(* Properties *)

\* What the account in memory is, after any commits, failures, checkpoints and
\* restarts, is what a process that starts now would build from the journal.
PublishedIsDurable == service = "up" => model.kernel = account

\* An order that a checkpoint retires is finished: nothing of it can trade, or
\* has traded, that is not booked.
RetiredIsFinished ==
    \A o \in account.retired : exchange[o] = "cancelled" \/ (exchange[o] = "filled" /\ o \in journal.keys)

HistoryIsDurable == PublishedIsDurable /\ RetiredIsFinished

\* Readers of the account see a plain one: checkpoints, retirement, rebuilding
\* and repeated reports are steps that they cannot tell.
Plain == INSTANCE PlainAccount WITH
    used   <- {o \in Orders : Found(account, o)} \union account.retired,
    active <- Active(account),
    lots   <- account.lots,
    seen   <- journal.keys
ImplementsPlain == Plain!PlainSpec
===============================================================================
