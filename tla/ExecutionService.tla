--------------------------- MODULE ExecutionService ---------------------------
(***************************************************************************)
(* The execution service of one account: the only process that may trade.  *)
(*                                                                         *)
(* Producers (strategies, the watchdog, operators) insert commands into a  *)
(* SQLite table.  One executor thread applies broker facts, arbitrates     *)
(* takeovers, and dispatches commands: it commits the preparation, checks  *)
(* a final fence, calls the gateway and commits the local send result.     *)
(* Callback threads append to the in-memory ingress queues at any moment.  *)
(* The process may die at any moment; what is left is trading.db.          *)
(*                                                                         *)
(* ControlEpoch (controller, epoch) is one number: the store only accepts  *)
(* a strictly larger epoch, so an epoch has one controller.  0 is "no      *)
(* control record".  A commit that raises either left no trace             *)
(* ("rolled_back") or was durable and failed to publish ("unpublished").   *)
(***************************************************************************)
EXTENDS Naturals, Sequences, FiniteSets

CONSTANTS
    Commands,          \* command identifiers
    CommandKind,       \* [Commands -> CommandKinds], what each command asks for
    Events,            \* callback event identifiers
    EventKind,         \* [Events -> EventKinds]
    TradeKeys,         \* scoped trade identities of the broker
    TradeKeyOf,        \* [Events -> TradeKeys], read for "trade" events only
    None,              \* no command, no event
    MarketCapacity,    \* market_capacity, the bounded market queue
    TradeBatch,        \* trade_batch_size
    QueueBound,        \* model bound: length of the (unbounded) trade queue
    MaxEpoch,          \* model bound: control epochs
    MaxCrashes,        \* model bound: process deaths
    MaxFailures,       \* model bound: storage or model failures
    MaxDrops           \* model bound: market events lost per process

CommandKinds == {"SUBMIT", "CANCEL", "PAUSE", "FLATTEN", "TAKEOVER_REQUEST"}
DispatchKinds == {"SUBMIT", "CANCEL"}
SupportedKinds == DispatchKinds \union {"PAUSE"}
EventKinds == {"trade", "report", "callback_failure", "market"}

ASSUME ServiceAssumption ==
    /\ CommandKind \in [Commands -> CommandKinds]
    /\ EventKind \in [Events -> EventKinds]
    /\ TradeKeyOf \in [Events -> TradeKeys]
    /\ None \notin Commands \union Events
    /\ MarketCapacity \in Nat \ {0} /\ TradeBatch \in Nat \ {0}
    /\ QueueBound \in Nat /\ MaxEpoch \in Nat
    /\ MaxCrashes \in Nat /\ MaxFailures \in Nat /\ MaxDrops \in Nat

VARIABLES
    (* trading.db *)
    status, observed, order,   \* command_queue: status, epoch column, sequence
    inserted,                  \* command_queue's AUTOINCREMENT counter
    control,                   \* journal_control
    phase,                     \* journal_state["execution_service"].phase
    events,                    \* journal_events: identifiers committed
    applied,                   \* how often the account booked each trade
    prepared,                  \* commands whose plan is part of the account
    (* the executor thread *)
    pc, slots, current, result,
    pendingFact, fault, ready, authority,
    recovery,                  \* RecoveryCoordinator.phase
    clean,                     \* the last queries left nothing to resolve
    sessionLostLogged,         \* AssembledExecution._session_lost_logged
    view,                      \* the account as last published by the model
    reportedDrops, ackFailures,
    (* callback threads *)
    tradeQueue, marketQueue, marketDropped, callbackFailures,
    (* the broker *)
    calls,                     \* gateway calls that reached it, per command
    (* history and bounds *)
    unreconciled,              \* something was lost since the last queries began
    crashes, failures

queueVars    == <<observed, order, inserted>>
accountVars  == <<applied, prepared>>
dbVars       == <<status, queueVars, control, phase, events, accountVars>>
dispatchVars == <<current, result>>
gateVars     == <<fault, ready, recovery>>
ingressVars  == <<tradeQueue, marketQueue, marketDropped, callbackFailures>>
healthVars   == <<reportedDrops, ackFailures>>
assemblyVars == <<clean, sessionLostLogged>>
boundVars    == <<crashes, failures>>
vars == <<dbVars, pc, slots, dispatchVars, pendingFact, gateVars, authority,
          assemblyVars, view, healthVars, ingressVars, calls, unreconciled, boundVars>>

Statuses == {"ABSENT", "PENDING", "DISPATCHING", "COMPLETED", "NOT_SENT",
             "SENT_UNKNOWN", "REJECTED", "REJECTED_STALE"}
Phases == {"NONE", "RECONCILING", "READY"}
Steps == {"down", "starting", "loop", "trades", "poll", "command", "fence",
          "calling", "recording", "market", "querying", "queried", "enabling"}
Outcomes == {"committed", "rolled_back", "unpublished"}
Views == [applied : [TradeKeys -> Nat], prepared : SUBSET Commands]

TypeOK ==
    /\ status \in [Commands -> Statuses]
    /\ observed \in [Commands -> 0..MaxEpoch]
    /\ order \in [Commands -> Nat] /\ inserted \in Nat
    /\ control \in 0..MaxEpoch /\ phase \in Phases
    /\ events \subseteq Events
    /\ applied \in [TradeKeys -> Nat] /\ prepared \subseteq Commands
    /\ pc \in Steps /\ slots \in 0..TradeBatch
    /\ current \in Commands \union {None}
    /\ result \in {"NONE", "NOT_SENT", "SENT_UNKNOWN"}
    /\ pendingFact \in Events \union {None}
    /\ fault \in BOOLEAN /\ ready \in BOOLEAN /\ clean \in BOOLEAN
    /\ sessionLostLogged \in BOOLEAN
    /\ authority \in 0..MaxEpoch
    /\ recovery \in {"DISCONNECTED", "RECONCILING", "READY"}
    /\ view \in Views
    /\ reportedDrops \in Nat /\ ackFailures \in Nat
    /\ tradeQueue \in Seq(Events) /\ marketQueue \in Seq(Events)
    /\ marketDropped \in Nat /\ callbackFailures \in Nat
    /\ calls \in [Commands -> Nat]
    /\ unreconciled \in BOOLEAN /\ crashes \in Nat /\ failures \in Nat

Account == [applied |-> applied, prepared |-> prepared]

\* ExecutionService.ready: the flag, and everything that may have closed it
\* since, including what a callback thread reported a moment ago.
Ready ==
    /\ ready /\ ~fault
    /\ control # 0
    /\ recovery = "READY"
    /\ control = authority
    /\ marketDropped <= reportedDrops
    /\ callbackFailures <= ackFailures

Init ==
    /\ status = [c \in Commands |-> "ABSENT"]
    /\ observed = [c \in Commands |-> 0]
    /\ order = [c \in Commands |-> 0] /\ inserted = 0
    /\ control = 0 /\ phase = "NONE" /\ events = {}
    /\ applied = [k \in TradeKeys |-> 0] /\ prepared = {}
    /\ pc = "down" /\ slots = 0 /\ current = None /\ result = "NONE"
    /\ pendingFact = None
    /\ fault = FALSE /\ ready = FALSE /\ recovery = "DISCONNECTED"
    /\ authority = 0 /\ clean = FALSE /\ sessionLostLogged = FALSE
    /\ view = Account
    /\ reportedDrops = 0 /\ ackFailures = 0
    /\ tradeQueue = <<>> /\ marketQueue = <<>>
    /\ marketDropped = 0 /\ callbackFailures = 0
    /\ calls = [c \in Commands |-> 0]
    /\ unreconciled = TRUE /\ crashes = 0 /\ failures = 0

-------------------------------------------------------------------------------
(* Durable commits *)

\* The outcome of one atomic commit followed by model.publish; failures are
\* rationed by the model.
Outcome(o) ==
    /\ o \in Outcomes
    /\ failures' = failures + (IF o = "committed" THEN 0 ELSE 1)
    /\ failures' <= MaxFailures

Durable(o) == o # "rolled_back"

\* Mutant of Publish: the commit is durable, memory keeps the old account.
PublishNothing(o, account) == view' = view

\* model.publish rebuilds the in-memory account from the committed one.
Publish(o, account) == view' = IF o = "committed" THEN account ELSE view

\* What a commit leaves of the trading gate: r and rec after success, and
\* everything closed by _fail otherwise.
Settle(o, r, rec) ==
    /\ fault' = (o # "committed")
    /\ ready' = (o = "committed" /\ r)
    /\ recovery' = IF o = "committed" THEN rec ELSE "DISCONNECTED"

\* Control goes on at step next, or the exception reaches the main loop.
Continue(o, next) == pc' = IF o = "committed" THEN next ELSE "loop"

SetStatus(c, s, o) ==
    status' = IF Durable(o) THEN [status EXCEPT ![c] = s] ELSE status

-------------------------------------------------------------------------------
(* Producers: SQLiteCommandClient.submit.  A retry of an identifier that has *)
(* a row is ignored, so only the first insertion is a step.                  *)

\* The producer observed obs some time ago; it may be obsolete by now.
Submit(c, obs) ==
    /\ status[c] = "ABSENT"
    /\ CommandKind[c] # "TAKEOVER_REQUEST" => obs # 0
    /\ status' = [status EXCEPT ![c] = "PENDING"]
    /\ observed' = [observed EXCEPT ![c] = obs]
    /\ inserted' = inserted + 1
    /\ order' = [order EXCEPT ![c] = inserted + 1]
    /\ UNCHANGED <<control, phase, events, accountVars, pc, slots, dispatchVars,
                   pendingFact, gateVars, authority, assemblyVars, view, healthVars,
                   ingressVars, calls, unreconciled, boundVars>>

-------------------------------------------------------------------------------
(* Callback threads: ExecutionService.enqueue *)

Up == pc \notin {"down", "starting"}

EnqueueFact(e) ==
    /\ Up /\ EventKind[e] # "market" /\ Len(tradeQueue) < QueueBound
    /\ LET failed == EventKind[e] = "callback_failure"
       IN  \* every conversion failure has an identifier of its own
           /\ failed => e \notin events /\ e # pendingFact
                        /\ \A i \in DOMAIN tradeQueue : tradeQueue[i] # e
           /\ callbackFailures' = callbackFailures + (IF failed THEN 1 ELSE 0)
           /\ unreconciled' = (unreconciled \/ failed)
    /\ tradeQueue' = Append(tradeQueue, e)
    /\ UNCHANGED <<dbVars, pc, slots, dispatchVars, pendingFact, gateVars, authority,
                   assemblyVars, view, healthVars, marketQueue, marketDropped, calls, boundVars>>

EnqueueMarket(e) ==
    /\ Up /\ EventKind[e] = "market"
    /\ IF Len(marketQueue) < MarketCapacity
       THEN /\ marketQueue' = Append(marketQueue, e)
            /\ UNCHANGED <<marketDropped, unreconciled>>
       ELSE /\ marketDropped < MaxDrops
            /\ marketDropped' = marketDropped + 1
            /\ unreconciled' = TRUE
            /\ UNCHANGED marketQueue
    /\ UNCHANGED <<dbVars, pc, slots, dispatchVars, pendingFact, gateVars, authority,
                   assemblyVars, view, healthVars, tradeQueue, callbackFailures, calls, boundVars>>

-------------------------------------------------------------------------------
(* Process life *)

Crash ==
    /\ pc # "down" /\ crashes < MaxCrashes
    /\ crashes' = crashes + 1
    /\ pc' = "down" /\ slots' = 0 /\ current' = None /\ result' = "NONE"
    /\ pendingFact' = None
    /\ fault' = FALSE /\ ready' = FALSE /\ recovery' = "DISCONNECTED"
    /\ authority' = 0 /\ clean' = FALSE /\ sessionLostLogged' = FALSE
    /\ view' = Account
    /\ reportedDrops' = 0 /\ ackFailures' = 0
    /\ tradeQueue' = <<>> /\ marketQueue' = <<>>
    /\ marketDropped' = 0 /\ callbackFailures' = 0
    /\ unreconciled' = TRUE
    /\ UNCHANGED <<dbVars, calls, failures>>

\* ExecutionService.__init__ up to the loop over interrupted commands.
Start ==
    /\ pc = "down"
    /\ pc' = "starting"
    /\ authority' = control
    /\ view' = Account
    /\ UNCHANGED <<dbVars, slots, dispatchVars, pendingFact, gateVars, assemblyVars,
                   healthVars, ingressVars, calls, unreconciled, boundVars>>

First(S, c) == c \in S /\ \A d \in S : order[c] <= order[d]

Interrupted == {c \in Commands : status[c] = "DISPATCHING"}

\* Mutant of RecordInterrupted: the interrupted dispatch is queued again.
ReplayInterrupted(c) ==
    /\ pc = "starting" /\ First(Interrupted, c)
    /\ status' = [status EXCEPT ![c] = "PENDING"]
    /\ UNCHANGED <<queueVars, control, phase, events, accountVars, pc, slots,
                   dispatchVars, pendingFact, gateVars, authority, assemblyVars, view,
                   healthVars, ingressVars, calls, unreconciled, boundVars>>

\* An interrupted dispatch is never replayed: its result is unknown.
RecordInterrupted(c) ==
    /\ pc = "starting" /\ First(Interrupted, c)
    /\ status' = [status EXCEPT ![c] = "SENT_UNKNOWN"]
    /\ UNCHANGED <<queueVars, control, phase, events, accountVars, pc, slots,
                   dispatchVars, pendingFact, gateVars, authority, assemblyVars, view,
                   healthVars, ingressVars, calls, unreconciled, boundVars>>

\* Mutant of Started: interrupted dispatches are left open.
StartedAnyway ==
    /\ pc = "starting"
    /\ pc' = "loop"
    /\ UNCHANGED <<dbVars, slots, dispatchVars, pendingFact, gateVars, authority,
                   assemblyVars, view, healthVars, ingressVars, calls, unreconciled, boundVars>>

Started ==
    /\ pc = "starting" /\ Interrupted = {}
    /\ pc' = "loop"
    /\ UNCHANGED <<dbVars, slots, dispatchVars, pendingFact, gateVars, authority,
                   assemblyVars, view, healthVars, ingressVars, calls, unreconciled, boundVars>>
-------------------------------------------------------------------------------
(* Ingress health: ExecutionService._check_ingress_health *)

DropsUnreported == marketDropped > reportedDrops

\* Mutant of AuditDrops: the gap is logged and trading goes on.
AuditDropsOnly(o) ==
    /\ Outcome(o)
    /\ phase' = IF Durable(o) THEN "RECONCILING" ELSE phase
    /\ reportedDrops' = IF o = "committed" THEN marketDropped ELSE reportedDrops
    /\ Publish(o, Account)
    /\ Settle(o, ready, recovery)

\* A market gap is persisted, and trading closed, before the step that found
\* it goes on.
AuditDrops(o) ==
    /\ Outcome(o)
    /\ phase' = IF Durable(o) THEN "RECONCILING" ELSE phase
    /\ reportedDrops' = IF o = "committed" THEN marketDropped ELSE reportedDrops
    /\ Publish(o, Account)
    /\ Settle(o, FALSE, "DISCONNECTED")

CheckIngress(o) ==
    \/ /\ ~DropsUnreported /\ o = "committed"
       /\ UNCHANGED <<phase, reportedDrops, view, gateVars, failures>>
    \/ DropsUnreported /\ AuditDrops(o)

unchangedByCheck == <<status, queueVars, control, events, accountVars, dispatchVars,
                      pendingFact, authority, assemblyVars, ackFailures, ingressVars,
                      calls, unreconciled, crashes>>

-------------------------------------------------------------------------------
(* Facts: ExecutionService._apply_fact *)

Booked(k) == \E e \in events : EventKind[e] = "trade" /\ TradeKeyOf[e] = k

\* Mutant of DuplicateTrade: only the event identifier is deduplicated.
DuplicateEvent(e) == e \in events

DuplicateTrade(e) == EventKind[e] = "trade" /\ Booked(TradeKeyOf[e])

\* A callback that could not be converted: what it said must be queried.
ClosesGate(e) == EventKind[e] = "callback_failure"

\* An identifier that is already in the journal is only published again; a
\* trade whose key is booked leaves an audit entry; anything else is staged
\* and committed.  Until it succeeds the fact is kept for an explicit retry.
ApplyFact(e, o) ==
    LET fresh   == e \notin events
        booking == fresh /\ ~DuplicateTrade(e) /\ Durable(o)
        failed  == EventKind[e] = "callback_failure"
    IN  /\ Outcome(o)
        /\ events' = IF booking THEN events \union {e} ELSE events
        /\ applied' = IF booking /\ EventKind[e] = "trade"
                      THEN [applied EXCEPT ![TradeKeyOf[e]] = @ + 1] ELSE applied
        /\ phase' = IF booking /\ failed THEN "RECONCILING" ELSE phase
        /\ pendingFact' = IF o = "committed" THEN None ELSE e
        /\ IF ClosesGate(e) THEN Settle(o, FALSE, "DISCONNECTED") ELSE Settle(o, ready, recovery)
        /\ ackFailures' = ackFailures + (IF failed /\ o = "committed" THEN 1 ELSE 0)
        /\ UNCHANGED <<status, queueVars, control, prepared, dispatchVars, authority,
                       assemblyVars, reportedDrops, marketDropped, callbackFailures, calls,
                       unreconciled, crashes>>
        /\ Publish(o, Account')

\* ExecutionService.retry_pending_fact: the explicit repair of a fault.
RetryPendingFact(o) ==
    /\ pc = "loop" /\ pendingFact # None
    /\ ApplyFact(pendingFact, o)
    /\ UNCHANGED <<pc, slots, tradeQueue, marketQueue>>

-------------------------------------------------------------------------------
(* One round of the main loop: ExecutionService.run_once *)

BeginRound(o) ==
    /\ pc = "loop" /\ ~fault
    /\ CheckIngress(o)
    /\ Continue(o, "trades") /\ slots' = TradeBatch
    /\ UNCHANGED unchangedByCheck

ProcessTradeFact(o) ==
    /\ pc = "trades" /\ slots > 0 /\ tradeQueue # <<>>
    /\ tradeQueue' = Tail(tradeQueue)
    /\ ApplyFact(Head(tradeQueue), o)
    /\ Continue(o, "trades") /\ slots' = slots - 1
    /\ UNCHANGED marketQueue

\* Mutants of EndBatch: the poll waits for an empty queue; the deadline may
\* pass before the first fact.
EndBatchWhenEmpty ==
    /\ pc = "trades" /\ tradeQueue = <<>>
    /\ pc' = "poll" /\ slots' = 0
    /\ UNCHANGED <<dbVars, dispatchVars, pendingFact, gateVars, authority, assemblyVars,
                   view, healthVars, ingressVars, calls, unreconciled, boundVars>>

EndBatchEarly ==
    /\ pc = "trades"
    /\ pc' = "poll" /\ slots' = 0
    /\ UNCHANGED <<dbVars, dispatchVars, pendingFact, gateVars, authority, assemblyVars,
                   view, healthVars, ingressVars, calls, unreconciled, boundVars>>

\* The queue is empty, the batch is full, or the poll deadline has passed
\* after at least one fact.
EndBatch ==
    /\ pc = "trades"
    /\ tradeQueue = <<>> \/ slots < TradeBatch
    /\ pc' = "poll" /\ slots' = 0
    /\ UNCHANGED <<dbVars, dispatchVars, pendingFact, gateVars, authority, assemblyVars, view,
                   healthVars, ingressVars, calls, unreconciled, boundVars>>

Poll(o) ==
    /\ pc = "poll"
    /\ CheckIngress(o)
    /\ Continue(o, "command")
    /\ UNCHANGED <<unchangedByCheck, slots>>

\* Market data waits until the trade queue is empty.
EndRound ==
    /\ pc = "market" /\ (tradeQueue # <<>> \/ marketQueue = <<>>)
    /\ pc' = "loop"
    /\ UNCHANGED <<dbVars, slots, dispatchVars, pendingFact, gateVars, authority, assemblyVars,
                   view, healthVars, ingressVars, calls, unreconciled, boundVars>>

ProcessMarketFact(o) ==
    /\ pc = "market" /\ tradeQueue = <<>> /\ marketQueue # <<>>
    /\ marketQueue' = Tail(marketQueue)
    /\ ApplyFact(Head(marketQueue), o)
    /\ pc' = "loop"
    /\ UNCHANGED <<slots, tradeQueue>>

-------------------------------------------------------------------------------
(* Commands: ExecutionService._process_command and _record_send_result *)

\* SQLiteExecutionStore.next_pending: takeover applications do not block the queue.
Pending == {c \in Commands : status[c] = "PENDING" /\ CommandKind[c] # "TAKEOVER_REQUEST"}

Stale(c) == control = 0 \/ observed[c] # control

unchangedByCommand == <<queueVars, control, phase, events, applied, slots, pendingFact,
                        authority, assemblyVars, healthVars, ingressVars, calls, unreconciled, crashes>>

NoCommand ==
    /\ pc = "command" /\ Pending = {}
    /\ pc' = "market"
    /\ UNCHANGED <<unchangedByCommand, status, prepared, dispatchVars, gateVars, view, failures>>

\* Stale control, a closed gate, an unsupported kind, or the account model says no.
RejectCommand(c, approved, o) ==
    /\ pc = "command" /\ First(Pending, c)
    /\ Stale(c) \/ ~Ready \/ CommandKind[c] \notin SupportedKinds \/ ~approved
    /\ Outcome(o)
    /\ SetStatus(c, IF Stale(c) THEN "REJECTED_STALE" ELSE "REJECTED", o)
    /\ Publish(o, Account) /\ Settle(o, ready, recovery) /\ Continue(o, "market")
    /\ UNCHANGED <<unchangedByCommand, prepared, dispatchVars>>

\* Mutant of PrepareCommand: the claim is left for the commit after the call.
PrepareWithoutClaim(c, o) ==
    /\ pc = "command" /\ First(Pending, c)
    /\ ~Stale(c) /\ Ready /\ CommandKind[c] \in DispatchKinds
    /\ Outcome(o)
    /\ Continue(o, "fence")
    /\ current' = IF o = "committed" THEN c ELSE None
    /\ prepared' = IF Durable(o) THEN prepared \union {c} ELSE prepared
    /\ Settle(o, ready, recovery)
    /\ UNCHANGED <<unchangedByCommand, status, result>>
    /\ Publish(o, Account')

\* The plan and the acknowledgement are one commit, before any gateway call.
PrepareCommand(c, o) ==
    /\ pc = "command" /\ First(Pending, c)
    /\ ~Stale(c) /\ Ready /\ CommandKind[c] \in SupportedKinds
    /\ Outcome(o)
    /\ LET dispatch == CommandKind[c] \in DispatchKinds
       IN  /\ SetStatus(c, IF dispatch THEN "DISPATCHING" ELSE "COMPLETED", o)
           /\ Continue(o, IF dispatch THEN "fence" ELSE "market")
           /\ current' = IF dispatch /\ o = "committed" THEN c ELSE None
    /\ prepared' = IF Durable(o) THEN prepared \union {c} ELSE prepared
    /\ Settle(o, ready, recovery)
    /\ UNCHANGED <<unchangedByCommand, result>>
    /\ Publish(o, Account')

FinalFence ==
    /\ pc = "fence"
    /\ IF Ready /\ ~Stale(current)
       THEN pc' = "calling" /\ UNCHANGED result
       ELSE pc' = "recording" /\ result' = "NOT_SENT"
    /\ UNCHANGED <<unchangedByCommand, status, prepared, current, gateVars, view, failures>>

\* Mutant of GatewayCall: any exception is taken for a refusal.
GatewayCallRefusesAfterSend(reached, r) ==
    /\ pc = "calling"
    /\ reached => control = observed[current]
    /\ calls' = IF reached THEN [calls EXCEPT ![current] = @ + 1] ELSE calls
    /\ result' = r /\ pc' = "recording"
    /\ UNCHANGED <<dbVars, slots, current, pendingFact, gateVars, authority, assemblyVars,
                   view, healthVars, ingressVars, unreconciled, boundVars>>

\* The gateway fences the epoch once more, then refuses, sends, or raises on
\* either side of the network call; only a refusal is NOT_SENT.
GatewayCall(reached, r) ==
    /\ pc = "calling"
    /\ r = "NOT_SENT" => ~reached
    /\ reached => control = observed[current]
    /\ r = "SENT_UNKNOWN" => control = observed[current]
    /\ calls' = IF reached THEN [calls EXCEPT ![current] = @ + 1] ELSE calls
    /\ result' = r /\ pc' = "recording"
    /\ UNCHANGED <<dbVars, slots, current, pendingFact, gateVars, authority, assemblyVars, view,
                   healthVars, ingressVars, unreconciled, boundVars>>

\* LiveAccountModel undoes the plan of an order that was certainly not sent.
RecordSendResult(o) ==
    /\ pc = "recording"
    /\ Outcome(o)
    /\ SetStatus(current, result, o)
    /\ prepared' = IF Durable(o) /\ result = "NOT_SENT" THEN prepared \ {current} ELSE prepared
    /\ Settle(o, ready, recovery) /\ Continue(o, "market")
    /\ current' = None /\ result' = "NONE"
    /\ UNCHANGED unchangedByCommand
    /\ Publish(o, Account')

-------------------------------------------------------------------------------
(* Takeover and reconciliation *)

TakeoverMismatch(c) == observed[c] # control

CanArbitrate(c) ==
    /\ pc = "loop" /\ ~fault /\ ~ready
    /\ status[c] = "PENDING" /\ CommandKind[c] = "TAKEOVER_REQUEST"

unchangedByTakeover == <<queueVars, events, accountVars, pc, slots, dispatchVars, pendingFact,
                         assemblyVars, healthVars, ingressVars, calls, crashes>>

\* An application that observed another epoch is stale; one whose former
\* connection cannot be isolated is refused.  (A storage failure here raises
\* without touching the gate; the application stays PENDING.)
RefuseTakeover(c, isolated) ==
    /\ CanArbitrate(c)
    /\ TakeoverMismatch(c) \/ ~isolated
    /\ status' = [status EXCEPT
                    ![c] = IF TakeoverMismatch(c) THEN "REJECTED_STALE" ELSE "REJECTED"]
    /\ view' = Account
    /\ UNCHANGED <<unchangedByTakeover, control, phase, gateVars, authority, unreconciled, failures>>

\* Mutant of TakeOver: the application is acknowledged by a later commit.
TakeOverUnacknowledged(c, o) ==
    /\ CanArbitrate(c) /\ ~TakeoverMismatch(c)
    /\ control < MaxEpoch
    /\ Outcome(o)
    /\ control' = IF Durable(o) THEN control + 1 ELSE control
    /\ phase' = IF Durable(o) THEN "RECONCILING" ELSE phase
    /\ authority' = IF o = "committed" THEN control + 1 ELSE authority
    /\ Publish(o, Account) /\ Settle(o, FALSE, "DISCONNECTED")
    /\ unreconciled' = TRUE
    /\ UNCHANGED <<unchangedByTakeover, status>>

\* The new epoch, the RECONCILING phase and the acknowledgement are one commit.
TakeOver(c, o) ==
    /\ CanArbitrate(c) /\ ~TakeoverMismatch(c)
    /\ control < MaxEpoch
    /\ Outcome(o)
    /\ SetStatus(c, "COMPLETED", o)
    /\ control' = IF Durable(o) THEN control + 1 ELSE control
    /\ phase' = IF Durable(o) THEN "RECONCILING" ELSE phase
    /\ authority' = IF o = "committed" THEN control + 1 ELSE authority
    /\ Publish(o, Account) /\ Settle(o, FALSE, "DISCONNECTED")
    /\ unreconciled' = TRUE
    /\ UNCHANGED unchangedByTakeover

unchangedByRecovery == <<dbVars, slots, dispatchVars, pendingFact, fault, ready, authority, view,
                         healthVars, ingressVars, calls, boundVars>>

\* AssembledExecution.reconcile_and_enable: queries on the executor thread,
\* into a replica, while callbacks keep arriving.
BeginReconciliation ==
    /\ pc = "loop" /\ ~fault /\ recovery = "DISCONNECTED"
    /\ recovery' = "RECONCILING" /\ clean' = FALSE
    /\ unreconciled' = FALSE
    /\ pc' = "querying"
    /\ UNCHANGED <<unchangedByRecovery, sessionLostLogged>>

FinishQueries(ok) ==
    /\ pc = "querying"
    /\ clean' = ok /\ pc' = "queried"
    /\ UNCHANGED <<unchangedByRecovery, recovery, unreconciled, sessionLostLogged>>

Admissible ==
    /\ pendingFact = None /\ tradeQueue = <<>>
    /\ control # 0 /\ control = authority
    /\ recovery = "RECONCILING" /\ clean

CheckEnable(o) ==
    /\ pc = "queried"
    /\ CheckIngress(o)
    /\ pc' = IF ~DropsUnreported /\ Admissible THEN "enabling" ELSE "loop"
    /\ UNCHANGED <<unchangedByCheck, slots>>

Enable(o) ==
    /\ pc = "enabling"
    /\ Outcome(o)
    /\ phase' = IF Durable(o) THEN "READY" ELSE phase
    /\ Publish(o, Account) /\ Settle(o, TRUE, "READY")
    /\ pc' = "loop"
    /\ UNCHANGED <<status, queueVars, control, events, accountVars, slots, dispatchVars,
                   pendingFact, authority, assemblyVars, healthVars, ingressVars, calls,
                   unreconciled, crashes>>

\* AssembledExecution.maintain_counter_session finds the counter session gone.
\* It does so once in the life of a process: the flag is never cleared.
SessionLost ==
    /\ pc = "loop" /\ Ready /\ ~sessionLostLogged
    /\ sessionLostLogged' = TRUE
    /\ recovery' = "DISCONNECTED"
    /\ unreconciled' = TRUE
    /\ UNCHANGED <<unchangedByRecovery, pc, clean>>

-------------------------------------------------------------------------------
Producer == \E c \in Commands, obs \in 0..control : Submit(c, obs)

Callback == \E e \in Events : EnqueueFact(e) \/ EnqueueMarket(e)

Boot == Start \/ (\E c \in Commands : RecordInterrupted(c)) \/ Started

Round ==
    \/ EndBatch \/ EndRound \/ NoCommand \/ FinalFence
    \/ \E o \in Outcomes :
          BeginRound(o) \/ ProcessTradeFact(o) \/ Poll(o) \/ ProcessMarketFact(o)
    \/ \E c \in Commands, o \in Outcomes :
          PrepareCommand(c, o) \/ \E approved \in BOOLEAN : RejectCommand(c, approved, o)
    \/ \E reached \in BOOLEAN, r \in {"NOT_SENT", "SENT_UNKNOWN"} : GatewayCall(reached, r)
    \/ \E o \in Outcomes : RecordSendResult(o)

Reconciliation ==
    \/ BeginReconciliation
    \/ \E ok \in BOOLEAN : FinishQueries(ok)
    \/ \E o \in Outcomes : CheckEnable(o) \/ Enable(o)

Takeover ==
    \E c \in Commands :
        \/ \E isolated \in BOOLEAN : RefuseTakeover(c, isolated)
        \/ \E o \in Outcomes : TakeOver(c, o)

Repair == \E o \in Outcomes : RetryPendingFact(o)

Next == \/ Producer \/ Callback \/ Boot \/ Round \/ Reconciliation \/ Takeover
        \/ Repair \/ SessionLost \/ Crash

Spec == Init /\ [][Next]_vars

\* The executor's loop runs as long as the process does; nothing obliges
\* producers, brokers, operators or a supervisor to act, and failures may
\* always happen.
FairSpec == Spec /\ WF_vars(Round) /\ WF_vars(\E ok \in BOOLEAN : FinishQueries(ok))
                 /\ WF_vars(\E o \in Outcomes : CheckEnable(o) \/ Enable(o))

-------------------------------------------------------------------------------
(* Properties *)

\* A command reaches the broker at most once, whatever crashes, restarts,
\* producer retries and failed commits happen in between: an interrupted
\* dispatch is closed as unknown and never replayed.
AtMostOneCall == \A c \in Commands : calls[c] <= 1

\* What the queue says about a command the broker saw is never that it was
\* refused, completed locally, or not sent: the claim is durable first and is
\* only released as NOT_SENT when the gateway refused the call.
SeenIsNeverDenied ==
    \A c \in Commands : calls[c] > 0 => status[c] \in {"DISPATCHING", "SENT_UNKNOWN"}

\* The account keeps the plan (the reservation) of every command the broker
\* may have seen, across crashes and failed commits.
SeenIsReserved == \A c \in Commands : calls[c] > 0 => c \in prepared

\* A command the queue shows as refused or not sent left nothing behind: no
\* plan in the account and no call, whatever failed while it was decided.
RefusedIsUntouched ==
    \A c \in Commands :
        status[c] \in {"REJECTED", "REJECTED_STALE", "NOT_SENT"} => c \notin prepared /\ calls[c] = 0

\* A call carries the control epoch that is durable when it is made, and its
\* row is already DISPATCHING: no call under a superseded controller.
FencedCalls ==
    [][\A c \in Commands : calls'[c] # calls[c] =>
          /\ control # 0 /\ observed[c] = control /\ authority = control
          /\ status[c] = "DISPATCHING"]_vars

\* A trade is booked exactly once if any of its reports is in the journal,
\* although broker, queries and repair retries may deliver it many times.
TradesBookedOnce ==
    \A k \in TradeKeys : applied[k] = IF Booked(k) THEN 1 ELSE 0

\* The gate is only open on an account that has been reconciled since the
\* last takeover, lost market event, failed callback conversion or lost session.
ReadyIsReconciled == Ready => ~unreconciled /\ control = authority

\* While no fault blocks the service, risk checks read exactly the committed
\* account: a commit whose publication failed blocks trading.
ViewIsCommitted == Up /\ ~fault => view = Account

\* A running executor leaves no dispatch open behind it, so an open one is
\* always the one being worked on, or a fault or a restart will deal with it.
NoOrphanDispatch ==
    \A c \in Commands :
        status[c] = "DISPATCHING" /\ pc \notin {"down", "starting"} /\ ~fault
            => c = current /\ pc \in {"fence", "calling", "recording"}

\* Only an accepted takeover moves the epoch, by one; it closes the gate and
\* completes the application in the same commit.
EpochOnlyByTakeover ==
    [][control' # control =>
          /\ control' = control + 1 /\ ~ready' /\ phase' = "RECONCILING"
          /\ \E c \in Commands :
                /\ CommandKind[c] = "TAKEOVER_REQUEST" /\ observed[c] = control
                /\ status[c] = "PENDING" /\ status'[c] = "COMPLETED"]_vars

\* Why the queue tells the truth: the executor only works on a command it has
\* claimed and planned in one commit; until the call is made the broker has not
\* seen it; the epoch it was fenced with is still the durable one; and the
\* account holds plans of claimed or completed commands only.  (The inductive
\* strengthening of AtMostOneCall, SeenIsNeverDenied, SeenIsReserved,
\* RefusedIsUntouched and FencedCalls.)
DispatchInv ==
    /\ pc \in {"fence", "calling", "recording"} =>
          /\ current \in Commands /\ status[current] = "DISPATCHING"
          /\ current \in prepared
    /\ pc \in {"fence", "calling"} => calls[current] = 0
    /\ pc = "calling" => control # 0 /\ observed[current] = control /\ authority = control
    /\ pc = "recording" => result # "NONE" /\ (result = "NOT_SENT" => calls[current] = 0)
    /\ \A c \in Commands :
          /\ calls[c] <= 1
          /\ calls[c] > 0 => status[c] \in {"DISPATCHING", "SENT_UNKNOWN"} /\ c \in prepared
          /\ c \in prepared => status[c] \in {"DISPATCHING", "COMPLETED", "SENT_UNKNOWN"}

\* The lifecycle a producer may rely on.
Lifecycle == INSTANCE CommandLifecycle WITH status <- status, calls <- calls
ImplementsLifecycle == Lifecycle!LifecycleSpec

\* The service stays up and no fault blocks it from some point on.
StaysUp == <>[](Up /\ ~fault)

\* Commands get their turn however fast callbacks arrive: a bounded batch of
\* facts, then one poll.  Takeover applications wait for an operator.
CommandsAreProcessed ==
    StaysUp => \A c \in Commands :
        (status[c] = "PENDING" /\ CommandKind[c] # "TAKEOVER_REQUEST") ~> (status[c] # "PENDING")

\* A queued trade report ends up booked (itself, or another report of the same
\* trade), however many commands and market events compete with it, unless the
\* process dies or a fault stops it first: then queries must recover it.
FactsAreBooked ==
    \A e \in Events :
        (EventKind[e] = "trade" /\ \E i \in DOMAIN tradeQueue : tradeQueue[i] = e)
            ~> (Booked(TradeKeyOf[e]) \/ pc = "down" \/ fault)

===============================================================================
