-------------------------------- MODULE Assembly --------------------------------
(***************************************************************************)
(* Programs that trade an account: how they start, hold what they need and *)
(* end (scripts/live_assembly.py, run_execution_service.py,                *)
(* run_simnow_strategy.py).  The execution service runs on the account's   *)
(* database; the strategy runtime on one of its own, from a report that a  *)
(* read-only preflight has made.  Databases, their locks and heartbeat     *)
(* files are shared by programs of one database only; the account at the   *)
(* counter is shared by all.                                               *)
(*                                                                         *)
(* What a program checks by itself before it connects (settings, catalog,  *)
(* rates, calendar, warm-up) is taken as passed: it ends otherwise.  What  *)
(* happens to a session that is established is the module CtpSession, what *)
(* the loop does are ExecutionService, StrategyRuntime and LiveFeed.       *)
(***************************************************************************)
EXTENDS Naturals, Sequences, FiniteSets

CONSTANTS
    Services, Runtimes,     \* programs
    Controller, Database,   \* by program
    Settings,               \* the capital in the settings of the service
    MaxRunning,             \* model bound: programs that run at a time
    MaxEpoch                \* model bound: takeovers

Programs == Services \union Runtimes
Databases == {Database[p] : p \in Programs}
Nobody == "nobody"

\* The counter's trading day and the account's funds there, among those that
\* programs may be started with.
Days == 1..2
Funds == 1..2
Today == 2
AtCounter == 1
NoFunds == 0

VARIABLES
    database,       \* by database: whether it exists, and the capital it was opened with
    control,        \* by database: controller and epoch
    lock,           \* by database: its owner
    heartbeat,      \* by database: age of the file
    online,         \* programs logged in at the counter
    pc,             \* by program
    inputs,         \* by program: what it was started with
    held,           \* by program: what it has to close, in the order acquired
    acquired,       \* by program: it has taken over by itself
    misconfirmed    \* history: an operator confirmed isolation while another program ran

fileVars == <<database, control, lock, heartbeat>>
programVars == <<online, pc, inputs, held, acquired>>
assemblyVars == <<fileVars, programVars, misconfirmed>>

NoInputs == [day |-> 0, funds |-> NoFunds, ours |-> TRUE, confirmed |-> FALSE]

AssemblyInit ==
    /\ database = [d \in Databases |-> [exists |-> FALSE, capital |-> NoFunds]]
    /\ control = [d \in Databases |-> [by |-> Nobody, epoch |-> 0]]
    /\ lock = [d \in Databases |-> Nobody]
    /\ heartbeat = [d \in Databases |-> "none"]
    /\ online = {} /\ pc = [p \in Programs |-> "off"]
    /\ inputs = [p \in Programs |-> NoInputs]
    /\ held = [p \in Programs |-> <<>>]
    /\ acquired = [p \in Programs |-> FALSE]
    /\ misconfirmed = FALSE

\* What a preflight reads at the counter with the user it is given, perhaps on
\* another day, or before money was moved.
Preflight ==
    {r \in [day : Days, funds : Funds, ours : BOOLEAN, confirmed : {FALSE}] :
        Cardinality({x \in {"day", "funds", "owner"} :                       \* model bound
            CASE x = "day" -> r.day # Today [] x = "funds" -> r.funds # AtCounter [] OTHER -> ~r.ours}) <= 1}

-------------------------------------------------------------------------------
\* The operator gives --confirm-isolated when he starts a program.
Started(p, given) ==
    /\ pc[p] = "off" /\ Cardinality({q \in Programs : pc[q] # "off"}) < MaxRunning
    /\ pc' = [pc EXCEPT ![p] = "starting"]
    /\ inputs' = [inputs EXCEPT ![p] = given]
    /\ acquired' = [acquired EXCEPT ![p] = FALSE]
    /\ misconfirmed' = (misconfirmed \/ (given.confirmed /\ \E q \in Programs \ {p} : pc[q] # "off"))
    /\ UNCHANGED <<fileVars, online, held>>

\* The service is told its trading day and its capital.
StartService(p) ==
    \E day \in Days, confirmed \in BOOLEAN :
        Started(p, [day |-> day, funds |-> Settings, ours |-> TRUE, confirmed |-> confirmed])

\* The runtime takes them from the report of a preflight; it needs the confirmation
\* and an account that was never opened here.
StartRuntime(p) ==
    /\ ~database[Database[p]].exists
    /\ \E report \in Preflight : Started(p, [report EXCEPT !.confirmed = TRUE])

\* One program owns a database; the file is there from now on.
OpenDatabase(p) ==
    /\ pc[p] = "starting" /\ lock[Database[p]] = Nobody
    /\ pc' = [pc EXCEPT ![p] = "opening"]
    /\ lock' = [lock EXCEPT ![Database[p]] = p]
    /\ database' = [database EXCEPT ![Database[p]].exists = TRUE]
    /\ held' = [held EXCEPT ![p] = <<"database">>]
    /\ UNCHANGED <<control, heartbeat, online, inputs, acquired, misconfirmed>>

\* The capital is written once; an account that was opened before keeps its own.
Opened(before, given) == IF before.capital = NoFunds THEN [before EXCEPT !.capital = given.funds] ELSE before

\* The gateways are made, and closed before the database.
OpenAccount(p) ==
    /\ pc[p] = "opening"
    /\ pc' = [pc EXCEPT ![p] = "assembled"]
    /\ database' = [database EXCEPT ![Database[p]] = Opened(@, inputs[p])]
    /\ held' = [held EXCEPT ![p] = @ \o <<"counter", "market">>]
    /\ UNCHANGED <<control, lock, heartbeat, online, inputs, acquired, misconfirmed>>

\* Logged in, a program whose trading day is not the counter's ends.
ConnectCounter(p) ==
    /\ pc[p] = "assembled"
    /\ online' = online \union {p}
    /\ pc' = [pc EXCEPT ![p] = IF inputs[p].day = Today THEN "connected" ELSE "closing"]
    /\ UNCHANGED <<fileVars, inputs, held, acquired, misconfirmed>>

\* The runtime asks the counter whose account and session this is.
VerifyCounterIdentity(p) ==
    /\ p \in Runtimes /\ pc[p] = "connected" /\ inputs[p].ours
    /\ pc' = [pc EXCEPT ![p] = "verified"]
    /\ UNCHANGED <<fileVars, online, inputs, held, acquired, misconfirmed>>

MayTakeControl(p) == pc[p] = IF p \in Runtimes THEN "verified" ELSE "connected"

\* A former program is isolated: no fresh heartbeat, and the operator says so.
Isolated(p) == p \in online /\ heartbeat[Database[p]] # "fresh" /\ inputs[p].confirmed

\* Application, isolation, and the next epoch.
TakeOver(p) ==
    /\ MayTakeControl(p) /\ Isolated(p) /\ control[Database[p]].epoch < MaxEpoch
    /\ control' = [control EXCEPT ![Database[p]] = [by |-> Controller[p], epoch |-> @.epoch + 1]]
    /\ acquired' = [acquired EXCEPT ![p] = TRUE]
    /\ pc' = [pc EXCEPT ![p] = "holding"]
    /\ UNCHANGED <<database, lock, heartbeat, online, inputs, held, misconfirmed>>

\* A service that is started again under the name in the control record goes on
\* with its epoch.
KeepControl(p) ==
    /\ p \in Services /\ MayTakeControl(p) /\ control[Database[p]].by = Controller[p]
    /\ pc' = [pc EXCEPT ![p] = "holding"]
    /\ UNCHANGED <<fileVars, online, inputs, held, acquired, misconfirmed>>

\* The counter's funds and those of the account are the same, and trading is released.
ReconcileAndEnable(p) ==
    /\ pc[p] = "holding" /\ database[Database[p]].capital = AtCounter
    /\ pc' = [pc EXCEPT ![p] = IF p \in Runtimes THEN "reconciled" ELSE "running"]
    /\ UNCHANGED <<fileVars, online, inputs, held, acquired, misconfirmed>>

\* The runtime's strategy, with its checkpoint store, and its subscription.
ConnectMarket(p) ==
    /\ pc[p] = "reconciled"
    /\ pc' = [pc EXCEPT ![p] = "running"]
    /\ held' = [held EXCEPT ![p] = @ \o <<"checkpoint", "strategy">>]
    /\ UNCHANGED <<fileVars, online, inputs, acquired, misconfirmed>>

\* A round of the loop writes the heartbeat; one that was written ages.
Beat(p) ==
    /\ pc[p] = "running"
    /\ heartbeat' = [heartbeat EXCEPT ![Database[p]] = "fresh"]
    /\ UNCHANGED <<database, control, lock, programVars, misconfirmed>>
Age(d) ==
    /\ heartbeat[d] = "fresh"
    /\ heartbeat' = [heartbeat EXCEPT ![d] = "stale"]
    /\ UNCHANGED <<database, control, lock, programVars, misconfirmed>>

-------------------------------------------------------------------------------
\* The loop ends, or a step before it fails or is refused.
Leave(p) ==
    /\ pc[p] \notin {"off", "closing"}
    /\ pc' = [pc EXCEPT ![p] = "closing"]
    /\ UNCHANGED <<fileVars, online, inputs, held, acquired, misconfirmed>>

FirstHeld(resources) == Head(resources)

\* What was acquired last is closed first.
ToClose(resources) == resources[Len(resources)]

Close(p) ==
    /\ pc[p] = "closing" /\ held[p] # <<>>
    /\ LET closed == ToClose(held[p]) IN
           /\ online' = IF closed = "counter" THEN online \ {p} ELSE online
           /\ lock' = IF closed = "database" THEN [lock EXCEPT ![Database[p]] = Nobody] ELSE lock
           /\ held' = [held EXCEPT ![p] = SubSeq(@, 1, Len(@) - 1)]
    /\ UNCHANGED <<database, control, heartbeat, pc, inputs, acquired, misconfirmed>>

Closed(p) ==
    /\ pc' = [pc EXCEPT ![p] = "off"] /\ inputs' = [inputs EXCEPT ![p] = NoInputs]
    /\ acquired' = [acquired EXCEPT ![p] = FALSE]

End(p) ==
    /\ pc[p] = "closing" /\ held[p] = <<>> /\ Closed(p)
    /\ UNCHANGED <<fileVars, online, held, misconfirmed>>

\* The process dies: its files, its lock and its connections go with it.
Die(p) ==
    /\ pc[p] # "off" /\ Closed(p)
    /\ online' = online \ {p} /\ held' = [held EXCEPT ![p] = <<>>]
    /\ lock' = [d \in Databases |-> IF lock[d] = p THEN Nobody ELSE lock[d]]
    /\ UNCHANGED <<database, control, heartbeat, misconfirmed>>

AssemblyNext ==
    \/ \E p \in Services : StartService(p) \/ KeepControl(p)
    \/ \E p \in Runtimes : StartRuntime(p) \/ VerifyCounterIdentity(p) \/ ConnectMarket(p)
    \/ \E p \in Programs :
           \/ OpenDatabase(p) \/ OpenAccount(p) \/ ConnectCounter(p) \/ TakeOver(p)
           \/ ReconcileAndEnable(p) \/ Beat(p) \/ Leave(p) \/ Close(p) \/ End(p) \/ Die(p)
    \/ \E d \in Databases : Age(d)

-------------------------------------------------------------------------------
Trades(p) == pc[p] \in {"reconciled", "running"}

\* A program that trades has the database, a session of the trading day it expects,
\* control, and an account whose capital is the counter's; the runtime has verified
\* whose session it is and has taken control by itself.
TradingIsEarned ==
    \A p \in Programs : Trades(p) =>
        /\ lock[Database[p]] = p /\ p \in online
        /\ control[Database[p]].by = Controller[p]
        /\ database[Database[p]].capital = AtCounter
        /\ p \in Runtimes => inputs[p].ours /\ acquired[p] /\ inputs[p].funds = database[Database[p]].capital

\* Who owns a database is the only one of its programs that is still logged in, and a
\* program that has ended holds nothing.
NothingIsLeftBehind ==
    /\ \A p, q \in Programs : Database[p] = Database[q] /\ p # q /\ lock[Database[p]] = p => q \notin online
    /\ \A p \in Programs : pc[p] = "off" => held[p] = <<>> /\ p \notin online /\ lock[Database[p]] # p

\* Two programs trade the account at once only after a wrong confirmation, or when
\* one of them was started again under the name in its control record.
WritersAreSingle ==
    \A p, q \in Programs : p # q /\ Trades(p) /\ Trades(q) =>
        /\ Database[p] # Database[q]
        /\ misconfirmed \/ ~acquired[p] \/ ~acquired[q]

\* Programs start, trade and end in order.
AssemblyIsSound == TradingIsEarned /\ NothingIsLeftBehind /\ WritersAreSingle
=================================================================================
