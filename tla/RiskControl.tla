------------------------------ MODULE RiskControl ------------------------------
(***************************************************************************)
(* Who may restrict the account, and what a restriction does: the console  *)
(* (monitor/control.py, scripts/control.py) and the check of a statement   *)
(* (scripts/parse_statement.py) write commands for the account thread,     *)
(* beside the strategy's orders; RiskManager's state only moves forward    *)
(* but for a confirmed RESUME, and is rebuilt from a checkpoint and the    *)
(* facts after it.                                                         *)
(*                                                                         *)
(* CANCELING and FLATTENING are entered by no caller and are left out.  An *)
(* order is one lot; limits and funds are RiskGate's, the life of a        *)
(* command CommandStore's, the call itself ExecutionService's.             *)
(***************************************************************************)
EXTENDS Integers, Sequences

CONSTANTS
    Operators,      \* who may hold control
    HeldLots,       \* lots held when the behaviour begins
    MaxLots,        \* model bound: lots held, and opening orders at the broker
    MaxWaiting,     \* model bound: commands that wait
    MaxFacts,       \* model bound: control facts since the checkpoint
    MaxTakeovers    \* model bound

VARIABLES
    record,         \* ControlRecord: who holds control, in which epoch
    desk,           \* the command that is built and not written yet (one at a time: model bound)
    waiting,        \* the command table's pending commands, in order
    ready,          \* ExecutionService.ready
    saved,          \* the journal: risk state of the checkpoint, controls after it
    risk,           \* RiskManager.risk_state
    thread,         \* the account thread: idle, publishing, or about to call
    lots,           \* held, and in opening and closing orders at the broker
    sent,           \* history: orders sent since the risk state last changed
    asked           \* history: the strictest restriction that was taken up

controlVars == <<record, desk, waiting, ready, saved, risk, thread, lots, sent, asked>>

Restrictions == {"PAUSE", "REDUCE_ONLY"}
OrderKinds == {"OPEN", "CLOSE"}

\* RISK_STATE_ORDER, and where a command leads.
Rank == [NORMAL |-> 0, REDUCE_ONLY |-> 1, HALTED |-> 2]
Target == [PAUSE |-> "HALTED", REDUCE_ONLY |-> "REDUCE_ONLY", RESUME |-> "NORMAL"]

\* The kinds that a producer builds on the control record it reads.  A console acts
\* for an operator in control only, and has RESUME confirmed; a statement that does
\* not agree asks in whatever control there is.
MayBuild(p) ==
    CASE p = "statement" -> {"REDUCE_ONLY"}
      [] p = "strategy"  -> OrderKinds
      [] OTHER           -> IF record.holder = p THEN Restrictions \union {"RESUME", "CLOSE"} ELSE {}

\* Mutant of Forward: any state may follow.
AnyState(state, kind) == TRUE
\* RiskManager.escalate refuses to stay or to go back; reset_risk_state does not.
Forward(state, kind) == kind = "RESUME" \/ Rank[Target[kind]] > Rank[state]

\* check_order: HALTED stops every order, anything but NORMAL an opening one.
Permitted(state, kind) == state = "NORMAL" \/ (state = "REDUCE_ONLY" /\ kind = "CLOSE")

\* The risk state that a journal stands for: the checkpoint's, or where the last of
\* the facts after it leads (_apply_control sets it and does not add to it).
Rebuilt(journal) ==
    IF journal.controls = <<>> THEN journal.checkpoint
    ELSE Target[journal.controls[Len(journal.controls)]]

-----------------------------------------------------------------------------
\* The producers.  Building a command and writing it are two steps.
Build(p, kind) ==
    /\ desk = <<>> /\ kind \in MayBuild(p)                          \* model bound
    /\ desk' = <<[kind |-> kind, control |-> record]>>
    /\ UNCHANGED <<record, waiting, ready, saved, risk, thread, lots, sent, asked>>

Write ==
    /\ desk # <<>> /\ Len(waiting) < MaxWaiting                     \* model bound
    /\ waiting' = waiting \o desk /\ desk' = <<>>
    /\ UNCHANGED <<record, ready, saved, risk, thread, lots, sent, asked>>

\* The account thread takes a command: _process_command, stage_command, commit.
\* What is stale or comes while the account is not ready is answered and gone.
TakenUp(c) == c.control = record /\ ready

Approved(c) ==
    CASE c.kind \in OrderKinds -> Permitted(risk, c.kind) /\ (c.kind = "CLOSE" => lots.closing < lots.held)
      [] OTHER             -> Forward(risk, c.kind)

Strictest(kind) ==
    IF kind = "RESUME" \/ Rank[Target[kind]] > Rank[asked] THEN Target[kind] ELSE asked

Execute ==
    LET c == Head(waiting)
        approved == TakenUp(c) /\ Approved(c)
    IN  /\ thread = "idle" /\ waiting # <<>>
        /\ Len(saved.controls) < MaxFacts                           \* model bound
        /\ waiting' = Tail(waiting)
        /\ thread' = IF ~approved THEN "idle" ELSE IF c.kind \in OrderKinds THEN c.kind ELSE "publish"
        /\ saved' = IF approved /\ c.kind \notin OrderKinds THEN [saved EXCEPT !.controls = Append(@, c.kind)] ELSE saved
        /\ asked' = IF TakenUp(c) /\ c.kind \notin OrderKinds THEN Strictest(c.kind) ELSE asked
        /\ UNCHANGED <<record, desk, ready, risk, lots, sent>>

RiskBecomes(state) == risk' = state /\ sent' = IF state = risk THEN sent ELSE {}

\* LiveAccountModel.publish: the committed fact reaches the kernel.
Publish ==
    /\ thread = "publish"
    /\ thread' = "idle" /\ RiskBecomes(Rebuilt(saved))
    /\ UNCHANGED <<record, desk, waiting, ready, saved, lots, asked>>

\* The call to the broker of an order that was approved, if the account is ready still.
Call ==
    /\ thread \in OrderKinds
    /\ thread = "OPEN" => lots.opening < MaxLots                     \* model bound
    /\ thread' = "idle"
    /\ sent' = IF ready THEN sent \union {thread} ELSE sent
    /\ lots' = IF ~ready THEN lots
               ELSE IF thread = "OPEN" THEN [lots EXCEPT !.opening = @ + 1] ELSE [lots EXCEPT !.closing = @ + 1]
    /\ UNCHANGED <<record, desk, waiting, ready, saved, risk, asked>>

\* The service ends anywhere and is rebuilt from the journal, not reconciled.  An
\* order that was about to be called is not, and is found nowhere by the queries.
Restarted ==
    /\ thread' = "idle" /\ ready' = FALSE /\ RiskBecomes(Rebuilt(saved))
    /\ UNCHANGED <<desk, waiting, saved, lots, asked>>
RestartService == Restarted /\ UNCHANGED record

\* Another operator's service takes over (ExecutionService._take_over).
TakeOver(o) ==
    /\ o # record.holder /\ record.epoch < MaxTakeovers             \* model bound
    /\ record' = [holder |-> o, epoch |-> record.epoch + 1]
    /\ Restarted

\* Readiness goes with a callback at any time, and comes with a reconciliation.
Reconcile ==
    /\ ready \/ thread = "idle"
    /\ ready' = ~ready
    /\ UNCHANGED <<record, desk, waiting, saved, risk, thread, lots, sent, asked>>

\* A settled day: a checkpoint takes the place of the facts (_compact).
Compact ==
    /\ thread = "idle" /\ saved.controls # <<>>
    /\ saved' = [checkpoint |-> risk, controls |-> <<>>]
    /\ UNCHANGED <<record, desk, waiting, ready, risk, thread, lots, sent, asked>>

\* The broker trades an order, or an order ends without a trade.
Moved(h, o, c) == lots' = [held |-> lots.held + h, opening |-> lots.opening + o, closing |-> lots.closing + c]
Traded ==
    /\ Moved(1, -1, 0) \/ Moved(0, -1, 0) \/ Moved(-1, 0, -1) \/ Moved(0, 0, -1)
    /\ lots'.opening >= 0 /\ lots'.closing >= 0
    /\ lots'.held <= MaxLots                                        \* model bound
    /\ UNCHANGED <<record, desk, waiting, ready, saved, risk, thread, sent, asked>>

Producers == Operators \union {"statement", "strategy"}

States == {"NORMAL", "REDUCE_ONLY", "HALTED"}
Kinds == Restrictions \union {"RESUME"} \union OrderKinds
Commands == [kind : Kinds, control : [holder : Operators, epoch : Nat]]

ControlTypeOK ==
    /\ record \in [holder : Operators, epoch : Nat]
    /\ desk \in Seq(Commands) /\ waiting \in Seq(Commands)
    /\ ready \in BOOLEAN
    /\ saved \in [checkpoint : States, controls : Seq(Kinds \ OrderKinds)]
    /\ risk \in States /\ asked \in States
    /\ thread \in {"idle", "publish"} \union OrderKinds
    /\ lots \in [held : Nat, opening : Nat, closing : Nat]
    /\ sent \subseteq OrderKinds

ControlInit ==
    /\ record \in [holder : Operators, epoch : {0}]
    /\ desk = <<>> /\ waiting = <<>> /\ ready = TRUE
    /\ saved = [checkpoint |-> "NORMAL", controls |-> <<>>] /\ risk = "NORMAL"
    /\ thread = "idle" /\ lots = [held |-> HeldLots, opening |-> 0, closing |-> 0]
    /\ sent = {} /\ asked = "NORMAL"

ControlNext ==
    \/ Write \/ (\E p \in Producers : \E kind \in MayBuild(p) : Build(p, kind))
    \/ Execute \/ Publish \/ Call \/ RestartService \/ Reconcile \/ Compact \/ Traded
    \/ \E o \in Operators : TakeOver(o)

ControlSpec == ControlInit /\ [][ControlNext]_controlVars

-----------------------------------------------------------------------------
\* A restriction that was taken up holds until a RESUME is, whatever asks for less
\* after it, and through restarts, takeovers, checkpoints and reconciliations
\* (docs/05: READY does not lift a pause by itself).
RestrictionStands == thread # "publish" => risk = asked

\* Nothing leaves for the broker that the state in effect forbids.
NothingSlipsOut ==
    /\ risk = "REDUCE_ONLY" => sent \subseteq {"CLOSE"}
    /\ risk = "HALTED" => sent = {}

\* OrderKinds that reduce do not sell more than is held.
ReducingReduces == lots.closing + (IF thread = "CLOSE" THEN 1 ELSE 0) <= lots.held

RestrictionsHold == RestrictionStands /\ NothingSlipsOut /\ ReducingReduces
=============================================================================
