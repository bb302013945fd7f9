------------------------------- MODULE Watchdog -------------------------------
(***************************************************************************)
(* The watchdog process: it reads the heartbeat files of the execution     *)
(* service and of one strategy, and applies for a takeover when the        *)
(* strategy is silent while the execution service is alive and ready       *)
(* (monitor/watchdog.py, monitor/heartbeat.py, scripts/watchdog.py).       *)
(*                                                                         *)
(* Time is counted in rounds of the watchdog.  Of the beats a role writes  *)
(* between two rounds the watchdog sees the last one only, so one of them  *)
(* is modelled.  The control record and the table of applications are in   *)
(* the trading database, the heartbeat files beside it; both survive every *)
(* process.  Who takes an application up is an operator who starts a new   *)
(* execution service: that is the ExecutionService module, here it is only *)
(* a change of the control record.                                         *)
(***************************************************************************)
EXTENDS Naturals

CONSTANTS
    StrategyTimeout, ExecutionTimeout,  \* rounds of silence that are tolerated
    MaxBeats,     \* model bound: beats of the strategy
    MaxRestarts,  \* model bound: restarts of the watchdog
    MaxEpoch      \* model bound: takeovers

ASSUME WatchdogAssumption ==
    /\ StrategyTimeout \in Nat /\ ExecutionTimeout \in Nat
    /\ MaxBeats \in Nat /\ MaxRestarts \in Nat /\ MaxEpoch \in Nat \ {0}

Roles == {"execution", "strategy"}

Never == 0
Timeout == [r \in Roles |-> IF r = "strategy" THEN StrategyTimeout ELSE ExecutionTimeout]
Limit(r) == Timeout[r] + 1
Longer(n, r) == IF n < Limit(r) THEN n + 1 ELSE n

VARIABLES
    up,         \* the roles' processes, alive or not
    ready,      \* the execution service is ready
    file,       \* heartbeat files: number of the beat, ready or not
    control,    \* control record: epoch, and whether the applicant holds it
    table,      \* applications in the command table
    pc,         \* what the watchdog is about to do
    watch,      \* its memory: silent, last, seen, requested, pending
    restarts,   \* restarts of the watchdog
    refused     \* incidents for which it reported that it cannot apply

vars == <<up, ready, file, control, table, pc, watch, restarts, refused>>
world == <<up, ready, file, control>>

Beats == 0..MaxBeats \union {1, 2}
Commands == [incident : Beats, epoch : 1..MaxEpoch, built : 0..MaxRestarts]

Fresh == [silent |-> [r \in Roles |-> 0], last |-> [r \in Roles |-> Never],
          seen |-> [r \in Roles |-> FALSE],
          requested |-> {}, pending |-> {}]

TypeOK ==
    /\ up \in [Roles -> BOOLEAN] /\ ready \in BOOLEAN
    /\ file \in [Roles -> [beat : Beats, ready : BOOLEAN]]
    /\ control \in [epoch : 1..MaxEpoch, ours : BOOLEAN]
    /\ table \subseteq Commands
    /\ pc \in {"evaluate", "build", "submit"}
    /\ watch \in [silent : [Roles -> Nat], last : [Roles -> Beats], seen : [Roles -> BOOLEAN],
                  requested : SUBSET Beats, pending : SUBSET Commands]
    /\ \A r \in Roles : watch.silent[r] <= Limit(r)
    /\ restarts \in 0..MaxRestarts /\ refused \subseteq Beats

Init ==
    /\ up = [r \in Roles |-> TRUE] /\ ready = FALSE
    /\ file = [r \in Roles |-> [beat |-> Never, ready |-> FALSE]]
    /\ control = [epoch |-> 1, ours |-> FALSE]
    /\ table = {} /\ pc = "evaluate" /\ watch = Fresh
    /\ restarts = 0 /\ refused = {}

-------------------------------------------------------------------------------
(* The watched roles *)

Unread(r) == file[r].beat # watch.last[r]

\* A beat no one has read yet is replaced.  The beats of the strategy have
\* different numbers, those of the service differ from the one before.
Beat(r) ==
    /\ up[r]
    /\ IF r = "strategy" /\ ~Unread(r)
       THEN file[r].beat < MaxBeats /\ file' = [file EXCEPT ![r].beat = @ + 1]
       ELSE file' = [file EXCEPT ![r] = [beat |-> IF r = "strategy" THEN @.beat
                                                  ELSE IF watch.last[r] = 1 THEN 2 ELSE 1,
                                         ready |-> r = "execution" /\ ready]]
    /\ UNCHANGED <<up, ready, control, table, pc, watch, restarts, refused>>

Stop(r) ==
    /\ up[r] /\ up' = [up EXCEPT ![r] = FALSE]
    /\ UNCHANGED <<ready, file, control, table, pc, watch, restarts, refused>>

ReadinessChanges ==
    /\ up["execution"] /\ ready' = ~ready
    /\ UNCHANGED <<up, file, control, table, pc, watch, restarts, refused>>

\* An operator lets the applicant of the table, or someone else, take over: a
\* new execution service, not ready yet.
TakeOver(ours) ==
    /\ control.epoch < MaxEpoch
    /\ ours => \E t \in table : t.epoch = control.epoch
    /\ control' = [epoch |-> control.epoch + 1, ours |-> ours]
    /\ up' = [up EXCEPT !["execution"] = TRUE] /\ ready' = FALSE
    /\ UNCHANGED <<file, table, pc, watch, restarts, refused>>

-------------------------------------------------------------------------------
(* HeartbeatMonitor.observe: a beat that differs from the last one is       *)
(* progress, a file that cannot be read is not.                             *)

Progress(r, readable) == readable /\ Unread(r)

Observed(r, readable) ==
    [silent |-> IF Progress(r, readable) THEN 0 ELSE Longer(watch.silent[r], r),
     last |-> IF readable THEN file[r].beat ELSE watch.last[r],
     seen |-> watch.seen[r] \/ Progress(r, readable)]

Unhealthy(o, r) == o.silent > Timeout[r]
IsAlive(o, r) == ~Unhealthy(o, r) /\ o.seen

\* _takeover: the service that is to arbitrate is alive and ready.
MayApply(execution, beatReady) == IsAlive(execution, "execution") /\ beatReady

\* Watchdog.evaluate.  An incident is the beat after which there was silence.
Evaluate(readable) ==
    /\ pc = "evaluate"
    /\ LET now == [r \in Roles |-> Observed(r, r \in readable)]
           lost == Unhealthy(now["strategy"], "strategy")
           incident == now["strategy"].last
           apply == /\ lost /\ incident \notin watch.requested
                    /\ MayApply(now["execution"], file["execution"].ready)
       IN /\ watch' = [watch EXCEPT
                !.silent = [r \in Roles |-> now[r].silent],
                !.last = [r \in Roles |-> now[r].last],
                !.seen = [r \in Roles |-> now[r].seen],
                !.requested = IF apply THEN @ \union {incident} ELSE @]
          /\ pc' = IF apply THEN "build" ELSE "evaluate"
    /\ UNCHANGED <<world, table, restarts, refused>>

-------------------------------------------------------------------------------
(* scripts/watchdog.py: write the application *)

Incident == watch.last["strategy"]

\* Mutant of Kept: an application whose write failed is made anew.
NothingKept == {}
\* The application of this incident that was made before and not written.
Kept == {t \in watch.pending : t.incident = Incident}

\* takeover_command: what was written for this incident and control record.
Existing == {t \in table : t.incident = Incident /\ t.epoch = control.epoch}

\* takeover_request names the epoch it saw; its time is of its making.
ObservedEpoch == control.epoch
Application ==
    IF Kept \union Existing # {} THEN IF Kept # {} THEN Kept ELSE Existing
    ELSE {[incident |-> Incident, epoch |-> ObservedEpoch, built |-> restarts]}

\* The applicant that holds control already does not apply.
Refuse ==
    /\ pc = "build" /\ Kept \union Existing = {} /\ control.ours
    /\ refused' = refused \union {Incident} /\ pc' = "evaluate"
    /\ UNCHANGED <<world, table, watch, restarts>>

Build ==
    /\ pc = "build"
    /\ control.ours => Kept \union Existing # {}
    /\ watch' = [watch EXCEPT !.pending = {t \in @ : t.incident # Incident} \union Application]
    /\ pc' = "submit"
    /\ UNCHANGED <<world, table, restarts, refused>>

\* What is to be written; the table refuses another content under one number.
ToWrite == {t \in watch.pending : t.incident = Incident}
SameNumber(s, t) == s.incident = t.incident /\ s.epoch = t.epoch
Conflicting == \E s \in ToWrite, t \in table : SameNumber(s, t) /\ s # t

Submit ==
    /\ pc = "submit" /\ ~Conflicting
    /\ table' = table \union ToWrite /\ pc' = "evaluate"
    /\ UNCHANGED <<world, watch, restarts, refused>>

\* Mutant of Forgiven: a failed write counts as an application.
NotForgiven(requested) == requested
\* takeover_failed
Forgiven(requested) == requested \ {Incident}

\* The write raises: before anything was written, or after it was durable.
SubmitFails(written) ==
    /\ pc = "submit" /\ pc' = "evaluate"
    /\ table' = table \union IF written /\ ~Conflicting THEN ToWrite ELSE {}
    /\ watch' = [watch EXCEPT !.requested = Forgiven(@)]
    /\ UNCHANGED <<world, restarts, refused>>

Restart ==
    /\ restarts < MaxRestarts /\ restarts' = restarts + 1
    /\ watch' = Fresh /\ pc' = "evaluate"
    /\ UNCHANGED <<world, table, refused>>

-------------------------------------------------------------------------------
Next ==
    \/ \E r \in Roles : Beat(r) \/ Stop(r)
    \/ ReadinessChanges
    \/ \E ours \in BOOLEAN : TakeOver(ours)
    \/ \E readable \in SUBSET Roles : Evaluate(readable)
    \/ Refuse \/ Build \/ Submit \/ Restart
    \/ \E written \in BOOLEAN : SubmitFails(written)

Spec == Init /\ [][Next]_vars

\* The loop of the watchdog goes on; a living service beats; neither every
\* read of a file nor every write to the database fails.
Fairness ==
    /\ SF_vars(Evaluate(Roles))
    /\ WF_vars(Refuse \/ Build) /\ SF_vars(Submit)
    /\ WF_vars(Beat("execution"))

LiveSpec == Spec /\ Fairness

-------------------------------------------------------------------------------
(* Properties *)

\* No application meets another one under its number: neither a retry nor a
\* restarted watchdog writes different contents (docs/06: the number is that
\* of incident and epoch, and what was written is taken up).
NoConflict == pc = "submit" => ~Conflicting

\* One life of the watchdog applies once for an incident, although writes
\* fail before or after they are durable and control changes in between.
AppliedOnce ==
    \A s, t \in table : s.incident = t.incident /\ s.built = t.built => s = t

\* What is written can be told apart by incident and applicant's life, and the
\* table takes it.
ApplicationsAreSound == TypeOK /\ NoConflict /\ AppliedOnce

\* A strategy that is gone for good while the service stays alive and ready is
\* applied for in the end, or the watchdog has said why it cannot: neither a
\* service that was not ready at first nor failing writes make it forget.
LostIsRequested ==
    <>[](~up["strategy"] /\ up["execution"] /\ ready)
    => <>[](file["strategy"].beat \in {t.incident : t \in table} \union refused)
===============================================================================
