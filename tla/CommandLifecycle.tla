--------------------------- MODULE CommandLifecycle ---------------------------
(***************************************************************************)
(* What the durable command queue promises, without saying how.            *)
(*                                                                         *)
(* A producer files a command once.  The execution service either refuses  *)
(* it, completes it locally, or claims it durably before the broker can    *)
(* see it; a claimed command reaches the broker at most once, and may only *)
(* be recorded as NOT_SENT when the broker has certainly not seen it.      *)
(* ExecutionService implements this module (crashes, restarts, retries,    *)
(* takeovers and storage failures included).                               *)
(***************************************************************************)
EXTENDS Naturals

CONSTANT Commands               \* the command identifiers

VARIABLES status,               \* the status column of command_queue
          calls                 \* how often the broker saw the command

lifecycleVars == <<status, calls>>

\* "ABSENT" stands for an identifier that has no row yet.
Statuses == {"ABSENT", "PENDING", "DISPATCHING", "COMPLETED", "NOT_SENT",
             "SENT_UNKNOWN", "REJECTED", "REJECTED_STALE"}

LifecycleInit ==
    /\ status = [c \in Commands |-> "ABSENT"]
    /\ calls  = [c \in Commands |-> 0]

\* The transition table of SQLiteExecutionStore.commit, with the two facts
\* the table alone does not state: inserting is the only way into PENDING,
\* and NOT_SENT needs a command the broker never saw.
Allowed(c, from, to) ==
    \/ from = "ABSENT"      /\ to = "PENDING"
    \/ from = "PENDING"     /\ to \in {"DISPATCHING", "COMPLETED", "REJECTED", "REJECTED_STALE"}
    \/ from = "DISPATCHING" /\ to = "SENT_UNKNOWN"
    \/ from = "DISPATCHING" /\ to = "NOT_SENT" /\ calls[c] = 0

Move(c) ==
    \E to \in Statuses :
        /\ Allowed(c, status[c], to)
        /\ status' = [status EXCEPT ![c] = to]
        /\ UNCHANGED calls

Deliver(c) ==
    /\ status[c] = "DISPATCHING"
    /\ calls[c] = 0
    /\ calls' = [calls EXCEPT ![c] = 1]
    /\ UNCHANGED status

LifecycleNext == \E c \in Commands : Move(c) \/ Deliver(c)

LifecycleSpec == LifecycleInit /\ [][LifecycleNext]_lifecycleVars
===============================================================================
