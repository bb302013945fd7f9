----------------------------- MODULE CommandStore -----------------------------
(***************************************************************************)
(* The trading database: the account's journal, its projections and the    *)
(* command queue (infrastructure/journal.py, command_queue.py,             *)
(* core/event.py).  One executor at a time owns it by a lock of the        *)
(* operating system that dies with its process; it keeps the committed     *)
(* state in memory and advances it by each transaction it commits.         *)
(* Clients of other processes only insert commands and read.               *)
(*                                                                         *)
(* A commit is one SQLite write transaction: it is written whole or not at *)
(* all, and the executor may die between the write and the answer.  The    *)
(* encoding of values and checksums are left out.  Every transaction of    *)
(* the executor has one event, so that its cursor and the ingress sequence *)
(* move with the sequence of the journal.                                  *)
(***************************************************************************)
EXTENDS Integers, Sequences, FiniteSets

CONSTANTS
    Executors,          \* processes that may own the database
    Requests,           \* commands: a function from command ids to the sets of contents sent
    TakeoverIds,        \* ids of applications for a takeover
    Facts,              \* facts of the broker
    Changes, Reserved,  \* updates that come with a fact and with a step of a command:
                        \* sets of functions from keys to values
    MaxTransactions,    \* model bound: length of the journal
    MaxSnapshots        \* model bound: snapshots

Gone == 0               \* an update to None deletes the key
Nothing == [absent |-> TRUE]
Nobody == "nobody"

VARIABLES
    journal,    \* committed transactions, in order
    tables,     \* projections: sequence, state, trade keys, control epoch, last ingress
    queue,      \* command queue
    snapshots,  \* by sequence, what a snapshot holds
    owner,      \* who holds the lock, or Nobody
    cached,     \* the owner's checkpoint, or Nothing
    staged,     \* the transaction the owner is about to commit, or Nothing
    accepted,   \* commands of which a client was told that they are queued
    heard       \* a subscriber: its cursor and the events it has read

storeVars == <<journal, tables, queue, snapshots, owner, cached, staged, accepted, heard>>

\* What a checkpoint holds.
Empty == [seq |-> 0, state |-> <<>>, trades |-> {}, control |-> 0]
Ids == DOMAIN Requests

StoreInit ==
    /\ journal = <<>> /\ tables = Empty /\ queue = <<>> /\ snapshots = <<>>
    /\ owner = Nobody /\ cached = Nothing /\ staged = Nothing
    /\ accepted = {} /\ heard = [cursor |-> 0, events |-> <<>>]

-------------------------------------------------------------------------------
\* A MemoryJournal keeps the None.
KeptNone(state, updates) ==
    [k \in DOMAIN updates \union DOMAIN state |-> IF k \in DOMAIN updates THEN updates[k] ELSE state[k]]

\* State after an update; None deletes a key.
Updated(state, updates) ==
    LET all == KeptNone(state, updates) IN [k \in {k \in DOMAIN all : all[k] # Gone} |-> all[k]]

\* What the tables hold when the transaction is written into them.
Written(before, tx) ==
    [seq |-> before.seq + 1,
     state |-> Updated(before.state, tx.updates),
     trades |-> before.trades \union tx.trades,
     control |-> IF tx.control = 0 THEN before.control ELSE tx.control]

AdvancedWithNone(checkpoint, tx) ==
    [Written(checkpoint, tx) EXCEPT !.state = KeptNone(checkpoint.state, tx.updates)]

\* A checkpoint moved by the transaction that directly follows it: in memory the
\* same is done to it as to the tables.
Advanced(checkpoint, tx) == Written(checkpoint, tx)

\* What a history amounts to, computed from all of it: by key the last write of it,
\* and the last control.
LastOf(history, at) == history[CHOOSE i \in at : \A j \in at : j <= i]
Naming(history, k) == {i \in DOMAIN history : k \in DOMAIN history[i].updates}
Named(history) == UNION {DOMAIN history[i].updates : i \in DOMAIN history}
Latest(history, k) == LastOf(history, Naming(history, k)).updates[k]
Takeovers(history) == {i \in DOMAIN history : history[i].control # 0}
Amount(history) ==
    [seq |-> Len(history),
     state |-> [k \in {k \in Named(history) : Latest(history, k) # Gone} |-> Latest(history, k)],
     trades |-> UNION {history[i].trades : i \in DOMAIN history},
     control |-> IF Takeovers(history) = {} THEN 0 ELSE LastOf(history, Takeovers(history)).control]

\* What the first n transactions amount to.
Replayed(n) == Amount(SubSeq(journal, 1, n))

-------------------------------------------------------------------------------
(* The executor.                                                              *)

\* One process owns the database; another one is refused.
Open(e) ==
    /\ owner = Nobody
    /\ owner' = e /\ cached' = Nothing /\ staged' = Nothing
    /\ UNCHANGED <<journal, tables, queue, snapshots, accepted, heard>>

\* The process ends, or dies at any point.
Die ==
    /\ owner # Nobody
    /\ owner' = Nobody /\ cached' = Nothing /\ staged' = Nothing
    /\ UNCHANGED <<journal, tables, queue, snapshots, accepted, heard>>

\* What is read in one transaction.
Committed == tables

\* The checkpoint in memory when it is that of the head, otherwise what is read.
Checkpoint == IF cached # Nothing /\ cached.seq = tables.seq THEN cached ELSE Committed

PositionOf(id) == CHOOSE i \in DOMAIN queue : queue[i].id = id
Pending == {i \in DOMAIN queue : queue[i].status = "pending" /\ queue[i].id \notin TakeoverIds}
NextPending == CHOOSE i \in Pending : \A j \in Pending : i <= j

\* What may become of a command.
Allowed(status) ==
    CASE status = "pending" -> {"dispatching", "completed", "rejected"}
      [] status = "dispatching" -> {"not sent", "sent unknown"}
      [] OTHER -> {}

\* Next steps for the queue: its head, commands a dead executor left, applications.
Steps ==
    UNION {{[queued |-> queue[i], status |-> s] : s \in Allowed(queue[i].status)} :
               i \in {i \in DOMAIN queue : queue[i].status = "dispatching"}
                     \union (IF Pending = {} THEN {} ELSE {NextPending})}
Applications ==
    {[queued |-> queue[i], status |-> "completed"] :
        i \in {i \in DOMAIN queue : queue[i].id \in TakeoverIds /\ queue[i].status = "pending"}}

\* A transaction is made from a checkpoint; its event is a fact, or made for it.
Transaction(facts, updates, step, control) ==
    LET checkpoint == Checkpoint
    IN  [event |-> [facts |-> facts, made |-> IF facts = {} THEN checkpoint.seq + 1 ELSE 0],
         updates |-> updates, trades |-> facts,
         control |-> control,
         before |-> checkpoint.seq, expected |-> checkpoint.control, step |-> step]

Stage ==
    /\ owner # Nobody /\ staged = Nothing /\ Len(journal) < MaxTransactions
    /\ \/ \E fact \in Facts, updates \in Changes : staged' = Transaction({fact}, updates, Nothing, 0)
       \/ \E step \in Steps, updates \in Reserved : staged' = Transaction({}, updates, step, 0)
       \/ \E step \in Applications \union {Nothing} :
              staged' = Transaction({}, <<>>, step, Checkpoint.control + 1)
    /\ cached' = Checkpoint
    /\ UNCHANGED <<journal, tables, queue, snapshots, owner, accepted, heard>>

\* The guards of the write transaction.
Fits(tx) ==
    /\ tables.control = tx.expected
    /\ tables.seq = tx.before
    /\ \A i \in DOMAIN journal : journal[i].event # tx.event
    /\ tx.trades \intersect tables.trades = {}
    /\ tx.step # Nothing =>
           \E i \in DOMAIN queue : queue[i] = tx.step.queued

Acknowledged(tx, seq) ==
    IF tx.step = Nothing THEN queue
    ELSE [queue EXCEPT ![PositionOf(tx.step.queued.id)].status = tx.step.status,
                       ![PositionOf(tx.step.queued.id)].processed = seq]

\* The transaction and the state of its command are written together.  The
\* checkpoint in memory is dropped before and advanced afterwards.
Commit ==
    /\ owner # Nobody /\ staged # Nothing /\ Fits(staged)
    /\ journal' = Append(journal, staged)
    /\ tables' = Written(tables, staged)
    /\ queue' = Acknowledged(staged, tables.seq + 1)
    /\ cached' = IF cached = Nothing \/ cached.seq # tables.seq THEN Nothing ELSE Advanced(cached, staged)
    /\ staged' = Nothing
    /\ UNCHANGED <<snapshots, owner, accepted, heard>>

\* A guard fails, or the database is busy: nothing is written.
CommitFails ==
    /\ owner # Nobody /\ staged # Nothing
    /\ cached' = Nothing /\ staged' = Nothing
    /\ UNCHANGED <<journal, tables, queue, snapshots, owner, accepted, heard>>

\* It is written, and the process dies before it is told so.
CommitUnanswered ==
    /\ owner # Nobody /\ staged # Nothing /\ Fits(staged)
    /\ journal' = Append(journal, staged)
    /\ tables' = Written(tables, staged)
    /\ queue' = Acknowledged(staged, tables.seq + 1)
    /\ owner' = Nobody /\ cached' = Nothing /\ staged' = Nothing
    /\ UNCHANGED <<snapshots, accepted, heard>>

\* A snapshot of any earlier state is rebuilt from the journal; one that exists
\* stays.
Snapshot(n) ==
    /\ owner # Nobody /\ staged = Nothing /\ n <= tables.seq
    /\ n \notin DOMAIN snapshots /\ Cardinality(DOMAIN snapshots) < MaxSnapshots
    /\ snapshots' = [m \in DOMAIN snapshots \union {n} |-> IF m = n THEN Replayed(n) ELSE snapshots[m]]
    /\ UNCHANGED <<journal, tables, queue, owner, cached, staged, accepted, heard>>

-------------------------------------------------------------------------------
(* Clients.                                                                   *)

\* A command is inserted once, however often it is sent; the client is told of
\* it only when what is queued under its id is what it sent.  When it learns
\* nothing in time it sends the command again.
Inserted(id, body) ==
    IF \E i \in DOMAIN queue : queue[i].id = id THEN queue
    ELSE Append(queue, [id |-> id, body |-> body, status |-> "pending", processed |-> 0])

Submit(id) ==
    \E body \in Requests[id] :
        /\ queue' = Inserted(id, body)
        /\ accepted' = IF \E i \in DOMAIN queue' : queue'[i].id = id /\ queue'[i].body = body
                       THEN accepted \union {<<id, body>>} ELSE accepted
        /\ UNCHANGED <<journal, tables, snapshots, owner, cached, staged, heard>>

\* A subscriber reads what was committed after its cursor.
EventsAfter(n) == [i \in 1..(tables.seq - n) |-> journal[n + i].event]
ReadEvents ==
    /\ heard' = [cursor |-> tables.seq, events |-> heard.events \o EventsAfter(heard.cursor)]
    /\ UNCHANGED <<journal, tables, queue, snapshots, owner, cached, staged, accepted>>

StoreNext ==
    \/ \E e \in Executors : Open(e)
    \/ Die \/ Stage \/ Commit \/ CommitFails \/ CommitUnanswered
    \/ \E n \in 0..MaxTransactions : Snapshot(n)
    \/ \E id \in Ids : Submit(id)
    \/ ReadEvents

-------------------------------------------------------------------------------
Statuses == {"pending", "dispatching", "completed", "rejected", "not sent", "sent unknown"}
Events == [facts : SUBSET Facts, made : Nat]
Entries == [id : Ids, body : UNION {Requests[id] : id \in Ids}, status : Statuses, processed : Nat]
Transactions ==
    [event : Events, updates : Changes \union Reserved \union {<<>>}, trades : SUBSET Facts, control : Nat,
     before : Nat, expected : Nat, step : [queued : Entries, status : Statuses] \union {Nothing}]

StoreTypeOK ==
    /\ journal \in Seq(Transactions) /\ queue \in Seq(Entries)
    /\ staged \in Transactions \union {Nothing} /\ owner \in Executors \union {Nobody}
    /\ DOMAIN snapshots \subseteq 0..Len(journal) /\ heard \in [cursor : 0..Len(journal), events : Seq(Events)]

\* The projections are what the journal amounts to, so is the checkpoint that the
\* executor answers from while it is at the head, and so was every snapshot.
ProjectionsAreHistory ==
    /\ tables = Replayed(Len(journal))
    /\ owner # Nobody => Checkpoint = Replayed(Len(journal))
    /\ \A n \in DOMAIN snapshots : snapshots[n] = Replayed(n)

\* A command takes its first step once and ends once, each by the transaction that
\* did it, and points to the last of them; one that a client was told of is there.
StepsOf(id) == {i \in DOMAIN journal : journal[i].step # Nothing /\ journal[i].step.queued.id = id}
CommandsAreStepped ==
    /\ \A q \in DOMAIN queue :
           LET steps == StepsOf(queue[q].id) IN
               /\ \A i \in steps : i <= queue[q].processed
               /\ IF steps = {} THEN queue[q].status = "pending" /\ queue[q].processed = 0
                  ELSE /\ queue[q].processed \in steps
                       /\ journal[queue[q].processed].step.status = queue[q].status
               /\ \A i, j \in steps : i < j =>
                      /\ journal[i].step.status = "dispatching"
                      /\ journal[j].step.status \in {"not sent", "sent unknown"}
               /\ \A p \in DOMAIN queue : queue[p].id = queue[q].id => p = q
    /\ \A told \in accepted : \E q \in DOMAIN queue : queue[q].id = told[1] /\ queue[q].body = told[2]

\* A subscriber has read every event up to its cursor, in order and once.
SubscriberIsTold ==
    /\ Len(heard.events) = heard.cursor
    /\ \A i \in DOMAIN heard.events : heard.events[i] = journal[i].event

\* The database is one history: its projections, its queue and what is read from
\* it agree after every failure.
StoreIsOneHistory == StoreTypeOK /\ ProjectionsAreHistory /\ CommandsAreStepped /\ SubscriberIsTold
===============================================================================
