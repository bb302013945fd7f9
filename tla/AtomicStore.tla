------------------------------ MODULE AtomicStore ------------------------------
(***************************************************************************)
(* What the data storage promises: a batch of records is merged into the   *)
(* published content at once, whole and on top of everything published     *)
(* before it; and a reader that has opened the store reads, at any later   *)
(* time, what was published when it opened it.                             *)
(***************************************************************************)
CONSTANTS
    Datasets, Readers,
    Batches,            \* functions from some datasets to records to be merged
    Merged(_, _)        \* records published and records that come

VARIABLES
    content,            \* [Datasets -> records]
    view,               \* [Readers -> the content when it opened, or Closed]
    seen                \* [Readers -> what it has read last: <<dataset, records>>]

atomicVars == <<content, view, seen>>

Closed == <<>>

StoreInit ==
    /\ content = [d \in Datasets |-> {}]
    /\ view = [r \in Readers |-> Closed]
    /\ seen = [r \in Readers |-> {}]

Publish ==
    \E batch \in Batches :
        /\ content' = [d \in Datasets |-> IF d \in DOMAIN batch THEN Merged(content[d], batch[d])
                                                                ELSE content[d]]
        /\ UNCHANGED <<view, seen>>

Retire ==
    \E gone \in SUBSET Datasets :
        /\ content' = [d \in Datasets |-> IF d \in gone THEN {} ELSE content[d]]
        /\ UNCHANGED <<view, seen>>

Open(r) ==
    /\ view[r] = Closed
    /\ view' = [view EXCEPT ![r] = content]
    /\ UNCHANGED <<content, seen>>

Read(r, d) ==
    /\ view[r] # Closed
    /\ seen' = [seen EXCEPT ![r] = {<<d, view[r][d]>>}]
    /\ UNCHANGED <<content, view>>

StoreNext ==
    \/ Publish \/ Retire
    \/ \E r \in Readers : Open(r) \/ \E d \in Datasets : Read(r, d)

StoreSpec == StoreInit /\ [][StoreNext]_atomicVars
=================================================================================
