------------------------------- MODULE DataStore -------------------------------
(***************************************************************************)
(* The storage of market data: downloads that archive what a source gave   *)
(* and publish it (FuturesDataDownloader), publications that write files   *)
(* named by their content, a manifest of them and then the pointer         *)
(* (ParquetDataStorage), and readers that captured a manifest              *)
(* (HistoricalMarketDataAdapter).                                          *)
(*                                                                         *)
(* Processes run side by side and may fail or die between any two writes.  *)
(* A record is its time and a version.  A power failure is not modelled:   *)
(* what is written stays.  Conversions are the source's (external).        *)
(***************************************************************************)
EXTENDS Integers, FiniteSets

CONSTANTS
    Writers, Readers,
    Offers,         \* what a source may give: instrument, bars, references and whether it is sound
    Retirements,    \* model bound: sets of datasets that a person may retire
    MaxDownloads    \* model bound: downloads and retirements begun

VARIABLES
    current,        \* current.json: the manifest it names (by its content)
    manifests,      \* manifests/<hash>.json
    files,          \* <kind>/<interval>/<instrument>/<hash>.parquet: name -> records
    archive,        \* raw/<hash>.json
    lock,           \* .publish.lock: a writer or nobody
    writer,         \* per process: where it is and what it holds in memory
    reader,         \* per process: the captured manifest, and what it read last
    downloads       \* model bound

storeVars == <<current, manifests, files, archive, lock, writer, reader, downloads>>

Nobody == "nobody"
Nothing == [d \in {} |-> {}]
Instruments == {offer.instrument : offer \in Offers}
Datasets == {"bar", "reference"} \X Instruments
Idle == [at |-> "idle", raw |-> {}, batch |-> Nothing, gone |-> {}, base |-> Nothing, new |-> Nothing]
Shut == [open |-> FALSE, snapshot |-> Nothing, read |-> {}]

With(m, d, entry) == [e \in DOMAIN m \union {d} |-> IF e = d THEN entry ELSE m[e]]
Without(m, gone) == [e \in DOMAIN m \ gone |-> m[e]]

\* The records of an offer by dataset; none of a kind is no dataset.
BatchOf(offer) ==
    LET all == [d \in {"bar", "reference"} \X {offer.instrument} |->
                    IF d[1] = "bar" THEN offer.bars ELSE offer.references]
    IN [d \in {e \in DOMAIN all : all[e] # {}} |-> all[d]]

\* _validate: bars of one dataset do not overlap.
Valid(d, records) == d[1] = "bar" => \A a, b \in records : a.start < b.start => a.end <= b.start
\* publish_batch: incoming records replace those with the same key.
Merged(old, new) == {a \in old : ~\E b \in new : b.start = a.start} \union new

\* The name of a file is the hash of its content.
FileName(d, records) == <<d, records>>
\* _read: an absent dataset is empty; a file is verified against the manifest.
Readable(m, d) == d \in DOMAIN m => m[d].file \in DOMAIN files /\ files[m[d].file] = m[d].records
Stored(m, d) == IF d \in DOMAIN m THEN files[m[d].file] ELSE {}

DataInit ==
    /\ current = Nothing /\ manifests = {Nothing} /\ files = Nothing /\ archive = {}
    /\ lock = Nobody
    /\ writer = [w \in Writers |-> Idle]
    /\ reader = [r \in Readers |-> Shut]
    /\ downloads = 0

-------------------------------------------------------------------------------
(* download_bars *)

Disk == <<current, manifests, files, archive>>
Goes(w, at) == writer' = [writer EXCEPT ![w].at = at] /\ UNCHANGED lock
\* The end of a call, by return or by exception: the lock is released.
Ends(w) == /\ writer' = [writer EXCEPT ![w] = Idle]
           /\ lock' = IF lock = w THEN Nobody ELSE lock

Begins(w, call) ==
    /\ writer[w].at = "idle" /\ downloads < MaxDownloads
    /\ downloads' = downloads + 1
    /\ writer' = [writer EXCEPT ![w] = call]
    /\ UNCHANGED <<Disk, lock, reader>>

\* download_raw: what the source gave is in memory.
Fetch(w) == \E offer \in Offers : Begins(w, [Idle EXCEPT !.at = "fetched", !.raw = {offer}])

\* _archive comes before any check; unsound records get no further.
Archive(w) ==
    /\ writer[w].at = "fetched"
    /\ archive' = archive \union writer[w].raw
    /\ \E offer \in writer[w].raw :
           IF offer.sound /\ offer.bars # {}
           THEN writer' = [writer EXCEPT ![w].at = "ready", ![w].batch = BatchOf(offer)]
           ELSE writer' = [writer EXCEPT ![w] = Idle]
    /\ UNCHANGED <<current, manifests, files, lock, reader, downloads>>

\* A person calls retire_datasets.
AskRetire(w) ==
    \E gone \in Retirements : Begins(w, [Idle EXCEPT !.at = "ready", !.gone = gone])

-------------------------------------------------------------------------------
(* publish_batch, retire_datasets *)

\* Mutant of Free: the lock is taken by whoever asks.
AlwaysFree(l) == TRUE
\* _writer: LOCK_NB, an exception when another process has it.
Free(l) == l = Nobody

TakeLock(w) ==
    /\ writer[w].at = "ready"
    /\ IF Free(lock) THEN writer' = [writer EXCEPT ![w].at = "locked"] /\ lock' = w ELSE Ends(w)
    /\ UNCHANGED <<Disk, reader, downloads>>

\* Mutant of Following: the pointer is replaced before the manifest is written.
PointerFirst(at) ==
    IF at = "tables" THEN "pointer" ELSE IF at = "pointer" THEN "manifest" ELSE "done"
\* The order of the writes.
Following(at) ==
    IF at = "tables" THEN "manifest" ELSE IF at = "manifest" THEN "pointer" ELSE "done"

NextWrite(batch) == IF batch = Nothing THEN Following("tables") ELSE "tables"

\* capture_snapshot under the lock.  A dataset to be retired must be there.
Capture(w) ==
    /\ writer[w].at = "locked"
    /\ IF writer[w].gone \subseteq DOMAIN current
       THEN /\ writer' = [writer EXCEPT ![w].at = NextWrite(writer[w].batch), ![w].base = current,
                                        ![w].new = Without(current, writer[w].gone)]
            /\ UNCHANGED lock
       ELSE Ends(w)
    /\ UNCHANGED <<Disk, reader, downloads>>

\* The dataset that is written next: bars before references.
NextTable(batch) == CHOOSE d \in DOMAIN batch : d[1] = "bar" \/ \A e \in DOMAIN batch : e[1] # "bar"

\* Merge with what the captured manifest names, write the file and enter it.
WriteTable(w) ==
    /\ writer[w].at = "tables"
    /\ LET d == NextTable(writer[w].batch)
           incoming == writer[w].batch[d]
           records == Merged(Stored(writer[w].base, d), incoming)
           entry == [file |-> FileName(d, records), records |-> records, raw |-> writer[w].raw]
       IN IF Valid(d, incoming) /\ Readable(writer[w].base, d) /\ Valid(d, records)
          THEN /\ files' = With(files, FileName(d, records), records)
               /\ writer' = [writer EXCEPT ![w].batch = Without(@, {d}), ![w].new = With(@, d, entry),
                                                ![w].at = NextWrite(Without(writer[w].batch, {d}))]
               /\ UNCHANGED lock
          ELSE Ends(w) /\ UNCHANGED files
    /\ UNCHANGED <<current, manifests, archive, reader, downloads>>

WriteManifest(w) ==
    /\ writer[w].at = "manifest"
    /\ manifests' = manifests \union {writer[w].new}
    /\ Goes(w, Following("manifest"))
    /\ UNCHANGED <<current, files, archive, reader, downloads>>

\* os.replace of current.json: the only commit point.
ReplacePointer(w) ==
    /\ writer[w].at = "pointer"
    /\ current' = writer[w].new
    /\ Goes(w, Following("pointer"))
    /\ UNCHANGED <<manifests, files, archive, reader, downloads>>

\* The call returns, or it fails or its process dies wherever it is.
Stop(w) ==
    /\ writer[w].at # "idle"
    /\ Ends(w)
    /\ UNCHANGED <<Disk, reader, downloads>>

-------------------------------------------------------------------------------
(* HistoricalMarketDataAdapter *)

\* __init__: the manifest is captured once.
OpenReader(r) ==
    /\ ~reader[r].open
    /\ current \in manifests
    /\ reader' = [reader EXCEPT ![r] = [open |-> TRUE, snapshot |-> current, read |-> {}]]
    /\ UNCHANGED <<Disk, lock, writer, downloads>>

\* _load_cache, _references: a dataset is read when it is first asked for; what
\* is cached is left out, reading again gives no less.
LoadCache(r, d) ==
    /\ reader[r].open
    /\ Readable(reader[r].snapshot, d)
    /\ reader' = [reader EXCEPT ![r].read = {<<d, Stored(reader[r].snapshot, d)>>}]
    /\ UNCHANGED <<Disk, lock, writer, downloads>>

DataNext ==
    \/ \E w \in Writers : \/ Fetch(w) \/ Archive(w) \/ AskRetire(w) \/ TakeLock(w) \/ Capture(w)
                          \/ WriteTable(w) \/ WriteManifest(w)
                          \/ ReplacePointer(w) \/ Stop(w)
    \/ \E r \in Readers : OpenReader(r) \/ \E d \in Datasets : LoadCache(r, d)

DataSpec == DataInit /\ [][DataNext]_storeVars

-------------------------------------------------------------------------------
(* Properties *)

Content(m) == [d \in Datasets |-> IF d \in DOMAIN m THEN m[d].records ELSE {}]

Atomic == INSTANCE AtomicStore WITH
    Batches <- {BatchOf(offer) : offer \in Offers},
    content <- Content(current),
    view <- [r \in Readers |-> IF reader[r].open THEN Content(reader[r].snapshot) ELSE <<>>],
    seen <- [r \in Readers |-> reader[r].read]

\* Publications of several processes behave as if each were merged at once on
\* top of all before it: none is lost, none is seen in part, and a reader sees
\* the content at one moment however late it reads (storage.py, one manifest,
\* "the only commit point").
ImplementsAtomicStore == Atomic!StoreSpec

\* Whatever is published, or was when a reader opened the store, can be read
\* back: its manifest and files are there as they were written and the answer
\* of the source that it came from is archived, whatever failed in between.
PublishedIsTraceable ==
    \A m \in {current} \union {reader[r].snapshot : r \in Readers} :
        /\ m \in manifests
        /\ \A d \in DOMAIN m : Readable(m, d) /\ m[d].raw # {} /\ m[d].raw \subseteq archive
=================================================================================
