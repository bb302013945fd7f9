---------------------------- MODULE Research_proofs ----------------------------
(***************************************************************************)
(* Market data and orders in research.                                     *)
(*                                                                         *)
(* The storage of market data, for any number of processes, readers and    *)
(* downloads: publications are atomic, and what is published can be read   *)
(* back with its manifest, its files and the answer it came from, whatever *)
(* fails between two writes.  The argument: a file is named by its content *)
(* and never changes, so what a manifest names stays as it was; the lock   *)
(* makes the captured manifest the published one until the pointer is      *)
(* replaced; and what was written on top of it is the batch, merged, table *)
(* by table.                                                               *)
(*                                                                         *)
(* Orders on their way to the exchange, for any lots and any orders, every *)
(* kind of exchange, priority and fee: nothing is lost, doubled or named   *)
(* wrongly.  The argument: what the book freezes of either day is the sum  *)
(* of what its children hold, and a child holds what it has yet to trade,  *)
(* of the day its offset names.  A plan is one piece, or two of different  *)
(* days, that add up to the order and of which there are lots; so it fits. *)
(*                                                                         *)
(* The versions of rules, for any number of versions and times: a query    *)
(* answers what was known when it asks.  The argument: a version replaces  *)
(* an older one that was known by then, so what is behind a version is     *)
(* older and known, and of those in effect some is behind no other.        *)
(*                                                                         *)
(* Sessions, holidays and gaps, for any calendar, bars and evidence.  The  *)
(* argument: the sessions of a day lie within it, or in the night of the   *)
(* day before, and do not overlap, so a minute is of one trading day; the  *)
(* next trading day is far exactly when a workday in between is none; and  *)
(* a scan of bars in order leaves, up to where it is, every minute to a    *)
(* bar or to one piece between two bounds of the evidence.                 *)
(*                                                                         *)
(* Dominant contracts, for any contracts, prices, days of confirmation and *)
(* histories.  The argument: what is dominant at the end of a day but the  *)
(* last was decided on the day before it, whether an entry that has ended  *)
(* shows it or the one that has not (EffectInv); a challenger is counted   *)
(* for exactly as long as it leads (RunInv); and every item of the series  *)
(* is adjusted to the one before it by prices of one or the other day.     *)
(***************************************************************************)
EXTENDS MCResearch, Sums_proofs, SequenceTheorems


-------------------------------------------------------------------------------
(* The inductive invariant, in parts: m is a manifest, c the call of a       *)
(* process; what is published, the manifests, the names of the files and the *)
(* archive are parameters.                                                   *)

\* The entry of a dataset names a file that is there and an answer that is archived.
EntryKept(d, e, names, answers) ==
    /\ e.file = Store!FileName(d, e.records) /\ e.file \in names
    /\ e.raw # {} /\ e.raw \subseteq answers
Kept(m, names, answers) ==
    DOMAIN m \subseteq Store!Datasets /\ \A d \in DOMAIN m : EntryKept(d, m[d], names, answers)

\* A process holds the lock from the capture to the return.
Holding(c) == c.at \in {"locked", "tables", "manifest", "pointer", "done"}
\* It has captured a manifest and has not yet replaced the pointer.
Building(c) == c.at \in {"tables", "manifest", "pointer"}
\* It has a batch to publish or datasets to retire.
Publishing(c) == c.at \in {"ready", "locked"} \/ Building(c)

\* A process that publishes a batch: todo is what it has yet to write, and what it
\* builds is the published content with the rest merged into it.
Batch(offer, todo) == [d \in todo |-> Store!BatchOf(offer)[d]]
Publishes(c, offer, todo, cur) ==
    /\ c.raw = {offer} /\ c.gone = {} /\ c.batch = Batch(offer, todo)
    /\ c.at \in {"ready", "locked"} => todo = DOMAIN Store!BatchOf(offer)
    /\ c.at \in {"manifest", "pointer"} => todo = {}
    /\ c.at = "tables" => todo # {}
    /\ Building(c) =>
           \A d \in Store!Datasets : Store!Content(c.new)[d] =
               IF d \in DOMAIN Store!BatchOf(offer) \ todo
               THEN Store!Merged(Store!Content(cur)[d], Store!BatchOf(offer)[d]) ELSE Store!Content(cur)[d]
\* A process that retires datasets writes no table.
Retires(c, cur) ==
    /\ c.raw = {} /\ c.batch = Store!Nothing /\ c.at # "tables"
    /\ Building(c) =>
           \A d \in Store!Datasets : Store!Content(c.new)[d] = IF d \in c.gone THEN {} ELSE Store!Content(cur)[d]

CallInv(c, cur, written, names, answers) ==
    /\ c = [at |-> c.at, raw |-> c.raw, batch |-> c.batch, gone |-> c.gone, base |-> c.base, new |-> c.new]
    /\ c.at \in {"idle", "fetched", "ready"} \/ Holding(c)
    /\ c.at = "fetched" => c.gone = {} /\ \E offer \in Offers : c.raw = {offer}
    /\ Publishing(c) =>
           \/ \E offer \in Offers \intersect answers : \E todo \in SUBSET DOMAIN Store!BatchOf(offer) :
                  Publishes(c, offer, todo, cur)
           \/ Retires(c, cur)
    /\ Building(c) => c.base = cur /\ Kept(c.new, names, answers)
    /\ c.at = "pointer" => c.new \in written

\* A reader has captured a manifest that is still as it was.
ReaderInv(view, written, names, answers) ==
    /\ view = [open |-> view.open, snapshot |-> view.snapshot, read |-> view.read]
    /\ view.snapshot \in written /\ Kept(view.snapshot, names, answers)
    /\ view.open \/ view.read = {}

\* A file has the content it is named by.
FilesInv == \A x \in DOMAIN files : files[x] = x[2]
\* One process at most holds the lock.
LockInv ==
    /\ lock \in Writers \union {Store!Nobody}
    /\ \A w \in Writers : Holding(writer[w]) <=> lock = w
PublishedInv == current \in manifests /\ Kept(current, DOMAIN files, archive)
ReadersInv ==
    /\ DOMAIN reader = Readers
    /\ \A r \in Readers : ReaderInv(reader[r], manifests, DOMAIN files, archive)
WritersInv ==
    /\ DOMAIN writer = Writers
    /\ \A w \in Writers : CallInv(writer[w], current, manifests, DOMAIN files, archive)

StoreInv == FilesInv /\ LockInv /\ PublishedInv /\ ReadersInv /\ WritersInv

-------------------------------------------------------------------------------
(* What does not change *)

\* A manifest can be read back however much is written beside it.
LEMMA KeptStays ==
  ASSUME NEW m, NEW names, NEW answers, NEW names2, NEW answers2,
         Kept(m, names, answers), names \subseteq names2, answers \subseteq answers2
  PROVE  Kept(m, names2, answers2)
  BY DEF Kept, EntryKept

\* A call is not disturbed by what others write, nor by a new pointer while it is
\* not building on the published manifest.
LEMMA CallStays ==
  ASSUME NEW c, NEW cur, NEW written, NEW names, NEW answers,
         NEW cur2, NEW written2, NEW names2, NEW answers2,
         CallInv(c, cur, written, names, answers),
         written \subseteq written2, names \subseteq names2, answers \subseteq answers2,
         cur2 = cur \/ ~Building(c)
  PROVE  CallInv(c, cur2, written2, names2, answers2)
<1>1. Publishing(c) =>
          \/ \E offer \in Offers \intersect answers2 : \E todo \in SUBSET DOMAIN Store!BatchOf(offer) :
                 Publishes(c, offer, todo, cur2)
          \/ Retires(c, cur2)
  <2>1. CASE cur2 = cur
    BY <2>1 DEF CallInv
  <2>2. CASE ~Building(c)
    BY <2>2 DEF CallInv, Publishes, Retires
  <2> QED BY <2>1, <2>2
<1>2. Building(c) => c.base = cur2 /\ Kept(c.new, names2, answers2)
  BY KeptStays DEF CallInv
<1>3. c.at = "pointer" => c.new \in written2
  BY DEF CallInv
<1>4. /\ c = [at |-> c.at, raw |-> c.raw, batch |-> c.batch, gone |-> c.gone, base |-> c.base,
              new |-> c.new]
      /\ c.at \in {"idle", "fetched", "ready"} \/ Holding(c)
      /\ c.at = "fetched" => c.gone = {} /\ \E offer \in Offers : c.raw = {offer}
  BY DEF CallInv
<1> QED BY <1>1, <1>2, <1>3, <1>4 DEF CallInv

\* Nor is a reader.
LEMMA ReaderStays ==
  ASSUME NEW view, NEW written, NEW names, NEW answers, NEW written2, NEW names2, NEW answers2,
         ReaderInv(view, written, names, answers),
         written \subseteq written2, names \subseteq names2, answers \subseteq answers2
  PROVE  ReaderInv(view, written2, names2, answers2)
  BY KeptStays DEF ReaderInv

\* What a manifest names can be read, and is the content it stands for.
LEMMA StoredIsContent ==
  ASSUME FilesInv, NEW m, Kept(m, DOMAIN files, archive), NEW d \in Store!Datasets
  PROVE  /\ Store!Readable(m, d)
         /\ Store!Stored(m, d) = Store!Content(m)[d]
<1>1. CASE d \in DOMAIN m
  <2>1. m[d].file = Store!FileName(d, m[d].records) /\ m[d].file \in DOMAIN files
    BY <1>1 DEF Kept, EntryKept
  <2>2. files[m[d].file] = m[d].records
    BY <2>1 DEF FilesInv, Store!FileName
  <2> QED BY <1>1, <2>1, <2>2 DEF Store!Readable, Store!Stored, Store!Content
<1>2. CASE d \notin DOMAIN m
  BY <1>2 DEF Store!Readable, Store!Stored, Store!Content
<1> QED BY <1>1, <1>2

\* A batch is a function on some of the datasets.
LEMMA BatchShape ==
  ASSUME NEW offer \in Offers
  PROVE  /\ Store!BatchOf(offer) = Batch(offer, DOMAIN Store!BatchOf(offer))
         /\ DOMAIN Store!BatchOf(offer) \subseteq Store!Datasets
<1> DEFINE all == [d \in {"bar", "reference"} \X {offer.instrument} |->
                      IF d[1] = "bar" THEN offer.bars ELSE offer.references]
           some == {e \in DOMAIN all : all[e] # {}}
<1>1. Store!BatchOf(offer) = [d \in some |-> all[d]]
  BY DEF Store!BatchOf
<1>2. DOMAIN Store!BatchOf(offer) = some
  BY <1>1
<1>3. Store!BatchOf(offer) = [d \in DOMAIN Store!BatchOf(offer) |-> Store!BatchOf(offer)[d]]
  <2> HIDE DEF some, all
  <2> QED BY <1>1, <1>2
<1>4. some \subseteq Store!Datasets
  BY DEF Store!Datasets, Store!Instruments
<1> QED BY <1>2, <1>3, <1>4 DEF Batch

\* What is left of a batch, and where a call goes after it captured or wrote a table.
LEMMA BatchShrinks ==
  ASSUME NEW offer, NEW todo, NEW d
  PROVE  Store!Without(Batch(offer, todo), {d}) = Batch(offer, todo \ {d})
  BY DEF Store!Without, Batch

LEMMA AfterTables ==
  ASSUME NEW offer, NEW todo
  PROVE  Store!NextWrite(Batch(offer, todo)) = IF todo = {} THEN "manifest" ELSE "tables"
<1>1. DOMAIN Batch(offer, todo) = todo
  BY DEF Batch
<1>2. CASE todo = {}
  <2>1. Batch(offer, todo) = Store!Nothing
    BY <1>2 DEF Batch, Store!Nothing
  <2> QED BY <1>2, <2>1 DEF Store!NextWrite, Store!Following
<1>3. CASE todo # {}
  <2>1. Batch(offer, todo) # Store!Nothing
    BY <1>1, <1>3 DEF Store!Nothing
  <2> QED BY <1>3, <2>1 DEF Store!NextWrite, Store!Following
<1> QED BY <1>2, <1>3

\* The next table is one of the batch.
LEMMA NextIsLeft ==
  ASSUME NEW offer, NEW todo, todo # {}
  PROVE  Store!NextTable(Batch(offer, todo)) \in todo
<1>1. DOMAIN Batch(offer, todo) = todo
  BY DEF Batch
<1>2. \E d \in todo : d[1] = "bar" \/ \A e \in todo : e[1] # "bar"
  OBVIOUS
<1> QED BY <1>1, <1>2 DEF Store!NextTable

\* A step of one process: others keep what they rely on, if it writes only beside
\* what is there and has the lock when it replaces the pointer.
LEMMA OneProcess ==
  ASSUME StoreInv, StoreAssumption, NEW w \in Writers, NEW c,
         writer' = [writer EXCEPT ![w] = c],
         CallInv(c, current', manifests', DOMAIN files', archive'),
         manifests \subseteq manifests', DOMAIN files \subseteq DOMAIN files',
         archive \subseteq archive', FilesInv', reader' = reader,
         \/ current' = current
         \/ /\ lock = w /\ current' \in manifests'
            /\ Kept(current', DOMAIN files', archive'),
         \/ Holding(c) /\ lock' = w /\ lock \in {w, Store!Nobody}
         \/ ~Holding(c) /\ lock' = IF lock = w THEN Store!Nobody ELSE lock
  PROVE  StoreInv'
<1> USE DEF StoreInv
<1>0. Store!Nobody \notin Writers
  BY DEF StoreAssumption, Store!Nobody
<1>1. /\ DOMAIN writer' = Writers /\ writer'[w] = c
      /\ \A v \in Writers \ {w} : writer'[v] = writer[v]
  BY DEF WritersInv
<1>2. LockInv'
  <2>1. lock' \in Writers \union {Store!Nobody}
    BY DEF LockInv
  <2>2. ASSUME NEW v \in Writers PROVE Holding(writer'[v]) <=> lock' = v
    BY <1>0, <1>1, <2>2 DEF LockInv
  <2> QED BY <2>1, <2>2 DEF LockInv
<1>3. PublishedInv'
  BY KeptStays DEF PublishedInv
<1>4. ReadersInv'
  <2>1. ASSUME NEW r \in Readers
        PROVE  ReaderInv(reader'[r], manifests', DOMAIN files', archive')
    <3>1. ReaderInv(reader[r], manifests, DOMAIN files, archive)
      BY DEF ReadersInv
    <3> QED BY <3>1, ReaderStays
  <2> QED BY <2>1 DEF ReadersInv
<1>5. WritersInv'
  <2>1. ASSUME NEW v \in Writers
        PROVE  CallInv(writer'[v], current', manifests', DOMAIN files', archive')
    <3>1. CASE v = w
      BY <1>1, <3>1
    <3>2. CASE v # w
      <4>1. CallInv(writer[v], current, manifests, DOMAIN files, archive)
        BY DEF WritersInv
      <4>2. current' = current \/ ~Building(writer[v])
        BY <3>2 DEF LockInv, Holding, Building
      <4> QED BY <1>1, <3>2, <4>1, <4>2, CallStays
    <3> QED BY <3>1, <3>2
  <2> QED BY <1>1, <2>1 DEF WritersInv
<1> QED BY <1>2, <1>3, <1>4, <1>5

\* The end of a call keeps the invariant wherever it comes.
LEMMA EndsKeeps ==
  ASSUME StoreInv, StoreAssumption, NEW w \in Writers, Store!Ends(w), UNCHANGED <<Store!Disk, reader>>
  PROVE  StoreInv'
<1>1. CallInv(Store!Idle, current', manifests', DOMAIN files', archive')
  BY DEF CallInv, Store!Idle, Holding, Building, Publishing
<1>2. ~Holding(Store!Idle)
  BY DEF Holding, Store!Idle
<1>3. UNCHANGED <<current, manifests, files, archive, reader>> /\ FilesInv'
  BY DEF Store!Disk, StoreInv, FilesInv
<1>4. /\ writer' = [writer EXCEPT ![w] = Store!Idle]
      /\ lock' = IF lock = w THEN Store!Nobody ELSE lock
  BY DEF Store!Ends
<1> QED BY <1>1, <1>2, <1>3, <1>4, OneProcess

-------------------------------------------------------------------------------
(* The actions of a process *)

\* A call begins with what it is told, and holds nothing.
LEMMA FetchKeeps ==
  ASSUME StoreInv, StoreAssumption, NEW w \in Writers, Store!Fetch(w)
  PROVE  StoreInv'
<1>1. PICK offer \in Offers : Store!Begins(w, [Store!Idle EXCEPT !.at = "fetched", !.raw = {offer}])
  BY DEF Store!Fetch
<1> DEFINE c == [Store!Idle EXCEPT !.at = "fetched", !.raw = {offer}]
<1>2. CallInv(c, current', manifests', DOMAIN files', archive')
  <2>1. c = [at |-> "fetched", raw |-> {offer}, batch |-> Store!Nothing, gone |-> {}, base |-> Store!Nothing,
             new |-> Store!Nothing]
    <3> DEFINE y == [Store!Idle EXCEPT !.at = "fetched"]
    <3>1. y = [at |-> "fetched", raw |-> {}, batch |-> Store!Nothing, gone |-> {}, base |-> Store!Nothing,
               new |-> Store!Nothing]
      BY DEF Store!Idle
    <3>2. c = [y EXCEPT !.raw = {offer}]
      OBVIOUS
    <3> HIDE DEF c, y
    <3> QED BY <3>1, <3>2
  <2> HIDE DEF c
  <2> QED BY <2>1 DEF CallInv, Holding, Building, Publishing
<1>3. UNCHANGED <<current, manifests, files, archive, lock, reader>> /\ FilesInv'
  BY <1>1 DEF Store!Begins, Store!Disk, StoreInv, FilesInv
<1>4. writer' = [writer EXCEPT ![w] = c] /\ writer[w].at = "idle"
  BY <1>1 DEF Store!Begins
<1>5. ~Holding(c) /\ lock # w
  BY <1>4 DEF Holding, Store!Idle, StoreInv, LockInv
<1> HIDE DEF c
<1> QED BY <1>2, <1>3, <1>4, <1>5, OneProcess

LEMMA AskRetireKeeps ==
  ASSUME StoreInv, StoreAssumption, NEW w \in Writers, Store!AskRetire(w)
  PROVE  StoreInv'
<1>1. PICK gone \in Retirements : Store!Begins(w, [Store!Idle EXCEPT !.at = "ready", !.gone = gone])
  BY DEF Store!AskRetire
<1> DEFINE c == [Store!Idle EXCEPT !.at = "ready", !.gone = gone]
<1>2. CallInv(c, current', manifests', DOMAIN files', archive')
  <2>1. c = [at |-> "ready", raw |-> {}, batch |-> Store!Nothing, gone |-> gone, base |-> Store!Nothing,
             new |-> Store!Nothing]
    <3> DEFINE y == [Store!Idle EXCEPT !.at = "ready"]
    <3>1. y = [at |-> "ready", raw |-> {}, batch |-> Store!Nothing, gone |-> {}, base |-> Store!Nothing,
               new |-> Store!Nothing]
      BY DEF Store!Idle
    <3>2. c = [y EXCEPT !.gone = gone]
      OBVIOUS
    <3> HIDE DEF c, y
    <3> QED BY <3>1, <3>2
  <2> HIDE DEF c
  <2>2. Retires(c, current')
    BY <2>1 DEF Retires, Building
  <2> QED BY <2>1, <2>2 DEF CallInv, Holding, Building
<1>3. UNCHANGED <<current, manifests, files, archive, lock, reader>> /\ FilesInv'
  BY <1>1 DEF Store!Begins, Store!Disk, StoreInv, FilesInv
<1>4. writer' = [writer EXCEPT ![w] = c] /\ writer[w].at = "idle"
  BY <1>1 DEF Store!Begins
<1>5. ~Holding(c) /\ lock # w
  BY <1>4 DEF Holding, Store!Idle, StoreInv, LockInv
<1> HIDE DEF c
<1> QED BY <1>2, <1>3, <1>4, <1>5, OneProcess

\* What is sound is archived before it is published.
LEMMA ArchiveKeeps ==
  ASSUME StoreInv, StoreAssumption, NEW w \in Writers, Store!Archive(w)
  PROVE  StoreInv'
<1>1. CallInv(writer[w], current, manifests, DOMAIN files, archive) /\ w \in DOMAIN writer
  BY DEF StoreInv, WritersInv
<1>2. /\ writer[w].at = "fetched" /\ archive' = archive \union writer[w].raw
      /\ UNCHANGED <<current, manifests, files, lock, reader>>
  BY DEF Store!Archive
<1>3. FilesInv' /\ lock # w
  BY <1>2 DEF StoreInv, FilesInv, LockInv, Holding
<1>4. PICK offer \in writer[w].raw :
          \/ writer' = [writer EXCEPT ![w].at = "ready", ![w].batch = Store!BatchOf(offer)]
          \/ writer' = [writer EXCEPT ![w] = Store!Idle]
  BY DEF Store!Archive
<1>5. offer \in Offers /\ writer[w].raw = {offer} /\ offer \in archive'
  BY <1>1, <1>2 DEF CallInv
<1>6. CASE writer' = [writer EXCEPT ![w] = Store!Idle]
  <2>1. CallInv(Store!Idle, current', manifests', DOMAIN files', archive') /\ ~Holding(Store!Idle)
    BY DEF CallInv, Store!Idle, Holding, Building, Publishing
  <2> QED BY <1>2, <1>3, <1>6, <2>1, OneProcess
<1>7. CASE writer' = [writer EXCEPT ![w].at = "ready", ![w].batch = Store!BatchOf(offer)]
  <2> DEFINE todo == DOMAIN Store!BatchOf(offer)
             c == [writer[w] EXCEPT !.at = "ready", !.batch = Store!BatchOf(offer)]
  <2>1. c = [at |-> "ready", raw |-> {offer}, batch |-> Store!BatchOf(offer), gone |-> writer[w].gone,
             base |-> writer[w].base, new |-> writer[w].new]
    <3>1. writer[w] = [at |-> writer[w].at, raw |-> writer[w].raw, batch |-> writer[w].batch,
                       gone |-> writer[w].gone, base |-> writer[w].base, new |-> writer[w].new]
      BY <1>1 DEF CallInv
    <3> DEFINE y == [writer[w] EXCEPT !.at = "ready"]
    <3>2. y = [at |-> "ready", raw |-> writer[w].raw, batch |-> writer[w].batch,
               gone |-> writer[w].gone, base |-> writer[w].base, new |-> writer[w].new]
      BY <3>1
    <3>3. c = [y EXCEPT !.batch = Store!BatchOf(offer)]
      OBVIOUS
    <3> HIDE DEF c, y
    <3> QED BY <1>5, <3>2, <3>3
  <2>2. writer' = [writer EXCEPT ![w] = c]
    BY <1>1, <1>7
  <2>3. c.at = "ready" /\ c.raw = {offer} /\ c.batch = Batch(offer, todo) /\ c.gone = writer[w].gone
    BY <2>1, <1>5, BatchShape
  <2>4. c = [at |-> c.at, raw |-> c.raw, batch |-> c.batch, gone |-> c.gone, base |-> c.base,
             new |-> c.new]
    BY <2>1
  <2> HIDE DEF c
  <2>5. Publishes(c, offer, todo, current')
    BY <2>3, <1>1, <1>2 DEF Publishes, Building, CallInv
  <2>6. CallInv(c, current', manifests', DOMAIN files', archive') /\ ~Holding(c)
    BY <1>5, <2>3, <2>4, <2>5 DEF CallInv, Holding, Building
  <2> QED BY <1>2, <1>3, <2>2, <2>6, OneProcess
<1> QED BY <1>4, <1>6, <1>7

LEMMA TakeLockKeeps ==
  ASSUME StoreInv, StoreAssumption, NEW w \in Writers, Store!TakeLock(w)
  PROVE  StoreInv'
<1>1. CallInv(writer[w], current, manifests, DOMAIN files, archive) /\ w \in DOMAIN writer
  BY DEF StoreInv, WritersInv
<1>2. UNCHANGED <<current, manifests, files, archive, reader>> /\ FilesInv' /\ writer[w].at = "ready"
  BY DEF Store!TakeLock, Store!Disk, StoreInv, FilesInv
<1>3. CASE lock = Store!Nobody
  <2> DEFINE c == [writer[w] EXCEPT !.at = "locked"]
  <2>1. c = [at |-> "locked", raw |-> writer[w].raw, batch |-> writer[w].batch,
             gone |-> writer[w].gone, base |-> writer[w].base, new |-> writer[w].new]
    BY <1>1 DEF CallInv
  <2>2. writer' = [writer EXCEPT ![w] = c] /\ lock' = w
    BY <1>1, <1>3 DEF Store!TakeLock, Store!Free
  <2>3. /\ c.at = "locked" /\ c.raw = writer[w].raw /\ c.batch = writer[w].batch
        /\ c.gone = writer[w].gone
        /\ c = [at |-> c.at, raw |-> c.raw, batch |-> c.batch, gone |-> c.gone, base |-> c.base,
                new |-> c.new]
    BY <2>1
  <2> HIDE DEF c
  <2>4. \/ \E offer \in Offers \intersect archive : \E todo \in SUBSET DOMAIN Store!BatchOf(offer) :
               Publishes(c, offer, todo, current)
        \/ Retires(c, current)
    BY <1>1, <1>2, <2>3 DEF CallInv, Publishing, Building, Publishes, Retires
  <2>5. CallInv(c, current', manifests', DOMAIN files', archive') /\ Holding(c)
    BY <1>2, <2>3, <2>4 DEF CallInv, Holding, Building
  <2> QED BY <1>2, <1>3, <2>2, <2>5, OneProcess
<1>4. CASE lock # Store!Nobody
  BY <1>4, EndsKeeps DEF Store!TakeLock, Store!Free
<1> QED BY <1>3, <1>4

\* What is captured under the lock is what is published.
LEMMA CaptureKeeps ==
  ASSUME StoreInv, StoreAssumption, NEW w \in Writers, Store!Capture(w)
  PROVE  StoreInv'
<1>1. CallInv(writer[w], current, manifests, DOMAIN files, archive) /\ w \in DOMAIN writer
  BY DEF StoreInv, WritersInv
<1>2. UNCHANGED <<current, manifests, files, archive, reader>> /\ FilesInv'
  BY DEF Store!Capture, Store!Disk, StoreInv, FilesInv
<1>3. writer[w].at = "locked" /\ lock = w
  BY DEF Store!Capture, StoreInv, LockInv, Holding
<1>4. Kept(current, DOMAIN files, archive)
  BY DEF StoreInv, PublishedInv
<1>5. CASE writer[w].gone \subseteq DOMAIN current
  <2> DEFINE new == Store!Without(current, writer[w].gone)
             c == [writer[w] EXCEPT !.at = Store!NextWrite(writer[w].batch), !.base = current, !.new = new]
  <2>1. c = [at |-> Store!NextWrite(writer[w].batch), raw |-> writer[w].raw, batch |-> writer[w].batch,
             gone |-> writer[w].gone, base |-> current, new |-> new]
    <3>1. writer[w] = [at |-> writer[w].at, raw |-> writer[w].raw, batch |-> writer[w].batch,
                       gone |-> writer[w].gone, base |-> writer[w].base, new |-> writer[w].new]
      BY <1>1 DEF CallInv
    <3> DEFINE y == [writer[w] EXCEPT !.at = Store!NextWrite(writer[w].batch)]
               z == [y EXCEPT !.base = current]
    <3>2. y = [at |-> Store!NextWrite(writer[w].batch), raw |-> writer[w].raw, batch |-> writer[w].batch,
               gone |-> writer[w].gone, base |-> writer[w].base, new |-> writer[w].new]
      BY <3>1
    <3>3. z = [at |-> Store!NextWrite(writer[w].batch), raw |-> writer[w].raw, batch |-> writer[w].batch,
               gone |-> writer[w].gone, base |-> current, new |-> writer[w].new]
      <4> HIDE DEF y
      <4> QED BY <3>2
    <3>4. c = [z EXCEPT !.new = new]
      <4> HIDE DEF new
      <4> QED OBVIOUS
    <3> HIDE DEF c, y, z, new
    <3> QED BY <3>3, <3>4
  <2>2. writer' = [writer EXCEPT ![w] = c] /\ lock' = w
    BY <1>1, <1>3, <1>5 DEF Store!Capture
  <2>3. /\ c.at = Store!NextWrite(writer[w].batch) /\ c.raw = writer[w].raw /\ c.batch = writer[w].batch
        /\ c.gone = writer[w].gone /\ c.base = current /\ c.new = new
        /\ c = [at |-> c.at, raw |-> c.raw, batch |-> c.batch, gone |-> c.gone, base |-> c.base,
                new |-> c.new]
    BY <2>1
  <2>4. Kept(new, DOMAIN files, archive)
    BY <1>4 DEF Store!Without, Kept
  <2>5. \A d \in Store!Datasets : Store!Content(new)[d] =
            IF d \in writer[w].gone THEN {} ELSE Store!Content(current)[d]
    BY DEF Store!Content, Store!Without
  <2> HIDE DEF c, new
  <2>6. c.at \in {"tables", "manifest"} /\ Holding(c) /\ Building(c)
    BY <2>3 DEF Store!NextWrite, Store!Following, Holding, Building
  <2>7. \/ \E offer \in Offers \intersect archive : \E todo \in SUBSET DOMAIN Store!BatchOf(offer) :
               Publishes(c, offer, todo, current)
        \/ Retires(c, current)
    <3>1. CASE Retires(writer[w], current)
      <4>1. c.raw = {} /\ c.batch = Store!Nothing /\ c.at # "tables"
        BY <2>3, <3>1 DEF Retires, Store!NextWrite, Store!Following
      <4> QED BY <2>3, <2>5, <4>1 DEF Retires
    <3>2. ASSUME NEW offer \in Offers \intersect archive,
                 NEW todo \in SUBSET DOMAIN Store!BatchOf(offer),
                 Publishes(writer[w], offer, todo, current)
          PROVE  Publishes(c, offer, todo, current)
      <4>1. c.raw = {offer} /\ c.gone = {} /\ c.batch = Batch(offer, todo)
        BY <2>3, <3>2 DEF Publishes
      <4>2. c.at = IF todo = {} THEN "manifest" ELSE "tables"
        BY <2>3, <4>1, AfterTables
      <4>3. todo = DOMAIN Store!BatchOf(offer)
        BY <1>3, <3>2 DEF Publishes
      <4>4. \A d \in Store!Datasets : Store!Content(c.new)[d] = Store!Content(current)[d]
        BY <2>3, <2>5, <4>1
      <4> QED BY <4>1, <4>2, <4>3, <4>4 DEF Publishes
    <3> QED BY <1>1, <1>3, <3>1, <3>2 DEF CallInv, Publishing
  <2>8. CallInv(c, current', manifests', DOMAIN files', archive')
    <3>1. CallInv(c, current, manifests, DOMAIN files, archive)
      BY <2>3, <2>4, <2>6, <2>7 DEF CallInv
    <3> QED BY <1>2, <3>1
  <2> QED BY <1>2, <1>3, <2>2, <2>6, <2>8, OneProcess
<1>6. CASE ~(writer[w].gone \subseteq DOMAIN current)
  BY <1>6, EndsKeeps DEF Store!Capture
<1> QED BY <1>5, <1>6

\* A table is the published records with those of the batch merged into them.
LEMMA WriteTableKeeps ==
  ASSUME StoreInv, StoreAssumption, NEW w \in Writers, Store!WriteTable(w)
  PROVE  StoreInv'
<1> DEFINE d == Store!NextTable(writer[w].batch)
           incoming == writer[w].batch[d]
           records == Store!Merged(Store!Stored(writer[w].base, d), incoming)
           entry == [file |-> Store!FileName(d, records), records |-> records, raw |-> writer[w].raw]
<1>1. CallInv(writer[w], current, manifests, DOMAIN files, archive) /\ w \in DOMAIN writer
  BY DEF StoreInv, WritersInv
<1>2. UNCHANGED <<current, manifests, archive, reader>>
  BY DEF Store!WriteTable
<1>3. writer[w].at = "tables" /\ lock = w
  BY DEF Store!WriteTable, StoreInv, LockInv, Holding
<1>4. CASE Store!Ends(w) /\ UNCHANGED files
  BY <1>2, <1>4, EndsKeeps DEF Store!Disk
<1>5. CASE /\ files' = Store!With(files, Store!FileName(d, records), records)
           /\ writer' = [writer EXCEPT ![w].batch = Store!Without(@, {d}), ![w].new = Store!With(@, d, entry),
                                       ![w].at = Store!NextWrite(Store!Without(writer[w].batch, {d}))]
           /\ UNCHANGED lock
  <2> DEFINE rest == Store!Without(writer[w].batch, {d})
             new == Store!With(writer[w].new, d, entry)
             c == [writer[w] EXCEPT !.batch = rest, !.new = new, !.at = Store!NextWrite(rest)]
  <2>1. PICK offer \in Offers \intersect archive :
            \E todo \in SUBSET DOMAIN Store!BatchOf(offer) : Publishes(writer[w], offer, todo, current)
    BY <1>1, <1>3 DEF CallInv, Publishing, Building, Retires
  <2>2. PICK todo \in SUBSET DOMAIN Store!BatchOf(offer) : Publishes(writer[w], offer, todo, current)
    BY <2>1
  <2>3. /\ writer[w].raw = {offer} /\ writer[w].gone = {} /\ writer[w].batch = Batch(offer, todo)
        /\ todo # {}
        /\ \A e \in Store!Datasets : Store!Content(writer[w].new)[e] =
               IF e \in DOMAIN Store!BatchOf(offer) \ todo
               THEN Store!Merged(Store!Content(current)[e], Store!BatchOf(offer)[e]) ELSE Store!Content(current)[e]
    BY <1>3, <2>2 DEF Publishes, Building
  <2>4. d \in todo /\ d \in Store!Datasets
    BY <2>3, NextIsLeft, BatchShape
  <2>5. incoming = Store!BatchOf(offer)[d]
    BY <2>3, <2>4 DEF Batch
  <2>6. writer[w].base = current /\ Kept(writer[w].new, DOMAIN files, archive)
    BY <1>1, <1>3 DEF CallInv, Building
  <2>7. Store!Stored(writer[w].base, d) = Store!Content(current)[d]
    BY <2>4, <2>6, StoredIsContent DEF StoreInv, PublishedInv
  <2>8. records = Store!Merged(Store!Content(current)[d], Store!BatchOf(offer)[d])
    BY <2>5, <2>7
  <2>9. rest = Batch(offer, todo \ {d})
        /\ Store!NextWrite(rest) = IF todo \ {d} = {} THEN "manifest" ELSE "tables"
    <3>1. rest = Batch(offer, todo \ {d})
      <4>1. writer[w].batch = Batch(offer, todo)
        BY <2>3
      <4>2. Store!Without(Batch(offer, todo), {d}) = Batch(offer, todo \ {d})
        <5> HIDE DEF d
        <5> QED BY BatchShrinks
      <4> HIDE DEF d
      <4> QED BY <4>1, <4>2
    <3> HIDE DEF rest, d
    <3> QED BY <3>1, AfterTables
  <2>10. c = [at |-> Store!NextWrite(rest), raw |-> {offer}, batch |-> rest, gone |-> {},
              base |-> current, new |-> new]
    <3>1. writer[w] = [at |-> writer[w].at, raw |-> writer[w].raw, batch |-> writer[w].batch,
                       gone |-> writer[w].gone, base |-> writer[w].base, new |-> writer[w].new]
      BY <1>1 DEF CallInv
    <3> DEFINE y == [writer[w] EXCEPT !.batch = rest]
               z == [y EXCEPT !.new = new]
    <3>2. y = [at |-> writer[w].at, raw |-> writer[w].raw, batch |-> rest,
               gone |-> writer[w].gone, base |-> writer[w].base, new |-> writer[w].new]
      <4> HIDE DEF rest
      <4> QED BY <3>1
    <3>3. z = [at |-> writer[w].at, raw |-> writer[w].raw, batch |-> rest,
               gone |-> writer[w].gone, base |-> writer[w].base, new |-> new]
      <4> HIDE DEF rest, new, y
      <4> QED BY <3>2
    <3>4. c = [z EXCEPT !.at = Store!NextWrite(rest)]
      <4> HIDE DEF new, rest
      <4> QED OBVIOUS
    <3> HIDE DEF c, y, z, new, rest
    <3> QED BY <2>3, <2>6, <3>3, <3>4
  <2>11. writer' = [writer EXCEPT ![w] = c]
    BY <1>1, <1>5
  <2>12. FilesInv' /\ DOMAIN files' = DOMAIN files \union {Store!FileName(d, records)}
    <3>1. files' = [x \in DOMAIN files \union {Store!FileName(d, records)} |->
                        IF x = Store!FileName(d, records) THEN records ELSE files[x]]
      <4> HIDE DEF records, d
      <4> QED BY <1>5 DEF Store!With
    <3>2. Store!FileName(d, records)[2] = records
      <4> HIDE DEF records, d
      <4> QED BY DEF Store!FileName
    <3> HIDE DEF records, d
    <3> QED BY <3>1, <3>2 DEF StoreInv, FilesInv
  <2>13. Kept(new, DOMAIN files', archive)
    <3>1. Kept(writer[w].new, DOMAIN files', archive)
      BY <2>6, <2>12, KeptStays
    <3>2. EntryKept(d, entry, DOMAIN files', archive)
      <4> HIDE DEF records
      <4> QED BY <2>3, <2>12 DEF EntryKept
    <3>3. /\ DOMAIN new = DOMAIN writer[w].new \union {d} /\ new[d] = entry
          /\ \A e \in DOMAIN writer[w].new \ {d} : new[e] = writer[w].new[e]
      <4> HIDE DEF entry
      <4> QED BY DEF Store!With
    <3> HIDE DEF new, entry, d
    <3> QED BY <2>4, <3>1, <3>2, <3>3 DEF Kept
  <2>14. \A e \in Store!Datasets : Store!Content(new)[e] =
             IF e = d THEN records ELSE Store!Content(writer[w].new)[e]
    <3>1. /\ DOMAIN new = DOMAIN writer[w].new \union {d} /\ new[d] = entry
          /\ \A e \in DOMAIN writer[w].new \ {d} : new[e] = writer[w].new[e]
      <4> HIDE DEF entry
      <4> QED BY DEF Store!With
    <3>2. entry.records = records
      OBVIOUS
    <3> HIDE DEF new, entry, records, d
    <3> QED BY <3>1, <3>2 DEF Store!Content
  <2> HIDE DEF c, new, rest, records, entry, incoming, d
  <2>15. /\ c.at = Store!NextWrite(rest) /\ c.raw = {offer} /\ c.batch = rest /\ c.gone = {}
         /\ c.base = current /\ c.new = new
         /\ c = [at |-> c.at, raw |-> c.raw, batch |-> c.batch, gone |-> c.gone, base |-> c.base,
                 new |-> c.new]
    BY <2>10
  <2>16. Publishes(c, offer, todo \ {d}, current)
    <3>1. c.at = IF todo \ {d} = {} THEN "manifest" ELSE "tables"
      BY <2>9, <2>15
    <3>2. \A e \in Store!Datasets : Store!Content(c.new)[e] =
              IF e \in DOMAIN Store!BatchOf(offer) \ (todo \ {d})
              THEN Store!Merged(Store!Content(current)[e], Store!BatchOf(offer)[e]) ELSE Store!Content(current)[e]
      BY <2>3, <2>4, <2>8, <2>14, <2>15
    <3> QED BY <2>9, <2>15, <3>1, <3>2 DEF Publishes
  <2>17. Holding(c) /\ c.at \in {"tables", "manifest"}
    BY <2>9, <2>15 DEF Holding
  <2>18. CallInv(c, current', manifests', DOMAIN files', archive')
    <3>1. CallInv(c, current, manifests, DOMAIN files', archive)
      BY <2>13, <2>15, <2>16, <2>17 DEF CallInv
    <3> QED BY <1>2, <3>1
  <2> QED BY <1>2, <1>3, <1>5, <2>11, <2>12, <2>17, <2>18, OneProcess
<1> QED BY <1>4, <1>5 DEF Store!WriteTable

\* The manifest is written before the pointer that names it.
LEMMA WriteManifestKeeps ==
  ASSUME StoreInv, StoreAssumption, NEW w \in Writers, Store!WriteManifest(w)
  PROVE  StoreInv'
<1>1. CallInv(writer[w], current, manifests, DOMAIN files, archive) /\ w \in DOMAIN writer
  BY DEF StoreInv, WritersInv
<1>2. /\ UNCHANGED <<current, files, archive, reader>> /\ FilesInv'
      /\ manifests' = manifests \union {writer[w].new}
  BY DEF Store!WriteManifest, StoreInv, FilesInv
<1>3. writer[w].at = "manifest" /\ lock = w /\ lock' = w
  BY DEF Store!WriteManifest, Store!Goes, StoreInv, LockInv, Holding
<1> DEFINE c == [writer[w] EXCEPT !.at = "pointer"]
<1>4. c = [at |-> "pointer", raw |-> writer[w].raw, batch |-> writer[w].batch,
           gone |-> writer[w].gone, base |-> writer[w].base, new |-> writer[w].new]
  BY <1>1 DEF CallInv
<1>5. writer' = [writer EXCEPT ![w] = c]
  BY <1>1 DEF Store!WriteManifest, Store!Goes, Store!Following
<1>6. /\ c.at = "pointer" /\ c.raw = writer[w].raw /\ c.batch = writer[w].batch
      /\ c.gone = writer[w].gone /\ c.base = writer[w].base /\ c.new = writer[w].new
      /\ c = [at |-> c.at, raw |-> c.raw, batch |-> c.batch, gone |-> c.gone, base |-> c.base,
              new |-> c.new]
  BY <1>4
<1> HIDE DEF c
<1>7. \/ \E offer \in Offers \intersect archive : \E todo \in SUBSET DOMAIN Store!BatchOf(offer) :
             Publishes(c, offer, todo, current)
      \/ Retires(c, current)
  BY <1>1, <1>3, <1>6 DEF CallInv, Publishing, Building, Publishes, Retires
<1>8. Holding(c) /\ c.base = current /\ Kept(c.new, DOMAIN files, archive) /\ c.new \in manifests'
  BY <1>1, <1>2, <1>3, <1>6 DEF CallInv, Building, Holding
<1>9. CallInv(c, current', manifests', DOMAIN files', archive')
  <2>1. CallInv(c, current, manifests', DOMAIN files, archive)
    BY <1>6, <1>7, <1>8 DEF CallInv
  <2> QED BY <1>2, <2>1
<1> QED BY <1>2, <1>3, <1>5, <1>8, <1>9, OneProcess

\* The new pointer names a manifest that is written, with all its files.
LEMMA ReplacePointerKeeps ==
  ASSUME StoreInv, StoreAssumption, NEW w \in Writers, Store!ReplacePointer(w)
  PROVE  StoreInv'
<1>1. CallInv(writer[w], current, manifests, DOMAIN files, archive) /\ w \in DOMAIN writer
  BY DEF StoreInv, WritersInv
<1>2. /\ UNCHANGED <<manifests, files, archive, reader>> /\ FilesInv'
      /\ current' = writer[w].new
  BY DEF Store!ReplacePointer, StoreInv, FilesInv
<1>3. writer[w].at = "pointer" /\ lock = w /\ lock' = w
  BY DEF Store!ReplacePointer, Store!Goes, StoreInv, LockInv, Holding
<1> DEFINE c == [writer[w] EXCEPT !.at = "done"]
<1>4. c = [at |-> "done", raw |-> writer[w].raw, batch |-> writer[w].batch,
           gone |-> writer[w].gone, base |-> writer[w].base, new |-> writer[w].new]
  BY <1>1 DEF CallInv
<1>5. writer' = [writer EXCEPT ![w] = c]
  BY <1>1 DEF Store!ReplacePointer, Store!Goes, Store!Following
<1>6. /\ c.at = "done"
      /\ c = [at |-> c.at, raw |-> c.raw, batch |-> c.batch, gone |-> c.gone, base |-> c.base,
              new |-> c.new]
  BY <1>4
<1> HIDE DEF c
<1>7. CallInv(c, current', manifests', DOMAIN files', archive') /\ Holding(c)
  BY <1>6 DEF CallInv, Holding, Building, Publishing
<1>8. current' \in manifests' /\ Kept(current', DOMAIN files', archive')
  BY <1>1, <1>2, <1>3 DEF CallInv, Building
<1> QED BY <1>2, <1>3, <1>5, <1>7, <1>8, OneProcess

-------------------------------------------------------------------------------
(* Readers, and the invariant *)

LEMMA ReadersKeep ==
  ASSUME StoreInv, NEW r \in Readers,
         Store!OpenReader(r) \/ \E d \in Store!Datasets : Store!LoadCache(r, d)
  PROVE  StoreInv'
<1>1. UNCHANGED <<current, manifests, files, archive, lock, writer>>
  BY DEF Store!OpenReader, Store!LoadCache, Store!Disk
<1>2. FilesInv' /\ LockInv' /\ PublishedInv' /\ WritersInv'
  BY <1>1 DEF StoreInv, FilesInv, LockInv, PublishedInv, WritersInv
<1>3. PICK view : reader' = [reader EXCEPT ![r] = view]
                  /\ ReaderInv(view, manifests, DOMAIN files, archive)
  <2>1. ReaderInv(reader[r], manifests, DOMAIN files, archive) /\ r \in DOMAIN reader
    BY DEF StoreInv, ReadersInv
  <2>2. CASE Store!OpenReader(r)
    <3> DEFINE view == [open |-> TRUE, snapshot |-> current, read |-> {}]
    <3>1. reader' = [reader EXCEPT ![r] = view]
      BY <2>2 DEF Store!OpenReader
    <3>2. ReaderInv(view, manifests, DOMAIN files, archive)
      BY DEF StoreInv, PublishedInv, ReaderInv
    <3> QED BY <3>1, <3>2
  <2>3. ASSUME NEW d \in Store!Datasets, Store!LoadCache(r, d)
        PROVE  \E view : /\ reader' = [reader EXCEPT ![r] = view]
                         /\ ReaderInv(view, manifests, DOMAIN files, archive)
    <3> DEFINE view == [reader[r] EXCEPT !.read = {<<d, Store!Stored(reader[r].snapshot, d)>>}]
    <3>1. view = [open |-> reader[r].open, snapshot |-> reader[r].snapshot,
                  read |-> {<<d, Store!Stored(reader[r].snapshot, d)>>}]
      BY <2>1 DEF ReaderInv
    <3>2. reader' = [reader EXCEPT ![r] = view]
      BY <2>1, <2>3 DEF Store!LoadCache
    <3>3. ReaderInv(view, manifests, DOMAIN files, archive)
      BY <2>1, <2>3, <3>1 DEF ReaderInv, Store!LoadCache
    <3> QED BY <3>2, <3>3
  <2> QED BY <2>2, <2>3
<1>4. ReadersInv'
  BY <1>1, <1>3 DEF StoreInv, ReadersInv
<1> QED BY <1>2, <1>4 DEF StoreInv

LEMMA InvInit ==
  ASSUME StoreAssumption, Store!DataInit
  PROVE  StoreInv
<1> USE DEF Store!DataInit
<1>0. Store!Nobody \notin Writers
  BY DEF StoreAssumption, Store!Nobody
<1>1. \A names, answers : Kept(Store!Nothing, names, answers)
  BY DEF Kept, Store!Nothing
<1>2. LockInv
  BY <1>0 DEF LockInv, Holding, Store!Idle
<1>3. FilesInv /\ PublishedInv
  BY <1>1 DEF FilesInv, PublishedInv, Store!Nothing
<1>4. ReadersInv
  <2>1. ReaderInv(Store!Shut, manifests, DOMAIN files, archive)
    BY <1>1 DEF ReaderInv, Store!Shut
  <2> QED BY <2>1 DEF ReadersInv
<1>5. WritersInv
  <2>1. CallInv(Store!Idle, current, manifests, DOMAIN files, archive)
    BY DEF CallInv, Store!Idle, Holding, Building, Publishing
  <2> QED BY <2>1 DEF WritersInv
<1> QED BY <1>2, <1>3, <1>4, <1>5 DEF StoreInv

LEMMA InvStep ==
  ASSUME StoreInv, StoreAssumption, Store!DataNext
  PROVE  StoreInv'
<1>1. ASSUME NEW w \in Writers, Store!Stop(w) PROVE StoreInv'
  BY <1>1, EndsKeeps DEF Store!Stop
<1> QED BY <1>1, FetchKeeps, ArchiveKeeps, AskRetireKeeps, TakeLockKeeps, CaptureKeeps,
           WriteTableKeeps, WriteManifestKeeps, ReplacePointerKeeps, ReadersKeep DEF Store!DataNext

\* The other parts of the run leave the store alone.
LEMMA PartsStep ==
  ASSUME [ResearchNext]_researchVars
  PROVE  Store!DataNext \/ UNCHANGED storeVars
  BY DEF ResearchNext, Simulates, Stores, Registers, Observes, Closes, researchVars

\* The invariant holds in every state.
THEOREM StoreCorrect == ResearchSpec => []StoreInv
<1>1. ResearchInit => StoreInv
  BY InvInit, StoreAssumption DEF ResearchInit
<1>2. StoreInv /\ [ResearchNext]_researchVars => StoreInv'
  <2> SUFFICES ASSUME StoreInv, [ResearchNext]_researchVars PROVE StoreInv'
    OBVIOUS
  <2>1. CASE UNCHANGED storeVars
    BY <2>1 DEF storeVars, StoreInv, FilesInv, LockInv, PublishedInv, ReadersInv, WritersInv
  <2> QED BY <2>1, PartsStep, InvStep, StoreAssumption
<1> QED BY <1>1, <1>2, PTL DEF ResearchSpec

\* Whatever is published, or was captured by a reader, can be read back with its
\* manifest, its files and the archived answer it came from (storage.py: files are
\* named by their content and are never removed).
THEOREM AlwaysTraceable == ResearchSpec => []PublishedIsTraceable
<1>1. StoreInv => PublishedIsTraceable
  <2> SUFFICES ASSUME StoreInv, NEW m \in {current} \union {reader[r].snapshot : r \in Readers}
               PROVE  /\ m \in manifests
                      /\ \A d \in DOMAIN m : Store!Readable(m, d) /\ m[d].raw # {} /\ m[d].raw \subseteq archive
    BY DEF PublishedIsTraceable, Store!PublishedIsTraceable
  <2>1. m \in manifests /\ Kept(m, DOMAIN files, archive)
    BY DEF StoreInv, PublishedInv, ReadersInv, ReaderInv
  <2>2. ASSUME NEW d \in DOMAIN m
        PROVE  Store!Readable(m, d) /\ m[d].raw # {} /\ m[d].raw \subseteq archive
    <3>1. d \in Store!Datasets /\ EntryKept(d, m[d], DOMAIN files, archive)
      BY <2>1 DEF Kept
    <3> QED BY <2>1, <3>1, StoredIsContent DEF StoreInv, EntryKept
  <2> QED BY <2>1, <2>2
<1> QED BY <1>1, StoreCorrect, PTL

-------------------------------------------------------------------------------
(* Publications are atomic *)

\* Everything but the pointer and the readers is out of the reader's sight.
LEMMA OutOfSight ==
  ASSUME UNCHANGED <<current, reader>>
  PROVE  UNCHANGED Store!Atomic!atomicVars
  BY DEF Store!Atomic!atomicVars, Store!Content

\* Replacing the pointer merges the whole batch into what was published, or retires.
LEMMA PointerPublishes ==
  ASSUME StoreInv, NEW w \in Writers, Store!ReplacePointer(w)
  PROVE  Store!Atomic!Publish \/ Store!Atomic!Retire
<1>1. current' = writer[w].new /\ reader' = reader /\ writer[w].at = "pointer"
  BY DEF Store!ReplacePointer
<1>2. CallInv(writer[w], current, manifests, DOMAIN files, archive)
  BY DEF StoreInv, WritersInv
<1>3. Store!Content(current') = [d \in Store!Datasets |-> Store!Content(writer[w].new)[d]]
  BY <1>1 DEF Store!Content
<1>4. ASSUME NEW offer \in Offers, NEW todo \in SUBSET DOMAIN Store!BatchOf(offer),
             Publishes(writer[w], offer, todo, current)
      PROVE  Store!Atomic!Publish
  <2>1. \A d \in Store!Datasets : Store!Content(writer[w].new)[d] =
            IF d \in DOMAIN Store!BatchOf(offer) THEN Store!Merged(Store!Content(current)[d], Store!BatchOf(offer)[d])
                                           ELSE Store!Content(current)[d]
    BY <1>1, <1>4 DEF Publishes, Building
  <2>2. Store!Content(current') =
            [d \in Store!Datasets |-> IF d \in DOMAIN Store!BatchOf(offer)
                                THEN Store!Merged(Store!Content(current)[d], Store!BatchOf(offer)[d])
                                ELSE Store!Content(current)[d]]
    BY <1>3, <2>1
  <2> QED BY <1>1, <2>2 DEF Store!Atomic!Publish
<1>5. CASE Retires(writer[w], current)
  <2> DEFINE gone == writer[w].gone \intersect Store!Datasets
  <2>1. \A d \in Store!Datasets : Store!Content(writer[w].new)[d] =
            IF d \in gone THEN {} ELSE Store!Content(current)[d]
    BY <1>1, <1>5 DEF Retires, Building
  <2>2. Store!Content(current') =
            [d \in Store!Datasets |-> IF d \in gone THEN {} ELSE Store!Content(current)[d]]
    <3> HIDE DEF gone
    <3> QED BY <1>3, <2>1
  <2>3. gone \in SUBSET Store!Datasets
    OBVIOUS
  <2> HIDE DEF gone
  <2> QED BY <1>1, <2>2, <2>3 DEF Store!Atomic!Retire
<1> QED BY <1>1, <1>2, <1>4, <1>5 DEF CallInv, Publishing, Building

\* A reader that opens the store sees what is published.
LEMMA OpenReaderOpens ==
  ASSUME StoreInv, NEW r \in Readers, Store!OpenReader(r)
  PROVE  Store!Atomic!Open(r)
<1> DEFINE view == [q \in Readers |-> IF reader[q].open THEN Store!Content(reader[q].snapshot) ELSE <<>>]
           seen == [q \in Readers |-> reader[q].read]
<1>1. /\ ~reader[r].open /\ current' = current /\ DOMAIN reader = Readers
      /\ reader' = [reader EXCEPT ![r] = [open |-> TRUE, snapshot |-> current, read |-> {}]]
  BY DEF Store!OpenReader, Store!Disk, StoreInv, ReadersInv
<1>2. reader'[r] = [open |-> TRUE, snapshot |-> current, read |-> {}]
      /\ \A q \in Readers \ {r} : reader'[q] = reader[q]
  BY <1>1
<1>3. view' = [view EXCEPT ![r] = Store!Content(current)]
  <2>1. ASSUME NEW q \in Readers
        PROVE  (IF reader'[q].open THEN Store!Content(reader'[q].snapshot) ELSE <<>>)
                   = IF q = r THEN Store!Content(current) ELSE view[q]
    BY <1>2
  <2>2. view' = [q \in Readers |-> IF q = r THEN Store!Content(current) ELSE view[q]]
    BY <2>1
  <2>3. DOMAIN view = Readers
    OBVIOUS
  <2> HIDE DEF view
  <2> QED BY <2>2, <2>3
<1>4. reader[r].read = {}
  BY <1>1 DEF StoreInv, ReadersInv, ReaderInv
<1>5. seen' = seen
  <2>1. \A q \in Readers : reader'[q].read = reader[q].read
    BY <1>2, <1>4
  <2> QED BY <2>1
<1>6. view[r] = <<>>
  BY <1>1
<1> QED BY <1>1, <1>3, <1>5, <1>6 DEF Store!Atomic!Open, Store!Atomic!Closed

\* What it reads later is what it saw then.
LEMMA LoadCacheReads ==
  ASSUME StoreInv, NEW r \in Readers, NEW d \in Store!Datasets, Store!LoadCache(r, d)
  PROVE  Store!Atomic!Read(r, d)
<1> DEFINE snapshot == reader[r].snapshot
           view == [q \in Readers |-> IF reader[q].open THEN Store!Content(reader[q].snapshot) ELSE <<>>]
           seen == [q \in Readers |-> reader[q].read]
           read == {<<d, Store!Stored(snapshot, d)>>}
<1>1. /\ reader[r].open /\ current' = current /\ DOMAIN reader = Readers
      /\ reader' = [reader EXCEPT ![r].read = read]
  BY DEF Store!LoadCache, Store!Disk, StoreInv, ReadersInv
<1>2. Store!Stored(snapshot, d) = Store!Content(snapshot)[d]
  <2>1. Kept(snapshot, DOMAIN files, archive)
    BY DEF StoreInv, ReadersInv, ReaderInv
  <2> HIDE DEF snapshot
  <2> QED BY <2>1, StoredIsContent DEF StoreInv
<1>3. /\ reader'[r] = [open |-> reader[r].open, snapshot |-> snapshot, read |-> read]
      /\ \A q \in Readers \ {r} : reader'[q] = reader[q]
  <2>1. reader[r] = [open |-> reader[r].open, snapshot |-> snapshot, read |-> reader[r].read]
    BY DEF StoreInv, ReadersInv, ReaderInv
  <2>2. reader'[r] = [reader[r] EXCEPT !.read = read]
    BY <1>1
  <2>3. \A q \in Readers \ {r} : reader'[q] = reader[q]
    <3> HIDE DEF read
    <3> QED BY <1>1
  <2> HIDE DEF read, snapshot
  <2> QED BY <2>1, <2>2, <2>3
<1>4. view[r] = Store!Content(snapshot)
  BY <1>1
<1>5. view[r] # <<>>
  <2>1. d \in DOMAIN Store!Content(snapshot)
    BY DEF Store!Content
  <2>2. DOMAIN <<>> = {}
    OBVIOUS
  <2> HIDE DEF snapshot
  <2> QED BY <1>4, <2>1, <2>2
<1>6. view' = view
  <2>1. \A q \in Readers : reader'[q].open = reader[q].open /\ reader'[q].snapshot = reader[q].snapshot
    BY <1>3
  <2> QED BY <2>1 DEF Store!Content
<1>7. seen' = [seen EXCEPT ![r] = {<<d, view[r][d]>>}]
  <2>1. read = {<<d, view[r][d]>>}
    BY <1>2, <1>4
  <2>2. seen' = [seen EXCEPT ![r] = read]
    <3>1. \A q \in Readers : reader'[q].read = IF q = r THEN read ELSE reader[q].read
      <4> HIDE DEF read, snapshot
      <4> QED BY <1>3
    <3>2. seen' = [q \in Readers |-> IF q = r THEN read ELSE seen[q]]
      <4> HIDE DEF read
      <4> QED BY <3>1
    <3>3. DOMAIN seen = Readers
      OBVIOUS
    <3> HIDE DEF read, seen
    <3> QED BY <3>2, <3>3
  <2> QED BY <2>1, <2>2
<1> QED BY <1>1, <1>5, <1>6, <1>7 DEF Store!Atomic!Read, Store!Atomic!Closed

\* A step of the storage is a step of the atomic store, or no step.
LEMMA AtomicStep ==
  ASSUME StoreInv, Store!DataNext
  PROVE  [Store!Atomic!StoreNext]_(Store!Atomic!atomicVars)
<1>1. ASSUME NEW w \in Writers,
             Store!Fetch(w) \/ Store!Archive(w) \/ Store!AskRetire(w) \/ Store!TakeLock(w) \/ Store!Capture(w)
                 \/ Store!WriteTable(w) \/ Store!WriteManifest(w) \/ Store!Stop(w)
      PROVE  UNCHANGED Store!Atomic!atomicVars
  <2>1. UNCHANGED <<current, reader>>
    BY <1>1 DEF Store!Fetch, Store!Archive, Store!AskRetire, Store!TakeLock, Store!Capture, Store!WriteTable, Store!WriteManifest, Store!Stop, Store!Begins, Store!Disk
  <2> QED BY <2>1, OutOfSight
<1>2. ASSUME NEW w \in Writers, Store!ReplacePointer(w)
      PROVE  Store!Atomic!StoreNext
  BY <1>2, PointerPublishes DEF Store!Atomic!StoreNext
<1>3. ASSUME NEW r \in Readers, Store!OpenReader(r)
      PROVE  Store!Atomic!StoreNext
  BY <1>3, OpenReaderOpens DEF Store!Atomic!StoreNext
<1>4. ASSUME NEW r \in Readers, NEW d \in Store!Datasets, Store!LoadCache(r, d)
      PROVE  Store!Atomic!StoreNext
  BY <1>4, LoadCacheReads DEF Store!Atomic!StoreNext
<1> QED BY <1>1, <1>2, <1>3, <1>4 DEF Store!DataNext

\* Publications of several processes, each in several writes, behave as if each were
\* merged at once on top of all before it, and a reader sees the content at one moment
\* (storage.py: the pointer is "the only commit point").
THEOREM AtomicStoreImplemented == ResearchSpec => ImplementsAtomicStore
<1>1. ResearchInit => Store!Atomic!StoreInit
  <2> SUFFICES ASSUME Store!DataInit PROVE Store!Atomic!StoreInit
    BY DEF ResearchInit
  <2>1. Store!Content(current) = [d \in Store!Datasets |-> {}]
    BY DEF Store!DataInit, Store!Content, Store!Nothing
  <2>2. \A r \in Readers : ~reader[r].open /\ reader[r].read = {}
    BY DEF Store!DataInit, Store!Shut
  <2> QED BY <2>1, <2>2 DEF Store!Atomic!StoreInit, Store!Atomic!Closed
<1>2. StoreInv /\ [ResearchNext]_researchVars => [Store!Atomic!StoreNext]_(Store!Atomic!atomicVars)
  <2> SUFFICES ASSUME StoreInv, [ResearchNext]_researchVars
               PROVE  [Store!Atomic!StoreNext]_(Store!Atomic!atomicVars)
    OBVIOUS
  <2>1. CASE UNCHANGED storeVars
    BY <2>1, OutOfSight DEF storeVars
  <2> QED BY <2>1, PartsStep, AtomicStep
<1> QED BY <1>1, <1>2, StoreCorrect, PTL
        DEF ResearchSpec, ImplementsAtomicStore, Store!ImplementsAtomicStore, Store!Atomic!StoreSpec

-------------------------------------------------------------------------------
(* Orders on their way to the exchange: the inductive invariant, in parts    *)

Kids == [parent : Nat \ {0}, offset : Routes!Offsets, flag : Routes!Offsets, quantity : Nat \ {0},
         filled : Nat, state : {"held", "sent", "done"}, frozenYd : Nat, frozenTd : Nat]
Lots == [yd : Nat, td : Nat, frozenYd : Nat, frozenTd : Nat]
Asks == [offset : Routes!Offsets, quantity : Nat, answer : {"routing", "reservation", "accepted"}]
Pieces == [offset : Routes!Offsets, quantity : Nat \ {0}]

\* A child holds what it has yet to trade, of the day that its offset names, and
\* left with the flag of that offset.
KidSound(c) ==
    /\ c \in Kids /\ c.filled <= c.quantity
    /\ c.state = "done" \/ c.offset = "OPEN" => c.frozenYd = 0 /\ c.frozenTd = 0
    /\ c.state # "done" =>
          /\ c.filled < c.quantity
          /\ c.offset # "OPEN" => c.frozenYd + c.frozenTd = c.quantity - c.filled
          /\ c.offset = "CLOSE_TODAY" => c.frozenYd = 0
          /\ c.offset = "CLOSE_YESTERDAY" => c.frozenTd = 0
          /\ c.offset \in Routes!Explicit => Routes!SupportsToday(terms.capability)
          /\ c.offset = "CLOSE" => terms.capability # "split"
    /\ c.state = "sent" => c.flag = c.offset

YdIn(s) == [i \in 1..Len(s) |-> s[i].frozenYd]
TdIn(s) == [i \in 1..Len(s) |-> s[i].frozenTd]
AskedIn(s) == [i \in 1..Len(s) |-> s[i].quantity]

\* The book freezes what the children hold, and no more than it has.
BookSound(p) == p \in Lots /\ p.frozenYd <= p.yd /\ p.frozenTd <= p.td
BookHolds(p, s) ==
    /\ p.frozenYd = Total(YdIn(s), 1..Len(s))
    /\ p.frozenTd = Total(TdIn(s), 1..Len(s))

OwnIn(s, r) == {i \in 1..Len(s) : s[i].parent = r}
Whole(s, r, request) ==
    /\ OwnIn(s, r) = {} <=> request.answer # "accepted"
    /\ OwnIn(s, r) # {} => Total(AskedIn(s), OwnIn(s, r)) = request.quantity

KidsSound == children \in Seq(Kids) /\ \A i \in 1..Len(children) : KidSound(children[i])
BooksSound == BookSound(position) /\ BookHolds(position, children)
RequestsWhole ==
    /\ requests \in Seq(Asks)
    /\ \A i \in 1..Len(children) : children[i].parent \in 1..Len(requests)
    /\ \A r \in 1..Len(requests) : Whole(children, r, requests[r])
TermsKnown ==
    terms \in [capability : Routes!Capabilities, priority : {"yesterday", "today"}, sameFee : BOOLEAN]

-------------------------------------------------------------------------------
(* What one child changes *)

\* A child that changes changes the sums by what it changes.
LEMMA SumsChange ==
  ASSUME NEW n \in Nat, NEW i \in 1..n, NEW s, NEW t, Len(s) = n, Len(t) = n,
         \A j \in 1..n : s[j] \in Kids /\ t[j] \in Kids,
         \A j \in 1..n \ {i} : s[j].frozenYd = t[j].frozenYd /\ s[j].frozenTd = t[j].frozenTd
  PROVE  /\ Total(YdIn(t), 1..n) = Total(YdIn(s), 1..n) + t[i].frozenYd - s[i].frozenYd
         /\ Total(TdIn(t), 1..n) = Total(TdIn(s), 1..n) + t[i].frozenTd - s[i].frozenTd
<1>1. IsFiniteSet(1..n) /\ i \in 1..n
  BY FS_Interval
<1>2. \A k \in Kids : k.frozenYd \in Int /\ k.frozenTd \in Int
  BY DEF Kids
<1>3. \A j \in 1..n : /\ YdIn(s)[j] = s[j].frozenYd /\ YdIn(t)[j] = t[j].frozenYd
                      /\ TdIn(s)[j] = s[j].frozenTd /\ TdIn(t)[j] = t[j].frozenTd
  BY DEF YdIn, TdIn
<1>4. \A j \in 1..n : YdIn(s)[j] \in Int /\ YdIn(t)[j] \in Int
  BY <1>2, <1>3
<1>5. \A j \in 1..n : TdIn(s)[j] \in Int /\ TdIn(t)[j] \in Int
  BY <1>2, <1>3
<1>6. \A j \in 1..n : j # i => YdIn(t)[j] = YdIn(s)[j]
  BY <1>3
<1>7. \A j \in 1..n : j # i => TdIn(t)[j] = TdIn(s)[j]
  BY <1>3
<1>8. Total(YdIn(t), 1..n) = Total(YdIn(s), 1..n) + YdIn(t)[i] - YdIn(s)[i]
  BY ONLY <1>1, <1>4, <1>6, TotalChanged
<1>9. Total(TdIn(t), 1..n) = Total(TdIn(s), 1..n) + TdIn(t)[i] - TdIn(s)[i]
  BY ONLY <1>1, <1>5, <1>7, TotalChanged
<1> QED BY <1>3, <1>8, <1>9

LEMMA KidChanges ==
  ASSUME NEW s \in Seq(Kids), NEW i \in 1..Len(s), NEW c \in Kids
  PROVE  LET t == [s EXCEPT ![i] = c] IN
         /\ t \in Seq(Kids) /\ Len(t) = Len(s) /\ t[i] = c
         /\ \A j \in 1..Len(s) : j # i => t[j] = s[j]
         /\ Total(YdIn(t), 1..Len(t)) = Total(YdIn(s), 1..Len(s)) + c.frozenYd - s[i].frozenYd
         /\ Total(TdIn(t), 1..Len(t)) = Total(TdIn(s), 1..Len(s)) + c.frozenTd - s[i].frozenTd
<1> DEFINE t == [s EXCEPT ![i] = c]
<1>1. /\ t \in Seq(Kids) /\ Len(t) = Len(s) /\ t[i] = c /\ Len(s) \in Nat
      /\ \A j \in 1..Len(s) : j # i => t[j] = s[j]
      /\ \A j \in 1..Len(s) : t[j] \in Kids /\ s[j] \in Kids
  OBVIOUS
<1> HIDE DEF t
<1>3. \A j \in 1..Len(s) \ {i} : s[j].frozenYd = t[j].frozenYd /\ s[j].frozenTd = t[j].frozenTd
  BY <1>1
<1>4. /\ t \in Seq(Kids) /\ Len(t) = Len(s) /\ Len(s) \in Nat
      /\ \A j \in 1..Len(s) : s[j] \in Kids /\ t[j] \in Kids
  BY <1>1
<1>2. /\ Total(YdIn(t), 1..Len(s)) = Total(YdIn(s), 1..Len(s)) + t[i].frozenYd - s[i].frozenYd
      /\ Total(TdIn(t), 1..Len(s)) = Total(TdIn(s), 1..Len(s)) + t[i].frozenTd - s[i].frozenTd
  <2>1. i \in 1..Len(s)
    OBVIOUS
  <2> QED BY ONLY <1>3, <1>4, <2>1, SumsChange
<1> QED BY <1>1, <1>2 DEF t

\* What belongs to a request stays with it.
LEMMA OwnStays ==
  ASSUME NEW s \in Seq(Kids), NEW t \in Seq(Kids), Len(t) = Len(s),
         \A j \in 1..Len(s) : t[j].parent = s[j].parent /\ t[j].quantity = s[j].quantity,
         NEW r, NEW request, Whole(s, r, request)
  PROVE  Whole(t, r, request)
<1>1. OwnIn(t, r) = OwnIn(s, r)
  BY DEF OwnIn
<1>2. IsFiniteSet(OwnIn(s, r))
  <2>1. Len(s) \in Nat
    OBVIOUS
  <2>2. IsFiniteSet(1..Len(s)) /\ OwnIn(s, r) \subseteq 1..Len(s)
    BY <2>1, FS_Interval DEF OwnIn
  <2> QED BY <2>2, FS_Subset
<1>3. \A j \in OwnIn(s, r) : AskedIn(s)[j] = AskedIn(t)[j]
  BY DEF OwnIn, AskedIn
<1>4. Total(AskedIn(t), OwnIn(s, r)) = Total(AskedIn(s), OwnIn(s, r))
  BY <1>2, <1>3, TotalSame
<1> QED BY <1>1, <1>4 DEF Whole

\* One child more.
LEMMA KidAdds ==
  ASSUME NEW s \in Seq(Kids), NEW c \in Kids
  PROVE  LET t == Append(s, c) IN
         /\ t \in Seq(Kids) /\ Len(t) = Len(s) + 1 /\ t[Len(t)] = c
         /\ \A j \in 1..Len(s) : t[j] = s[j]
         /\ Total(YdIn(t), 1..Len(t)) = Total(YdIn(s), 1..Len(s)) + c.frozenYd
         /\ Total(TdIn(t), 1..Len(t)) = Total(TdIn(s), 1..Len(s)) + c.frozenTd
<1> DEFINE t == Append(s, c)
<1>1. /\ t \in Seq(Kids) /\ Len(t) = Len(s) + 1 /\ t[Len(t)] = c
      /\ \A j \in 1..Len(s) : t[j] = s[j]
  OBVIOUS
<1> HIDE DEF t
<1> DEFINE n == Len(s)
           S == 1..n
<1>2. n \in Nat /\ IsFiniteSet(S) /\ n + 1 \notin S /\ 1..Len(t) = S \union {n + 1}
  <2>1. n \in Nat
    OBVIOUS
  <2>2. \A m \in Nat : m + 1 \notin 1..m /\ 1..(m + 1) = 1..m \union {m + 1}
    OBVIOUS
  <2>3. Len(t) = n + 1
    BY <1>1
  <2> HIDE DEF n
  <2> QED BY <2>1, <2>2, <2>3, FS_Interval
<1>3. \A j \in S \union {n + 1} : t[j] \in Kids
  BY <1>1, <1>2
<1>4. \A j \in S \union {n + 1} : YdIn(t)[j] = t[j].frozenYd /\ TdIn(t)[j] = t[j].frozenTd
  BY <1>2 DEF YdIn, TdIn
<1>5. \A j \in S : YdIn(s)[j] = t[j].frozenYd /\ TdIn(s)[j] = t[j].frozenTd
  BY <1>1 DEF YdIn, TdIn
<1>6. \A k \in Kids : k.frozenYd \in Int /\ k.frozenTd \in Int
  BY DEF Kids
<1>7. t[n + 1] = c
  BY <1>1
<1> HIDE DEF n, S
<1>8. Total(YdIn(t), S \union {n + 1}) = YdIn(t)[n + 1] + Total(YdIn(t), S)
  <2>1. \A j \in S \union {n + 1} : YdIn(t)[j] \in Int
    BY <1>3, <1>4, <1>6
  <2> QED BY <1>2, <2>1, TotalWith
<1>9. Total(TdIn(t), S \union {n + 1}) = TdIn(t)[n + 1] + Total(TdIn(t), S)
  <2>1. \A j \in S \union {n + 1} : TdIn(t)[j] \in Int
    BY <1>3, <1>4, <1>6
  <2> QED BY <1>2, <2>1, TotalWith
<1>10. Total(YdIn(t), S) = Total(YdIn(s), S) /\ Total(TdIn(t), S) = Total(TdIn(s), S)
  <2>1. \A j \in S : YdIn(t)[j] = YdIn(s)[j] /\ TdIn(t)[j] = TdIn(s)[j]
    BY <1>4, <1>5
  <2> QED BY <1>2, <2>1, TotalSame
<1>11. Total(YdIn(s), S) \in Int /\ Total(TdIn(s), S) \in Int
  <2>1. \A j \in S : YdIn(s)[j] \in Int /\ TdIn(s)[j] \in Int
    BY <1>3, <1>5, <1>6
  <2> QED BY <1>2, <2>1, TotalType
<1>12. c.frozenYd \in Int /\ c.frozenTd \in Int
  BY <1>6
<1>13. Total(YdIn(t), 1..Len(t)) = Total(YdIn(s), S) + c.frozenYd
  <2>1. YdIn(t)[n + 1] = c.frozenYd
    BY <1>4, <1>7
  <2>2. Total(YdIn(t), 1..Len(t)) = c.frozenYd + Total(YdIn(s), S)
    BY <1>2, <1>8, <1>10, <2>1
  <2> QED BY <1>11, <1>12, <2>2
<1>14. Total(TdIn(t), 1..Len(t)) = Total(TdIn(s), S) + c.frozenTd
  <2>1. TdIn(t)[n + 1] = c.frozenTd
    BY <1>4, <1>7
  <2>2. Total(TdIn(t), 1..Len(t)) = c.frozenTd + Total(TdIn(s), S)
    BY <1>2, <1>9, <1>10, <2>1
  <2> QED BY <1>11, <1>12, <2>2
<1> QED BY <1>1, <1>13, <1>14 DEF n, S, t

\* It belongs to its own request and to no other.
LEMMA KidAddsOwn ==
  ASSUME NEW s \in Seq(Kids), NEW c \in Kids, NEW r
  PROVE  LET t == Append(s, c) IN
         /\ c.parent # r => OwnIn(t, r) = OwnIn(s, r)
                            /\ Total(AskedIn(t), OwnIn(t, r)) = Total(AskedIn(s), OwnIn(s, r))
         /\ c.parent = r => OwnIn(t, r) # {}
                            /\ Total(AskedIn(t), OwnIn(t, r)) = Total(AskedIn(s), OwnIn(s, r)) + c.quantity
<1> DEFINE t == Append(s, c)
<1>1. /\ t \in Seq(Kids) /\ Len(t) = Len(s) + 1 /\ t[Len(t)] = c
      /\ \A j \in 1..Len(s) : t[j] = s[j]
  OBVIOUS
<1> HIDE DEF t
<1> DEFINE n == Len(s)
           S == OwnIn(s, r)
<1>2. n \in Nat /\ 1..Len(t) = 1..n \union {n + 1} /\ n + 1 \notin 1..n
  <2>1. n \in Nat
    OBVIOUS
  <2>2. \A m \in Nat : m + 1 \notin 1..m /\ 1..(m + 1) = 1..m \union {m + 1}
    OBVIOUS
  <2> QED BY <1>1, <2>1, <2>2
<1>3. IsFiniteSet(S) /\ S \subseteq 1..n /\ n + 1 \notin S
  <2>1. S \subseteq 1..n
    BY DEF OwnIn
  <2>2. IsFiniteSet(1..n)
    BY <1>2, FS_Interval
  <2> HIDE DEF S, n
  <2> QED BY <1>2, <2>1, <2>2, FS_Subset
<1>4. \A j \in S : AskedIn(t)[j] = AskedIn(s)[j]
  BY <1>1, <1>2, <1>3 DEF AskedIn
<1>5. Total(AskedIn(t), S) = Total(AskedIn(s), S)
  BY <1>3, <1>4, TotalSame
<1>6. AskedIn(t)[n + 1] = c.quantity /\ c.quantity \in Int
  BY <1>1, <1>2 DEF AskedIn, Kids
<1>7. ASSUME c.parent # r PROVE OwnIn(t, r) = S
  BY <1>1, <1>2, <1>7 DEF OwnIn
<1>8. ASSUME c.parent = r PROVE OwnIn(t, r) = S \union {n + 1}
  BY <1>1, <1>2, <1>8 DEF OwnIn
<1>9. ASSUME NEW j \in S PROVE AskedIn(s)[j] \in Int
  <2>1. j \in 1..Len(s)
    BY DEF OwnIn
  <2>2. s[j] \in Kids
    BY <2>1
  <2>3. AskedIn(s)[j] = s[j].quantity
    BY <2>1 DEF AskedIn
  <2>4. s[j].quantity \in Nat
    BY <2>2 DEF Kids
  <2> QED BY <2>3, <2>4
<1> HIDE DEF n, S
<1>10. Total(AskedIn(s), S) \in Int
  BY <1>3, <1>9, TotalType
<1>11. Total(AskedIn(t), S \union {n + 1}) = AskedIn(t)[n + 1] + Total(AskedIn(t), S)
  <2>1. \A j \in S \union {n + 1} : AskedIn(t)[j] \in Int
    BY <1>4, <1>6, <1>9
  <2> QED BY <1>3, <2>1, TotalWith
<1>12. Total(AskedIn(t), S \union {n + 1}) = Total(AskedIn(s), S) + c.quantity
  BY <1>5, <1>6, <1>10, <1>11
<1> QED BY <1>5, <1>7, <1>8, <1>12 DEF S, t

-------------------------------------------------------------------------------
(* What is frozen *)

LEMMA LesserOfTwo ==
  ASSUME NEW a \in Nat, NEW b \in Nat
  PROVE  Routes!Min({a, b}) = IF a <= b THEN a ELSE b
<1> DEFINE m == IF a <= b THEN a ELSE b
<1>1. /\ m \in {a, b} /\ \A y \in {a, b} : m <= y
      /\ \A x \in {a, b} : (\A y \in {a, b} : x <= y) => x = m
  OBVIOUS
<1> HIDE DEF m
<1>2. (CHOOSE x \in {a, b} : \A y \in {a, b} : x <= y) = m
  BY <1>1
<1> QED BY <1>2 DEF Routes!Min, m

FreezesYd(p, c) ==
    CASE c.offset \in {"OPEN", "CLOSE_TODAY"} -> 0
      [] c.offset = "CLOSE_YESTERDAY" -> c.quantity
      [] c.offset = "CLOSE" -> IF p.yd - p.frozenYd <= c.quantity THEN p.yd - p.frozenYd ELSE c.quantity
FreezesTd(p, c) == IF c.offset = "OPEN" THEN 0 ELSE c.quantity - FreezesYd(p, c)

LEMMA FreezesIs ==
  ASSUME NEW p, BookSound(p), NEW c \in Pieces
  PROVE  /\ Routes!Freezes(p, c) = [yd |-> FreezesYd(p, c), td |-> FreezesTd(p, c)]
         /\ FreezesYd(p, c) \in Nat /\ FreezesTd(p, c) \in Nat
         /\ c.offset = "OPEN" => FreezesYd(p, c) = 0 /\ FreezesTd(p, c) = 0
         /\ c.offset # "OPEN" => FreezesYd(p, c) + FreezesTd(p, c) = c.quantity
         /\ c.offset = "CLOSE_TODAY" => FreezesYd(p, c) = 0
         /\ c.offset = "CLOSE_YESTERDAY" => FreezesTd(p, c) = 0
<1>1. /\ c.offset \in {"OPEN", "CLOSE", "CLOSE_TODAY", "CLOSE_YESTERDAY"} /\ c.quantity \in Nat
      /\ p.yd - p.frozenYd \in Nat
  BY DEF Pieces, BookSound, Lots, Routes!Offsets, Routes!Explicit
<1>2. Routes!Min({Routes!AvailableYd(p), c.quantity})
        = IF p.yd - p.frozenYd <= c.quantity THEN p.yd - p.frozenYd ELSE c.quantity
  BY <1>1, LesserOfTwo DEF Routes!AvailableYd
<1>3. Routes!Freezes(p, c) = [yd |-> FreezesYd(p, c), td |-> FreezesTd(p, c)]
  BY <1>1, <1>2 DEF Routes!Freezes, FreezesYd, FreezesTd
<1>4. CASE c.offset = "CLOSE"
  BY <1>1, <1>3, <1>4 DEF FreezesYd, FreezesTd
<1>5. CASE c.offset # "CLOSE"
  BY <1>1, <1>3, <1>5 DEF FreezesYd, FreezesTd
<1> QED BY <1>4, <1>5

\* What can be frozen leaves a sound book.
LEMMA FrozenIs ==
  ASSUME NEW p, BookSound(p), NEW c \in Pieces, Routes!CanFreeze(p, c)
  PROVE  /\ BookSound(Routes!Frozen(p, c))
         /\ Routes!Frozen(p, c).yd = p.yd /\ Routes!Frozen(p, c).td = p.td
         /\ Routes!Frozen(p, c).frozenYd = p.frozenYd + FreezesYd(p, c)
         /\ Routes!Frozen(p, c).frozenTd = p.frozenTd + FreezesTd(p, c)
<1> DEFINE a == FreezesYd(p, c)
           b == FreezesTd(p, c)
<1>1. a \in Nat /\ b \in Nat /\ Routes!Freezes(p, c).yd = a /\ Routes!Freezes(p, c).td = b
  BY FreezesIs
<1>2. p \in Lots /\ p.frozenYd + a <= p.yd /\ p.frozenTd + b <= p.td
  <2>1. a <= p.yd - p.frozenYd /\ b <= p.td - p.frozenTd
    BY <1>1 DEF Routes!CanFreeze, Routes!AvailableYd, Routes!AvailableTd
  <2> HIDE DEF a, b
  <2> QED BY <1>1, <2>1 DEF BookSound, Lots
<1>3. Routes!Frozen(p, c) = [p EXCEPT !.frozenYd = @ + a, !.frozenTd = @ + b]
  BY <1>1 DEF Routes!Frozen
<1> HIDE DEF a, b
<1> DEFINE x == p.frozenYd + a
           y == p.frozenTd + b
           q == [p EXCEPT !.frozenYd = x, !.frozenTd = y]
<1>4. [p EXCEPT !.frozenYd = @ + a, !.frozenTd = @ + b] = q
  OBVIOUS
<1>5. x \in Nat /\ y \in Nat /\ x <= p.yd /\ y <= p.td
  BY <1>1, <1>2 DEF Lots
<1> HIDE DEF x, y
<1>6. /\ q \in Lots /\ q.yd = p.yd /\ q.td = p.td /\ q.frozenYd = x /\ q.frozenTd = y
  BY <1>2, <1>5 DEF Lots
<1> HIDE DEF q
<1>7. BookSound(q)
  BY <1>5, <1>6 DEF BookSound
<1> QED BY <1>3, <1>4, <1>6, <1>7 DEF x, y, a, b

\* The child that is reserved for a part of a plan.
Kid(n, p, c) ==
    [parent |-> n, offset |-> c.offset, flag |-> c.offset, quantity |-> c.quantity, filled |-> 0,
     state |-> "held", frozenYd |-> FreezesYd(p, c), frozenTd |-> FreezesTd(p, c)]

\* What may be planned for the exchange.
MayPlan(c) ==
    /\ c.offset \in Routes!Explicit => Routes!SupportsToday(terms.capability)
    /\ c.offset = "CLOSE" => terms.capability # "split"

LEMMA KidIsSound ==
  ASSUME NEW n \in Nat \ {0}, NEW p, BookSound(p), NEW c \in Pieces, MayPlan(c)
  PROVE  KidSound(Kid(n, p, c)) /\ Kid(n, p, c).parent = n /\ Kid(n, p, c).quantity = c.quantity
         /\ Kid(n, p, c).frozenYd = FreezesYd(p, c) /\ Kid(n, p, c).frozenTd = FreezesTd(p, c)
<1> DEFINE a == FreezesYd(p, c)
           b == FreezesTd(p, c)
           k == Kid(n, p, c)
<1>1. /\ a \in Nat /\ b \in Nat
      /\ c.offset = "OPEN" => a = 0 /\ b = 0
      /\ c.offset # "OPEN" => a + b = c.quantity
      /\ c.offset = "CLOSE_TODAY" => a = 0
      /\ c.offset = "CLOSE_YESTERDAY" => b = 0
  BY FreezesIs
<1>2. /\ k.parent = n /\ k.offset = c.offset /\ k.flag = c.offset /\ k.quantity = c.quantity
      /\ k.filled = 0 /\ k.state = "held" /\ k.frozenYd = a /\ k.frozenTd = b
  BY DEF Kid
<1>3. c.offset \in Routes!Offsets /\ c.quantity \in Nat \ {0}
  BY DEF Pieces
<1>4. k \in Kids
  BY <1>1, <1>3 DEF Kids, Kid
<1> HIDE DEF a, b, k
<1>5. KidSound(k)
  BY <1>1, <1>2, <1>3, <1>4 DEF KidSound, MayPlan
<1> QED BY <1>2, <1>5 DEF k, a, b

LEMMA ReserveOne ==
  ASSUME NEW p, BookSound(p), NEW c \in Pieces
  PROVE  Routes!Reserve(p, <<c>>) =
            [fits |-> Routes!CanFreeze(p, c) /\ Routes!FeeKnown(c), position |-> Routes!Frozen(p, c),
             children |-> <<Kid(Len(requests) + 1, p, c)>>]
<1> DEFINE plan == <<c>>
           Is(f) == f = [i \in 0..Len(plan) |-> IF i = 0 THEN p ELSE Routes!Frozen(f[i - 1], plan[i])]
           g == [i \in 0..1 |-> IF i = 0 THEN p ELSE Routes!Frozen(p, c)]
           after == CHOOSE f : Is(f)
<1>1. Len(plan) = 1 /\ plan[1] = c
  OBVIOUS
<1>2. Is(g)
  BY <1>1
<1>3. Is(after)
  BY <1>2, Zenon
<1> HIDE DEF after
<1>4. after[0] = p /\ after[1] = Routes!Frozen(p, c)
  BY <1>1, <1>3
<1>5. Routes!Reserve(p, plan) =
        [fits |-> \A i \in 1..Len(plan) :
                     Routes!CanFreeze(after[i - 1], plan[i]) /\ Routes!FeeKnown(plan[i]),
         position |-> after[Len(plan)],
         children |-> [i \in 1..Len(plan) |->
             [parent |-> Len(requests) + 1, offset |-> plan[i].offset, flag |-> plan[i].offset,
              quantity |-> plan[i].quantity, filled |-> 0, state |-> "held",
              frozenYd |-> Routes!Freezes(after[i - 1], plan[i]).yd,
              frozenTd |-> Routes!Freezes(after[i - 1], plan[i]).td]]]
  BY Zenon DEF Routes!Reserve, after
<1>6. (\A i \in 1..Len(plan) : Routes!CanFreeze(after[i - 1], plan[i]) /\ Routes!FeeKnown(plan[i]))
        <=> (Routes!CanFreeze(p, c) /\ Routes!FeeKnown(c))
  BY <1>1, <1>4
<1>7. Routes!Freezes(p, c).yd = FreezesYd(p, c) /\ Routes!Freezes(p, c).td = FreezesTd(p, c)
  BY FreezesIs
<1>8. [i \in 1..Len(plan) |->
             [parent |-> Len(requests) + 1, offset |-> plan[i].offset, flag |-> plan[i].offset,
              quantity |-> plan[i].quantity, filled |-> 0, state |-> "held",
              frozenYd |-> Routes!Freezes(after[i - 1], plan[i]).yd,
              frozenTd |-> Routes!Freezes(after[i - 1], plan[i]).td]]
        = <<Kid(Len(requests) + 1, p, c)>>
  BY <1>1, <1>4, <1>7 DEF Kid
<1> HIDE DEF plan
<1> QED BY <1>1, <1>4, <1>5, <1>6, <1>8 DEF plan

LEMMA ReserveTwo ==
  ASSUME NEW p, BookSound(p), NEW c \in Pieces, NEW d \in Pieces, BookSound(Routes!Frozen(p, c))
  PROVE  Routes!Reserve(p, <<c, d>>) =
            [fits |-> /\ Routes!CanFreeze(p, c) /\ Routes!FeeKnown(c)
                      /\ Routes!CanFreeze(Routes!Frozen(p, c), d) /\ Routes!FeeKnown(d),
             position |-> Routes!Frozen(Routes!Frozen(p, c), d),
             children |-> <<Kid(Len(requests) + 1, p, c), Kid(Len(requests) + 1, Routes!Frozen(p, c), d)>>]
<1> DEFINE plan == <<c, d>>
           p2 == Routes!Frozen(p, c)
           p3 == Routes!Frozen(p2, d)
           Is(f) == f = [i \in 0..Len(plan) |-> IF i = 0 THEN p ELSE Routes!Frozen(f[i - 1], plan[i])]
           g == [i \in 0..2 |-> IF i = 0 THEN p ELSE IF i = 1 THEN p2 ELSE p3]
           after == CHOOSE f : Is(f)
<1>1. Len(plan) = 2 /\ plan[1] = c /\ plan[2] = d
  OBVIOUS
<1>2. Is(g)
  BY <1>1
<1>3. Is(after)
  BY <1>2, Zenon
<1> HIDE DEF after
<1>4. after[0] = p /\ after[1] = p2 /\ after[2] = p3
  BY <1>1, <1>3
<1>5. Routes!Reserve(p, plan) =
        [fits |-> \A i \in 1..Len(plan) :
                     Routes!CanFreeze(after[i - 1], plan[i]) /\ Routes!FeeKnown(plan[i]),
         position |-> after[Len(plan)],
         children |-> [i \in 1..Len(plan) |->
             [parent |-> Len(requests) + 1, offset |-> plan[i].offset, flag |-> plan[i].offset,
              quantity |-> plan[i].quantity, filled |-> 0, state |-> "held",
              frozenYd |-> Routes!Freezes(after[i - 1], plan[i]).yd,
              frozenTd |-> Routes!Freezes(after[i - 1], plan[i]).td]]]
  BY Zenon DEF Routes!Reserve, after
<1>6. (\A i \in 1..Len(plan) : Routes!CanFreeze(after[i - 1], plan[i]) /\ Routes!FeeKnown(plan[i]))
        = (/\ Routes!CanFreeze(p, c) /\ Routes!FeeKnown(c)
           /\ Routes!CanFreeze(p2, d) /\ Routes!FeeKnown(d))
  <2> HIDE DEF p2, p3
  <2> QED BY <1>1, <1>4
<1>7. /\ Routes!Freezes(p, c).yd = FreezesYd(p, c) /\ Routes!Freezes(p, c).td = FreezesTd(p, c)
      /\ Routes!Freezes(p2, d).yd = FreezesYd(p2, d) /\ Routes!Freezes(p2, d).td = FreezesTd(p2, d)
  BY FreezesIs
<1>8. [i \in 1..Len(plan) |->
             [parent |-> Len(requests) + 1, offset |-> plan[i].offset, flag |-> plan[i].offset,
              quantity |-> plan[i].quantity, filled |-> 0, state |-> "held",
              frozenYd |-> Routes!Freezes(after[i - 1], plan[i]).yd,
              frozenTd |-> Routes!Freezes(after[i - 1], plan[i]).td]]
        = <<Kid(Len(requests) + 1, p, c), Kid(Len(requests) + 1, p2, d)>>
  <2> HIDE DEF p2, p3
  <2> QED BY <1>1, <1>4, <1>7 DEF Kid
<1> HIDE DEF plan
<1> QED BY <1>1, <1>4, <1>5, <1>6, <1>8 DEF plan

-------------------------------------------------------------------------------
(* What is planned *)

AvYd(p) == p.yd - p.frozenYd
AvTd(p) == p.td - p.frozenTd

\* There are lots of the days that a piece names.
Offered(p, c) ==
    /\ c.offset = "CLOSE" => c.quantity <= AvYd(p) + AvTd(p)
    /\ c.offset = "CLOSE_TODAY" => c.quantity <= AvTd(p)
    /\ c.offset = "CLOSE_YESTERDAY" => c.quantity <= AvYd(p)

LEMMA OfferedFits ==
  ASSUME NEW p, BookSound(p), NEW c \in Pieces, Offered(p, c)
  PROVE  Routes!CanFreeze(p, c)
<1>1. /\ c.offset \in {"OPEN", "CLOSE", "CLOSE_TODAY", "CLOSE_YESTERDAY"} /\ c.quantity \in Nat
      /\ p.yd - p.frozenYd \in Nat /\ p.td - p.frozenTd \in Nat
  BY DEF Pieces, BookSound, Lots, Routes!Offsets, Routes!Explicit
<1>2. FreezesYd(p, c) <= p.yd - p.frozenYd /\ FreezesTd(p, c) <= p.td - p.frozenTd
  BY <1>1 DEF Offered, AvYd, AvTd, FreezesYd, FreezesTd
<1>3. Routes!Freezes(p, c).yd = FreezesYd(p, c) /\ Routes!Freezes(p, c).td = FreezesTd(p, c)
  BY FreezesIs
<1> QED BY <1>2, <1>3 DEF Routes!CanFreeze, Routes!AvailableYd, Routes!AvailableTd

\* Freezing lots of one day leaves those of the other.
LEMMA OtherDayStays ==
  ASSUME NEW p, BookSound(p), NEW c \in Pieces, NEW d \in Pieces, Offered(p, c), Offered(p, d),
         c.offset \in Routes!Explicit, d.offset \in Routes!Explicit, c.offset # d.offset
  PROVE  Offered(Routes!Frozen(p, c), d)
<1>1. Routes!CanFreeze(p, c)
  BY OfferedFits
<1> DEFINE q == Routes!Frozen(p, c)
<1>2. /\ q.yd = p.yd /\ q.td = p.td
      /\ q.frozenYd = p.frozenYd + FreezesYd(p, c) /\ q.frozenTd = p.frozenTd + FreezesTd(p, c)
  BY <1>1, FrozenIs
<1>3. /\ c.offset = "CLOSE_TODAY" => FreezesYd(p, c) = 0
      /\ c.offset = "CLOSE_YESTERDAY" => FreezesTd(p, c) = 0
  BY FreezesIs
<1> HIDE DEF q
<1>4. p.frozenYd \in Nat /\ p.frozenTd \in Nat
  BY DEF BookSound, Lots
<1>5. ASSUME c.offset = "CLOSE_TODAY" /\ d.offset = "CLOSE_YESTERDAY" PROVE Offered(q, d)
  <2>1. AvYd(q) = AvYd(p)
    BY <1>2, <1>3, <1>4, <1>5 DEF AvYd
  <2>2. d.quantity <= AvYd(p)
    BY <1>5 DEF Offered
  <2> QED BY ONLY <1>5, <2>1, <2>2 DEF Offered
<1>6. ASSUME c.offset = "CLOSE_YESTERDAY" /\ d.offset = "CLOSE_TODAY" PROVE Offered(q, d)
  <2>1. AvTd(q) = AvTd(p)
    BY <1>2, <1>3, <1>4, <1>6 DEF AvTd
  <2>2. d.quantity <= AvTd(p)
    BY <1>6 DEF Offered
  <2> QED BY ONLY <1>6, <2>1, <2>2 DEF Offered
<1>7. /\ c.offset \in {"CLOSE_TODAY", "CLOSE_YESTERDAY"}
      /\ d.offset \in {"CLOSE_TODAY", "CLOSE_YESTERDAY"}
  BY DEF Routes!Explicit
<1> QED BY <1>5, <1>6, <1>7 DEF q

LEMMA Joined ==
  ASSUME NEW c, NEW d
  PROVE  <<c>> \o <<d>> = <<c, d>> /\ <<c>> \o <<>> = <<c>> /\ <<>> \o <<d>> = <<d>>
<1>1. <<c>> \in Seq({c, d}) /\ <<d>> \in Seq({c, d})
  OBVIOUS
<1>2. <<c>> \o <<>> = <<c>> /\ <<>> \o <<d>> = <<d>>
  BY <1>1, ConcatEmptySeq
<1>3. <<c>> \o <<d>> = Append(<<c>>, d)
  BY <1>1, AppendIsConcat
<1>4. Append(<<c>>, d) = <<c, d>>
  <2> DEFINE u == Append(<<c>>, d)
             v == <<c, d>>
  <2>1. u \in Seq({c, d}) /\ Len(u) = 2 /\ u[1] = c /\ u[2] = d
    BY <1>1, AppendProperties
  <2>2. v \in Seq({c, d}) /\ Len(v) = 2 /\ v[1] = c /\ v[2] = d
    OBVIOUS
  <2> HIDE DEF u, v
  <2>3. \A i \in 1..Len(u) : u[i] = v[i]
    BY <2>1, <2>2
  <2>4. u = v
    BY <2>1, <2>2, <2>3, SeqEqual
  <2> QED BY <2>4 DEF u, v
<1> QED BY <1>2, <1>3, <1>4

Alone(plan, p, quantity) ==
    \E c \in Pieces : plan = <<c>> /\ MayPlan(c) /\ Offered(p, c) /\ c.quantity = quantity
Divided(plan, p, quantity) ==
    \E c \in Pieces, d \in Pieces :
        /\ plan = <<c, d>> /\ MayPlan(c) /\ MayPlan(d) /\ Offered(p, c) /\ Offered(p, d)
        /\ c.quantity + d.quantity = quantity
        /\ c.offset \in Routes!Explicit /\ d.offset \in Routes!Explicit /\ c.offset # d.offset

\* An order that is split is split without a rest, into pieces of different days.
LEMMA SplitIs ==
  ASSUME NEW p, BookSound(p), NEW quantity \in Nat \ {0}, quantity <= AvYd(p) + AvTd(p),
         terms.capability = "split", TermsKnown
  PROVE  LET plan == Routes!Attribution(p, quantity) IN
         Alone(plan, p, quantity) \/ Divided(plan, p, quantity)
<1> DEFINE lots == Routes!Allocate(p, quantity)
           y == lots["CLOSE_YESTERDAY"]
           t == lots["CLOSE_TODAY"]
           kept(offset) == Routes!Child(offset, lots[offset])
           some(offset) == IF lots[offset] > 0 THEN <<kept(offset)>> ELSE <<>>
           plan == Routes!Attribution(p, quantity)
           cy == kept("CLOSE_YESTERDAY")
           ct == kept("CLOSE_TODAY")
<1>1. AvYd(p) \in Nat /\ AvTd(p) \in Nat
  BY DEF BookSound, Lots, AvYd, AvTd
<1>2. /\ Routes!Min({Routes!AvailableYd(p), quantity}) = IF AvYd(p) <= quantity THEN AvYd(p) ELSE quantity
      /\ Routes!Min({Routes!AvailableTd(p), quantity}) = IF AvTd(p) <= quantity THEN AvTd(p) ELSE quantity
  BY <1>1, LesserOfTwo DEF AvYd, AvTd, Routes!AvailableYd, Routes!AvailableTd
<1>3. y \in Nat /\ t \in Nat /\ y + t = quantity /\ y <= AvYd(p) /\ t <= AvTd(p)
  BY <1>1, <1>2 DEF Routes!Allocate
<1>4. plan = IF terms.priority = "yesterday" THEN some("CLOSE_YESTERDAY") \o some("CLOSE_TODAY")
             ELSE some("CLOSE_TODAY") \o some("CLOSE_YESTERDAY")
  BY DEF Routes!Attribution
<1>5. /\ cy.offset = "CLOSE_YESTERDAY" /\ cy.quantity = y
      /\ ct.offset = "CLOSE_TODAY" /\ ct.quantity = t
      /\ some("CLOSE_YESTERDAY") = (IF y > 0 THEN <<cy>> ELSE <<>>)
      /\ some("CLOSE_TODAY") = (IF t > 0 THEN <<ct>> ELSE <<>>)
      /\ y > 0 => cy \in Pieces
      /\ t > 0 => ct \in Pieces
  BY <1>3 DEF Routes!Child, Pieces, Routes!Offsets, Routes!Explicit
<1> HIDE DEF lots, some, cy, ct, kept, plan
<1>6. MayPlan(cy) /\ MayPlan(ct)
  BY <1>5 DEF MayPlan, Routes!SupportsToday
<1>7. Offered(p, cy) /\ Offered(p, ct)
  BY <1>3, <1>5 DEF Offered
<1>8. CASE y = 0
  <2>1. t > 0 /\ t = quantity /\ ~(y > 0)
    BY <1>3, <1>8
  <2>2. plan = <<ct>>
    BY <1>4, <1>5, <2>1, Joined
  <2>3. ct \in Pieces /\ ct.quantity = quantity
    BY <1>5, <2>1
  <2>4. Alone(plan, p, quantity)
    BY ONLY <1>6, <1>7, <2>2, <2>3 DEF Alone
  <2> QED BY ONLY <2>4 DEF plan
<1>9. CASE t = 0
  <2>1. y > 0 /\ y = quantity /\ ~(t > 0)
    BY <1>3, <1>9
  <2>2. plan = <<cy>>
    BY <1>4, <1>5, <2>1, Joined
  <2>3. cy \in Pieces /\ cy.quantity = quantity
    BY <1>5, <2>1
  <2>4. Alone(plan, p, quantity)
    BY ONLY <1>6, <1>7, <2>2, <2>3 DEF Alone
  <2> QED BY ONLY <2>4 DEF plan
<1>10. CASE y # 0 /\ t # 0
  <2>1. y > 0 /\ t > 0
    BY <1>3, <1>10
  <2>2. plan = <<cy, ct>> \/ plan = <<ct, cy>>
    BY <1>4, <1>5, <2>1, Joined
  <2>3. /\ cy.offset \in Routes!Explicit /\ ct.offset \in Routes!Explicit /\ cy.offset # ct.offset
    BY <1>5 DEF Routes!Explicit
  <2>4. cy.quantity + ct.quantity = quantity /\ ct.quantity + cy.quantity = quantity
    BY <1>3, <1>5
  <2>5. cy \in Pieces /\ ct \in Pieces
    BY <1>5, <2>1
  <2>6. ASSUME plan = <<cy, ct>> PROVE Divided(plan, p, quantity)
    <3>1. /\ plan = <<cy, ct>> /\ MayPlan(cy) /\ MayPlan(ct) /\ Offered(p, cy) /\ Offered(p, ct)
          /\ cy.quantity + ct.quantity = quantity
          /\ cy.offset \in Routes!Explicit /\ ct.offset \in Routes!Explicit /\ cy.offset # ct.offset
      BY <1>6, <1>7, <2>3, <2>4, <2>6
    <3>2. Divided(plan, p, quantity)
      BY ONLY <2>5, <3>1, Zenon DEF Divided
    <3> QED BY ONLY <3>2
  <2>7. ASSUME plan = <<ct, cy>> PROVE Divided(plan, p, quantity)
    <3>1. /\ plan = <<ct, cy>> /\ MayPlan(ct) /\ MayPlan(cy) /\ Offered(p, ct) /\ Offered(p, cy)
          /\ ct.quantity + cy.quantity = quantity
          /\ ct.offset \in Routes!Explicit /\ cy.offset \in Routes!Explicit /\ ct.offset # cy.offset
      BY <1>6, <1>7, <2>3, <2>4, <2>7
    <3>2. Divided(plan, p, quantity)
      BY ONLY <2>5, <3>1, Zenon DEF Divided
    <3> QED BY ONLY <3>2
  <2>8. Divided(plan, p, quantity)
    BY ONLY <2>2, <2>6, <2>7
  <2> QED BY ONLY <2>8 DEF plan
<1> QED BY <1>8, <1>9, <1>10 DEF plan

LEMMA PlanIs ==
  ASSUME TermsKnown, NEW p, BookSound(p), NEW offset \in Routes!Offsets, NEW quantity \in Nat \ {0},
         Routes!Plannable(p, offset, quantity)
  PROVE  LET plan == Routes!Plan(p, offset, quantity) IN
         Alone(plan, p, quantity) \/ Divided(plan, p, quantity)
<1>1. offset = "CLOSE" => quantity <= AvYd(p) + AvTd(p)
  <2>1. AvYd(p) \in Int /\ AvTd(p) \in Int
    BY DEF BookSound, Lots, AvYd, AvTd
  <2> QED BY <2>1 DEF Routes!Plannable, Routes!Available, Routes!AvailableYd, Routes!AvailableTd, AvYd, AvTd
<1>2. CASE offset = "CLOSE" /\ terms.capability = "split"
  BY <1>1, <1>2, SplitIs DEF Routes!Plan
<1>3. CASE ~(offset = "CLOSE" /\ terms.capability = "split")
  <2> DEFINE c == Routes!Child(offset, quantity)
  <2>1. Routes!Plan(p, offset, quantity) = <<c>>
    BY <1>3 DEF Routes!Plan
  <2>2. c.offset = offset /\ c.quantity = quantity /\ c \in Pieces
    BY DEF Routes!Child, Pieces
  <2> HIDE DEF c
  <2>3. MayPlan(c)
    BY <1>3, <2>2 DEF MayPlan, Routes!Plannable, Routes!Explicit
  <2>4. Offered(p, c)
    <3>1. AvYd(p) \in Int /\ AvTd(p) \in Int
      BY DEF BookSound, Lots, AvYd, AvTd
    <3> QED BY <1>1, <2>2, <3>1 DEF Offered, Routes!Plannable, Routes!AvailableYd, Routes!AvailableTd, AvYd, AvTd
  <2> QED BY <2>1, <2>2, <2>3, <2>4 DEF Alone
<1> QED BY <1>2, <1>3

RouteInv == TermsKnown /\ KidsSound /\ BooksSound /\ RequestsWhole

-------------------------------------------------------------------------------
(* An order is sent *)

\* Children t have a sound one more than s, of request n and for so many lots, and
\* the book q holds what they hold.
OneMore(t, q, s, n, quantity) ==
    /\ t \in Seq(Kids) /\ \A i \in 1..Len(t) : KidSound(t[i])
    /\ BookSound(q) /\ BookHolds(q, t)
    /\ \A i \in 1..Len(t) : (i \in 1..Len(s) /\ t[i].parent = s[i].parent) \/ t[i].parent = n
    /\ \A r : r # n => OwnIn(t, r) = OwnIn(s, r)
                         /\ Total(AskedIn(t), OwnIn(t, r)) = Total(AskedIn(s), OwnIn(s, r))
    /\ OwnIn(t, n) # {}
    /\ Total(AskedIn(t), OwnIn(t, n)) = Total(AskedIn(s), OwnIn(s, n)) + quantity

LEMMA KidAdded ==
  ASSUME NEW s \in Seq(Kids), \A i \in 1..Len(s) : KidSound(s[i]), NEW p, BookSound(p), BookHolds(p, s),
         NEW c \in Pieces, MayPlan(c), Offered(p, c), NEW n \in Nat \ {0}
  PROVE  OneMore(Append(s, Kid(n, p, c)), Routes!Frozen(p, c), s, n, c.quantity)
<1> DEFINE k == Kid(n, p, c)
           t == Append(s, k)
           q == Routes!Frozen(p, c)
<1>1. /\ KidSound(k) /\ k.parent = n /\ k.quantity = c.quantity
      /\ k.frozenYd = FreezesYd(p, c) /\ k.frozenTd = FreezesTd(p, c)
  BY KidIsSound
<1>2. /\ BookSound(q) /\ q.frozenYd = p.frozenYd + FreezesYd(p, c)
      /\ q.frozenTd = p.frozenTd + FreezesTd(p, c)
  BY OfferedFits, FrozenIs
<1>3. k \in Kids
  BY <1>1 DEF KidSound
<1>12. s \in Seq(Kids)
  OBVIOUS
<1> HIDE DEF k, q
<1>4. /\ t \in Seq(Kids) /\ Len(t) = Len(s) + 1 /\ t[Len(t)] = k
      /\ \A j \in 1..Len(s) : t[j] = s[j]
      /\ Total(YdIn(t), 1..Len(t)) = Total(YdIn(s), 1..Len(s)) + k.frozenYd
      /\ Total(TdIn(t), 1..Len(t)) = Total(TdIn(s), 1..Len(s)) + k.frozenTd
  BY ONLY <1>3, <1>12, KidAdds
<1>5. ASSUME NEW r
      PROVE  /\ k.parent # r => OwnIn(t, r) = OwnIn(s, r)
                                 /\ Total(AskedIn(t), OwnIn(t, r)) = Total(AskedIn(s), OwnIn(s, r))
             /\ k.parent = r => OwnIn(t, r) # {}
                                 /\ Total(AskedIn(t), OwnIn(t, r)) = Total(AskedIn(s), OwnIn(s, r)) + k.quantity
  BY ONLY <1>3, <1>12, KidAddsOwn
<1> HIDE DEF t
<1>6. BookHolds(q, t)
  BY <1>1, <1>2, <1>4 DEF BookHolds
<1>7. ASSUME NEW i \in 1..Len(t) PROVE i \in 1..Len(s) \/ i = Len(t)
  <2>1. Len(s) \in Nat
    OBVIOUS
  <2> QED BY <1>4, <1>7, <2>1
<1>8. \A i \in 1..Len(t) : KidSound(t[i])
  BY <1>1, <1>4, <1>7
<1>9. \A i \in 1..Len(t) : (i \in 1..Len(s) /\ t[i].parent = s[i].parent) \/ t[i].parent = n
  BY <1>1, <1>4, <1>7
<1>10. \A r : r # n => OwnIn(t, r) = OwnIn(s, r)
                        /\ Total(AskedIn(t), OwnIn(t, r)) = Total(AskedIn(s), OwnIn(s, r))
  BY <1>1, <1>5
<1>11. OwnIn(t, n) # {} /\ Total(AskedIn(t), OwnIn(t, n)) = Total(AskedIn(s), OwnIn(s, n)) + c.quantity
  BY <1>1, <1>5
<1>13. OneMore(t, q, s, n, c.quantity)
  BY <1>2, <1>4, <1>6, <1>8, <1>9, <1>10, <1>11 DEF OneMore
<1> QED BY ONLY <1>13 DEF t, k, q

LEMMA OwnOfNone ==
  ASSUME RequestsWhole
  PROVE  OwnIn(children, Len(requests) + 1) = {}
<1>1. Len(requests) \in Nat
  BY DEF RequestsWhole
<1>2. \A m \in Nat : m + 1 \notin 1..m
  OBVIOUS
<1> QED BY <1>1, <1>2 DEF RequestsWhole, OwnIn

\* The children of an accepted order are its whole quantity.
LEMMA ReservedIs ==
  ASSUME RouteInv, NEW offset \in Routes!Offsets, NEW quantity \in Nat \ {0},
         Routes!Plannable(position, offset, quantity)
  PROVE  LET reserved == Routes!Reserve(position, Routes!Plan(position, offset, quantity))
             n == Len(requests) + 1
             t == children \o reserved.children
             q == reserved.position IN
         /\ t \in Seq(Kids) /\ \A i \in 1..Len(t) : KidSound(t[i])
         /\ BookSound(q) /\ BookHolds(q, t)
         /\ \A i \in 1..Len(t) : t[i].parent \in 1..n
         /\ \A r \in 1..Len(requests) : Whole(t, r, requests[r])
         /\ OwnIn(t, n) # {} /\ Total(AskedIn(t), OwnIn(t, n)) = quantity
<1> DEFINE plan == Routes!Plan(position, offset, quantity)
           reserved == Routes!Reserve(position, plan)
           n == Len(requests) + 1
           t == children \o reserved.children
           q == reserved.position
           Good == /\ t \in Seq(Kids) /\ \A i \in 1..Len(t) : KidSound(t[i])
                   /\ BookSound(q) /\ BookHolds(q, t)
                   /\ \A i \in 1..Len(t) : t[i].parent \in 1..n
                   /\ \A r \in 1..Len(requests) : Whole(t, r, requests[r])
                   /\ OwnIn(t, n) # {} /\ Total(AskedIn(t), OwnIn(t, n)) = quantity
<1>1. /\ children \in Seq(Kids) /\ \A i \in 1..Len(children) : KidSound(children[i])
      /\ BookSound(position) /\ BookHolds(position, children)
      /\ TermsKnown /\ RequestsWhole
  BY DEF RouteInv, KidsSound, BooksSound
<1>2. Len(requests) \in Nat /\ n \in Nat \ {0} /\ \A i \in 1..Len(requests) : i \in 1..n /\ i # n
  <2>1. Len(requests) \in Nat
    BY <1>1 DEF RequestsWhole
  <2>2. \A m \in Nat : m + 1 \in Nat \ {0} /\ \A i \in 1..m : i \in 1..(m + 1) /\ i # m + 1
    OBVIOUS
  <2> QED BY <2>1, <2>2
<1>3. n \in 1..n
  BY <1>2
<1>4. OwnIn(children, n) = {} /\ Total(AskedIn(children), OwnIn(children, n)) = 0
  BY <1>1, OwnOfNone, TotalEmpty
<1>5. \A i \in 1..Len(children) : children[i].parent \in 1..Len(requests)
  BY <1>1 DEF RequestsWhole
<1>6. \A r \in 1..Len(requests) : Whole(children, r, requests[r])
  BY <1>1 DEF RequestsWhole
<1>7. Alone(plan, position, quantity) \/ Divided(plan, position, quantity)
  BY <1>1, PlanIs
<1> HIDE DEF plan, n
<1>8. ASSUME Alone(plan, position, quantity) PROVE Good
  <2>1. PICK c \in Pieces : /\ plan = <<c>> /\ MayPlan(c) /\ Offered(position, c) /\ c.quantity = quantity
    BY <1>8 DEF Alone
  <2> DEFINE k == Kid(n, position, c)
             u == Append(children, k)
             v == Routes!Frozen(position, c)
  <2>2. /\ u \in Seq(Kids) /\ \A i \in 1..Len(u) : KidSound(u[i])
        /\ BookSound(v) /\ BookHolds(v, u)
        /\ \A i \in 1..Len(u) : (i \in 1..Len(children) /\ u[i].parent = children[i].parent) \/ u[i].parent = n
        /\ \A r : r # n => OwnIn(u, r) = OwnIn(children, r)
                             /\ Total(AskedIn(u), OwnIn(u, r)) = Total(AskedIn(children), OwnIn(children, r))
        /\ OwnIn(u, n) # {}
        /\ Total(AskedIn(u), OwnIn(u, n)) = Total(AskedIn(children), OwnIn(children, n)) + c.quantity
    <3>1. OneMore(u, v, children, n, c.quantity)
      BY <1>1, <1>2, <2>1, KidAdded
    <3> HIDE DEF u, v
    <3> QED BY ONLY <3>1 DEF OneMore
  <2>3. k \in Kids
    <3>1. KidSound(k)
      BY <1>1, <1>2, <2>1, KidIsSound
    <3> QED BY <3>1 DEF KidSound
  <2>4. reserved.position = v /\ reserved.children = <<k>>
    <3>1. Routes!Reserve(position, <<c>>).position = v /\ Routes!Reserve(position, <<c>>).children = <<k>>
      <4>1. BookSound(position) /\ c \in Pieces
        BY <1>1
      <4>2. Routes!Reserve(position, <<c>>) =
               [fits |-> Routes!CanFreeze(position, c) /\ Routes!FeeKnown(c),
                position |-> v, children |-> <<k>>]
        BY ONLY <4>1, ReserveOne, Zenon DEF n
      <4> QED BY ONLY <4>2
    <3> QED BY <2>1, <3>1
  <2>5. t = u
    BY <1>1, <2>3, <2>4, AppendIsConcat
  <2>6. q = v
    BY <2>4
  <2> HIDE DEF u, v, k, reserved, t, q
  <2>7. Total(AskedIn(t), OwnIn(t, n)) = quantity
    <3>1. \A m \in Nat : 0 + m = m
      OBVIOUS
    <3> QED BY <1>4, <2>1, <2>2, <2>5, <3>1
  <2>8. \A i \in 1..Len(t) : t[i].parent \in 1..n
    BY <1>2, <1>3, <1>5, <2>2, <2>5
  <2>9. \A r \in 1..Len(requests) : Whole(t, r, requests[r])
    BY <1>2, <1>6, <2>2, <2>5 DEF Whole
  <2> QED BY <2>2, <2>5, <2>6, <2>7, <2>8, <2>9
<1>9. ASSUME Divided(plan, position, quantity) PROVE Good
  <2>1. PICK c \in Pieces, d \in Pieces :
            /\ plan = <<c, d>> /\ MayPlan(c) /\ MayPlan(d) /\ Offered(position, c) /\ Offered(position, d)
            /\ c.quantity + d.quantity = quantity
            /\ c.offset \in Routes!Explicit /\ d.offset \in Routes!Explicit /\ c.offset # d.offset
    BY <1>9 DEF Divided
  <2> DEFINE v1 == Routes!Frozen(position, c)
             v2 == Routes!Frozen(v1, d)
             k1 == Kid(n, position, c)
             k2 == Kid(n, v1, d)
             u1 == Append(children, k1)
             u2 == Append(u1, k2)
  <2>2. /\ u1 \in Seq(Kids) /\ \A i \in 1..Len(u1) : KidSound(u1[i])
        /\ BookSound(v1) /\ BookHolds(v1, u1)
        /\ \A i \in 1..Len(u1) : (i \in 1..Len(children) /\ u1[i].parent = children[i].parent) \/ u1[i].parent = n
        /\ \A r : r # n => OwnIn(u1, r) = OwnIn(children, r)
                             /\ Total(AskedIn(u1), OwnIn(u1, r)) = Total(AskedIn(children), OwnIn(children, r))
        /\ OwnIn(u1, n) # {}
        /\ Total(AskedIn(u1), OwnIn(u1, n)) = Total(AskedIn(children), OwnIn(children, n)) + c.quantity
    <3>1. OneMore(u1, v1, children, n, c.quantity)
      BY <1>1, <1>2, <2>1, KidAdded
    <3> HIDE DEF u1, v1
    <3> QED BY ONLY <3>1 DEF OneMore
  <2>3. Offered(v1, d)
    BY <1>1, <2>1, OtherDayStays
  <2>4. /\ u2 \in Seq(Kids) /\ \A i \in 1..Len(u2) : KidSound(u2[i])
        /\ BookSound(v2) /\ BookHolds(v2, u2)
        /\ \A i \in 1..Len(u2) : (i \in 1..Len(u1) /\ u2[i].parent = u1[i].parent) \/ u2[i].parent = n
        /\ \A r : r # n => OwnIn(u2, r) = OwnIn(u1, r)
                             /\ Total(AskedIn(u2), OwnIn(u2, r)) = Total(AskedIn(u1), OwnIn(u1, r))
        /\ OwnIn(u2, n) # {}
        /\ Total(AskedIn(u2), OwnIn(u2, n)) = Total(AskedIn(u1), OwnIn(u1, n)) + d.quantity
    <3> HIDE DEF u1, v1
    <3>1. d \in Pieces /\ n \in Nat \ {0} /\ MayPlan(d)
      BY <1>2, <2>1
    <3>2. /\ u1 \in Seq(Kids) /\ \A i \in 1..Len(u1) : KidSound(u1[i])
          /\ BookSound(v1) /\ BookHolds(v1, u1)
      BY <2>2
    <3>3. OneMore(u2, v2, u1, n, d.quantity)
      BY ONLY <3>1, <3>2, <2>3, KidAdded
    <3> HIDE DEF u2, v2
    <3> QED BY ONLY <3>3 DEF OneMore
  <2>5. k1 \in Kids /\ k2 \in Kids
    <3>1. KidSound(k1)
      BY <1>1, <1>2, <2>1, KidIsSound
    <3>2. KidSound(k2)
      BY <1>2, <2>1, <2>2, KidIsSound
    <3> QED BY <3>1, <3>2 DEF KidSound
  <2>6. reserved.position = v2 /\ reserved.children = <<k1, k2>>
    <3>1. /\ Routes!Reserve(position, <<c, d>>).position = v2
          /\ Routes!Reserve(position, <<c, d>>).children = <<k1, k2>>
      <4>1. BookSound(position) /\ c \in Pieces /\ d \in Pieces /\ BookSound(Routes!Frozen(position, c))
        BY <1>1, <2>2
      <4>2. Routes!Reserve(position, <<c, d>>) =
              [fits |-> /\ Routes!CanFreeze(position, c) /\ Routes!FeeKnown(c)
                        /\ Routes!CanFreeze(v1, d) /\ Routes!FeeKnown(d),
               position |-> v2, children |-> <<k1, k2>>]
        BY ONLY <4>1, ReserveTwo, Zenon DEF n
      <4> QED BY ONLY <4>2
    <3> QED BY <2>1, <3>1
  <2>7. t = u2
    <3> HIDE DEF k1, k2, reserved
    <3>1. <<k1>> \in Seq(Kids) /\ <<k2>> \in Seq(Kids)
      BY <2>5
    <3>2. children \o <<k1, k2>> = (children \o <<k1>>) \o <<k2>>
      <4>1. <<k1, k2>> = <<k1>> \o <<k2>>
        BY Joined
      <4>2. children \in Seq(Kids)
        BY <1>1
      <4> DEFINE a == <<k1>>
                 b == <<k2>>
      <4>5. a \in Seq(Kids) /\ b \in Seq(Kids)
        BY <3>1
      <4> HIDE DEF a, b
      <4>6. (children \o a) \o b = children \o (a \o b)
        BY ONLY <4>5, <4>2, ConcatAssociative
      <4>3. children \o (<<k1>> \o <<k2>>) = (children \o <<k1>>) \o <<k2>>
        BY ONLY <4>6, Zenon DEF a, b
      <4> QED BY ONLY <4>1, <4>3, Zenon
    <3>3. children \o <<k1>> = u1 /\ u1 \o <<k2>> = u2
      BY <1>1, <2>2, <2>5, AppendIsConcat
    <3> QED BY <2>6, <3>2, <3>3
  <2>8. q = v2
    BY <2>6
  <2> HIDE DEF u1, u2, v1, v2, k1, k2, reserved, t, q
  <2>9. Total(AskedIn(t), OwnIn(t, n)) = quantity
    <3>1. c.quantity \in Nat /\ d.quantity \in Nat
      BY DEF Pieces
    <3> QED BY <1>4, <2>1, <2>2, <2>4, <2>7, <3>1
  <2>10. \A i \in 1..Len(t) : t[i].parent \in 1..n
    <3>1. \A i \in 1..Len(u1) : u1[i].parent \in 1..n
      BY <1>2, <1>3, <1>5, <2>2
    <3> QED BY <1>3, <2>4, <2>7, <3>1
  <2>11. \A r \in 1..Len(requests) : Whole(t, r, requests[r])
    BY <1>2, <1>6, <2>2, <2>4, <2>7 DEF Whole
  <2> QED BY <2>4, <2>7, <2>8, <2>9, <2>10, <2>11
<1>10. Good
  BY <1>7, <1>8, <1>9
<1> QED BY ONLY <1>10 DEF plan, n

\* One request more, of which these are the children.
LEMMA RequestAdded ==
  ASSUME NEW t \in Seq(Kids), NEW n, n = Len(requests) + 1, requests \in Seq(Asks), NEW ask \in Asks,
         requests' = Append(requests, ask), children' = t,
         \A i \in 1..Len(t) : t[i].parent \in 1..n,
         \A r \in 1..Len(requests) : Whole(t, r, requests[r]), Whole(t, n, ask)
  PROVE  RequestsWhole'
<1>1. /\ requests' \in Seq(Asks) /\ Len(requests') = n /\ requests'[n] = ask /\ Len(requests) \in Nat
      /\ \A r \in 1..Len(requests) : requests'[r] = requests[r]
  OBVIOUS
<1>2. \A m \in Nat : \A r \in 1..(m + 1) : r \in 1..m \/ r = m + 1
  OBVIOUS
<1>3. \A r \in 1..n : r \in 1..Len(requests) \/ r = n
  BY <1>1, <1>2
<1>4. \A r \in 1..n : Whole(t, r, requests'[r])
  BY <1>1, <1>3
<1> QED BY <1>1, <1>4 DEF RequestsWhole

LEMMA SendStep ==
  ASSUME RouteInv, NEW offset \in Routes!Offsets, NEW quantity \in 1..MaxLots,
         Routes!SendOrder(offset, quantity)
  PROVE  RouteInv'
<1> DEFINE n == Len(requests) + 1
           answer == Routes!Answer(offset, quantity)
           ask == [offset |-> offset, quantity |-> quantity, answer |-> answer]
<1>1. /\ children \in Seq(Kids) /\ \A i \in 1..Len(children) : KidSound(children[i])
      /\ BookSound(position) /\ BookHolds(position, children)
      /\ TermsKnown /\ RequestsWhole /\ requests \in Seq(Asks)
  BY DEF RouteInv, KidsSound, BooksSound, RequestsWhole
<1>2. quantity \in Nat \ {0}
  BY RouteAssumption
<1>3. requests' = Append(requests, ask) /\ terms' = terms
  BY DEF Routes!SendOrder
<1>4. /\ answer \in {"routing", "reservation", "accepted"}
      /\ answer = "accepted" => Routes!Plannable(position, offset, quantity)
  BY DEF Routes!Answer
<1>5. ask \in Asks /\ ask.answer = answer /\ ask.quantity = quantity
  BY <1>2, <1>4 DEF Asks
<1>6. answer = "accepted" =>
          /\ position' = Routes!Reserve(position, Routes!Plan(position, offset, quantity)).position
          /\ children' = children \o Routes!Reserve(position, Routes!Plan(position, offset, quantity)).children
  BY DEF Routes!SendOrder
<1>7. answer # "accepted" => position' = position /\ children' = children
  BY DEF Routes!SendOrder
<1>8. TermsKnown'
  BY <1>1, <1>3 DEF TermsKnown
<1> HIDE DEF answer, ask
<1>9. CASE answer = "accepted"
  <2>1. /\ children' \in Seq(Kids) /\ \A i \in 1..Len(children') : KidSound(children'[i])
        /\ BookSound(position') /\ BookHolds(position', children')
        /\ \A i \in 1..Len(children') : children'[i].parent \in 1..n
        /\ \A r \in 1..Len(requests) : Whole(children', r, requests[r])
        /\ OwnIn(children', n) # {} /\ Total(AskedIn(children'), OwnIn(children', n)) = quantity
    <3> DEFINE rs == Routes!Reserve(position, Routes!Plan(position, offset, quantity))
               t == children \o rs.children
               q == rs.position
    <3>1. /\ t \in Seq(Kids) /\ \A i \in 1..Len(t) : KidSound(t[i])
          /\ BookSound(q) /\ BookHolds(q, t)
          /\ \A i \in 1..Len(t) : t[i].parent \in 1..n
          /\ \A r \in 1..Len(requests) : Whole(t, r, requests[r])
          /\ OwnIn(t, n) # {} /\ Total(AskedIn(t), OwnIn(t, n)) = quantity
      BY <1>2, <1>4, <1>9, ReservedIs
    <3>2. children' = t /\ position' = q
      BY <1>6, <1>9
    <3> HIDE DEF t, q, n
    <3> QED BY ONLY <3>1, <3>2
  <2>2. Whole(children', n, ask)
    BY <1>5, <1>9, <2>1 DEF Whole
  <2>3. RequestsWhole'
    BY <1>1, <1>3, <1>5, <2>1, <2>2, RequestAdded
  <2>4. KidsSound' /\ BooksSound'
    BY <1>3, <2>1 DEF KidsSound, BooksSound, KidSound
  <2> QED BY <1>8, <2>3, <2>4 DEF RouteInv
<1>10. CASE answer # "accepted"
  <2>1. children' = children /\ position' = position
    BY <1>7, <1>10
  <2>2. OwnIn(children, n) = {}
    BY <1>1, OwnOfNone
  <2>3. Whole(children, n, ask)
    BY <1>5, <1>10, <2>2 DEF Whole
  <2>4. \A i \in 1..Len(children) : children[i].parent \in 1..n
    <3>1. \A i \in 1..Len(children) : children[i].parent \in 1..Len(requests)
      BY <1>1 DEF RequestsWhole
    <3>2. Len(requests) \in Nat
      BY <1>1
    <3>3. \A m \in Nat : \A i \in 1..m : i \in 1..(m + 1)
      OBVIOUS
    <3> QED BY <3>1, <3>2, <3>3
  <2>5. RequestsWhole'
    <3>1. \A r \in 1..Len(requests) : Whole(children, r, requests[r])
      BY <1>1 DEF RequestsWhole
    <3> QED BY <1>1, <1>3, <1>5, <2>1, <2>3, <2>4, <3>1, RequestAdded
  <2>6. KidsSound' /\ BooksSound'
    BY <1>1, <1>3, <2>1 DEF KidsSound, BooksSound, KidSound
  <2> QED BY <1>8, <2>5, <2>6 DEF RouteInv
<1> QED BY <1>9, <1>10

-------------------------------------------------------------------------------
(* A child is sent, trades, or ends *)

\* No child holds more than the book freezes.
LEMMA WithinBook ==
  ASSUME RouteInv, NEW i \in 1..Len(children)
  PROVE  /\ KidSound(children[i]) /\ BookSound(position)
         /\ children[i].frozenYd <= position.frozenYd /\ children[i].frozenTd <= position.frozenTd
<1>1. /\ children \in Seq(Kids) /\ KidSound(children[i])
      /\ BookSound(position) /\ BookHolds(position, children)
  BY DEF RouteInv, KidsSound, BooksSound
<1> DEFINE S == 1..Len(children)
<1>2. IsFiniteSet(S) /\ i \in S
  <2>1. Len(children) \in Nat
    BY <1>1
  <2> QED BY <2>1, FS_Interval
<1>3. \A j \in S : children[j] \in Kids
  BY <1>1
<1>4. \A j \in S : YdIn(children)[j] = children[j].frozenYd /\ TdIn(children)[j] = children[j].frozenTd
  BY DEF YdIn, TdIn
<1>5. \A k \in Kids : k.frozenYd \in Nat /\ k.frozenTd \in Nat
  BY DEF Kids
<1> HIDE DEF S
<1>6. \A j \in S : YdIn(children)[j] \in Nat
  BY <1>3, <1>4, <1>5
<1>7. \A j \in S : TdIn(children)[j] \in Nat
  BY <1>3, <1>4, <1>5
<1>8. YdIn(children)[i] <= Total(YdIn(children), S)
  BY ONLY <1>2, <1>6, TotalNat
<1>9. TdIn(children)[i] <= Total(TdIn(children), S)
  BY ONLY <1>2, <1>7, TotalNat
<1> QED BY <1>1, <1>2, <1>4, <1>8, <1>9 DEF BookHolds, S

\* A child that is replaced by a sound one of its own, with a book that follows.
LEMMA KidReplaced ==
  ASSUME RouteInv, NEW i \in 1..Len(children), NEW c, KidSound(c),
         c.parent = children[i].parent, c.quantity = children[i].quantity,
         children' = [children EXCEPT ![i] = c], terms' = terms, requests' = requests,
         BookSound(position'),
         position'.frozenYd = position.frozenYd + c.frozenYd - children[i].frozenYd,
         position'.frozenTd = position.frozenTd + c.frozenTd - children[i].frozenTd
  PROVE  RouteInv'
<1>1. /\ children \in Seq(Kids) /\ \A j \in 1..Len(children) : KidSound(children[j])
      /\ BookHolds(position, children) /\ TermsKnown /\ RequestsWhole /\ c \in Kids
  BY DEF RouteInv, KidsSound, BooksSound, KidSound
<1> DEFINE t == [children EXCEPT ![i] = c]
<1>10. children' = t
  OBVIOUS
<1>2. /\ t \in Seq(Kids) /\ Len(t) = Len(children) /\ t[i] = c
      /\ \A j \in 1..Len(children) : j # i => t[j] = children[j]
      /\ Total(YdIn(t), 1..Len(t)) = Total(YdIn(children), 1..Len(children)) + c.frozenYd - children[i].frozenYd
      /\ Total(TdIn(t), 1..Len(t)) = Total(TdIn(children), 1..Len(children)) + c.frozenTd - children[i].frozenTd
  BY ONLY <1>1, i \in 1..Len(children), KidChanges
<1> HIDE DEF t
<1>3. \A j \in 1..Len(t) : KidSound(t[j])
  BY <1>1, <1>2
<1>4. \A j \in 1..Len(t) : t[j].parent = children[j].parent /\ t[j].quantity = children[j].quantity
  BY <1>2
<1>5. BookHolds(position', t)
  BY <1>1, <1>2 DEF BookHolds
<1>6. \A r \in 1..Len(requests) : Whole(t, r, requests[r])
  <2> SUFFICES ASSUME NEW r \in 1..Len(requests) PROVE Whole(t, r, requests[r])
    OBVIOUS
  <2>1. Whole(children, r, requests[r])
    BY <1>1 DEF RequestsWhole
  <2> QED BY <1>1, <1>2, <1>4, <2>1, OwnStays
<1>7. \A j \in 1..Len(t) : t[j].parent \in 1..Len(requests)
  BY <1>1, <1>2, <1>4 DEF RequestsWhole
<1>8. RequestsWhole'
  BY <1>1, <1>6, <1>7, <1>10 DEF RequestsWhole
<1>9. KidsSound' /\ BooksSound' /\ TermsKnown'
  <2>1. children' \in Seq(Kids) /\ \A j \in 1..Len(children') : KidSound(children'[j])
    BY <1>2, <1>3, <1>10
  <2>2. KidsSound'
    BY <2>1 DEF KidsSound, KidSound
  <2>3. BookHolds(position', children')
    BY <1>5, <1>10
  <2> QED BY <1>1, <2>2, <2>3 DEF BooksSound, TermsKnown
<1> QED BY <1>8, <1>9 DEF RouteInv

LEMMA SubmitStep ==
  ASSUME RouteInv, NEW i \in 1..Len(children), Routes!Submit(i)
  PROVE  RouteInv'
<1> DEFINE k == children[i]
           c == [k EXCEPT !.state = "sent", !.flag = k.offset]
<1>1. children \in Seq(Kids) /\ KidSound(k) /\ BookSound(position) /\ k.state = "held"
  BY WithinBook DEF Routes!Submit, RouteInv, KidsSound
<1>2. /\ children' = [children EXCEPT ![i] = c]
      /\ terms' = terms /\ requests' = requests /\ position' = position
  BY <1>1 DEF Routes!Submit
<1> HIDE DEF k
<1>3. /\ c \in Kids /\ c.parent = k.parent /\ c.offset = k.offset /\ c.flag = k.offset /\ c.quantity = k.quantity
      /\ c.filled = k.filled /\ c.state = "sent" /\ c.frozenYd = k.frozenYd /\ c.frozenTd = k.frozenTd
  BY <1>1 DEF KidSound, Kids
<1> HIDE DEF c
<1>4. KidSound(c)
  BY <1>1, <1>3 DEF KidSound
<1>5. \A m \in Nat, l \in Nat : m = m + l - l
  OBVIOUS
<1>6. /\ position'.frozenYd = position.frozenYd + c.frozenYd - k.frozenYd
      /\ position'.frozenTd = position.frozenTd + c.frozenTd - k.frozenTd
  <2>1. /\ position.frozenYd \in Nat /\ position.frozenTd \in Nat
        /\ k.frozenYd \in Nat /\ k.frozenTd \in Nat
    BY <1>1 DEF BookSound, Lots, KidSound, Kids
  <2> QED BY <1>2, <1>3, <1>5, <2>1
<1> QED BY <1>1, <1>2, <1>3, <1>4, <1>6, KidReplaced DEF k

LEMMA CancelStep ==
  ASSUME RouteInv, NEW i \in 1..Len(children), Routes!Cancel(i)
  PROVE  RouteInv'
<1> DEFINE k == children[i]
           c == [k EXCEPT !.state = "done", !.frozenYd = 0, !.frozenTd = 0]
           y == position.frozenYd - k.frozenYd
           m == position.frozenTd - k.frozenTd
           q == [position EXCEPT !.frozenYd = y, !.frozenTd = m]
<1>1. /\ children \in Seq(Kids) /\ KidSound(k) /\ BookSound(position)
      /\ k.frozenYd <= position.frozenYd /\ k.frozenTd <= position.frozenTd
  BY WithinBook DEF RouteInv, KidsSound
<1>2. /\ children' = [children EXCEPT ![i] = c] /\ position' = q
      /\ terms' = terms /\ requests' = requests
  BY <1>1 DEF Routes!Cancel, Routes!Ended
<1> HIDE DEF k
<1>3. /\ c \in Kids /\ c.parent = k.parent /\ c.offset = k.offset /\ c.flag = k.flag /\ c.quantity = k.quantity
      /\ c.filled = k.filled /\ c.state = "done" /\ c.frozenYd = 0 /\ c.frozenTd = 0
  BY <1>1 DEF KidSound, Kids
<1> HIDE DEF c
<1>4. KidSound(c)
  BY <1>1, <1>3 DEF KidSound
<1>5. /\ y \in Nat /\ m \in Nat /\ y <= position.yd /\ m <= position.td
      /\ y = position.frozenYd + 0 - k.frozenYd /\ m = position.frozenTd + 0 - k.frozenTd
  <2>1. /\ position.frozenYd \in Nat /\ position.frozenTd \in Nat /\ position.yd \in Nat /\ position.td \in Nat
        /\ position.frozenYd <= position.yd /\ position.frozenTd <= position.td
        /\ k.frozenYd \in Nat /\ k.frozenTd \in Nat
    BY <1>1 DEF BookSound, Lots, KidSound, Kids
  <2>2. \A l, f, h \in Nat : h <= f /\ f <= l => f - h \in Nat /\ f - h <= l /\ f - h = f + 0 - h
    OBVIOUS
  <2>3. y \in Nat /\ y <= position.yd /\ y = position.frozenYd + 0 - k.frozenYd
    BY <1>1, <2>1, <2>2
  <2>4. m \in Nat /\ m <= position.td /\ m = position.frozenTd + 0 - k.frozenTd
    BY <1>1, <2>1, <2>2
  <2> QED BY <2>3, <2>4
<1> HIDE DEF y, m
<1>6. q \in Lots /\ q.yd = position.yd /\ q.td = position.td /\ q.frozenYd = y /\ q.frozenTd = m
  BY <1>1, <1>5 DEF BookSound, Lots
<1> HIDE DEF q
<1>7. BookSound(q)
  BY <1>5, <1>6 DEF BookSound
<1> QED BY <1>1, <1>2, <1>3, <1>4, <1>5, <1>6, <1>7, KidReplaced DEF k

\* A trade takes one lot from its child and from the book, of the same day.
LEMMA FillStep ==
  ASSUME RouteInv, NEW i \in 1..Len(children), Routes!Fill(i)
  PROVE  RouteInv'
<1> DEFINE k == children[i]
           takesYd == k.flag = "CLOSE_YESTERDAY" \/ (k.flag = "CLOSE" /\ k.frozenYd > 0)
           done == k.filled + 1 = k.quantity
           filled == k.filled + 1
           state == IF done THEN "done" ELSE "sent"
           yd == IF k.flag # "OPEN" /\ takesYd THEN k.frozenYd - 1 ELSE k.frozenYd
           td == IF k.flag # "OPEN" /\ ~takesYd THEN k.frozenTd - 1 ELSE k.frozenTd
           c == [k EXCEPT !.filled = filled, !.state = state, !.frozenYd = yd, !.frozenTd = td]
           q == IF k.flag = "OPEN" THEN [position EXCEPT !.td = position.td + 1]
                ELSE IF takesYd THEN [position EXCEPT !.yd = position.yd - 1, !.frozenYd = position.frozenYd - 1]
                ELSE [position EXCEPT !.td = position.td - 1, !.frozenTd = position.frozenTd - 1]
<1>1. /\ KidSound(k) /\ BookSound(position)
      /\ k.frozenYd <= position.frozenYd /\ k.frozenTd <= position.frozenTd
  BY WithinBook
<1>2. /\ children \in Seq(Kids) /\ children' = [children EXCEPT ![i] = c] /\ position' = q /\ k.state = "sent"
      /\ terms' = terms /\ requests' = requests
  BY DEF Routes!Fill, RouteInv, KidsSound
<1>a. i \in 1..Len(children) /\ k = children[i]
  OBVIOUS
<1> HIDE DEF k
<1>3. /\ k.flag = k.offset /\ k.offset \in {"OPEN", "CLOSE", "CLOSE_TODAY", "CLOSE_YESTERDAY"}
      /\ k.quantity \in Nat /\ k.filled \in Nat /\ k.filled < k.quantity
      /\ k.frozenYd \in Nat /\ k.frozenTd \in Nat /\ k \in Kids
      /\ k.offset = "OPEN" => k.frozenYd = 0 /\ k.frozenTd = 0
      /\ k.offset # "OPEN" => k.frozenYd + k.frozenTd = k.quantity - k.filled
      /\ k.offset = "CLOSE_TODAY" => k.frozenYd = 0
      /\ k.offset = "CLOSE_YESTERDAY" => k.frozenTd = 0
      /\ k.offset \in Routes!Explicit => Routes!SupportsToday(terms.capability)
      /\ k.offset = "CLOSE" => terms.capability # "split"
  BY <1>1, <1>2 DEF KidSound, Kids, Routes!Offsets, Routes!Explicit
<1>4. /\ filled \in Nat /\ filled <= k.quantity /\ (~done => filled < k.quantity)
      /\ k.quantity - filled = k.quantity - k.filled - 1 /\ (done => k.quantity - filled = 0)
  BY <1>3
<1>5. /\ position.yd \in Nat /\ position.td \in Nat /\ position.frozenYd \in Nat /\ position.frozenTd \in Nat
      /\ position.frozenYd <= position.yd /\ position.frozenTd <= position.td /\ position \in Lots
  BY <1>1 DEF BookSound, Lots
<1> DEFINE Follows == /\ BookSound(q) /\ yd \in Nat /\ td \in Nat
                      /\ q.frozenYd = position.frozenYd + yd - k.frozenYd
                      /\ q.frozenTd = position.frozenTd + td - k.frozenTd
           Takes == /\ k.offset = "OPEN" => yd = 0 /\ td = 0
                    /\ k.offset # "OPEN" => yd + td = k.quantity - filled
                    /\ k.offset = "CLOSE_TODAY" => yd = 0
                    /\ k.offset = "CLOSE_YESTERDAY" => td = 0
<1>6. ASSUME k.offset = "OPEN" PROVE Follows /\ Takes
  <2>1. yd = k.frozenYd /\ td = k.frozenTd /\ yd = 0 /\ td = 0
    BY <1>3, <1>6
  <2> DEFINE z == position.td + 1
  <2>2. q = [position EXCEPT !.td = z]
    BY <1>3, <1>6
  <2>3. z \in Nat /\ position.frozenTd <= z
    BY <1>5
  <2> HIDE DEF z, yd, td, filled, q
  <2>4. q \in Lots /\ q.yd = position.yd /\ q.td = z /\ q.frozenYd = position.frozenYd /\ q.frozenTd = position.frozenTd
    BY <1>5, <2>2, <2>3 DEF Lots
  <2>5. BookSound(q)
    BY <1>5, <2>3, <2>4 DEF BookSound
  <2>6. q.frozenYd = position.frozenYd + yd - k.frozenYd /\ q.frozenTd = position.frozenTd + td - k.frozenTd
    BY <1>3, <1>5, <2>1, <2>4
  <2>7. yd \in Nat /\ td \in Nat
    BY <2>1
  <2> QED BY <1>6, <2>1, <2>5, <2>6, <2>7
<1>7. ASSUME k.offset # "OPEN", takesYd PROVE Follows /\ Takes
  <2>1. k.frozenYd >= 1 /\ k.offset # "CLOSE_TODAY" /\ yd = k.frozenYd - 1 /\ td = k.frozenTd
    BY <1>3, <1>7
  <2> DEFINE z == position.yd - 1
             w == position.frozenYd - 1
  <2>2. q = [position EXCEPT !.yd = z, !.frozenYd = w]
    BY <1>3, <1>7
  <2>3. z \in Nat /\ w \in Nat /\ w <= z /\ yd \in Nat /\ td \in Nat /\ w = position.frozenYd + yd - k.frozenYd
        /\ yd + td = k.quantity - filled /\ position.frozenTd = position.frozenTd + td - k.frozenTd
    <3>1. k.frozenYd <= position.frozenYd /\ k.frozenYd \in Nat /\ k.frozenYd >= 1
      BY <1>1, <1>3, <2>1
    <3>a. \A m, n, h \in Nat : h >= 1 /\ h <= m /\ m <= n => n - 1 \in Nat /\ m - 1 \in Nat /\ m - 1 <= n - 1
      OBVIOUS
    <3>b. position.yd \in Nat /\ position.frozenYd \in Nat /\ position.frozenYd <= position.yd
      BY <1>5
    <3>2. z \in Nat /\ w \in Nat /\ w <= z
      BY ONLY <3>1, <3>a, <3>b DEF z, w
    <3>3. yd \in Nat /\ td \in Nat
      BY <1>3, <2>1
    <3>4. w = position.frozenYd + yd - k.frozenYd /\ position.frozenTd = position.frozenTd + td - k.frozenTd
      BY <1>3, <1>5, <2>1, SMTT(30)
    <3>5. yd + td = k.quantity - filled
      BY <1>3, <1>4, <1>7, <2>1
    <3> QED BY <3>2, <3>3, <3>4, <3>5
  <2> HIDE DEF z, w, yd, td, filled, q
  <2>4. q \in Lots /\ q.yd = z /\ q.td = position.td /\ q.frozenYd = w /\ q.frozenTd = position.frozenTd
    BY <1>5, <2>2, <2>3 DEF Lots
  <2>5. BookSound(q)
    BY <1>5, <2>3, <2>4 DEF BookSound
  <2>6. q.frozenYd = position.frozenYd + yd - k.frozenYd /\ q.frozenTd = position.frozenTd + td - k.frozenTd
    BY <2>3, <2>4
  <2> QED BY <1>3, <1>7, <2>1, <2>3, <2>5, <2>6
<1>8. ASSUME k.offset # "OPEN", ~takesYd PROVE Follows /\ Takes
  <2>1. k.frozenTd >= 1 /\ k.frozenYd = 0 /\ k.offset # "CLOSE_YESTERDAY" /\ yd = k.frozenYd /\ td = k.frozenTd - 1
    BY <1>3, <1>8
  <2> DEFINE z == position.td - 1
             w == position.frozenTd - 1
  <2>2. q = [position EXCEPT !.td = z, !.frozenTd = w]
    BY <1>3, <1>8
  <2>3. z \in Nat /\ w \in Nat /\ w <= z /\ yd \in Nat /\ td \in Nat /\ w = position.frozenTd + td - k.frozenTd
        /\ yd + td = k.quantity - filled /\ position.frozenYd = position.frozenYd + yd - k.frozenYd
    <3>1. k.frozenTd <= position.frozenTd /\ k.frozenTd \in Nat /\ k.frozenTd >= 1
      BY <1>1, <1>3, <2>1
    <3>a. \A m, n, h \in Nat : h >= 1 /\ h <= m /\ m <= n => n - 1 \in Nat /\ m - 1 \in Nat /\ m - 1 <= n - 1
      OBVIOUS
    <3>b. position.td \in Nat /\ position.frozenTd \in Nat /\ position.frozenTd <= position.td
      BY <1>5
    <3>2. z \in Nat /\ w \in Nat /\ w <= z
      BY ONLY <3>1, <3>a, <3>b DEF z, w
    <3>3. yd \in Nat /\ td \in Nat
      BY <1>3, <2>1
    <3>4. w = position.frozenTd + td - k.frozenTd /\ position.frozenYd = position.frozenYd + yd - k.frozenYd
      BY <1>3, <1>5, <2>1
    <3>5. yd + td = k.quantity - filled
      BY <1>3, <1>4, <1>8, <2>1
    <3> QED BY <3>2, <3>3, <3>4, <3>5
  <2> HIDE DEF z, w, yd, td, filled, q
  <2>4. q \in Lots /\ q.yd = position.yd /\ q.td = z /\ q.frozenYd = position.frozenYd /\ q.frozenTd = w
    BY <1>5, <2>2, <2>3 DEF Lots
  <2>5. BookSound(q)
    BY <1>5, <2>3, <2>4 DEF BookSound
  <2>6. q.frozenYd = position.frozenYd + yd - k.frozenYd /\ q.frozenTd = position.frozenTd + td - k.frozenTd
    BY <2>3, <2>4
  <2> QED BY <1>3, <1>8, <2>1, <2>3, <2>5, <2>6
<1>9. Follows /\ Takes
  <2> HIDE DEF Follows, Takes, takesYd
  <2> QED BY <1>6, <1>7, <1>8
<1>10. state \in {"sent", "done"} /\ (state = "done" <=> done)
  OBVIOUS
<1> HIDE DEF takesYd, yd, td, q
<1>11. state = "done" => yd = 0 /\ td = 0
  <2> HIDE DEF state
  <2>1. \A a, b \in Nat : a + b = 0 => a = 0 /\ b = 0
    OBVIOUS
  <2>2. ASSUME done PROVE yd = 0 /\ td = 0
    <3>1. k.offset # "OPEN" => yd + td = 0
      BY <1>4, <1>9, <2>2
    <3>2. yd \in Nat /\ td \in Nat
      BY <1>9
    <3> QED BY <1>9, <3>1, <3>2, <2>1
  <2> QED BY <1>10, <2>2
<1>12. filled \in Nat /\ filled <= k.quantity /\ (state # "done" => filled < k.quantity)
  BY <1>4
<1> HIDE DEF state, filled, done
<1>13. /\ c \in Kids /\ c.filled = filled /\ c.state = state /\ c.frozenYd = yd /\ c.frozenTd = td
       /\ c.offset = k.offset /\ c.flag = k.flag /\ c.quantity = k.quantity /\ c.parent = k.parent
  BY <1>3, <1>9, <1>10, <1>12 DEF Kids
<1>14. Takes /\ state \in {"sent", "done"}
  BY <1>9, <1>10
<1> HIDE DEF c
<1>15. KidSound(c)
  <2>1. c \in Kids /\ c.filled <= c.quantity
    BY <1>12, <1>13
  <2>2. c.state = "done" \/ c.offset = "OPEN" => c.frozenYd = 0 /\ c.frozenTd = 0
    BY <1>11, <1>13, <1>14
  <2>3. ASSUME c.state # "done"
        PROVE  /\ c.filled < c.quantity
               /\ c.offset # "OPEN" => c.frozenYd + c.frozenTd = c.quantity - c.filled
               /\ c.offset = "CLOSE_TODAY" => c.frozenYd = 0
               /\ c.offset = "CLOSE_YESTERDAY" => c.frozenTd = 0
    BY <1>12, <1>13, <1>14, <2>3
  <2>4. /\ c.offset \in Routes!Explicit => Routes!SupportsToday(terms.capability)
        /\ c.offset = "CLOSE" => terms.capability # "split"
        /\ c.flag = c.offset
    BY <1>3, <1>13
  <2> QED BY <2>1, <2>2, <2>3, <2>4 DEF KidSound
<1>16. /\ c.parent = children[i].parent /\ c.quantity = children[i].quantity
       /\ BookSound(position')
       /\ position'.frozenYd = position.frozenYd + c.frozenYd - children[i].frozenYd
       /\ position'.frozenTd = position.frozenTd + c.frozenTd - children[i].frozenTd
  BY <1>2, <1>9, <1>13, <1>a
<1> QED BY <1>2, <1>15, <1>16, KidReplaced

\* Over night a child that waits holds the same lots, of yesterday now.
LEMMA RolledIs ==
  ASSUME NEW k, KidSound(k), k.state # "sent"
  PROVE  /\ KidSound(Routes!Rolled(k))
         /\ Routes!Rolled(k).parent = k.parent /\ Routes!Rolled(k).quantity = k.quantity
         /\ Routes!Rolled(k).frozenYd = k.frozenYd + k.frozenTd /\ Routes!Rolled(k).frozenTd = 0
<1> DEFINE yd == k.frozenYd + k.frozenTd
           offset == IF k.offset = "CLOSE_TODAY" /\ k.state = "held" THEN "CLOSE_YESTERDAY" ELSE k.offset
           c == [k EXCEPT !.frozenYd = yd, !.frozenTd = 0, !.offset = offset]
<1>1. k \in Kids /\ k.frozenYd \in Nat /\ k.frozenTd \in Nat /\ k.offset \in Routes!Offsets /\ k.state \in {"held", "done"}
  BY DEF KidSound, Kids
<1>2. c = Routes!Rolled(k)
  BY DEF Routes!Rolled
<1>3. offset \in Routes!Offsets /\ yd \in Nat
  BY <1>1 DEF Routes!Offsets, Routes!Explicit
<1>4. /\ offset = "OPEN" <=> k.offset = "OPEN"
      /\ k.state # "done" => offset # "CLOSE_TODAY"
      /\ offset = "CLOSE" <=> k.offset = "CLOSE"
      /\ offset \in Routes!Explicit <=> k.offset \in Routes!Explicit
  BY <1>1 DEF Routes!Explicit
<1> HIDE DEF yd, offset
<1>5. /\ c \in Kids /\ c.filled = k.filled /\ c.state = k.state /\ c.frozenYd = yd /\ c.frozenTd = 0
      /\ c.offset = offset /\ c.flag = k.flag /\ c.quantity = k.quantity /\ c.parent = k.parent
  BY <1>1, <1>3 DEF Kids
<1> HIDE DEF c
<1>6. KidSound(c)
  <2>1. c \in Kids /\ c.filled <= c.quantity /\ c.state # "sent"
    BY <1>5 DEF KidSound
  <2>2. ASSUME c.state = "done" \/ c.offset = "OPEN" PROVE c.frozenYd = 0 /\ c.frozenTd = 0
    <3>1. k.frozenYd = 0 /\ k.frozenTd = 0
      BY <1>4, <1>5, <2>2 DEF KidSound
    <3> QED BY <1>5, <3>1 DEF yd
  <2>3. ASSUME c.state # "done"
        PROVE  /\ c.filled < c.quantity
               /\ c.offset # "OPEN" => c.frozenYd + c.frozenTd = c.quantity - c.filled
               /\ c.offset = "CLOSE_TODAY" => c.frozenYd = 0
               /\ c.offset = "CLOSE_YESTERDAY" => c.frozenTd = 0
    <3>1. k.filled < k.quantity /\ (k.offset # "OPEN" => yd = k.quantity - k.filled)
      BY <1>5, <2>3 DEF KidSound, yd
    <3>2. yd + 0 = yd
      BY <1>3
    <3> QED BY <1>4, <1>5, <2>3, <3>1, <3>2
  <2>4. ASSUME c.state # "done"
        PROVE  /\ c.offset \in Routes!Explicit => Routes!SupportsToday(terms.capability)
               /\ c.offset = "CLOSE" => terms.capability # "split"
    BY <1>4, <1>5, <2>4 DEF KidSound
  <2> QED BY <2>1, <2>2, <2>3, <2>4 DEF KidSound
<1> QED BY <1>2, <1>5, <1>6 DEF yd

LEMMA RollStep ==
  ASSUME RouteInv, Routes!AdvanceTradingDay
  PROVE  RouteInv'
<1> DEFINE s == children
           t == [i \in 1..Len(children) |-> Routes!Rolled(children[i])]
           q == [yd |-> position.yd + position.td, td |-> 0,
                 frozenYd |-> position.frozenYd + position.frozenTd, frozenTd |-> 0]
<1>1. /\ s \in Seq(Kids) /\ \A i \in 1..Len(s) : KidSound(s[i]) /\ s[i].state # "sent"
      /\ BookSound(position) /\ BookHolds(position, s) /\ TermsKnown /\ RequestsWhole
      /\ children' = t /\ position' = q /\ terms' = terms /\ requests' = requests
  BY DEF Routes!AdvanceTradingDay, RouteInv, KidsSound, BooksSound
<1>2. Len(s) \in Nat /\ IsFiniteSet(1..Len(s))
  BY <1>1, FS_Interval
<1>3. \A i \in 1..Len(s) : /\ KidSound(t[i]) /\ t[i].parent = s[i].parent /\ t[i].quantity = s[i].quantity
                           /\ t[i].frozenYd = s[i].frozenYd + s[i].frozenTd /\ t[i].frozenTd = 0
  <2> TAKE i \in 1..Len(s)
  <2>1. t[i] = Routes!Rolled(s[i])
    OBVIOUS
  <2>2. KidSound(s[i]) /\ s[i].state # "sent"
    BY <1>1
  <2> HIDE DEF s, t
  <2> QED BY ONLY <2>1, <2>2, RolledIs
<1>4. t \in Seq(Kids) /\ Len(t) = Len(s)
  <2>1. \A i \in 1..Len(s) : t[i] \in Kids
    BY <1>3 DEF KidSound
  <2> QED BY <1>2, <2>1
<1> HIDE DEF t
<1>5. \A i \in 1..Len(s) : /\ YdIn(s)[i] \in Int /\ TdIn(s)[i] \in Int
                           /\ YdIn(t)[i] = YdIn(s)[i] + TdIn(s)[i] /\ TdIn(t)[i] = 0
  <2> TAKE i \in 1..Len(s)
  <2>1. YdIn(s)[i] = s[i].frozenYd /\ TdIn(s)[i] = s[i].frozenTd
    BY DEF YdIn, TdIn
  <2>2. YdIn(t)[i] = t[i].frozenYd /\ TdIn(t)[i] = t[i].frozenTd
    BY <1>4 DEF YdIn, TdIn
  <2>3. s[i].frozenYd \in Int /\ s[i].frozenTd \in Int
    <3>1. s[i] \in Kids
      BY <1>1
    <3> HIDE DEF s
    <3> QED BY <3>1 DEF Kids
  <2> QED BY <1>3, <2>1, <2>2, <2>3
<1>6. Total(YdIn(t), 1..Len(s)) = Total(YdIn(s), 1..Len(s)) + Total(TdIn(s), 1..Len(s))
  BY ONLY <1>2, <1>5, TotalAdds
<1>7. Total(TdIn(t), 1..Len(s)) = 0
  <2>1. {} \in SUBSET (1..Len(s)) /\ \A x \in {} : YdIn(s)[x] \in Int /\ TdIn(t)[x] = YdIn(s)[x]
    OBVIOUS
  <2>2. \A x \in (1..Len(s)) \ {} : TdIn(t)[x] = 0
    BY <1>5
  <2>3. Total(TdIn(t), 1..Len(s)) = Total(YdIn(s), {})
    BY ONLY <1>2, <2>1, <2>2, TotalOfPart
  <2> QED BY <2>3, TotalEmpty
<1>8. BookHolds(q, t)
  BY <1>1, <1>4, <1>6, <1>7 DEF BookHolds
<1>9. BookSound(q)
  <2>1. /\ position.yd \in Nat /\ position.td \in Nat /\ position.frozenYd \in Nat /\ position.frozenTd \in Nat
        /\ position.frozenYd <= position.yd /\ position.frozenTd <= position.td
    BY <1>1 DEF BookSound, Lots
  <2>2. \A a, b, c, d \in Nat : c <= a /\ d <= b => c + d <= a + b /\ a + b \in Nat /\ c + d \in Nat
    OBVIOUS
  <2>3. position.frozenYd + position.frozenTd <= position.yd + position.td /\ position.yd + position.td \in Nat
        /\ position.frozenYd + position.frozenTd \in Nat
    BY <2>1, <2>2
  <2> DEFINE a == position.yd + position.td
             b == position.frozenYd + position.frozenTd
  <2> HIDE DEF a, b
  <2>4. a \in Nat /\ b \in Nat /\ b <= a /\ q = [yd |-> a, td |-> 0, frozenYd |-> b, frozenTd |-> 0]
    BY <2>3 DEF a, b
  <2> HIDE DEF q
  <2> QED BY <2>4 DEF BookSound, Lots
<1> HIDE DEF q
<1>10. KidsSound'
  <2>1. children' \in Seq(Kids) /\ \A j \in 1..Len(children') : KidSound(children'[j])
    BY <1>1, <1>3, <1>4
  <2> QED BY <1>1, <2>1 DEF KidsSound, KidSound
<1>11. BooksSound'
  <2>1. BookHolds(position', children') /\ BookSound(position')
    BY <1>1, <1>8, <1>9
  <2> QED BY <2>1 DEF BooksSound
<1>12. RequestsWhole'
  <2>1. /\ requests \in Seq(Asks) /\ \A i \in 1..Len(s) : s[i].parent \in 1..Len(requests)
        /\ \A r \in 1..Len(requests) : Whole(s, r, requests[r])
    BY <1>1 DEF RequestsWhole
  <2>2. \A i \in 1..Len(t) : t[i].parent \in 1..Len(requests)
    BY <1>3, <1>4, <2>1
  <2>3. ASSUME NEW r \in 1..Len(requests) PROVE Whole(t, r, requests[r])
    <3>1. \A j \in 1..Len(s) : t[j].parent = s[j].parent /\ t[j].quantity = s[j].quantity
      BY <1>3
    <3>2. s \in Seq(Kids) /\ Whole(s, r, requests[r])
      BY <1>1, <2>1
    <3> HIDE DEF s
    <3> QED BY ONLY <1>4, <3>1, <3>2, OwnStays
  <2>4. children' = t /\ requests' = requests
    BY <1>1
  <2> QED BY <2>1, <2>2, <2>3, <2>4 DEF RequestsWhole
<1> QED BY <1>1, <1>10, <1>11, <1>12 DEF RouteInv, TermsKnown

-------------------------------------------------------------------------------
(* What the invariant says of the orders *)

\* The sums of the model are totals.
LEMMA SumOfYd ==
  ASSUME NEW n, n = Len(children), n \in Nat, NEW S \in SUBSET (1..n)
  PROVE  Routes!Sum(S, LAMBDA i : children[i].frozenYd) = Total(YdIn(children), S)
<1> DEFINE f == YdIn(children)
           next(s) == CHOOSE x \in s : TRUE
           Is(t) == t = [s \in SUBSET S |-> IF s = {} THEN 0 ELSE children[next(s)].frozenYd + t[s \ {next(s)}]]
           u == CHOOSE t : Is(t)
<1>1. IsFiniteSet(S)
  <2>1. IsFiniteSet(1..n)
    BY FS_Interval
  <2> QED BY <2>1, FS_Subset
<1>2. PICK t : Totals(t, f, S)
  BY <1>1, TotalsExist
<1>3. ASSUME NEW s \in SUBSET S, s # {} PROVE children[next(s)].frozenYd = f[next(s)]
  <2>1. next(s) \in 1..Len(children)
    BY <1>3
  <2> HIDE DEF next
  <2> QED BY <2>1 DEF YdIn
<1> HIDE DEF f
<1>4. Is(t)
  BY <1>2, <1>3, SMTT(40) DEF Totals
<1>5. Is(u)
  BY <1>4, ZenonT(40)
<1>6. Routes!Sum(S, LAMBDA i : children[i].frozenYd) = u[S]
  BY DEF Routes!Sum, Routes!MapThenSumSet, Routes!MapThenFoldSet
<1> HIDE DEF u
<1>7. Totals(u, f, S)
  <2>1. \A s \in SUBSET S : (IF s = {} THEN 0 ELSE children[next(s)].frozenYd + u[s \ {next(s)}])
                              = (IF s = {} THEN 0 ELSE f[next(s)] + u[s \ {next(s)}])
    BY <1>3
  <2>2. [s \in SUBSET S |-> IF s = {} THEN 0 ELSE children[next(s)].frozenYd + u[s \ {next(s)}]]
        = [s \in SUBSET S |-> IF s = {} THEN 0 ELSE f[next(s)] + u[s \ {next(s)}]]
    BY <2>1
  <2> QED BY <1>5, <2>2 DEF Totals
<1>8. Total(f, S) = u[S]
  BY <1>1, <1>7, TotalIs
<1> QED BY <1>6, <1>8 DEF f

LEMMA SumOfTd ==
  ASSUME NEW n, n = Len(children), n \in Nat, NEW S \in SUBSET (1..n)
  PROVE  Routes!Sum(S, LAMBDA i : children[i].frozenTd) = Total(TdIn(children), S)
<1> DEFINE f == TdIn(children)
           next(s) == CHOOSE x \in s : TRUE
           Is(t) == t = [s \in SUBSET S |-> IF s = {} THEN 0 ELSE children[next(s)].frozenTd + t[s \ {next(s)}]]
           u == CHOOSE t : Is(t)
<1>1. IsFiniteSet(S)
  <2>1. IsFiniteSet(1..n)
    BY FS_Interval
  <2> QED BY <2>1, FS_Subset
<1>2. PICK t : Totals(t, f, S)
  BY <1>1, TotalsExist
<1>3. ASSUME NEW s \in SUBSET S, s # {} PROVE children[next(s)].frozenTd = f[next(s)]
  <2>1. next(s) \in 1..Len(children)
    BY <1>3
  <2> HIDE DEF next
  <2> QED BY <2>1 DEF TdIn
<1> HIDE DEF f
<1>4. Is(t)
  BY <1>2, <1>3, SMTT(40) DEF Totals
<1>5. Is(u)
  BY <1>4, ZenonT(40)
<1>6. Routes!Sum(S, LAMBDA i : children[i].frozenTd) = u[S]
  BY DEF Routes!Sum, Routes!MapThenSumSet, Routes!MapThenFoldSet
<1> HIDE DEF u
<1>7. Totals(u, f, S)
  <2>1. \A s \in SUBSET S : (IF s = {} THEN 0 ELSE children[next(s)].frozenTd + u[s \ {next(s)}])
                              = (IF s = {} THEN 0 ELSE f[next(s)] + u[s \ {next(s)}])
    BY <1>3
  <2>2. [s \in SUBSET S |-> IF s = {} THEN 0 ELSE children[next(s)].frozenTd + u[s \ {next(s)}]]
        = [s \in SUBSET S |-> IF s = {} THEN 0 ELSE f[next(s)] + u[s \ {next(s)}]]
    BY <2>1
  <2> QED BY <1>5, <2>2 DEF Totals
<1>8. Total(f, S) = u[S]
  BY <1>1, <1>7, TotalIs
<1> QED BY <1>6, <1>8 DEF f

LEMMA SumOfAsked ==
  ASSUME NEW n, n = Len(children), n \in Nat, NEW S \in SUBSET (1..n)
  PROVE  Routes!Sum(S, LAMBDA i : children[i].quantity) = Total(AskedIn(children), S)
<1> DEFINE f == AskedIn(children)
           next(s) == CHOOSE x \in s : TRUE
           Is(t) == t = [s \in SUBSET S |-> IF s = {} THEN 0 ELSE children[next(s)].quantity + t[s \ {next(s)}]]
           u == CHOOSE t : Is(t)
<1>1. IsFiniteSet(S)
  <2>1. IsFiniteSet(1..n)
    BY FS_Interval
  <2> QED BY <2>1, FS_Subset
<1>2. PICK t : Totals(t, f, S)
  BY <1>1, TotalsExist
<1>3. ASSUME NEW s \in SUBSET S, s # {} PROVE children[next(s)].quantity = f[next(s)]
  <2>1. next(s) \in 1..Len(children)
    BY <1>3
  <2> HIDE DEF next
  <2> QED BY <2>1 DEF AskedIn
<1> HIDE DEF f
<1>4. Is(t)
  BY <1>2, <1>3, SMTT(40) DEF Totals
<1>5. Is(u)
  BY <1>4, ZenonT(40)
<1>6. Routes!Sum(S, LAMBDA i : children[i].quantity) = u[S]
  BY DEF Routes!Sum, Routes!MapThenSumSet, Routes!MapThenFoldSet
<1> HIDE DEF u
<1>7. Totals(u, f, S)
  <2>1. \A s \in SUBSET S : (IF s = {} THEN 0 ELSE children[next(s)].quantity + u[s \ {next(s)}])
                              = (IF s = {} THEN 0 ELSE f[next(s)] + u[s \ {next(s)}])
    BY <1>3
  <2>2. [s \in SUBSET S |-> IF s = {} THEN 0 ELSE children[next(s)].quantity + u[s \ {next(s)}]]
        = [s \in SUBSET S |-> IF s = {} THEN 0 ELSE f[next(s)] + u[s \ {next(s)}]]
    BY <2>1
  <2> QED BY <1>5, <2>2 DEF Totals
<1>8. Total(f, S) = u[S]
  BY <1>1, <1>7, TotalIs
<1> QED BY <1>6, <1>8 DEF f

LEMMA FlagsNamed ==
  ASSUME RouteInv
  PROVE  Routes!FlagsNameTheirLots
<1> SUFFICES ASSUME NEW i \in Routes!Live, children[i].state = "sent"
             PROVE  LET c == children[i] IN
                    /\ (c.flag \in Routes!Explicit => Routes!SupportsToday(terms.capability))
                    /\ (c.flag = "CLOSE" => terms.capability # "split")
                    /\ (c.flag = "CLOSE_TODAY" => c.frozenTd = Routes!Remaining(c) /\ c.frozenYd = 0)
                    /\ (c.flag = "CLOSE_YESTERDAY" => c.frozenYd = Routes!Remaining(c) /\ c.frozenTd = 0)
  BY DEF Routes!FlagsNameTheirLots
<1> DEFINE k == children[i]
<1>1. KidSound(k) /\ k.state = "sent"
  BY DEF Routes!Live, RouteInv, KidsSound
<1> HIDE DEF k
<1>2. /\ k.flag = k.offset /\ k.quantity \in Nat /\ k.filled \in Nat /\ k.frozenYd \in Nat /\ k.frozenTd \in Nat
      /\ k.offset # "OPEN" => k.frozenYd + k.frozenTd = k.quantity - k.filled
      /\ k.offset = "CLOSE_TODAY" => k.frozenYd = 0
      /\ k.offset = "CLOSE_YESTERDAY" => k.frozenTd = 0
      /\ k.offset \in Routes!Explicit => Routes!SupportsToday(terms.capability)
      /\ k.offset = "CLOSE" => terms.capability # "split"
  BY <1>1 DEF KidSound, Kids
<1>3. k.flag = "CLOSE_TODAY" => k.frozenTd = k.quantity - k.filled /\ k.frozenYd = 0
  BY <1>2
<1>4. k.flag = "CLOSE_YESTERDAY" => k.frozenYd = k.quantity - k.filled /\ k.frozenTd = 0
  BY <1>2
<1> QED BY <1>2, <1>3, <1>4 DEF k, Routes!Remaining

LEMMA HeldOnce ==
  ASSUME RouteInv
  PROVE  Routes!LotsAreHeldOnce
<1> DEFINE n == Len(children)
           L == Routes!Live
<1>1. n \in Nat /\ L \in SUBSET (1..n) /\ IsFiniteSet(1..n)
  BY FS_Interval DEF RouteInv, KidsSound, Routes!Live
<1>2. \A i \in 1..n : KidSound(children[i])
  BY DEF RouteInv, KidsSound
<1>3. BookSound(position) /\ BookHolds(position, children)
  BY DEF RouteInv, BooksSound
<1>4. \A i \in 1..n : /\ YdIn(children)[i] = children[i].frozenYd /\ TdIn(children)[i] = children[i].frozenTd
                       /\ children[i].frozenYd \in Int /\ children[i].frozenTd \in Int
  BY <1>2 DEF YdIn, TdIn, KidSound, Kids
<1>5. \A i \in (1..n) \ L : children[i].frozenYd = 0 /\ children[i].frozenTd = 0
  BY <1>2 DEF KidSound, Routes!Live
<1>6. Total(YdIn(children), 1..n) = Total(YdIn(children), L)
  <2> DEFINE f == YdIn(children)
             S == 1..n
  <2>1. L \in SUBSET S /\ IsFiniteSet(S) /\ \A i \in L : f[i] \in Int /\ f[i] = f[i]
    BY <1>1, <1>4
  <2>2. \A i \in S \ L : f[i] = 0
    BY <1>4, <1>5
  <2> HIDE DEF L, n, f, S
  <2>3. Total(f, S) = Total(f, L)
    BY ONLY <2>1, <2>2, TotalOfPart
  <2> QED BY <2>3 DEF f, S
<1>7. Total(TdIn(children), 1..n) = Total(TdIn(children), L)
  <2> DEFINE f == TdIn(children)
             S == 1..n
  <2>1. L \in SUBSET S /\ IsFiniteSet(S) /\ \A i \in L : f[i] \in Int /\ f[i] = f[i]
    BY <1>1, <1>4
  <2>2. \A i \in S \ L : f[i] = 0
    BY <1>4, <1>5
  <2> HIDE DEF L, n, f, S
  <2>3. Total(f, S) = Total(f, L)
    BY ONLY <2>1, <2>2, TotalOfPart
  <2> QED BY <2>3 DEF f, S
<1>8. position.frozenYd = Routes!Sum(L, LAMBDA i : children[i].frozenYd)
  <2>1. Routes!Sum(L, LAMBDA i : children[i].frozenYd) = Total(YdIn(children), L)
    BY <1>1, SumOfYd
  <2> QED BY <1>3, <1>6, <2>1 DEF BookHolds
<1>9. position.frozenTd = Routes!Sum(L, LAMBDA i : children[i].frozenTd)
  <2>1. Routes!Sum(L, LAMBDA i : children[i].frozenTd) = Total(TdIn(children), L)
    BY <1>1, SumOfTd
  <2> QED BY <1>3, <1>7, <2>1 DEF BookHolds
<1>10. position.frozenYd \in 0..position.yd /\ position.frozenTd \in 0..position.td
  BY <1>3 DEF BookSound, Lots
<1>11. \A i \in L : children[i].offset # "OPEN" =>
           children[i].frozenYd + children[i].frozenTd = Routes!Remaining(children[i])
  BY <1>2 DEF Routes!Live, Routes!Remaining, KidSound
<1> QED BY <1>8, <1>9, <1>10, <1>11 DEF Routes!LotsAreHeldOnce

LEMMA OrdersWhole ==
  ASSUME RouteInv
  PROVE  Routes!OrdersAreWhole
<1> SUFFICES ASSUME NEW r \in 1..Len(requests)
             PROVE  LET own == {i \in 1..Len(children) : children[i].parent = r} IN
                    /\ (own = {}) = (requests[r].answer # "accepted")
                    /\ own # {} => Routes!Sum(own, LAMBDA i : children[i].quantity) = requests[r].quantity
  BY DEF Routes!OrdersAreWhole
<1>1. Whole(children, r, requests[r]) /\ Len(children) \in Nat
  BY DEF RouteInv, RequestsWhole, KidsSound
<1> DEFINE own == OwnIn(children, r)
<1>2. own = {i \in 1..Len(children) : children[i].parent = r} /\ own \in SUBSET (1..Len(children))
  BY DEF OwnIn
<1>3. Routes!Sum(own, LAMBDA i : children[i].quantity) = Total(AskedIn(children), own)
  BY <1>1, <1>2, SumOfAsked
<1>4. /\ (own = {}) <=> (requests[r].answer # "accepted")
      /\ own # {} => Total(AskedIn(children), own) = requests[r].quantity
  BY <1>1 DEF Whole
<1>5. (own = {}) = (requests[r].answer # "accepted")
  BY <1>4
<1> HIDE DEF own
<1>6. /\ (own = {}) = (requests[r].answer # "accepted")
      /\ own # {} => Routes!Sum(own, LAMBDA i : children[i].quantity) = requests[r].quantity
  BY <1>3, <1>4, <1>5
<1> QED BY <1>2, <1>6

LEMMA ClosableClosed ==
  ASSUME RouteInv
  PROVE  Routes!ClosableIsClosed
<1> SUFFICES ASSUME NEW quantity \in 1..Routes!Available(position), terms.capability = "split" \/ terms.sameFee
             PROVE  Routes!Answer("CLOSE", quantity) = "accepted"
  BY DEF Routes!ClosableIsClosed
<1> DEFINE p == position
           plan == Routes!Plan(position, "CLOSE", quantity)
<1>1. BookSound(p) /\ TermsKnown
  BY DEF RouteInv, BooksSound
<1>2. Routes!Available(p) \in Int
  BY <1>1 DEF BookSound, Lots, Routes!Available, Routes!AvailableYd, Routes!AvailableTd
<1>3. quantity \in Nat \ {0} /\ Routes!Available(p) >= quantity
  BY <1>2
<1>4. "CLOSE" \in Routes!Offsets /\ Routes!Plannable(position, "CLOSE", quantity)
  BY <1>3 DEF Routes!Offsets, Routes!Plannable
<1>5. Alone(plan, p, quantity) \/ Divided(plan, p, quantity)
  BY <1>1, <1>3, <1>4, PlanIs
<1>6. \A c : MayPlan(c) => Routes!FeeKnown(c)
  BY DEF MayPlan, Routes!FeeKnown
<1> HIDE DEF plan
<1>7. Routes!Reserve(p, plan).fits
  <2>1. ASSUME NEW c \in Pieces, plan = <<c>>, MayPlan(c), Offered(p, c) PROVE Routes!Reserve(p, plan).fits
    <3>1. Routes!CanFreeze(p, c) /\ Routes!FeeKnown(c)
      BY <1>1, <1>6, <2>1, OfferedFits
    <3>2. Routes!Reserve(p, <<c>>).fits = (Routes!CanFreeze(p, c) /\ Routes!FeeKnown(c))
      <4>1. BookSound(p) /\ c \in Pieces
        BY <1>1
      <4>2. Routes!Reserve(p, <<c>>) =
               [fits |-> Routes!CanFreeze(p, c) /\ Routes!FeeKnown(c), position |-> Routes!Frozen(p, c),
                children |-> <<Kid(Len(requests) + 1, p, c)>>]
        BY ONLY <4>1, ReserveOne
      <4> QED BY ONLY <4>2
    <3> QED BY <2>1, <3>1, <3>2
  <2>2. ASSUME NEW c \in Pieces, NEW d \in Pieces,
               plan = <<c, d>>, MayPlan(c), MayPlan(d), Offered(p, c), Offered(p, d),
               c.offset \in Routes!Explicit, d.offset \in Routes!Explicit, c.offset # d.offset
        PROVE  Routes!Reserve(p, plan).fits
    <3>1. Routes!CanFreeze(p, c) /\ Routes!FeeKnown(c) /\ Routes!FeeKnown(d)
      BY <1>1, <1>6, <2>2, OfferedFits
    <3>2. BookSound(Routes!Frozen(p, c)) /\ Offered(Routes!Frozen(p, c), d)
      BY <1>1, <2>2, <3>1, FrozenIs, OtherDayStays
    <3>3. Routes!CanFreeze(Routes!Frozen(p, c), d)
      BY <3>2, OfferedFits
    <3>4. Routes!Reserve(p, <<c, d>>).fits =
             (/\ Routes!CanFreeze(p, c) /\ Routes!FeeKnown(c)
              /\ Routes!CanFreeze(Routes!Frozen(p, c), d) /\ Routes!FeeKnown(d))
      <4> DEFINE fits == /\ Routes!CanFreeze(p, c) /\ Routes!FeeKnown(c)
                         /\ Routes!CanFreeze(Routes!Frozen(p, c), d) /\ Routes!FeeKnown(d)
                 q == Routes!Frozen(Routes!Frozen(p, c), d)
                 kids == <<Kid(Len(requests) + 1, p, c), Kid(Len(requests) + 1, Routes!Frozen(p, c), d)>>
                 reserved == Routes!Reserve(p, <<c, d>>)
      <4>1. BookSound(p) /\ c \in Pieces /\ d \in Pieces /\ BookSound(Routes!Frozen(p, c))
        BY <1>1, <3>2
      <4>2. reserved = [fits |-> fits, position |-> q, children |-> kids]
        BY ONLY <4>1, ReserveTwo
      <4> HIDE DEF fits, q, kids, reserved
      <4>3. reserved.fits = fits
        BY ONLY <4>2
      <4> QED BY ONLY <4>3 DEF reserved, fits
    <3> QED BY <2>2, <3>1, <3>3, <3>4
  <2> QED BY <1>5, <2>1, <2>2 DEF Alone, Divided
<1> QED BY <1>4, <1>7 DEF Routes!Answer, plan

LEMMA TranslationFitted ==
  ASSUME RouteInv
  PROVE  Routes!TranslationFits
<1> SUFFICES ASSUME NEW offset \in Routes!Offsets, Routes!Translated(offset, position) \in Routes!Explicit
             PROVE  Routes!CanFreeze(position, Routes!Child(Routes!Translated(offset, position), 1))
  BY DEF Routes!TranslationFits
<1> DEFINE flag == Routes!Translated(offset, position)
           c == Routes!Child(flag, 1)
<1>1. BookSound(position)
  BY DEF RouteInv, BooksSound
<1>2. AvYd(position) \in Int /\ AvTd(position) \in Int
      /\ Routes!AvailableYd(position) = AvYd(position) /\ Routes!AvailableTd(position) = AvTd(position)
  BY <1>1 DEF BookSound, Lots, AvYd, AvTd, Routes!AvailableYd, Routes!AvailableTd
<1>3. /\ flag = "CLOSE_TODAY" => AvTd(position) >= 1
      /\ flag = "CLOSE_YESTERDAY" => AvYd(position) >= 1
      /\ flag \in {"CLOSE_TODAY", "CLOSE_YESTERDAY"}
  BY <1>2 DEF Routes!Translated, Routes!Explicit, Routes!Offsets
<1> HIDE DEF flag
<1>4. c \in Pieces /\ c.offset = flag /\ c.quantity = 1
  BY <1>3 DEF Routes!Child, Pieces, Routes!Offsets, Routes!Explicit
<1> HIDE DEF c
<1>5. Offered(position, c)
  BY <1>2, <1>3, <1>4 DEF Offered
<1> QED BY <1>1, <1>4, <1>5, OfferedFits DEF c, flag

LEMMA PricesReached == Routes!PricesReach
<1> SUFFICES ASSUME NEW side \in {"buy", "sell"}, NEW ask \in 2..5, NEW slippage \in 0..2, NEW tick \in 1..2
             PROVE  LET quote == [ask |-> ask, bid |-> ask - 1]
                        price == Routes!Priced(side, quote, slippage, tick) IN
                    /\ price % tick = 0
                    /\ IF side = "buy" THEN price >= ask + slippage * tick /\ price < ask + (slippage + 1) * tick
                       ELSE price <= quote.bid - slippage * tick /\ price > quote.bid - (slippage + 1) * tick
  BY DEF Routes!PricesReach
<1>1. CASE tick = 1
  BY <1>1 DEF Routes!Priced
<1>2. CASE tick = 2
  BY <1>2 DEF Routes!Priced
<1> QED BY <1>1, <1>2

LEMMA RoutesWhole ==
  ASSUME RouteInv
  PROVE  RoutesAreWhole
BY FlagsNamed, HeldOnce, OrdersWhole, ClosableClosed, TranslationFitted, PricesReached
   DEF RoutesAreWhole, Routes!RoutesAreWhole

-------------------------------------------------------------------------------
LEMMA RoutesBegin ==
  ASSUME RouteAssumption, ResearchInit
  PROVE  RouteInv
<1>1. /\ terms \in [capability : Routes!Capabilities, priority : {"yesterday", "today"}, sameFee : BOOLEAN]
      /\ position \in [yd : 0..MaxLots, td : 0..MaxLots, frozenYd : {0}, frozenTd : {0}]
      /\ children = <<>> /\ requests = <<>>
  BY DEF ResearchInit, Routes!RoutingInit
<1>2. BookSound(position) /\ position.frozenYd = 0 /\ position.frozenTd = 0
  BY <1>1 DEF RouteAssumption, BookSound, Lots
<1>3. 1..Len(children) = {} /\ children \in Seq(Kids)
  BY <1>1
<1>4. Total(YdIn(children), 1..Len(children)) = 0 /\ Total(TdIn(children), 1..Len(children)) = 0
  BY <1>3, TotalEmpty
<1>5. BookHolds(position, children)
  BY <1>2, <1>4 DEF BookHolds
<1>6. RequestsWhole
  BY <1>1, <1>3 DEF RequestsWhole
<1> QED BY <1>1, <1>2, <1>3, <1>5, <1>6 DEF RouteInv, TermsKnown, KidsSound, BooksSound

LEMMA RoutesStep ==
  ASSUME RouteAssumption, RouteInv, [ResearchNext]_researchVars
  PROVE  RouteInv'
<1>1. CASE UNCHANGED routeVars
  BY <1>1 DEF routeVars, RouteInv, TermsKnown, KidsSound, KidSound, BooksSound, RequestsWhole
<1>2. CASE Routes!RoutingNext
  <2>1. ASSUME NEW offset \in Routes!Offsets, NEW quantity \in 1..MaxLots, Routes!SendOrder(offset, quantity)
        PROVE  RouteInv'
    BY <2>1, SendStep
  <2>2. ASSUME NEW i \in 1..Len(children), Routes!Submit(i) \/ Routes!Fill(i) \/ Routes!Cancel(i) PROVE RouteInv'
    BY <2>2, SubmitStep, FillStep, CancelStep
  <2>3. CASE Routes!AdvanceTradingDay
    BY <2>3, RollStep
  <2> QED BY <1>2, <2>1, <2>2, <2>3 DEF Routes!RoutingNext
<1>3. UNCHANGED routeVars \/ Routes!RoutingNext
  <2>1. CASE UNCHANGED researchVars
    BY <2>1 DEF researchVars, otherVars
  <2>2. CASE Simulates(BacktestNext)
    BY <2>2 DEF Simulates, otherVars
  <2>3. CASE Stores(Store!DataNext)
    BY <2>3 DEF Stores, otherVars
  <2>4. CASE Registers(Rules!RulesNext) \/ Observes(Dominant!ObserveDay)
    BY <2>4 DEF Registers, Observes
  <2>5. CASE Closes(Routes!RoutingNext)
    BY <2>5 DEF Closes
  <2> QED BY <2>1, <2>2, <2>3, <2>4, <2>5 DEF ResearchNext
<1> QED BY <1>1, <1>2, <1>3

\* For every capability of an exchange, priority of the router and fee, and any
\* number of lots and orders: from an intent to the exchange nothing is lost,
\* doubled, or named wrongly (SmartRouter.plan_order, BaseEngine.send_order).
THEOREM RoutesAlwaysWhole == ResearchSpec => []RoutesAreWhole
<1>1. ResearchInit => RouteInv
  BY RouteAssumption, RoutesBegin
<1>2. RouteInv /\ [ResearchNext]_researchVars => RouteInv'
  BY RouteAssumption, RoutesStep
<1>3. RouteInv => RoutesAreWhole
  BY RoutesWhole
<1> QED BY <1>1, <1>2, <1>3, PTL DEF ResearchSpec

-------------------------------------------------------------------------------
(* The versions of a rule: the inductive invariant, and the history of one *)

Parent(i) == versions[i].replaces

\* A version replaces one that was registered before it and was known by then.
ParentSound(i) ==
    Parent(i) # 0 =>
        /\ Parent(i) \in Rules!Registered /\ Parent(i) < i
        /\ versions[Parent(i)].available <= versions[i].available
RuleInv ==
    /\ IsFiniteSet(Rules!Registered) /\ Rules!Registered \subseteq Ids
    /\ \A i \in Rules!Registered : versions[i] \in Rules!Contents /\ ParentSound(i)
    /\ \A i \in Rules!Registered, j \in Ids : j < i => j \in Rules!Registered

\* What is behind a version: the least set with the one it replaces, and with
\* the ones that those in it replace.
Goes(T) == \A k \in T : Parent(k) # 0 => Parent(k) \in T
Behind(i) ==
    {j \in Rules!Registered :
        Parent(i) # 0 /\ \A T \in SUBSET Rules!Registered : Goes(T) /\ Parent(i) \in T => j \in T}

LEMMA VersionsKnown ==
  ASSUME RuleAssumption, RuleInv, NEW i \in Rules!Registered
  PROVE  /\ i \in Nat \ {0} /\ versions[i].available \in Nat
         /\ Parent(i) # 0 => /\ Parent(i) \in Rules!Registered /\ Parent(i) < i
                             /\ versions[Parent(i)].available <= versions[i].available
BY DEF RuleAssumption, RuleInv, ParentSound, Rules!Contents, Rules!Times

LEMMA BehindGoes ==
  ASSUME RuleAssumption, RuleInv, NEW i \in Rules!Registered
  PROVE  Goes(Behind(i)) /\ Behind(i) \subseteq Rules!Registered
<1> SUFFICES ASSUME NEW k \in Behind(i), Parent(k) # 0 PROVE Parent(k) \in Behind(i)
  BY DEF Goes, Behind
<1>1. k \in Rules!Registered /\ Parent(i) # 0
  BY DEF Behind
<1>2. Parent(k) \in Rules!Registered
  BY <1>1, VersionsKnown
<1>3. ASSUME NEW T \in SUBSET Rules!Registered, Goes(T), Parent(i) \in T PROVE Parent(k) \in T
  <2>1. k \in T
    BY <1>3 DEF Behind
  <2> QED BY <2>1, <1>3 DEF Goes
<1> QED BY <1>1, <1>2, <1>3 DEF Behind

\* Every set that goes back with its members, and has the parent, holds what is behind.
LEMMA BehindWithin ==
  ASSUME NEW i, NEW T \in SUBSET Rules!Registered, Goes(T), Parent(i) # 0 => Parent(i) \in T
  PROVE  Behind(i) \subseteq T
BY DEF Behind

LEMMA BehindIs ==
  ASSUME RuleAssumption, RuleInv, NEW i \in Rules!Registered
  PROVE  Behind(i) = IF Parent(i) = 0 THEN {} ELSE {Parent(i)} \union Behind(Parent(i))
<1>1. CASE Parent(i) = 0
  BY <1>1 DEF Behind
<1>2. CASE Parent(i) # 0
  <2> DEFINE p == Parent(i)
             T == {p} \union Behind(p)
  <2>1. p \in Rules!Registered /\ p # 0
    BY <1>2, VersionsKnown
  <2> HIDE DEF p
  <2>2. Goes(Behind(p)) /\ Behind(p) \subseteq Rules!Registered
    BY <2>1, BehindGoes
  <2>3. Parent(p) # 0 => Parent(p) \in Behind(p)
    <3>1. Parent(p) # 0 => Parent(p) \in Rules!Registered
      BY <2>1, VersionsKnown
    <3> QED BY <3>1 DEF Behind
  <2>4. Goes(T) /\ T \subseteq Rules!Registered
    BY <2>1, <2>2, <2>3 DEF Goes
  <2>5. Behind(i) \subseteq T
    BY <2>4, BehindWithin DEF p
  <2>6. p \in Behind(i)
    BY <1>2, <2>1 DEF Behind, p
  <2>7. Behind(p) \subseteq Behind(i)
    <3>1. Goes(Behind(i)) /\ Behind(i) \subseteq Rules!Registered
      BY BehindGoes
    <3>2. Parent(p) # 0 => Parent(p) \in Behind(i)
      BY <2>6, <3>1 DEF Goes
    <3> QED BY <3>1, <3>2, BehindWithin
  <2>8. Behind(i) = T
    BY <2>5, <2>6, <2>7
  <2> QED BY <1>2, <2>8 DEF p
<1> QED BY <1>1, <1>2

\* What is behind is older, was known before, and has behind it what is behind it.
LEMMA BehindIsOlder ==
  ASSUME RuleAssumption, RuleInv, NEW i \in Rules!Registered, NEW j \in Behind(i)
  PROVE  j \in Rules!Registered /\ j < i /\ versions[j].available <= versions[i].available
<1> DEFINE T == {k \in Rules!Registered : k < i /\ versions[k].available <= versions[i].available}
<1>1. Goes(T)
  <2> SUFFICES ASSUME NEW k \in T, Parent(k) # 0 PROVE Parent(k) \in T
    BY DEF Goes
  <2>1. /\ k \in Nat /\ i \in Nat /\ versions[k].available \in Nat /\ versions[i].available \in Nat
        /\ Parent(k) \in Rules!Registered /\ Parent(k) < k
        /\ versions[Parent(k)].available <= versions[k].available
    BY VersionsKnown
  <2>2. Parent(k) \in Nat /\ versions[Parent(k)].available \in Nat
    BY <2>1, VersionsKnown
  <2>3. k < i /\ versions[k].available <= versions[i].available
    OBVIOUS
  <2>4. \A a, b, c \in Nat : (a < b /\ b < c => a < c) /\ (a <= b /\ b <= c => a <= c)
    OBVIOUS
  <2>5. Parent(k) < i
    BY <2>1, <2>2, <2>3, <2>4
  <2>6. versions[Parent(k)].available <= versions[i].available
    BY <2>1, <2>2, <2>3, <2>4
  <2> QED BY <2>1, <2>5, <2>6
<1>2. Parent(i) # 0 => Parent(i) \in T
  BY VersionsKnown
<1> HIDE DEF T
<1>3. Behind(i) \subseteq T
  <2>1. T \in SUBSET Rules!Registered
    BY DEF T
  <2> QED BY <1>1, <1>2, <2>1, BehindWithin
<1> QED BY <1>3 DEF T

LEMMA BehindBehind ==
  ASSUME RuleAssumption, RuleInv, NEW i \in Rules!Registered, NEW j \in Behind(i)
  PROVE  Behind(j) \subseteq Behind(i)
<1>1. Goes(Behind(i)) /\ Behind(i) \in SUBSET Rules!Registered
  BY BehindGoes
<1>2. Parent(j) # 0 => Parent(j) \in Behind(i)
  BY <1>1 DEF Goes
<1> QED BY <1>1, <1>2, BehindWithin

\* Each of them was replaced by one that is on the way.
LEMMA BehindHasChild ==
  ASSUME RuleAssumption, RuleInv, NEW i \in Rules!Registered, NEW j \in Behind(i)
  PROVE  \E c \in {i} \union Behind(i) : Parent(c) = j /\ Parent(c) # 0
<1> DEFINE T == {k \in Behind(i) : \E c \in {i} \union Behind(i) : Parent(c) = k /\ Parent(c) # 0}
<1>1. Goes(Behind(i)) /\ Behind(i) \in SUBSET Rules!Registered
  BY BehindGoes
<1>2. Goes(T) /\ T \in SUBSET Rules!Registered
  BY <1>1 DEF Goes
<1>3. Parent(i) # 0 => Parent(i) \in T
  <2>1. Parent(i) # 0 => Parent(i) \in Behind(i)
    BY BehindIs
  <2> QED BY <2>1
<1> HIDE DEF T
<1>4. j \in T
  BY <1>2, <1>3, BehindWithin
<1> QED BY <1>4 DEF T

-------------------------------------------------------------------------------
(* The definitions of the model are this history *)

\* What a version replaces, by the recursive function of the model.
LEMMA ReplacedIs ==
  ASSUME RuleAssumption, RuleInv, NEW i \in Rules!Registered
  PROVE  Rules!Replaced[i] = Behind(i)
<1> DEFINE R == Rules!Registered
           Is(b) == b = [k \in R |-> IF Parent(k) = 0 THEN {} ELSE {Parent(k)} \union b[Parent(k)]]
           all == [k \in R |-> Behind(k)]
           before == CHOOSE b : Is(b)
<1>1. Is(all)
  <2>1. ASSUME NEW k \in R
        PROVE  Behind(k) = IF Parent(k) = 0 THEN {} ELSE {Parent(k)} \union all[Parent(k)]
    <3>1. Parent(k) # 0 => Parent(k) \in R /\ all[Parent(k)] = Behind(Parent(k))
      BY VersionsKnown
    <3> QED BY <3>1, BehindIs
  <2>2. [k \in R |-> Behind(k)] = [k \in R |-> IF Parent(k) = 0 THEN {} ELSE {Parent(k)} \union all[Parent(k)]]
    BY <2>1
  <2> QED BY <2>2
<1> HIDE DEF all
<1>2. Is(before)
  BY <1>1, ZenonT(40)
<1>3. Rules!Replaced = before
  BY DEF Rules!Replaced, Parent, Rules!NoRule
<1> HIDE DEF before
<1>4. \A k \in R : before[k] = IF Parent(k) = 0 THEN {} ELSE {Parent(k)} \union before[Parent(k)]
  BY <1>2
<1> HIDE DEF Is
<1> DEFINE apart == {k \in R : before[k] # Behind(k)}
<1>5. apart = {}
  <2> SUFFICES ASSUME apart # {} PROVE FALSE
    OBVIOUS
  <2>1. apart \in SUBSET Nat
    BY VersionsKnown
  <2>2. PICK m \in apart : \A k \in apart : m <= k
    <3> HIDE DEF apart
    <3> QED BY <2>1, NatsHaveLeast
  <2>3. m \in R /\ before[m] # Behind(m)
    OBVIOUS
  <2>4. Parent(m) # 0 => Parent(m) \in R /\ Parent(m) < m /\ m \in Nat /\ Parent(m) \in Nat
    BY <2>3, VersionsKnown
  <2>5. Parent(m) # 0 => Parent(m) \notin apart
    <3> HIDE DEF apart
    <3> QED BY <2>2, <2>4
  <2>6. Parent(m) # 0 => before[Parent(m)] = Behind(Parent(m))
    BY <2>4, <2>5
  <2>7. before[m] = Behind(m)
    BY <1>4, <2>3, <2>6, BehindIs
  <2> QED BY <2>3, <2>7
<1>6. i \in R /\ i \notin apart
  BY <1>5
<1> QED BY <1>3, <1>6

\* A version comes from another, by a path of steps, if that is behind it.
LEMMA ComesFromIs ==
  ASSUME RuleAssumption, RuleInv, NEW i \in Rules!Registered, NEW j \in Rules!Registered
  PROVE  Rules!ComesFrom(i, j) <=> j \in Behind(i)
<1> DEFINE R == Rules!Registered
<1>0. \A k, l : <<k, l>> \in Rules!Steps <=> k \in R /\ Parent(k) # 0 /\ l = Parent(k)
  BY DEF Rules!Steps, Parent, Rules!NoRule
<1>1. ASSUME Rules!ComesFrom(i, j) PROVE j \in Behind(i)
  <2>1. PICK path \in SUBSET R :
            /\ i \in path /\ j \in path /\ i # j
            /\ \A k \in path : k # j => \E l \in path : <<k, l>> \in Rules!Steps
    BY <1>1 DEF Rules!ComesFrom
  <2>2. \A k \in path : k # j => Parent(k) # 0 /\ Parent(k) \in path
    <3> SUFFICES ASSUME NEW k \in path, k # j PROVE Parent(k) # 0 /\ Parent(k) \in path
      OBVIOUS
    <3>1. PICK l \in path : <<k, l>> \in Rules!Steps
      BY <2>1
    <3> QED BY <1>0, <3>1
  <2> DEFINE bad == {k \in path : k # j /\ j \notin Behind(k)}
  <2>3. bad = {}
    <3> SUFFICES ASSUME bad # {} PROVE FALSE
      OBVIOUS
    <3>1. bad \in SUBSET Nat
      BY VersionsKnown
    <3>2. PICK m \in bad : \A k \in bad : m <= k
      <4> HIDE DEF bad
      <4> QED BY <3>1, NatsHaveLeast
    <3>3. m \in R /\ m \in path /\ m # j /\ j \notin Behind(m)
      OBVIOUS
    <3>4. Parent(m) # 0 /\ Parent(m) \in path /\ Parent(m) < m /\ m \in Nat /\ Parent(m) \in Nat
      BY <2>2, <3>3, VersionsKnown
    <3>5. Parent(m) \notin bad
      <4> HIDE DEF bad
      <4> QED BY <3>2, <3>4
    <3>6. Parent(m) = j \/ j \in Behind(Parent(m))
      BY <3>4, <3>5
    <3>7. j \in Behind(m)
      BY <3>3, <3>4, <3>6, BehindIs
    <3> QED BY <3>3, <3>7
  <2>4. i \notin bad
    BY <2>3
  <2> QED BY <2>1, <2>4
<1>2. ASSUME j \in Behind(i) PROVE Rules!ComesFrom(i, j)
  <2> DEFINE path == {k \in R : (k = i \/ k \in Behind(i)) /\ (k = j \/ j \in Behind(k))}
  <2>1. i \in path /\ j \in path /\ i # j
    <3>1. j < i /\ i \in Nat
      BY <1>2, BehindIsOlder, VersionsKnown
    <3> QED BY <1>2, <3>1
  <2>2. ASSUME NEW k \in path, k # j PROVE \E l \in path : <<k, l>> \in Rules!Steps
    <3>1. k \in R /\ j \in Behind(k) /\ (k = i \/ k \in Behind(i))
      BY <2>2
    <3>2. Parent(k) # 0 /\ (Parent(k) = j \/ j \in Behind(Parent(k))) /\ Parent(k) \in Behind(k)
      BY <3>1, BehindIs
    <3>3. Parent(k) \in R
      BY <3>1, <3>2, VersionsKnown
    <3>4. Parent(k) \in Behind(i)
      BY <3>1, <3>2, BehindBehind
    <3>5. Parent(k) \in path
      BY <3>2, <3>3, <3>4
    <3> QED BY <1>0, <3>1, <3>2, <3>5
  <2>3. ASSUME NEW k \in path, k # i PROVE \E l \in path : <<l, k>> \in Rules!Steps
    <3>1. k \in R /\ k \in Behind(i) /\ (k = j \/ j \in Behind(k))
      BY <2>3
    <3>2. PICK c \in {i} \union Behind(i) : Parent(c) = k /\ Parent(c) # 0
      BY <3>1, BehindHasChild
    <3>3. c \in R
      BY <3>2, BehindIsOlder
    <3>4. k \in Behind(c)
      BY <3>2, <3>3, BehindIs
    <3>5. j \in Behind(c)
      BY <3>1, <3>3, <3>4, BehindBehind
    <3>6. c \in path
      BY <3>2, <3>3, <3>5
    <3> QED BY <1>0, <3>2, <3>3, <3>6
  <2>4. path \in SUBSET R
    OBVIOUS
  <2> HIDE DEF path
  <2> QED BY <2>1, <2>2, <2>3, <2>4 DEF Rules!ComesFrom
<1> QED BY <1>1, <1>2

-------------------------------------------------------------------------------
(* What a query finds *)

LEMMA CandidatesAre ==
  ASSUME RuleAssumption, RuleInv, NEW at, NEW asked
  PROVE  /\ Rules!Candidates(at, asked) \in SUBSET Rules!Registered
         /\ IsFiniteSet(Rules!Candidates(at, asked))
         /\ Rules!Matches(at, asked) =
               {m \in Rules!Candidates(at, asked) : \A i \in Rules!Candidates(at, asked) : m \notin Behind(i)}
<1> DEFINE found == Rules!Candidates(at, asked)
<1>1. found \in SUBSET Rules!Registered
  BY DEF Rules!Candidates
<1>2. IsFiniteSet(found)
  BY <1>1, FS_Subset DEF RuleInv
<1>3. \A i \in found : Rules!Replaced[i] = Behind(i)
  BY <1>1, ReplacedIs
<1>4. Rules!Matches(at, asked) = found \ UNION {Rules!Replaced[i] : i \in found}
  BY DEF Rules!Matches
<1> HIDE DEF found
<1>5. Rules!Matches(at, asked) = {m \in found : \A i \in found : m \notin Behind(i)}
  BY <1>3, <1>4
<1> QED BY <1>1, <1>2, <1>5 DEF found

\* Whatever is in effect is the match or is behind one.
LEMMA SomeMatch ==
  ASSUME RuleAssumption, RuleInv, NEW at, NEW asked, NEW j \in Rules!Candidates(at, asked)
  PROVE  \E m \in Rules!Matches(at, asked) : m = j \/ j \in Behind(m)
<1> DEFINE found == Rules!Candidates(at, asked)
           D == {i \in found : i = j \/ j \in Behind(i)}
           above(i) == {k \in D : i <= k}
           B == {above(i) : i \in D}
<1>1. found \in SUBSET Rules!Registered /\ IsFiniteSet(found)
  BY CandidatesAre
<1>2. j \in D /\ IsFiniteSet(D)
  BY <1>1, FS_Subset
<1>3. \A i \in D : i \in Nat /\ i \in Rules!Registered
  BY <1>1, VersionsKnown
<1> HIDE DEF D
<1>4. B \in SUBSET SUBSET D /\ B # {}
  BY <1>2
<1>5. PICK s \in B : \A r \in B : r \subseteq s => r = s
  <2> HIDE DEF B
  <2> QED BY <1>2, <1>4, SmallestSubset
<1>6. PICK m \in D : s = above(m)
  OBVIOUS
<1>7. \A i \in D : m \notin Behind(i)
  <2> SUFFICES ASSUME NEW i \in D, m \in Behind(i) PROVE FALSE
    OBVIOUS
  <2>1. m < i /\ m \in Nat /\ i \in Nat
    BY <1>3, BehindIsOlder
  <2>2. above(i) \subseteq above(m)
    <3>1. \A k \in D : i <= k => m <= k
      <4> TAKE k \in D
      <4>1. k \in Nat
        BY <1>3
      <4> QED BY <2>1, <4>1
    <3> QED BY <3>1
  <2>3. above(i) = above(m)
    <3>1. above(i) \in B
      OBVIOUS
    <3> QED BY <1>5, <1>6, <2>2, <3>1
  <2>4. m \in above(m) /\ m \notin above(i)
    BY <1>3, <2>1
  <2> QED BY <2>3, <2>4
<1>8. \A i \in found : m \notin Behind(i)
  <2> SUFFICES ASSUME NEW i \in found, m \in Behind(i) PROVE FALSE
    OBVIOUS
  <2>1. i \in Rules!Registered /\ (m = j \/ j \in Behind(m))
    BY <1>1 DEF D
  <2>2. j \in Behind(i)
    BY <2>1, BehindBehind
  <2>3. i \in D
    BY <2>2 DEF D
  <2> QED BY <1>7, <2>3
<1>9. m \in found /\ (m = j \/ j \in Behind(m))
  BY DEF D
<1> QED BY <1>8, <1>9, CandidatesAre

LEMMA FindIs ==
  ASSUME RuleAssumption, RuleInv, NEW at, NEW asked
  PROVE  /\ Rules!Find(at, asked).status = "missing" <=> Rules!Matches(at, asked) = {}
         /\ Rules!Find(at, asked).status = "found" =>
               Rules!Matches(at, asked) = {Rules!Find(at, asked).id}
         /\ Rules!Find(at, asked).status = "ambiguous" =>
               \E i, j \in Rules!Matches(at, asked) : i # j
<1> DEFINE matches == Rules!Matches(at, asked)
           answer == Rules!Find(at, asked)
<1>1. IsFiniteSet(matches)
  <2>1. matches \subseteq Rules!Candidates(at, asked) /\ IsFiniteSet(Rules!Candidates(at, asked))
    BY CandidatesAre
  <2> QED BY <2>1, FS_Subset
<1>2. Cardinality(matches) = 1 <=> \E x : matches = {x}
  BY <1>1, FS_Singleton
<1>3. answer = CASE matches = {} -> [status |-> "missing"]
                 [] Cardinality(matches) = 1 -> [status |-> "found", id |-> CHOOSE i \in matches : TRUE]
                 [] OTHER -> [status |-> "ambiguous"]
  BY DEF Rules!Find
<1> HIDE DEF matches, answer
<1>4. CASE matches = {}
  <2>1. answer = [status |-> "missing"]
    BY <1>2, <1>3, <1>4
  <2> QED BY <1>4, <2>1 DEF matches, answer
<1>5. ASSUME NEW x, matches = {x}
      PROVE  answer.status = "found" /\ matches = {answer.id}
  <2>1. (CHOOSE i \in matches : TRUE) = x
    BY <1>5
  <2>2. answer = [status |-> "found", id |-> CHOOSE i \in matches : TRUE]
    BY <1>2, <1>3, <1>5
  <2> QED BY <1>5, <2>1, <2>2
<1>6. ASSUME matches # {}, ~\E x : matches = {x}
      PROVE  answer.status = "ambiguous" /\ \E i, j \in matches : i # j
  <2>1. answer = [status |-> "ambiguous"]
    BY <1>2, <1>3, <1>6
  <2> QED BY <1>6, <2>1
<1> QED BY <1>4, <1>5, <1>6 DEF matches, answer

LEMMA AnswersAreSound ==
  ASSUME RuleAssumption, RuleInv
  PROVE  Rules!AnswersStand
<1> SUFFICES ASSUME NEW q \in Rules!Queries, Rules!Find(q[1], q[2]).status = "found"
             PROVE  LET answer == Rules!Find(q[1], q[2]) IN
                    /\ answer.id \in Rules!Candidates(q[1], q[2])
                    /\ \A j \in Rules!Registered : Rules!ComesFrom(answer.id, j) => versions[j].available <= q[2]
                    /\ \A j \in Rules!Candidates(q[1], q[2]) \ {answer.id} : Rules!ComesFrom(answer.id, j)
  BY DEF Rules!AnswersStand
<1> DEFINE found == Rules!Candidates(q[1], q[2])
           a == Rules!Find(q[1], q[2]).id
<1>1. Rules!Matches(q[1], q[2]) = {a}
  BY FindIs
<1>2. a \in found /\ found \in SUBSET Rules!Registered
  BY <1>1, CandidatesAre
<1>3. versions[a].available <= q[2] /\ q[2] \in Nat
  BY <1>2 DEF Rules!Candidates, Rules!Queries, Rules!Times
<1> HIDE DEF a
<1>4. ASSUME NEW j \in Rules!Registered, Rules!ComesFrom(a, j) PROVE versions[j].available <= q[2]
  <2>1. j \in Behind(a)
    BY <1>2, <1>4, ComesFromIs
  <2>2. versions[j].available <= versions[a].available
    BY <1>2, <2>1, BehindIsOlder
  <2>3. versions[j].available \in Nat /\ versions[a].available \in Nat
    BY <1>2, VersionsKnown
  <2> QED BY <1>3, <2>2, <2>3
<1>5. ASSUME NEW j \in found \ {a} PROVE Rules!ComesFrom(a, j)
  <2>1. \E m \in Rules!Matches(q[1], q[2]) : m = j \/ j \in Behind(m)
    BY SomeMatch
  <2>2. j \in Behind(a)
    BY <1>1, <2>1
  <2> QED BY <1>2, <2>2, ComesFromIs
<1> QED BY <1>2, <1>4, <1>5 DEF a

-------------------------------------------------------------------------------
(* A history without branches *)

LEMMA Counted == \A S : Rules!Cardinality(S) = Cardinality(S)
BY DEF Rules!Cardinality, Cardinality

LEMMA AtMostOne ==
  ASSUME NEW S, IsFiniteSet(S), Cardinality(S) <= 1, NEW x \in S, NEW y \in S
  PROVE  x = y
<1> SUFFICES ASSUME x # y PROVE FALSE
  OBVIOUS
<1>1. IsFiniteSet(S \ {x}) /\ Cardinality(S \ {x}) = Cardinality(S) - 1
  BY FS_RemoveElement
<1>2. Cardinality(S) \in Nat /\ Cardinality(S \ {x}) \in Nat
  BY <1>1, FS_CardinalityType
<1>3. Cardinality(S \ {x}) = 0
  BY <1>1, <1>2
<1>4. S \ {x} = {}
  BY <1>1, <1>3, FS_EmptySet
<1> QED BY <1>4

LEMMA LinearIs ==
  ASSUME RuleAssumption, RuleInv, Rules!Linear
  PROVE  \A i, j \in Rules!Registered : i = j \/ i \in Behind(j) \/ j \in Behind(i)
<1> DEFINE R == Rules!Registered
           apart(i, j) == ~(i = j \/ i \in Behind(j) \/ j \in Behind(i))
           C == {n \in Nat : \E i, j \in R : apart(i, j) /\ n = i + j}
<1>1. \A i, j \in R : Parent(i) = 0 /\ Parent(j) = 0 => i = j
  <2> DEFINE roots == {i \in R : Parent(i) = 0}
  <2>1. IsFiniteSet(roots)
    BY FS_Subset DEF RuleInv
  <2>2. Cardinality(roots) <= 1
    <3>1. roots = {i \in Rules!Registered : versions[i].replaces = Rules!NoRule}
      BY DEF Parent, Rules!NoRule
    <3> HIDE DEF roots
    <3> QED BY <3>1, Counted DEF Rules!Linear
  <2> QED BY <2>1, <2>2, AtMostOne
<1>2. \A p \in R : \A i, j \in R : Parent(i) = p /\ Parent(j) = p => i = j
  <2> TAKE p \in R
  <2> DEFINE next == {i \in R : Parent(i) = p}
  <2>1. IsFiniteSet(next)
    BY FS_Subset DEF RuleInv
  <2>2. Cardinality(next) <= 1
    <3>1. next = Rules!Successors(p)
      BY DEF Parent, Rules!Successors
    <3>2. \A i \in R : Cardinality(Rules!Successors(i)) <= 1
      BY Counted DEF Rules!Linear
    <3> HIDE DEF next
    <3> QED BY <3>1, <3>2
  <2> QED BY <2>1, <2>2, AtMostOne
<1>3. \A i \in R : i \in Nat
  BY VersionsKnown
<1>4. ASSUME NEW i \in R, NEW j \in R, apart(i, j), \A m \in C : i + j <= m, Parent(j) # 0 PROVE FALSE
  <2> DEFINE p == Parent(j)
  <2>1. p \in R /\ p < j /\ p \in Behind(j)
    <3>1. p \in R /\ p < j
      BY <1>4, VersionsKnown
    <3> QED BY <1>4, <3>1, BehindIs
  <2> HIDE DEF p
  <2>2. i # p
    BY <1>4, <2>1
  <2>3. i + p \notin C
    <3>1. i \in Nat /\ j \in Nat /\ p \in Nat
      BY <1>3, <2>1
    <3>2. ~(i + j <= i + p)
      BY <3>1, <2>1
    <3> HIDE DEF C
    <3> QED BY <1>4, <3>2
  <2>4. ~apart(i, p)
    <3>1. i + p \in Nat
      BY <1>3, <2>1
    <3> QED BY <2>1, <2>3, <3>1
  <2>5. i \notin Behind(p)
    BY <1>4, <2>1, BehindBehind
  <2>6. p \in Behind(i)
    BY <2>2, <2>4, <2>5
  <2>7. PICK c \in {i} \union Behind(i) : Parent(c) = p /\ Parent(c) # 0
    BY <2>6, BehindHasChild
  <2>8. c \in R
    BY <2>7, BehindIsOlder
  <2>9. c = j
    BY <1>2, <2>1, <2>7, <2>8 DEF p
  <2> QED BY <1>4, <2>7, <2>9
<1>5. C = {}
  <2> SUFFICES ASSUME C # {} PROVE FALSE
    OBVIOUS
  <2>1. PICK n \in C : \A m \in C : n <= m
    <3>1. C \in SUBSET Nat
      OBVIOUS
    <3> HIDE DEF C
    <3> QED BY <3>1, NatsHaveLeast
  <2>2. PICK i \in R, j \in R : apart(i, j) /\ n = i + j
    OBVIOUS
  <2> HIDE DEF C
  <2>3. Parent(j) = 0
    BY <1>4, <2>1, <2>2
  <2>4. Parent(i) = 0
    <3>1. apart(j, i) /\ j + i = i + j
      BY <1>3, <2>2
    <3> QED BY <1>4, <2>1, <2>2, <3>1
  <2> QED BY <1>1, <2>2, <2>3, <2>4
<1>6. ASSUME NEW i \in R, NEW j \in R PROVE ~apart(i, j)
  <2>1. i + j \in Nat /\ i + j \notin C
    BY <1>3, <1>5
  <2> QED BY <2>1
<1> QED BY <1>6

LEMMA NothingGuessed ==
  ASSUME RuleAssumption, RuleInv
  PROVE  Rules!NothingIsGuessed
<1> SUFFICES ASSUME NEW q \in Rules!Queries
             PROVE  LET answer == Rules!Find(q[1], q[2]) IN
                    /\ (answer.status = "missing") = (Rules!Candidates(q[1], q[2]) = {})
                    /\ Rules!Linear => answer.status # "ambiguous"
  BY DEF Rules!NothingIsGuessed
<1> DEFINE found == Rules!Candidates(q[1], q[2])
           matches == Rules!Matches(q[1], q[2])
           status == Rules!Find(q[1], q[2]).status
<1>1. matches = {m \in found : \A i \in found : m \notin Behind(i)} /\ found \in SUBSET Rules!Registered
  BY CandidatesAre
<1>2. matches = {} <=> found = {}
  <2>1. \A j \in found : \E m \in matches : m = j \/ j \in Behind(m)
    BY SomeMatch
  <2> HIDE DEF found, matches
  <2> QED BY <1>1, <2>1
<1>3. status = "missing" <=> matches = {}
  BY FindIs
<1>4. ASSUME Rules!Linear, status = "ambiguous" PROVE FALSE
  <2>1. PICK i, j \in matches : i # j
    BY <1>4, FindIs
  <2> HIDE DEF found, matches
  <2>2. i \in Rules!Registered /\ j \in Rules!Registered /\ i \in found /\ j \in found
    BY <1>1
  <2>3. i \in Behind(j) \/ j \in Behind(i)
    BY <1>4, <2>1, <2>2, LinearIs
  <2> QED BY <1>1, <2>2, <2>3
<1>5. (status = "missing") = (found = {})
  <2> HIDE DEF status, found, matches
  <2> QED BY <1>2, <1>3
<1> QED BY <1>4, <1>5

LEMMA NothingBack ==
  ASSUME RuleAssumption, RuleInv
  PROVE  Rules!NothingComesBack
<1> SUFFICES ASSUME NEW q \in Rules!Queries, NEW later \in Rules!Times, q[2] < later,
                    Rules!Find(q[1], q[2]).status = "found", Rules!Find(q[1], later).status = "found",
                    Rules!ComesFrom(Rules!Find(q[1], q[2]).id, Rules!Find(q[1], later).id)
             PROVE  FALSE
  BY DEF Rules!NothingComesBack
<1> DEFINE a == Rules!Find(q[1], q[2]).id
           b == Rules!Find(q[1], later).id
<1>1. Rules!Matches(q[1], q[2]) = {a} /\ Rules!Matches(q[1], later) = {b}
  BY FindIs
<1>2. a \in Rules!Candidates(q[1], q[2]) /\ b \in Rules!Candidates(q[1], later)
      /\ \A i \in Rules!Candidates(q[1], later) : b \notin Behind(i)
  BY <1>1, CandidatesAre
<1> HIDE DEF a, b
<1>3. a \in Rules!Candidates(q[1], later) /\ a \in Rules!Registered /\ b \in Rules!Registered
  <2>1. q[2] \in Nat /\ later \in Nat
    BY RuleAssumption DEF Rules!Queries, Rules!Times
  <2>2. a \in Rules!Registered /\ b \in Rules!Registered
    BY <1>2, CandidatesAre
  <2>3. versions[a].available \in Nat /\ versions[a].available <= q[2]
    BY <1>2, <2>2, VersionsKnown DEF Rules!Candidates
  <2>4. versions[a].available <= later
    BY <2>1, <2>3
  <2> QED BY <1>2, <2>2, <2>4 DEF Rules!Candidates
<1>4. b \in Behind(a)
  BY <1>3, ComesFromIs DEF a, b
<1> QED BY <1>2, <1>3, <1>4

-------------------------------------------------------------------------------
(* Versions are registered *)

LEMMA RulesBegin ==
  ASSUME ResearchInit
  PROVE  RuleInv
<1>1. Rules!Registered = {}
  BY DEF ResearchInit, Rules!RulesInit, Rules!Registered
<1> QED BY <1>1, FS_EmptySet DEF RuleInv

LEMMA RegisterStep ==
  ASSUME RuleAssumption, RuleInv, NEW id \in Ids, \A i \in Ids : i < id => i \in Rules!Registered,
         NEW content \in Rules!Contents, Rules!Register(id, content)
  PROVE  RuleInv'
<1> DEFINE R == Rules!Registered
           p == content.replaces
<1>1. /\ id \notin R
      /\ p # 0 => p \in R /\ versions[p].available <= content.available
      /\ versions' = [i \in R \union {id} |-> IF i = id THEN content ELSE versions[i]]
  BY DEF Rules!Register, Rules!MayRegister, Rules!NoRule
<1>2. Rules!Registered' = R \union {id} /\ versions'[id] = content /\ \A i \in R : versions'[i] = versions[i]
  BY <1>1 DEF Rules!Registered
<1>3. IsFiniteSet(R \union {id}) /\ R \union {id} \subseteq Ids
  BY FS_AddElement DEF RuleInv
<1>4. \A i \in R : i < id
  <2> SUFFICES ASSUME NEW i \in R, ~(i < id) PROVE FALSE
    OBVIOUS
  <2>1. i \in Nat /\ id \in Nat /\ i # id
    BY <1>1, VersionsKnown DEF RuleAssumption
  <2>2. id < i
    BY <2>1
  <2> QED BY <1>1, <2>2 DEF RuleInv
<1>5. ASSUME NEW i \in R \union {id} PROVE versions'[i] \in Rules!Contents /\ ParentSound(i)'
  <2>1. CASE i = id
    <3>1. versions'[i] = content /\ Parent(i)' = p
      BY <1>2, <2>1 DEF Parent
    <3>2. p # 0 => p \in R /\ p < i /\ versions'[p].available <= content.available
      BY <1>1, <1>2, <1>4, <2>1
    <3> HIDE DEF p
    <3> QED BY <1>2, <3>1, <3>2 DEF ParentSound
  <2>2. CASE i # id
    <3>1. i \in R /\ versions'[i] = versions[i] /\ Parent(i)' = Parent(i)
      BY <1>2, <2>2 DEF Parent
    <3>2. versions[i] \in Rules!Contents /\ ParentSound(i)
      BY <3>1 DEF RuleInv
    <3>3. Parent(i) # 0 => versions'[Parent(i)] = versions[Parent(i)] /\ Parent(i) \in R
      BY <1>2, <3>2 DEF ParentSound
    <3>4. ParentSound(i)'
      BY <1>2, <3>1, <3>2, <3>3 DEF ParentSound
    <3> QED BY <3>1, <3>2, <3>4
  <2> QED BY <2>1, <2>2
<1>6. \A i \in R \union {id}, j \in Ids : j < i => j \in R \union {id}
  BY DEF RuleInv
<1>7. Rules!Contents' = Rules!Contents
  BY DEF Rules!Contents
<1> QED BY <1>2, <1>3, <1>5, <1>6, <1>7 DEF RuleInv

LEMMA RulesStep ==
  ASSUME RuleAssumption, RuleInv, [ResearchNext]_researchVars
  PROVE  RuleInv'
<1>1. CASE UNCHANGED versions
  BY <1>1 DEF RuleInv, ParentSound, Parent, Rules!Registered, Rules!Contents
<1>2. CASE Rules!RulesNext
  <2>1. ASSUME NEW id \in Ids, Rules!RegisterAgain(id) PROVE RuleInv'
    BY <1>1, <2>1 DEF Rules!RegisterAgain
  <2> QED BY <1>2, <2>1, RegisterStep DEF Rules!RulesNext
<1>3. UNCHANGED versions \/ Rules!RulesNext
  <2>1. CASE UNCHANGED researchVars
    BY <2>1 DEF researchVars, otherVars
  <2>2. CASE Simulates(BacktestNext)
    BY <2>2 DEF Simulates, otherVars
  <2>3. CASE Stores(Store!DataNext)
    BY <2>3 DEF Stores, otherVars
  <2>4. CASE Observes(Dominant!ObserveDay) \/ Closes(Routes!RoutingNext)
    BY <2>4 DEF Closes, Observes
  <2>5. CASE Registers(Rules!RulesNext)
    BY <2>5 DEF Registers
  <2> QED BY <2>1, <2>2, <2>3, <2>4, <2>5 DEF ResearchNext
<1> QED BY <1>1, <1>2, <1>3

\* For any number of versions and times: a query answers what was known when it
\* asks, and nothing that gave way to another answers again (RuleStore._find).
THEOREM RulesAlwaysFound == ResearchSpec => []RulesAreFound
<1>1. ResearchInit => RuleInv
  BY RulesBegin
<1>2. RuleInv /\ [ResearchNext]_researchVars => RuleInv'
  BY RuleAssumption, RulesStep
<1>3. RuleInv => RulesAreFound
  BY RuleAssumption, AnswersAreSound, NothingGuessed, NothingBack DEF RulesAreFound, Rules!RulesAreFound
<1> QED BY <1>1, <1>2, <1>3, PTL DEF ResearchSpec

-------------------------------------------------------------------------------
(* Least and greatest. *)

LEMMA NatsHaveGreatest ==
  ASSUME NEW C \in SUBSET Nat, C # {}, NEW n \in Nat, \A x \in C : x <= n
  PROVE  \E x \in C : \A y \in C : y <= x
<1> DEFINE D == {n - x : x \in C}
<1>1. D \in SUBSET Nat /\ D # {}
  <2>1. ASSUME NEW x \in C PROVE n - x \in Nat
    OBVIOUS
  <2> QED BY <2>1
<1>2. PICK d \in D : \A e \in D : d <= e
  <2> HIDE DEF D
  <2> QED BY <1>1, NatsHaveLeast
<1>3. PICK x \in C : d = n - x
  BY <1>2
<1>4. ASSUME NEW y \in C PROVE y <= x
  <2>1. d <= n - y
    BY <1>2
  <2> QED BY <2>1, <1>3
<1> QED BY <1>3, <1>4

LEMMA FirstIs ==
  ASSUME NEW C \in SUBSET Nat, C # {}
  PROVE  Dates!First(C) \in C /\ \A y \in C : Dates!First(C) <= y
BY NatsHaveLeast DEF Dates!First

LEMMA LastIs ==
  ASSUME NEW C \in SUBSET Nat, C # {}, NEW n \in Nat, \A x \in C : x <= n
  PROVE  Dates!Last(C) \in C /\ \A y \in C : y <= Dates!Last(C)
<1>1. \E x \in C : \A y \in C : y <= x
  BY NatsHaveGreatest
<1> QED BY <1>1 DEF Dates!Last

LEMMA CountedDates == \A S : Dates!Cardinality(S) = Cardinality(S)
BY DEF Dates!Cardinality, Cardinality

-------------------------------------------------------------------------------
(* The calendar of a product: any trading days, any announcements. *)

\* The continuous night session has a length, and ends before the day is opened.
ProfileOK(profile) ==
    profile.night => profile.close \in Int /\ 21 * 60 < profile.close /\ profile.close <= 32 * 60 + 55

\* When a session of a day is: on the day itself, or in the night of the day before.
OnDay(s, day) ==
    /\ day * 1440 + 535 <= s.start /\ s.end <= day * 1440 + 900
InNight(s, previous) ==
    /\ previous * 1440 + 1255 <= s.start /\ s.end <= previous * 1440 + 1975
Previous(days, day, previous) ==
    previous \in days /\ previous < day /\ \A x \in days : x < day => x <= previous

LEMMA PreviousIs ==
  ASSUME NEW n \in Nat, NEW days \in SUBSET (1..n), NEW day, Dates!Earlier(days, day) # {}
  PROVE  Previous(days, day, Dates!Last(Dates!Earlier(days, day)))
<1> DEFINE E == Dates!Earlier(days, day)
<1>1. E \in SUBSET Nat /\ E # {} /\ \A x \in E : x <= n
  <2>1. E # {} /\ E \subseteq 1..n
    BY DEF Dates!Earlier
  <2> HIDE DEF E
  <2> QED BY <2>1
<1>2. Dates!Last(E) \in E /\ \A y \in E : y <= Dates!Last(E)
  <2> HIDE DEF E
  <2> QED BY <1>1, LastIs
<1>3. E = {x \in days : x < day}
  BY DEF Dates!Earlier
<1> HIDE DEF E
<1>4. Previous(days, day, Dates!Last(E))
  BY <1>2, <1>3 DEF Previous
<1> QED BY <1>4 DEF E

\* The sessions of a day, in minutes of it; how it is opened makes two phases.
DayBounds(early, late) ==
    {<<535, 539, early>>, <<539, 540, late>>, <<540, 615, "continuous">>, <<615, 630, "break">>,
     <<630, 690, "continuous">>, <<690, 810, "break">>, <<810, 900, "continuous">>}
Early(profile) == IF profile.cancelOnly THEN "cancel only" ELSE "auction"
Late(profile) == IF profile.cancelOnly THEN "waiting" ELSE "match"
InDay(day, b) == [day |-> day, start |-> day * 1440 + b[1], end |-> day * 1440 + b[2], phase |-> b[3]]

LEMMA DayBound ==
  ASSUME NEW profile, NEW day \in Nat, NEW s \in Dates!DaySessions(profile, day)
  PROVE  \E b \in DayBounds(Early(profile), Late(profile)) : s = InDay(day, b)
<1> DEFINE at(hour, minute) == day * Dates!Day + hour * Dates!Hour + minute
           early == Early(profile)
           late == Late(profile)
           B == DayBounds(early, late)
<1>1. /\ at(8, 55) = day * 1440 + 535 /\ at(8, 59) = day * 1440 + 539 /\ at(9, 0) = day * 1440 + 540
      /\ at(10, 15) = day * 1440 + 615 /\ at(10, 30) = day * 1440 + 630 /\ at(11, 30) = day * 1440 + 690
      /\ at(13, 30) = day * 1440 + 810 /\ at(15, 0) = day * 1440 + 900
  BY DEF Dates!Day, Dates!Hour
<1>2. \/ s = Dates!Session(day, at(8, 55), at(8, 59), early)
      \/ s = Dates!Session(day, at(8, 59), at(9, 0), late)
      \/ s = Dates!Session(day, at(9, 0), at(10, 15), "continuous")
      \/ s = Dates!Session(day, at(10, 15), at(10, 30), "break")
      \/ s = Dates!Session(day, at(10, 30), at(11, 30), "continuous")
      \/ s = Dates!Session(day, at(11, 30), at(13, 30), "break")
      \/ s = Dates!Session(day, at(13, 30), at(15, 0), "continuous")
  BY Zenon DEF Dates!DaySessions, Early, Late
<1>3. /\ <<535, 539, early>> \in B /\ <<539, 540, late>> \in B /\ <<540, 615, "continuous">> \in B
      /\ <<615, 630, "break">> \in B /\ <<630, 690, "continuous">> \in B /\ <<690, 810, "break">> \in B
      /\ <<810, 900, "continuous">> \in B
  BY DEF DayBounds
<1> HIDE DEF early, late, B, at
<1>4. ASSUME NEW x, NEW y, NEW phase, <<x, y, phase>> \in B,
             s = Dates!Session(day, day * 1440 + x, day * 1440 + y, phase)
      PROVE  \E b \in B : s = InDay(day, b)
  <2>1. s = InDay(day, <<x, y, phase>>)
    BY <1>4 DEF Dates!Session, InDay
  <2> QED BY <1>4, <2>1
<1>5. \/ s = Dates!Session(day, day * 1440 + 535, day * 1440 + 539, early)
      \/ s = Dates!Session(day, day * 1440 + 539, day * 1440 + 540, late)
      \/ s = Dates!Session(day, day * 1440 + 540, day * 1440 + 615, "continuous")
      \/ s = Dates!Session(day, day * 1440 + 615, day * 1440 + 630, "break")
      \/ s = Dates!Session(day, day * 1440 + 630, day * 1440 + 690, "continuous")
      \/ s = Dates!Session(day, day * 1440 + 690, day * 1440 + 810, "break")
      \/ s = Dates!Session(day, day * 1440 + 810, day * 1440 + 900, "continuous")
  BY <1>1, <1>2
<1>6. \E b \in B : s = InDay(day, b)
  BY <1>3, <1>4, <1>5
<1> QED BY <1>6 DEF B, early, late

\* Two of them are one, or one ends before the other begins.
LEMMA BoundsApart ==
  ASSUME NEW early, NEW late, NEW b \in DayBounds(early, late), NEW c \in DayBounds(early, late)
  PROVE  /\ b[1] \in Nat /\ b[2] \in Nat /\ 535 <= b[1] /\ b[1] < b[2] /\ b[2] <= 900
         /\ b = c \/ b[2] <= c[1] \/ c[2] <= b[1]
<1> DEFINE is(x) == \/ x = <<535, 539, early>> /\ x[1] = 535 /\ x[2] = 539
                    \/ x = <<539, 540, late>> /\ x[1] = 539 /\ x[2] = 540
                    \/ x = <<540, 615, "continuous">> /\ x[1] = 540 /\ x[2] = 615
                    \/ x = <<615, 630, "break">> /\ x[1] = 615 /\ x[2] = 630
                    \/ x = <<630, 690, "continuous">> /\ x[1] = 630 /\ x[2] = 690
                    \/ x = <<690, 810, "break">> /\ x[1] = 690 /\ x[2] = 810
                    \/ x = <<810, 900, "continuous">> /\ x[1] = 810 /\ x[2] = 900
<1>1. ASSUME NEW x \in DayBounds(early, late) PROVE is(x)
  BY SMTT(20) DEF DayBounds
<1>2. is(b) /\ is(c)
  <2> HIDE DEF is
  <2> QED BY <1>1
<1> QED BY <1>2

LEMMA DayShape ==
  ASSUME NEW profile, NEW day \in Nat, NEW s \in Dates!DaySessions(profile, day)
  PROVE  /\ s.day = day /\ s.start \in Int /\ s.end \in Int /\ s.start < s.end
         /\ OnDay(s, day)
<1>1. PICK b \in DayBounds(Early(profile), Late(profile)) : s = InDay(day, b)
  BY DayBound
<1>2. b[1] \in Nat /\ b[2] \in Nat /\ 535 <= b[1] /\ b[1] < b[2] /\ b[2] <= 900
  BY BoundsApart
<1>3. s.day = day /\ s.start = day * 1440 + b[1] /\ s.end = day * 1440 + b[2]
  BY <1>1 DEF InDay
<1> QED BY <1>2, <1>3 DEF OnDay

LEMMA DayDisjoint ==
  ASSUME NEW profile, NEW day \in Nat, NEW s \in Dates!DaySessions(profile, day),
         NEW t \in Dates!DaySessions(profile, day), s # t
  PROVE  ~Dates!Overlap(s, t)
<1>1. PICK b \in DayBounds(Early(profile), Late(profile)) : s = InDay(day, b)
  BY DayBound
<1>2. PICK c \in DayBounds(Early(profile), Late(profile)) : t = InDay(day, c)
  BY DayBound
<1>3. b # c
  BY <1>1, <1>2
<1>4. /\ b[1] \in Nat /\ b[2] \in Nat /\ c[1] \in Nat /\ c[2] \in Nat
      /\ b[2] <= c[1] \/ c[2] <= b[1]
  BY <1>3, BoundsApart
<1>5. s.start = day * 1440 + b[1] /\ s.end = day * 1440 + b[2]
  BY <1>1 DEF InDay
<1>6. t.start = day * 1440 + c[1] /\ t.end = day * 1440 + c[2]
  BY <1>2 DEF InDay
<1> QED BY <1>4, <1>5, <1>6 DEF Dates!Overlap

LEMMA NightShape ==
  ASSUME NEW profile, ProfileOK(profile), profile.night, NEW day \in Nat, NEW previous \in Nat,
         NEW s \in Dates!NightSessions(profile, day, previous)
  PROVE  /\ s.day = day /\ s.start \in Int /\ s.end \in Int /\ s.start < s.end
         /\ InNight(s, previous)
BY DEF Dates!NightSessions, Dates!Session, Dates!Day, Dates!Hour, InNight, ProfileOK

LEMMA NightDisjoint ==
  ASSUME NEW profile, ProfileOK(profile), profile.night, NEW day \in Nat, NEW previous \in Nat,
         NEW s \in Dates!NightSessions(profile, day, previous),
         NEW t \in Dates!NightSessions(profile, day, previous), s # t
  PROVE  ~Dates!Overlap(s, t)
BY DEF Dates!NightSessions, Dates!Session, Dates!Day, Dates!Hour, Dates!Overlap, ProfileOK

\* A session of a day is one of its day sessions, or of the night of the day before.
LEMMA SessionShape ==
  ASSUME NEW profile, ProfileOK(profile), NEW n \in Nat, NEW days \in SUBSET (1..n), NEW announced,
         NEW day \in days, NEW s \in Dates!SessionsOf(profile, days, day, announced)
  PROVE  /\ s.day = day /\ s.start \in Int /\ s.end \in Int /\ s.start < s.end
         /\ \/ s \in Dates!DaySessions(profile, day) /\ OnDay(s, day)
            \/ \E previous \in days :
                   /\ Previous(days, day, previous) /\ profile.night
                   /\ s \in Dates!NightSessions(profile, day, previous) /\ InNight(s, previous)
<1> DEFINE previous == Dates!Last(Dates!Earlier(days, day))
<1>1. day \in Nat
  OBVIOUS
<1>2. CASE s \in Dates!DaySessions(profile, day)
  BY <1>1, <1>2, DayShape
<1>3. CASE s \in Dates!NightOf(profile, days, day, announced)
  <2>1. /\ profile.night /\ Dates!Earlier(days, day) # {}
        /\ s \in Dates!NightSessions(profile, day, previous)
    BY <1>3, Zenon DEF Dates!NightOf
  <2>2. Previous(days, day, previous)
    BY <2>1, PreviousIs
  <2> HIDE DEF previous
  <2>3. previous \in days /\ previous \in Nat
    BY <2>2 DEF Previous
  <2>4. s.day = day /\ s.start \in Int /\ s.end \in Int /\ s.start < s.end /\ InNight(s, previous)
    BY <1>1, <2>1, <2>3, NightShape
  <2> QED BY <2>1, <2>2, <2>3, <2>4
<1> QED BY <1>2, <1>3 DEF Dates!SessionsOf

\* No two sessions of a calendar overlap.
LEMMA NoOverlap ==
  ASSUME NEW profile, ProfileOK(profile), NEW n \in Nat, NEW days \in SUBSET (1..n), NEW announced,
         NEW s \in Dates!AllSessions(profile, days, announced),
         NEW t \in Dates!AllSessions(profile, days, announced), s # t
  PROVE  ~Dates!Overlap(s, t)
<1>1. PICK d \in days : s \in Dates!SessionsOf(profile, days, d, announced)
  BY DEF Dates!AllSessions
<1>2. PICK e \in days : t \in Dates!SessionsOf(profile, days, e, announced)
  BY DEF Dates!AllSessions
<1>3. /\ s.day = d /\ s.start \in Int /\ s.end \in Int /\ s.start < s.end
      /\ \/ s \in Dates!DaySessions(profile, d) /\ OnDay(s, d)
         \/ \E previous \in days :
                /\ Previous(days, d, previous) /\ profile.night
                /\ s \in Dates!NightSessions(profile, d, previous) /\ InNight(s, previous)
  BY <1>1, SessionShape
<1>4. /\ t.day = e /\ t.start \in Int /\ t.end \in Int /\ t.start < t.end
      /\ \/ t \in Dates!DaySessions(profile, e) /\ OnDay(t, e)
         \/ \E previous \in days :
                /\ Previous(days, e, previous) /\ profile.night
                /\ t \in Dates!NightSessions(profile, e, previous) /\ InNight(t, previous)
  BY <1>2, SessionShape
<1>5. d \in Nat /\ e \in Nat /\ \A x \in days : x \in Nat
  OBVIOUS
<1>6. CASE d = e
  <2>1. ASSUME NEW p \in days, NEW q \in days, Previous(days, d, p), Previous(days, d, q) PROVE p = q
    BY <1>5, <2>1 DEF Previous
  <2>2. CASE s \in Dates!DaySessions(profile, d) /\ t \in Dates!DaySessions(profile, d)
    BY <2>2, <1>5, DayDisjoint
  <2>3. ASSUME NEW p \in days, Previous(days, d, p), profile.night,
               s \in Dates!NightSessions(profile, d, p), t \in Dates!NightSessions(profile, d, p)
        PROVE  ~Dates!Overlap(s, t)
    BY <2>3, <1>5, NightDisjoint
  <2>4. ASSUME NEW p \in days, Previous(days, d, p), InNight(s, p) \/ InNight(t, p),
               OnDay(s, d) \/ OnDay(t, d)
        PROVE  ~Dates!Overlap(s, t)
    BY <2>4, <1>3, <1>4, <1>5 DEF Previous, InNight, OnDay, Dates!Overlap
  <2> QED BY <1>3, <1>4, <1>6, <2>1, <2>2, <2>3, <2>4
<1>7. ASSUME NEW a \in days, NEW b \in days, a < b, NEW x, NEW y,
             x.start \in Int, x.end \in Int, y.start \in Int, y.end \in Int,
             OnDay(x, a) \/ \E p \in days : Previous(days, a, p) /\ InNight(x, p),
             OnDay(y, b) \/ \E p \in days : Previous(days, b, p) /\ InNight(y, p)
      PROVE  x.end <= y.start
  <2>1. x.end <= a * 1440 + 900
    BY <1>5, <1>7 DEF OnDay, Previous, InNight
  <2>2. y.start >= a * 1440 + 900
    BY <1>5, <1>7 DEF OnDay, Previous, InNight
  <2> QED BY <1>5, <1>7, <2>1, <2>2
<1>8. CASE d < e
  <2>1. s.end <= t.start
    BY <1>3, <1>4, <1>7, <1>8
  <2> QED BY <1>3, <1>4, <2>1 DEF Dates!Overlap
<1>9. CASE e < d
  <2>1. t.end <= s.start
    BY <1>3, <1>4, <1>7, <1>9
  <2> QED BY <1>3, <1>4, <2>1 DEF Dates!Overlap
<1> QED BY <1>5, <1>6, <1>8, <1>9

\* Sessions count to the trading day that follows, on any calendar: any trading days,
\* profile and announcements (build_sessions, TradingCalendar.sessions_in_window).
THEOREM SessionsCount ==
  ASSUME NEW profile, ProfileOK(profile), NEW n \in Nat, NEW days \in SUBSET (1..n), NEW announced
  PROVE  Dates!SessionsCountToTheirDay(profile, days, announced)
<1> DEFINE all == Dates!AllSessions(profile, days, announced)
<1>1. \A s, t \in all : s # t => ~Dates!Overlap(s, t)
  BY NoOverlap
<1>2. ASSUME NEW s \in all
      PROVE  /\ s.start \in Int /\ s.end \in Int /\ s.start < s.end
             /\ s.day = Dates!First({d \in days : d * Dates!Day + 15 * Dates!Hour >= s.end})
  <2>1. PICK day \in days : s \in Dates!SessionsOf(profile, days, day, announced)
    BY DEF Dates!AllSessions
  <2>2. /\ s.day = day /\ s.start \in Int /\ s.end \in Int /\ s.start < s.end
        /\ OnDay(s, day) \/ \E p \in days : Previous(days, day, p) /\ InNight(s, p)
    <3>1. /\ s.day = day /\ s.start \in Int /\ s.end \in Int /\ s.start < s.end
          /\ \/ s \in Dates!DaySessions(profile, day) /\ OnDay(s, day)
             \/ \E previous \in days :
                    /\ Previous(days, day, previous) /\ profile.night
                    /\ s \in Dates!NightSessions(profile, day, previous) /\ InNight(s, previous)
      BY <2>1, SessionShape
    <3> QED BY <3>1, Zenon
  <2> DEFINE C == {d \in days : d * Dates!Day + 15 * Dates!Hour >= s.end}
  <2>3. C = {d \in days : d * 1440 + 900 >= s.end}
    BY DEF Dates!Day, Dates!Hour
  <2>4. s.end <= day * 1440 + 900
    BY <2>2 DEF OnDay, Previous, InNight
  <2>5. ASSUME NEW d \in days, d < day PROVE d * 1440 + 900 < s.end
    BY <2>2, <2>5 DEF OnDay, Previous, InNight
  <2>6. C \in SUBSET Nat /\ day \in C /\ days \subseteq Nat
    <3>1. days \subseteq Nat
      OBVIOUS
    <3>2. C \subseteq days /\ day \in C
      BY <2>3, <2>4
    <3> QED BY <3>1, <3>2
  <2> HIDE DEF C
  <2>7. PICK f \in C : f = Dates!First(C) /\ \A y \in C : f <= y
    BY <2>6, FirstIs
  <2>8. f = day
    <3>1. f \in Nat /\ day \in Nat /\ f <= day /\ f \in days /\ f * 1440 + 900 >= s.end
      BY <2>3, <2>6, <2>7
    <3>2. f < day => f * 1440 + 900 < s.end
      BY <2>5, <3>1
    <3> QED BY <2>2, <3>1, <3>2
  <2> QED BY <2>2, <2>7, <2>8 DEF C
<1>3. ASSUME NEW s \in all, NEW t \in Int, s.start <= t, t < s.end
      PROVE  Dates!TradingDay(all, t) = s.day
  <2> DEFINE covering == {x \in all : x.start <= t /\ t < x.end}
  <2>1. covering = {s}
    <3>1. ASSUME NEW x \in covering PROVE x = s
      <4>1. x \in all /\ x.start <= t /\ t < x.end
        OBVIOUS
      <4> HIDE DEF all, covering
      <4>2. x.start \in Int /\ x.end \in Int /\ s.start \in Int /\ s.end \in Int
        BY <4>1, <1>2, <1>3
      <4>3. x.start < s.end /\ s.start < x.end
        BY <4>1, <4>2, <1>3
      <4> QED BY <1>1, <1>3, <4>1, <4>3 DEF Dates!Overlap
    <3>2. s \in covering
      BY <1>3
    <3> QED BY <3>1, <3>2
  <2>2. Cardinality(covering) = 1
    BY <2>1, FS_Singleton
  <2>3. (CHOOSE x \in covering : TRUE) = s
    BY <2>1
  <2>4. Dates!TradingDay(all, t) = IF Dates!Cardinality(covering) = 1 THEN (CHOOSE x \in covering : TRUE).day ELSE 0
    BY Zenon DEF Dates!TradingDay
  <2>5. Dates!Cardinality(covering) = Cardinality(covering)
    BY CountedDates, Zenon
  <2> HIDE DEF all, covering
  <2> QED BY <2>2, <2>3, <2>4, <2>5
<1>4. ASSUME NEW s \in all
      PROVE  /\ s.day = Dates!First({d \in days : d * Dates!Day + 15 * Dates!Hour >= s.end})
             /\ Dates!TradingDay(all, s.start) = s.day /\ Dates!TradingDay(all, s.end - 1) = s.day
  <2> HIDE DEF all
  <2>1. s.start \in Int /\ s.end \in Int /\ s.start < s.end
    BY <1>2
  <2>2. s.end - 1 \in Int /\ s.start <= s.start /\ s.start <= s.end - 1 /\ s.end - 1 < s.end
    BY <2>1
  <2>3. s.day = Dates!First({d \in days : d * Dates!Day + 15 * Dates!Hour >= s.end})
    BY <1>2
  <2> QED BY <1>3, <1>4, <2>1, <2>2, <2>3
<1> QED BY <1>1, <1>4, Zenon DEF Dates!SessionsCountToTheirDay, Dates!Accepted

-------------------------------------------------------------------------------
(* Holidays, of the risk hook and of the templates. *)

Eve(days, start) == Dates!Last(Dates!Earlier(days, start))

\* The next trading day of one that is not the last.
LEMMA NextIs ==
  ASSUME NEW n \in Nat, NEW days \in SUBSET (1..n), NEW d \in days, d # Dates!Last(days)
  PROVE  /\ Dates!First(Dates!Later(days, d)) \in days /\ d < Dates!First(Dates!Later(days, d))
         /\ \A x \in days : d < x => Dates!First(Dates!Later(days, d)) <= x
         /\ Dates!Last(days) \in days /\ \A x \in days : x <= Dates!Last(days)
<1>1. days \in SUBSET Nat /\ days # {} /\ \A x \in days : x <= n
  <2>1. \A x \in days : x \in Nat /\ x <= n
    OBVIOUS
  <2> QED BY <2>1
<1>2. Dates!Last(days) \in days /\ \A y \in days : y <= Dates!Last(days)
  BY <1>1, LastIs
<1> DEFINE L == {x \in days : x > d}
<1>3. L \in SUBSET Nat /\ L # {}
  <2>1. PICK l \in days : l = Dates!Last(days) /\ d <= l
    BY <1>2
  <2>2. l > d
    BY <1>1, <2>1
  <2> QED BY <1>1, <2>2
<1>4. Dates!Later(days, d) = L
  BY DEF Dates!Later
<1> HIDE DEF L
<1>5. Dates!First(L) \in L /\ \A y \in L : Dates!First(L) <= y
  BY <1>3, FirstIs
<1> QED BY <1>2, <1>4, <1>5 DEF L

\* The trading days after d up to the eve of a holiday, counted.
LEMMA DaysBetween ==
  ASSUME NEW n \in Nat, NEW days \in SUBSET (1..n), NEW d \in days, NEW eve \in days, d <= eve
  PROVE  /\ Dates!Cardinality({x \in days : d < x /\ x <= eve}) < 1 <=> eve = d
         /\ \A next \in days :
                d < next /\ (\A x \in days : d < x => next <= x) =>
                    (Dates!Cardinality({x \in days : d < x /\ x <= eve}) < 2 <=> eve \in {d, next})
<1> DEFINE S == {x \in days : d < x /\ x <= eve}
<1>1. days \subseteq Nat /\ IsFiniteSet(days)
  <2>1. IsFiniteSet(1..n)
    BY FS_Interval
  <2>2. IsFiniteSet(days)
    BY <2>1, FS_Subset
  <2>3. days \subseteq Nat
    OBVIOUS
  <2> QED BY <2>2, <2>3
<1>2. IsFiniteSet(S) /\ Cardinality(S) \in Nat /\ Dates!Cardinality(S) = Cardinality(S)
  <2>1. S \subseteq days
    OBVIOUS
  <2> HIDE DEF S
  <2> QED BY <1>1, <2>1, FS_Subset, FS_CardinalityType, CountedDates
<1>3. Cardinality(S) < 1 <=> eve = d
  <2>1. S = {} <=> eve = d
    <3>1. d \in Nat /\ eve \in Nat
      BY <1>1
    <3>2. d < eve => eve \in S
      BY <3>1
    <3>3. ASSUME NEW x \in S, eve = d PROVE FALSE
      BY <1>1, <3>3
    <3> HIDE DEF S
    <3> QED BY <3>1, <3>2, <3>3
  <2>2. Cardinality(S) = 0 <=> S = {}
    <3> HIDE DEF S
    <3> QED BY <1>2, FS_EmptySet
  <2> HIDE DEF S
  <2> QED BY <1>2, <2>1, <2>2
<1>4. ASSUME NEW next \in days, d < next, \A x \in days : d < x => next <= x
      PROVE  Cardinality(S) < 2 <=> eve \in {d, next}
  <2>1. CASE eve = d
    BY <1>2, <1>3, <2>1
  <2>2. CASE eve = next
    <3>1. S = {next}
      <4>1. next \in Nat /\ next \in S
        BY <1>1, <1>4, <2>2
      <4>2. ASSUME NEW x \in S PROVE x = next
        <5>1. x \in days /\ d < x /\ x <= eve
          OBVIOUS
        <5> QED BY <1>1, <1>4, <2>2, <5>1
      <4> QED BY <4>1, <4>2
    <3>2. Cardinality(S) = 1
      BY <3>1, FS_Singleton
    <3> QED BY <2>2, <3>2
  <2>3. CASE eve # d /\ eve # next
    <3>1. next \in S /\ eve \in S /\ next # eve
      BY <1>1, <1>4, <2>3
    <3> HIDE DEF S
    <3>2. /\ IsFiniteSet(S \ {eve}) /\ Cardinality(S \ {eve}) = Cardinality(S) - 1
          /\ Cardinality(S \ {eve}) \in Nat
      BY <1>2, <3>1, FS_RemoveElement, FS_CardinalityType
    <3>3. S \ {eve} # {}
      BY <3>1
    <3>4. Cardinality(S \ {eve}) # 0
      BY <3>2, <3>3, FS_EmptySet
    <3> QED BY <1>2, <2>3, <3>2, <3>4
  <2> QED BY <2>1, <2>2, <2>3
<1> QED BY <1>2, <1>3, <1>4

\* Nothing is opened on the eves of holidays; a window of two days has the day before.
LEMMA WindowIs ==
  ASSUME NEW n \in Nat, NEW days \in SUBSET (1..n), NEW d \in days
  PROVE  /\ Dates!MayOpenOn(days, d, 1) <=>
                ~\E start \in Dates!HolidayStarts(days) : d < start /\ Eve(days, start) = d
         /\ \A next \in days :
                d < next /\ (\A x \in days : d < x => next <= x) =>
                    (Dates!MayOpenOn(days, d, 2) <=>
                        ~\E start \in Dates!HolidayStarts(days) : d < start /\ Eve(days, start) \in {d, next})
<1> DEFINE window(k) == \E start \in Dates!HolidayStarts(days) :
                            /\ start > d /\ Eve(days, start) >= d
                            /\ Dates!Cardinality({x \in days : d < x /\ x <= Eve(days, start)}) < k
<1>1. \A k : Dates!MayOpenOn(days, d, k) <=> ~window(k)
  BY DEF Dates!MayOpenOn, Dates!InHolidayWindow, Dates!Later, Eve
<1>2. ASSUME NEW start \in Dates!HolidayStarts(days), start > d
      PROVE  Eve(days, start) \in days /\ d <= Eve(days, start)
  <2>1. Dates!Earlier(days, start) # {}
    BY <1>2 DEF Dates!Earlier
  <2>2. Previous(days, start, Eve(days, start))
    BY <2>1, PreviousIs DEF Eve
  <2>3. start \in Int
    BY DEF Dates!HolidayStarts
  <2> QED BY <1>2, <2>2, <2>3 DEF Previous
<1>3. ASSUME NEW start \in Dates!HolidayStarts(days), start > d
      PROVE  /\ Dates!Cardinality({x \in days : d < x /\ x <= Eve(days, start)}) < 1 <=> Eve(days, start) = d
             /\ \A next \in days :
                   d < next /\ (\A x \in days : d < x => next <= x) =>
                       (Dates!Cardinality({x \in days : d < x /\ x <= Eve(days, start)}) < 2
                            <=> Eve(days, start) \in {d, next})
  <2>1. Eve(days, start) \in days /\ d <= Eve(days, start)
    BY <1>2, <1>3
  <2>2. PICK eve \in days : eve = Eve(days, start) /\ d <= eve
    BY <2>1
  <2>3. /\ Dates!Cardinality({x \in days : d < x /\ x <= eve}) < 1 <=> eve = d
        /\ \A next \in days :
               d < next /\ (\A x \in days : d < x => next <= x) =>
                   (Dates!Cardinality({x \in days : d < x /\ x <= eve}) < 2 <=> eve \in {d, next})
    BY <2>2, DaysBetween
  <2> QED BY <2>2, <2>3
<1>4. \A start \in Dates!HolidayStarts(days) : start > d <=> d < start
  BY DEF Dates!HolidayStarts
<1>5. window(1) <=> \E start \in Dates!HolidayStarts(days) : d < start /\ Eve(days, start) = d
  <2>1. \A start \in Dates!HolidayStarts(days) :
          d < start => Eve(days, start) >= d
    BY <1>2, <1>4
  <2> QED BY <1>3, <1>4, <2>1
<1>6. ASSUME NEW next \in days, d < next, \A x \in days : d < x => next <= x
      PROVE  window(2) <=> \E start \in Dates!HolidayStarts(days) : d < start /\ Eve(days, start) \in {d, next}
  <2>1. \A start \in Dates!HolidayStarts(days) :
          d < start => Eve(days, start) >= d
    BY <1>2, <1>4
  <2> QED BY <1>3, <1>4, <1>6, <2>1
<1> HIDE DEF window
<1> QED BY <1>1, <1>5, <1>6

\* A holiday begins after d, and d is its eve, if and only if a workday until the
\* next trading day is none.
LEMMA EveOfHoliday ==
  ASSUME NEW n \in Nat, NEW days \in SUBSET (1..n), NEW d \in days, NEW next \in days,
         d < next, \A x \in days : d < x => next <= x
  PROVE  (\E start \in Dates!HolidayStarts(days) : d < start /\ Eve(days, start) = d)
            <=> \E x \in (d + 1)..(next - 1) : Dates!IsWorkday(x)
<1>1. days \subseteq Nat /\ \A x \in days : x <= n
  OBVIOUS
<1>2. Dates!Last(days) \in days /\ \A x \in days : x <= Dates!Last(days)
  BY <1>1, LastIs
<1>3. ASSUME NEW start \in Dates!HolidayStarts(days), d < start, Eve(days, start) = d
      PROVE  start \in (d + 1)..(next - 1) /\ Dates!IsWorkday(start)
  <2>1. start \in Nat /\ start \notin days /\ Dates!IsWorkday(start)
    BY DEF Dates!HolidayStarts
  <2>2. Dates!Earlier(days, start) # {}
    BY <1>3 DEF Dates!Earlier
  <2>3. Previous(days, start, d)
    BY <1>3, <2>2, PreviousIs DEF Eve
  <2>4. ~(next < start) /\ next # start
    BY <1>1, <2>1, <2>3 DEF Previous
  <2> QED BY <1>1, <1>3, <2>1, <2>4
<1>4. ASSUME NEW y \in (d + 1)..(next - 1), Dates!IsWorkday(y)
      PROVE  \E start \in Dates!HolidayStarts(days) : d < start /\ Eve(days, start) = d
  <2> DEFINE W == {x \in (d + 1)..(next - 1) : Dates!IsWorkday(x)}
  <2>1. W \in SUBSET Nat /\ W # {}
    BY <1>1, <1>4
  <2>2. PICK start \in W : \A x \in W : start <= x
    <3> HIDE DEF W
    <3> QED BY <2>1, NatsHaveLeast
  <2>3. start \in Nat /\ d < start /\ start < next /\ Dates!IsWorkday(start)
    BY <1>1
  <2>4. \A x \in (d + 1)..(start - 1) : ~Dates!IsWorkday(x)
    BY <1>1, <2>2, <2>3
  <2>5. start \notin days /\ Dates!Earlier(days, start) # {}
    BY <1>1, <2>3 DEF Dates!Earlier
  <2>6. Previous(days, start, Eve(days, start))
    BY <2>5, PreviousIs DEF Eve
  <2>7. Eve(days, start) = d
    <3>1. PICK e : e = Eve(days, start) /\ e \in days /\ e < start /\ d <= e
      BY <2>3, <2>6 DEF Previous
    <3>2. ~(d < e)
      BY <1>1, <2>3, <3>1
    <3> QED BY <1>1, <3>1, <3>2
  <2>8. start \in 1..Dates!Last(days)
    <3>1. PICK l \in days : l = Dates!Last(days) /\ next <= l
      BY <1>2
    <3>2. start \in 1..l
      BY <1>1, <2>3, <3>1
    <3> QED BY <3>1, <3>2
  <2>9. start \in Dates!HolidayStarts(days)
    BY <2>3, <2>4, <2>5, <2>7, <2>8 DEF Dates!HolidayStarts, Eve
  <2> QED BY <2>3, <2>7, <2>9
<1> QED BY <1>3, <1>4

\* The risk hook and the templates agree on holidays, on any calendar
\* (has_night_session, holiday_starts, is_in_holiday_window).
THEOREM HolidaysAlwaysAgree ==
  ASSUME NEW n \in Nat, NEW days \in SUBSET (1..n)
  PROVE  Dates!HolidaysAgree(days)
<1> SUFFICES ASSUME NEW d \in days, d # Dates!Last(days)
             PROVE  LET next == Dates!First(Dates!Later(days, d)) IN
                    /\ Dates!MayOpenOn(days, d, 1) <=> Dates!HasNight(next, d, <<>>)
                    /\ Dates!MayOpenOn(days, d, 2) <=> Dates!MayOpenOn(days, d, 1) /\ Dates!MayOpenOn(days, next, 1)
  BY DEF Dates!HolidaysAgree
<1>1. PICK next \in days : /\ next = Dates!First(Dates!Later(days, d)) /\ d < next
                           /\ \A x \in days : d < x => next <= x
  BY NextIs
<1>2. Dates!MayOpenOn(days, d, 1) <=>
        ~\E start \in Dates!HolidayStarts(days) : d < start /\ Eve(days, start) = d
  BY WindowIs
<1>3. Dates!MayOpenOn(days, next, 1) <=>
        ~\E start \in Dates!HolidayStarts(days) : next < start /\ Eve(days, start) = next
  BY WindowIs
<1>4. Dates!MayOpenOn(days, d, 2) <=>
        ~\E start \in Dates!HolidayStarts(days) : d < start /\ Eve(days, start) \in {d, next}
  BY <1>1, WindowIs
<1>5. Dates!HasNight(next, d, <<>>) <=> ~\E x \in (d + 1)..(next - 1) : Dates!IsWorkday(x)
  <2>1. d \notin DOMAIN <<>>
    OBVIOUS
  <2> QED BY <2>1 DEF Dates!HasNight
<1>6. Dates!MayOpenOn(days, d, 1) <=> Dates!HasNight(next, d, <<>>)
  BY <1>1, <1>2, <1>5, EveOfHoliday
<1>7. ASSUME NEW start \in Dates!HolidayStarts(days), d < start, Eve(days, start) = next
      PROVE  next < start
  <2>1. Dates!Earlier(days, start) # {}
    BY <1>7 DEF Dates!Earlier
  <2> QED BY <1>7, <2>1, PreviousIs DEF Previous, Eve
<1>8. ASSUME NEW start \in Dates!HolidayStarts(days), next < start
      PROVE  d < start
  <2>1. start \in Int /\ d \in Int /\ next \in Int
    BY DEF Dates!HolidayStarts
  <2> QED BY <1>1, <1>8, <2>1
<1>9. Dates!MayOpenOn(days, d, 2) <=> Dates!MayOpenOn(days, d, 1) /\ Dates!MayOpenOn(days, next, 1)
  BY <1>2, <1>3, <1>4, <1>7, <1>8
<1> QED BY <1>1, <1>6, <1>9

-------------------------------------------------------------------------------
(* Gaps: the pieces between the bounds of the evidence.                      *)

Times == [start : Nat, end : Nat]
\* What contains a minute.
Within(set, m) == {x \in set : x.start <= m /\ m < x.end}
Kinds(evidence, m) == {e.kind : e \in Within(evidence, m)}

EvidenceOK(evidence) == \A e \in evidence : e.start \in Nat /\ e.end \in Nat /\ e.start < e.end

LEMMA PiecesAreWhole ==
  ASSUME NEW evidence, EvidenceOK(evidence), NEW a \in Nat, NEW b \in Nat, a < b
  PROVE  /\ \A g \in Dates!Classified(evidence, a, b) :
                g.start \in Nat /\ g.end \in Nat /\ a <= g.start /\ g.start < g.end /\ g.end <= b
         /\ \A m \in a..(b - 1) : \E g \in Dates!Classified(evidence, a, b) :
                Within(Dates!Classified(evidence, a, b), m) = {g} /\ g.kind = Dates!KindOf(Kinds(evidence, m))
<1> DEFINE relevant == {e \in evidence : e.start < b /\ e.end > a}
           points == {a, b} \union {e.start : e \in relevant} \union {e.end : e \in relevant}
           inside == {p \in points : a <= p /\ p <= b}
           next(p) == Dates!First(Dates!Later(inside, p))
           piece(p) == [start |-> p, end |-> next(p), kind |-> Dates!KindOf(Dates!Causes(relevant, p, next(p)))]
           all == Dates!Classified(evidence, a, b)
<1>1. all = {piece(p) : p \in inside \ {b}}
  BY Zenon DEF Dates!Classified
<1>2. /\ inside \subseteq Nat /\ a \in inside /\ b \in inside /\ \A p \in inside : a <= p /\ p <= b
      /\ \A e \in relevant : /\ e \in evidence /\ e.start \in Nat /\ e.end \in Nat /\ e.start < e.end
                             /\ a <= e.start /\ e.start <= b => e.start \in inside
                             /\ a <= e.end /\ e.end <= b => e.end \in inside
      /\ \A e \in evidence : e.start < b /\ e.end > a => e \in relevant
  BY DEF EvidenceOK
<1> HIDE DEF inside, points, relevant
<1>3. ASSUME NEW p \in inside, p # b
      PROVE  next(p) \in inside /\ p < next(p) /\ \A q \in inside : p < q => next(p) <= q
  <2> DEFINE L == {x \in inside : x > p}
  <2>1. L \in SUBSET Nat /\ L # {}
    <3>1. b \in L
      BY <1>2, <1>3
    <3> QED BY <1>2, <3>1
  <2>2. Dates!Later(inside, p) = L
    BY DEF Dates!Later
  <2> HIDE DEF L
  <2>3. Dates!First(L) \in L /\ \A y \in L : Dates!First(L) <= y
    BY <2>1, FirstIs
  <2> QED BY <2>2, <2>3 DEF L
<1> HIDE DEF next
<1>4. ASSUME NEW g \in all
      PROVE  g.start \in Nat /\ g.end \in Nat /\ a <= g.start /\ g.start < g.end /\ g.end <= b
  <2>1. PICK p \in inside : p # b /\ g = piece(p)
    <3> HIDE DEF all, piece
    <3> QED BY <1>1
  <2>2. g.start = p /\ g.end = next(p)
    BY <2>1
  <2>3. next(p) \in inside /\ p < next(p)
    BY <1>3, <2>1
  <2> QED BY <1>2, <2>2, <2>3
<1>5. ASSUME NEW m \in a..(b - 1)
      PROVE  \E g \in all : Within(all, m) = {g} /\ g.kind = Dates!KindOf(Kinds(evidence, m))
  <2> DEFINE before == {x \in inside : x <= m}
  <2>1. before \in SUBSET Nat /\ before # {} /\ m \in Nat /\ m < b /\ a <= m /\ \A x \in before : x <= m
    <3>1. m \in Nat /\ m < b /\ a <= m
      OBVIOUS
    <3>2. a \in before /\ before \subseteq Nat
      BY <1>2, <3>1
    <3> QED BY <3>1, <3>2
  <2>2. PICK p \in before : \A x \in before : x <= p
    <3> HIDE DEF before
    <3> QED BY <2>1, NatsHaveGreatest
  <2>3. p \in inside /\ p <= m /\ p \in Nat /\ p # b /\ \A x \in inside : x <= m => x <= p
    BY <1>2, <2>1, <2>2
  <2> HIDE DEF before
  <2>4. PICK q \in inside : q = next(p) /\ p < q /\ \A x \in inside : p < x => q <= x
    BY <1>3, <2>3
  <2>5. q \in Nat /\ m < q /\ q <= b
    BY <1>2, <2>1, <2>3, <2>4
  <2>6. piece(p) \in all /\ piece(p).start = p /\ piece(p).end = q
        /\ piece(p).kind = Dates!KindOf(Dates!Causes(relevant, p, q))
    <3>1. piece(p) \in all
      <4> HIDE DEF all, piece
      <4> QED BY <1>1, <2>3
    <3> HIDE DEF all
    <3> QED BY <3>1, <2>4
  <2>7. ASSUME NEW g \in all, g.start <= m, m < g.end PROVE g = piece(p)
    <3>1. PICK x \in inside : x # b /\ g = piece(x)
      <4> HIDE DEF all, piece
      <4> QED BY <1>1
    <3>2. g.start = x /\ g.end = next(x)
      BY <3>1
    <3>3. PICK y \in inside : y = next(x) /\ x < y /\ \A z \in inside : x < z => y <= z
      BY <1>3, <3>1
    <3>4. x \in Nat /\ y \in Nat /\ x <= p /\ m < y
      BY <1>2, <2>3, <2>7, <3>2, <3>3
    <3>5. ~(x < p)
      BY <2>1, <2>3, <3>3, <3>4
    <3>6. x = p
      BY <2>3, <3>4, <3>5
    <3> QED BY <3>1, <3>6
  <2>8. Within(all, m) = {piece(p)}
    <3> DEFINE g == piece(p)
    <3>1. g \in all /\ g.start <= m /\ m < g.end
      <4> HIDE DEF all, g
      <4>1. g \in all /\ g.start = p /\ g.end = q
        BY <2>6, Zenon DEF g
      <4> QED BY <4>1, <2>3, <2>5
    <3>2. \A x \in all : x.start <= m /\ m < x.end => x = g
      <4> HIDE DEF all
      <4> QED BY <2>7
    <3> HIDE DEF all, g
    <3>3. Within(all, m) = {g}
      BY <3>1, <3>2 DEF Within
    <3> QED BY <3>3 DEF g
  <2>9. Dates!Causes(relevant, p, q) = Kinds(evidence, m)
    <3>1. ASSUME NEW e \in relevant, e.start <= p, e.end >= q
          PROVE  e \in evidence /\ e.start <= m /\ m < e.end
      BY <1>2, <2>1, <2>3, <2>5, <3>1
    <3>2. ASSUME NEW e \in evidence, e.start <= m, m < e.end
          PROVE  e \in relevant /\ e.start <= p /\ e.end >= q
      <4>1. e.start \in Nat /\ e.end \in Nat
        BY DEF EvidenceOK
      <4>2. e \in relevant
        BY <1>2, <2>1, <3>2, <4>1
      <4>3. e.start <= p
        <5>1. a <= e.start => e.start \in inside
          BY <1>2, <2>1, <3>2, <4>1, <4>2
        <5>2. a \in Nat /\ a <= p
          BY <1>2, <2>3
        <5> QED BY <2>3, <3>2, <4>1, <5>1, <5>2
      <4>4. e.end >= q
        <5>1. e.end <= b => e.end \in inside
          BY <1>2, <2>1, <3>2, <4>1, <4>2
        <5> QED BY <2>3, <2>4, <2>5, <2>1, <3>2, <4>1, <5>1
      <4> QED BY <4>2, <4>3, <4>4
    <3> QED BY <3>1, <3>2 DEF Dates!Causes, Kinds, Within
  <2>10. piece(p).kind = Dates!KindOf(Kinds(evidence, m))
    <3> HIDE DEF piece
    <3> QED BY <2>6, <2>9, Zenon
  <2> HIDE DEF all, piece
  <2> QED BY <2>6, <2>8, <2>10
<1> QED BY <1>4, <1>5

-------------------------------------------------------------------------------
(* Bars in the order of their starts. *)

Ordered(q, T) ==
    /\ \A x \in T : \E i \in DOMAIN q : q[i] = x
    /\ \A i, j \in DOMAIN q : i < j => q[i].start < q[j].start \/ (q[i].start = q[j].start /\ q[i].end <= q[j].end)

LEMMA OrderExists ==
  ASSUME NEW T \in SUBSET Times, IsFiniteSet(T)
  PROVE  \E q \in [1..Cardinality(T) -> T] : Ordered(q, T)
<1> DEFINE bad == {t \in SUBSET T : ~\E q \in [1..Cardinality(t) -> t] : Ordered(q, t)}
<1> SUFFICES ASSUME bad # {} PROVE FALSE
  <2>1. T \in SUBSET T
    OBVIOUS
  <2> QED BY <2>1
<1>1. PICK t \in bad : \A s \in bad : s \subseteq t => s = t
  <2>1. bad \in SUBSET SUBSET T
    OBVIOUS
  <2> HIDE DEF bad
  <2> QED BY <2>1, SmallestSubset
<1>2. IsFiniteSet(t) /\ t \in SUBSET Times /\ t \in SUBSET T
  BY FS_Subset
<1>3. CASE t = {}
  <2>1. Cardinality(t) = 0
    BY <1>3, FS_EmptySet
  <2> DEFINE q == [i \in 1..0 |-> 0]
  <2>2. q \in [1..0 -> {}] /\ DOMAIN q = {}
    OBVIOUS
  <2>3. Ordered(q, {})
    BY <2>2 DEF Ordered
  <2>4. t \notin bad
    <3> HIDE DEF q
    <3> QED BY <1>3, <2>1, <2>2, <2>3
  <2> HIDE DEF bad
  <2> QED BY <2>4
<1>4. CASE t # {}
  <2>1. \A x \in t : x.start \in Nat /\ x.end \in Nat
    BY <1>2 DEF Times
  <2>2. PICK x \in t : \A y \in t : x.start < y.start \/ (x.start = y.start /\ x.end <= y.end)
    <3> DEFINE A == {y.start : y \in t}
    <3>1. A \in SUBSET Nat /\ A # {}
      BY <1>4, <2>1
    <3>2. PICK a \in A : \A y \in A : a <= y
      <4> HIDE DEF A
      <4> QED BY <3>1, NatsHaveLeast
    <3> DEFINE F == {y \in t : y.start = a}
               B == {y.end : y \in F}
    <3>3. B \in SUBSET Nat /\ B # {}
      BY <2>1
    <3>4. PICK b \in B : \A y \in B : b <= y
      <4> HIDE DEF B
      <4> QED BY <3>3, NatsHaveLeast
    <3>5. PICK x \in t : x.start = a /\ x.end = b
      OBVIOUS
    <3>6. \A y \in t : x.start < y.start \/ (x.start = y.start /\ x.end <= y.end)
      <4> SUFFICES ASSUME NEW y \in t PROVE x.start < y.start \/ (x.start = y.start /\ x.end <= y.end)
        OBVIOUS
      <4>1. a <= y.start /\ a \in Nat /\ y.start \in Nat
        BY <2>1, <3>1, <3>2
      <4>2. y.start = a => b <= y.end
        BY <3>4
      <4> QED BY <3>5, <4>1, <4>2
    <3> QED BY <3>6
  <2> DEFINE r == t \ {x}
             n == Cardinality(r)
  <2>3. IsFiniteSet(r) /\ n \in Nat /\ Cardinality(t) = n + 1
    <3>1. IsFiniteSet(r) /\ Cardinality(r) = Cardinality(t) - 1
      BY <1>2, FS_RemoveElement
    <3>2. Cardinality(t) \in Nat /\ Cardinality(r) \in Nat
      BY <1>2, <3>1, FS_CardinalityType
    <3> HIDE DEF r
    <3> QED BY <3>1, <3>2
  <2>4. PICK q \in [1..n -> r] : Ordered(q, r)
    <3>1. r \in SUBSET T /\ r \subseteq t /\ r # t
      BY <1>2
    <3>2. r \notin bad
      <4> HIDE DEF bad, r
      <4> QED BY <1>1, <3>1
    <3> QED BY <3>1, <3>2
  <2> DEFINE p == [i \in 1..(n + 1) |-> IF i = 1 THEN x ELSE q[i - 1]]
  <2>5. r \subseteq t /\ \A y \in t : y = x \/ y \in r
    OBVIOUS
  <2> HIDE DEF r, n
  <2>6. \A i \in 1..(n + 1) : i # 1 => i - 1 \in 1..n
    BY <2>3
  <2>7. p \in [1..(n + 1) -> t] /\ DOMAIN p = 1..(n + 1) /\ DOMAIN q = 1..n
    BY <2>4, <2>5, <2>6
  <2>8. ASSUME NEW y \in t PROVE \E i \in 1..(n + 1) : p[i] = y
    <3>1. CASE y = x
      <4>1. 1 \in 1..(n + 1) /\ p[1] = x
        BY <2>3
      <4> QED BY <3>1, <4>1
    <3>2. CASE y \in r
      <4>1. PICK i \in 1..n : q[i] = y
        BY <2>4, <2>7, <3>2 DEF Ordered
      <4>2. i + 1 \in 1..(n + 1) /\ i + 1 # 1 /\ (i + 1) - 1 = i
        BY <2>3
      <4>3. p[i + 1] = y
        BY <4>1, <4>2
      <4> QED BY <4>2, <4>3
    <3> QED BY <2>5, <3>1, <3>2
  <2>9. ASSUME NEW i \in 1..(n + 1), NEW j \in 1..(n + 1), i < j
        PROVE  p[i].start < p[j].start \/ (p[i].start = p[j].start /\ p[i].end <= p[j].end)
    <3>1. j - 1 \in 1..n /\ p[j] = q[j - 1] /\ q[j - 1] \in t
      <4>1. j # 1
        BY <2>9
      <4> QED BY <4>1, <2>4, <2>5, <2>6
    <3>2. CASE i = 1
      BY <2>2, <3>1, <3>2
    <3>3. CASE i # 1
      <4>1. i - 1 \in 1..n /\ p[i] = q[i - 1] /\ i - 1 < j - 1
        BY <2>3, <2>6, <2>9, <3>3
      <4> HIDE DEF p
      <4> QED BY <2>4, <2>7, <3>1, <4>1 DEF Ordered
    <3> QED BY <3>2, <3>3
  <2>10. Ordered(p, t)
    <3> HIDE DEF p
    <3> QED BY <2>7, <2>8, <2>9 DEF Ordered
  <2>11. t \notin bad
    <3> HIDE DEF p
    <3> QED BY <2>3, <2>7, <2>10
  <2> HIDE DEF bad
  <2> QED BY <2>11
<1> QED BY <1>3, <1>4

LEMMA InOrderIs ==
  ASSUME NEW T \in SUBSET Times, IsFiniteSet(T)
  PROVE  /\ Dates!InOrder(T) \in [1..Cardinality(T) -> T] /\ Cardinality(T) \in Nat
         /\ Ordered(Dates!InOrder(T), T)
<1>1. Dates!Cardinality(T) = Cardinality(T) /\ Cardinality(T) \in Nat
  BY CountedDates, FS_CardinalityType
<1>2. Dates!InOrder(T) = CHOOSE q \in [1..Cardinality(T) -> T] : Ordered(q, T)
  BY <1>1 DEF Dates!InOrder, Ordered
<1> QED BY <1>1, <1>2, OrderExists, Zenon
-------------------------------------------------------------------------------
(* The scan of a session. *)

ScanStep(evidence, bar, before) ==
    [cursor |-> Dates!Further(before.cursor, bar.end),
     gaps |-> before.gaps \union
         (IF bar.start > before.cursor THEN Dates!Classified(evidence, before.cursor, bar.start) ELSE {})]
Scans(scan, begin, coverage, evidence, n) ==
    scan = [i \in 0..n |-> IF i = 0 THEN [cursor |-> begin, gaps |-> {}]
                           ELSE ScanStep(evidence, coverage[i], scan[i - 1])]

LEMMA ScanExists ==
  ASSUME NEW n \in Nat, NEW begin, NEW coverage, NEW evidence
  PROVE  \E scan : Scans(scan, begin, coverage, evidence, n)
<1> DEFINE bad == {k \in Nat : ~\E scan : Scans(scan, begin, coverage, evidence, k)}
<1> SUFFICES ASSUME bad # {} PROVE FALSE
  OBVIOUS
<1>1. PICK k \in bad : \A l \in bad : k <= l
  <2>1. bad \in SUBSET Nat
    OBVIOUS
  <2> HIDE DEF bad
  <2> QED BY <2>1, NatsHaveLeast
<1>2. k \in Nat /\ ~\E scan : Scans(scan, begin, coverage, evidence, k)
  OBVIOUS
<1>3. k # 0
  <2> SUFFICES ASSUME k = 0 PROVE FALSE
    OBVIOUS
  <2> DEFINE first == [i \in 0..0 |-> [cursor |-> begin, gaps |-> {}]]
  <2>1. first = [i \in 0..0 |-> IF i = 0 THEN [cursor |-> begin, gaps |-> {}]
                                ELSE ScanStep(evidence, coverage[i], first[i - 1])]
    OBVIOUS
  <2> HIDE DEF first, bad
  <2>2. Scans(first, begin, coverage, evidence, 0)
    BY <2>1 DEF Scans
  <2> QED BY <1>2, <2>2
<1>4. k - 1 \in Nat /\ k - 1 \notin bad
  <2> HIDE DEF bad
  <2> QED BY <1>1, <1>2, <1>3
<1>5. PICK scan : Scans(scan, begin, coverage, evidence, k - 1)
  BY <1>4
<1> DEFINE more == [i \in 0..k |-> IF i = k THEN ScanStep(evidence, coverage[k], scan[k - 1]) ELSE scan[i]]
<1>6. \A i \in 0..(k - 1) : more[i] = scan[i] /\ i # k
  BY <1>2
<1>7. ASSUME NEW i \in 0..k
      PROVE  more[i] = IF i = 0 THEN [cursor |-> begin, gaps |-> {}] ELSE ScanStep(evidence, coverage[i], more[i - 1])
  <2>1. CASE i = k
    <3>1. k - 1 \in 0..(k - 1)
      BY <1>4
    <3>2. more[i] = ScanStep(evidence, coverage[k], scan[k - 1])
      BY <2>1
    <3> HIDE DEF more, bad
    <3> QED BY <1>3, <1>6, <2>1, <3>1, <3>2
  <2>2. CASE i # k
    <3>1. i \in 0..(k - 1) /\ (i # 0 => i - 1 \in 0..(k - 1))
      BY <1>2, <2>2
    <3>2. scan[i] = IF i = 0 THEN [cursor |-> begin, gaps |-> {}] ELSE ScanStep(evidence, coverage[i], scan[i - 1])
      BY <1>5, <3>1 DEF Scans
    <3> HIDE DEF more, bad
    <3> QED BY <1>6, <3>1, <3>2
  <2> QED BY <2>1, <2>2
<1>8. more = [i \in 0..k |-> more[i]]
  OBVIOUS
<1>9. Scans(more, begin, coverage, evidence, k)
  <2> HIDE DEF more
  <2> QED BY <1>7, <1>8 DEF Scans
<1> HIDE DEF more
<1> QED BY <1>2, <1>9

\* Up to c, every minute is in a bar or in one gap of its kind, and nothing else is a gap.
Scanned(gaps, T, evidence, begin, c) ==
    /\ \A g \in gaps : g.start \in Nat /\ g.end \in Nat /\ begin <= g.start /\ g.end <= c
    /\ \A m \in begin..(c - 1) :
           IF Within(T, m) # {} THEN Within(gaps, m) = {}
           ELSE \E g \in gaps : Within(gaps, m) = {g} /\ g.kind = Dates!KindOf(Kinds(evidence, m))

\* A gap of which no minute is in a bar is added to what was scanned.
LEMMA ScanGap ==
  ASSUME NEW T, NEW evidence, EvidenceOK(evidence), NEW begin \in Nat, NEW c \in Nat, begin <= c, NEW gaps,
         Scanned(gaps, T, evidence, begin, c),
         NEW d \in Nat, c < d, \A m \in c..(d - 1) : Within(T, m) = {}
  PROVE  Scanned(gaps \union Dates!Classified(evidence, c, d), T, evidence, begin, d)
<1> DEFINE pieces == Dates!Classified(evidence, c, d)
<1>1. /\ \A g \in pieces : g.start \in Nat /\ g.end \in Nat /\ c <= g.start /\ g.start < g.end /\ g.end <= d
      /\ \A m \in c..(d - 1) : \E g \in pieces :
             Within(pieces, m) = {g} /\ g.kind = Dates!KindOf(Kinds(evidence, m))
  BY PiecesAreWhole
<1> HIDE DEF pieces
<1> DEFINE all == gaps \union pieces
<1>2. \A g \in all : g.start \in Nat /\ g.end \in Nat /\ begin <= g.start /\ g.end <= d
  BY <1>1 DEF Scanned
<1>3. ASSUME NEW m \in begin..(d - 1)
      PROVE  IF Within(T, m) # {} THEN Within(all, m) = {}
             ELSE \E g \in all : Within(all, m) = {g} /\ g.kind = Dates!KindOf(Kinds(evidence, m))
  <2>1. Within(all, m) = Within(gaps, m) \union Within(pieces, m)
    BY DEF Within
  <2>2. CASE m < c
    <3>1. Within(pieces, m) = {}
      BY <1>1, <2>2 DEF Within
    <3>2. m \in begin..(c - 1)
      BY <2>2
    <3> QED BY <2>1, <3>1, <3>2 DEF Scanned
  <2>3. CASE c <= m
    <3>1. Within(gaps, m) = {}
      BY <2>3 DEF Within, Scanned
    <3>2. m \in c..(d - 1)
      BY <2>3
    <3> QED BY <1>1, <2>1, <3>1, <3>2
  <2> QED BY <2>2, <2>3
<1> HIDE DEF all
<1>4. Scanned(all, T, evidence, begin, d)
  BY <1>2, <1>3 DEF Scanned
<1> QED BY <1>4 DEF all, pieces

\* Minutes of a bar are added.
LEMMA ScanBar ==
  ASSUME NEW T, NEW evidence, NEW begin \in Nat, NEW c \in Nat, begin <= c, NEW gaps,
         Scanned(gaps, T, evidence, begin, c),
         NEW d \in Nat, c <= d, \A m \in c..(d - 1) : Within(T, m) # {}
  PROVE  Scanned(gaps, T, evidence, begin, d)
<1>1. \A g \in gaps : g.start \in Nat /\ g.end \in Nat /\ begin <= g.start /\ g.end <= c /\ g.end <= d
  BY DEF Scanned
<1>2. ASSUME NEW m \in begin..(d - 1)
      PROVE  IF Within(T, m) # {} THEN Within(gaps, m) = {}
             ELSE \E g \in gaps : Within(gaps, m) = {g} /\ g.kind = Dates!KindOf(Kinds(evidence, m))
  <2>1. CASE m < c
    <3>1. m \in begin..(c - 1)
      BY <2>1
    <3> QED BY <3>1 DEF Scanned
  <2>2. CASE c <= m
    <3>1. Within(gaps, m) = {}
      BY <1>1, <2>2 DEF Within
    <3>2. m \in c..(d - 1)
      BY <2>2
    <3> QED BY <3>1, <3>2
  <2> QED BY <2>1, <2>2
<1> QED BY <1>1, <1>2 DEF Scanned

\* A session of which bars cover some minutes, scanned in the order of the bars' starts.
LEMMA ScanIs ==
  ASSUME NEW n \in Nat, NEW begin \in Nat, NEW finish \in Nat, begin <= finish,
         NEW T \in SUBSET Times, \A x \in T : begin <= x.start /\ x.start < x.end /\ x.end <= finish,
         NEW coverage \in [1..n -> T], Ordered(coverage, T),
         NEW evidence, EvidenceOK(evidence), NEW scan, Scans(scan, begin, coverage, evidence, n)
  PROVE  LET whole == scan[n]
             gaps == whole.gaps \union
                        (IF whole.cursor < finish THEN Dates!Classified(evidence, whole.cursor, finish) ELSE {})
         IN  Scanned(gaps, T, evidence, begin, finish)
<1>1. \A x \in T : x.start \in Nat /\ x.end \in Nat
  BY DEF Times
<1> DEFINE good(i) == /\ scan[i].cursor \in Nat /\ begin <= scan[i].cursor /\ scan[i].cursor <= finish
                      /\ \A j \in 1..i : coverage[j].end <= scan[i].cursor
                      /\ Scanned(scan[i].gaps, T, evidence, begin, scan[i].cursor)
           bad == {i \in 0..n : ~good(i)}
<1>2. good(0)
  <2>1. scan[0] = [cursor |-> begin, gaps |-> {}]
    BY DEF Scans
  <2>2. scan[0].cursor = begin /\ scan[0].gaps = {}
    BY <2>1
  <2>3. Scanned({}, T, evidence, begin, begin)
    BY DEF Scanned
  <2> QED BY <2>2, <2>3
<1>3. ASSUME NEW i \in 0..n, i # 0, good(i - 1) PROVE good(i)
  <2> DEFINE before == scan[i - 1]
             bar == coverage[i]
             c == before.cursor
             e == Dates!Further(c, bar.end)
             fresh == IF bar.start > c THEN Dates!Classified(evidence, c, bar.start) ELSE {}
             gaps == before.gaps \union fresh
  <2>1. scan[i] = ScanStep(evidence, bar, before)
    BY <1>3 DEF Scans
  <2>2. scan[i].cursor = e /\ scan[i].gaps = gaps
    BY <2>1 DEF ScanStep
  <2>3. i \in 1..n /\ bar \in T
    BY <1>3
  <2>4. bar.start \in Nat /\ bar.end \in Nat /\ begin <= bar.start /\ bar.start < bar.end /\ bar.end <= finish
    BY <1>1, <2>3
  <2>5. /\ c \in Nat /\ begin <= c /\ c <= finish /\ \A j \in 1..(i - 1) : coverage[j].end <= c
        /\ Scanned(before.gaps, T, evidence, begin, c)
    BY <1>3
  <2> HIDE DEF before, c
  <2>6. e \in Nat /\ c <= e /\ bar.end <= e /\ e <= finish /\ e \in {c, bar.end}
    BY <2>4, <2>5 DEF Dates!Further
  <2>7. \A j \in 1..i : coverage[j].end <= e
    <3> SUFFICES ASSUME NEW j \in 1..i PROVE coverage[j].end <= e
      OBVIOUS
    <3>1. coverage[j] \in T
      BY <2>3
    <3>2. CASE j = i
      BY <2>6, <3>2
    <3>3. CASE j # i
      <4>1. j \in 1..(i - 1)
        BY <2>3, <3>3
      <4>2. coverage[j].end <= c /\ coverage[j].end \in Nat
        BY <1>1, <2>5, <3>1, <4>1
      <4> HIDE DEF e
      <4> QED BY <2>5, <2>6, <4>2
    <3> QED BY <3>2, <3>3
  <2>8. ASSUME NEW x \in T PROVE x.end <= c \/ bar.start <= x.start
    <3>1. PICK j \in 1..n : coverage[j] = x
      BY DEF Ordered
    <3>2. CASE j < i
      <4>1. j \in 1..(i - 1)
        BY <2>3, <3>2
      <4> QED BY <2>5, <3>1, <4>1
    <3>3. CASE j = i
      BY <2>4, <3>1, <3>3
    <3>4. CASE i < j
      <4>1. bar.start < x.start \/ bar.start = x.start
        BY <2>3, <3>1, <3>4 DEF Ordered
      <4> QED BY <1>1, <2>4, <4>1
    <3> QED BY <2>3, <3>2, <3>3, <3>4
  <2> HIDE DEF bar, e
  <2> DEFINE d == IF bar.start > c THEN bar.start ELSE c
  <2>9. Scanned(gaps, T, evidence, begin, d) /\ d \in Nat /\ begin <= d /\ c <= d
    <3>1. CASE bar.start > c
      <4>1. \A m \in c..(bar.start - 1) : Within(T, m) = {}
        <5> SUFFICES ASSUME NEW m \in c..(bar.start - 1), NEW x \in T, x.start <= m, m < x.end PROVE FALSE
          BY DEF Within
        <5>1. x.start \in Nat /\ x.end \in Nat
          BY <1>1
        <5>2. m \in Nat /\ c <= m /\ m < bar.start
          BY <2>4, <2>5
        <5> QED BY <2>4, <2>5, <2>8, <5>1, <5>2
      <4>2. c < bar.start
        BY <2>4, <2>5, <3>1
      <4>3. Scanned(before.gaps \union Dates!Classified(evidence, c, bar.start), T, evidence, begin, bar.start)
        BY <2>4, <2>5, <4>1, <4>2, ScanGap
      <4> QED BY <2>4, <2>5, <3>1, <4>2, <4>3
    <3>2. CASE ~(bar.start > c)
      <4>1. fresh = {} /\ d = c
        BY <3>2
      <4>2. gaps = before.gaps
        BY <4>1
      <4> HIDE DEF gaps, d, fresh
      <4> QED BY <2>5, <4>1, <4>2
    <3> QED BY <3>1, <3>2
  <2>10. Scanned(gaps, T, evidence, begin, e)
    <3>1. CASE d <= e
      <4>1. \A m \in d..(e - 1) : Within(T, m) # {}
        <5> SUFFICES ASSUME NEW m \in d..(e - 1) PROVE bar \in Within(T, m)
          OBVIOUS
        <5>1. bar.start <= d
          BY <2>4, <2>5
        <5>2. d < e => e = bar.end
          BY <2>5, <2>6, <2>9
        <5> HIDE DEF d
        <5>3. m \in Nat /\ bar.start <= m /\ m < e
          BY <2>4, <2>6, <2>9, <5>1
        <5>4. m < bar.end
          BY <2>6, <2>9, <5>2, <5>3
        <5> QED BY <2>3, <5>3, <5>4 DEF Within, bar
      <4> HIDE DEF d, gaps
      <4> QED BY <2>6, <2>9, <3>1, <4>1, ScanBar
    <3>2. d <= e
      BY <2>4, <2>5, <2>6
    <3> QED BY <3>1, <3>2
  <2>11. begin <= e
    BY <2>5, <2>6
  <2> QED BY <2>2, <2>6, <2>7, <2>10, <2>11
<1>4. good(n)
  <2> SUFFICES ASSUME bad # {} PROVE FALSE
    OBVIOUS
  <2>1. PICK i \in bad : \A j \in bad : i <= j
    <3>1. bad \in SUBSET Nat
      OBVIOUS
    <3> HIDE DEF bad
    <3> QED BY <3>1, NatsHaveLeast
  <2>2. i \in 0..n /\ ~good(i)
    OBVIOUS
  <2> HIDE DEF good
  <2>3. i # 0
    BY <1>2, <2>2
  <2>4. i - 1 \in 0..n /\ ~(i <= i - 1)
    BY <2>2, <2>3
  <2>5. i - 1 \notin bad
    <3> HIDE DEF bad
    <3> QED BY <2>1, <2>4
  <2>6. good(i - 1)
    BY <2>4, <2>5
  <2> QED BY <1>3, <2>2, <2>3, <2>6
<1> DEFINE w == scan[n]
<1>5. /\ w.cursor \in Nat /\ begin <= w.cursor /\ w.cursor <= finish
      /\ \A j \in 1..n : coverage[j].end <= w.cursor /\ Scanned(w.gaps, T, evidence, begin, w.cursor)
      /\ Scanned(w.gaps, T, evidence, begin, w.cursor)
  BY <1>4
<1> HIDE DEF w, good
<1>6. CASE w.cursor < finish
  <2>1. \A m \in (w.cursor)..(finish - 1) : Within(T, m) = {}
    <3> SUFFICES ASSUME NEW m \in (w.cursor)..(finish - 1), NEW x \in T, x.start <= m, m < x.end PROVE FALSE
      BY DEF Within
    <3>1. PICK j \in 1..n : coverage[j] = x
      BY DEF Ordered
    <3>2. x.end <= w.cursor /\ x.end \in Nat /\ m \in Nat /\ w.cursor <= m
      BY <1>1, <1>5, <3>1
    <3> QED BY <1>5, <3>2
  <2>2. Scanned(w.gaps \union Dates!Classified(evidence, w.cursor, finish), T, evidence, begin, finish)
    BY <1>5, <1>6, <2>1, ScanGap
  <2> QED BY <1>6, <2>2 DEF w
<1>7. CASE ~(w.cursor < finish)
  <2>1. w.cursor = finish
    BY <1>5, <1>7
  <2>2. w.gaps \union {} = w.gaps
    OBVIOUS
  <2> QED BY <1>5, <1>7, <2>1, <2>2 DEF w
<1> QED BY <1>6, <1>7
-------------------------------------------------------------------------------
(* All sessions of a day. *)

IntervalsOK(S) == \A x \in S : x.start \in Nat /\ x.end \in Nat /\ x.start < x.end

LEMMA ClippedIs ==
  ASSUME NEW session, IntervalsOK({session}), NEW bars, IntervalsOK(bars), IsFiniteSet(bars)
  PROVE  LET T == Dates!Clipped(bars, session) IN
         /\ T \in SUBSET Times /\ IsFiniteSet(T)
         /\ \A x \in T : session.start <= x.start /\ x.start < x.end /\ x.end <= session.end
         /\ \A m \in (session.start)..(session.end - 1) : Within(T, m) # {} <=> Within(bars, m) # {}
<1> DEFINE clip(b) == [start |-> IF b.start > session.start THEN b.start ELSE session.start,
                       end |-> IF b.end < session.end THEN b.end ELSE session.end]
           B == {x \in bars : x.start < session.end /\ x.end > session.start}
           T == Dates!Clipped(bars, session)
<1>1. T = {clip(b) : b \in B}
  BY Zenon DEF Dates!Clipped
<1>2. session.start \in Nat /\ session.end \in Nat /\ session.start < session.end
  BY DEF IntervalsOK
<1>3. ASSUME NEW b \in B
      PROVE  /\ clip(b) \in Times /\ session.start <= clip(b).start /\ clip(b).start < clip(b).end
             /\ clip(b).end <= session.end /\ b \in bars
             /\ \A m \in (session.start)..(session.end - 1) :
                   clip(b).start <= m /\ m < clip(b).end <=> b.start <= m /\ m < b.end
  <2>1. b.start \in Nat /\ b.end \in Nat /\ b.start < b.end /\ b.start < session.end /\ b.end > session.start /\ b \in bars
    BY DEF IntervalsOK
  <2>2. /\ clip(b).start = (IF b.start > session.start THEN b.start ELSE session.start)
        /\ clip(b).end = (IF b.end < session.end THEN b.end ELSE session.end)
    OBVIOUS
  <2>3. clip(b).start \in Nat /\ clip(b).end \in Nat
    BY <1>2, <2>1, <2>2
  <2>4. clip(b) \in Times
    BY <2>3 DEF Times
  <2> QED BY <1>2, <2>1, <2>2, <2>4
<1>4. \A m \in (session.start)..(session.end - 1), b \in bars : b.start <= m /\ m < b.end => b \in B
  BY <1>2 DEF IntervalsOK
<1>5. IsFiniteSet(T)
  <2> DEFINE f == [b \in B |-> clip(b)]
  <2>1. IsFiniteSet(B)
    BY FS_Subset
  <2>2. f \in Surjection(B, T)
    <3> HIDE DEF B, clip, T
    <3> QED BY <1>1 DEF Surjection
  <2> HIDE DEF f, B, clip, T
  <2> QED BY <2>1, <2>2, FS_Surjection
<1> HIDE DEF T, clip, B
<1>6. T \in SUBSET Times /\ \A x \in T : session.start <= x.start /\ x.start < x.end /\ x.end <= session.end
  BY <1>1, <1>3
<1>7. ASSUME NEW m \in (session.start)..(session.end - 1) PROVE Within(T, m) # {} <=> Within(bars, m) # {}
  <2>1. ASSUME NEW x \in Within(T, m) PROVE Within(bars, m) # {}
    <3>1. PICK b \in B : x = clip(b)
      BY <1>1 DEF Within
    <3>2. b \in Within(bars, m)
      BY <1>3, <3>1 DEF Within
    <3> QED BY <3>2
  <2>2. ASSUME NEW b \in Within(bars, m) PROVE Within(T, m) # {}
    <3>1. b \in B
      BY <1>4 DEF Within
    <3>2. clip(b) \in Within(T, m)
      BY <1>1, <1>3, <3>1 DEF Within
    <3> QED BY <3>2
  <2> QED BY <2>1, <2>2
<1> QED BY <1>5, <1>6, <1>7 DEF T

LEMMA GapsInIs ==
  ASSUME NEW session, IntervalsOK({session}), NEW bars, IntervalsOK(bars), IsFiniteSet(bars),
         NEW evidence, EvidenceOK(evidence)
  PROVE  Scanned(Dates!GapsIn(session, bars, evidence), Dates!Clipped(bars, session), evidence,
                 session.start, session.end)
<1> DEFINE T == Dates!Clipped(bars, session)
           coverage == Dates!InOrder(T)
           n == Cardinality(T)
           scan == CHOOSE t : Scans(t, session.start, coverage, evidence, n)
           whole == scan[n]
           gaps == whole.gaps \union
                      (IF whole.cursor < session.end THEN Dates!Classified(evidence, whole.cursor, session.end) ELSE {})
<1>1. session.start \in Nat /\ session.end \in Nat /\ session.start <= session.end
  BY DEF IntervalsOK
<1>2. /\ T \in SUBSET Times /\ IsFiniteSet(T)
      /\ \A x \in T : session.start <= x.start /\ x.start < x.end /\ x.end <= session.end
  BY ClippedIs
<1> HIDE DEF T
<1>3. coverage \in [1..n -> T] /\ n \in Nat /\ Ordered(coverage, T)
  BY <1>2, InOrderIs
<1>4. Len(coverage) = n
  <2>1. coverage \in Seq(T)
    BY <1>3
  <2> HIDE DEF coverage, n
  <2>2. DOMAIN coverage = 1..n /\ DOMAIN coverage = 1..Len(coverage) /\ Len(coverage) \in Nat
    BY <1>3, <2>1, LenProperties
  <2> QED BY <1>3, <2>2
<1>5. Dates!GapsIn(session, bars, evidence) = gaps
  <2>1. Dates!GapsIn(session, bars, evidence) =
          LET s == CHOOSE t : Scans(t, session.start, coverage, evidence, Len(coverage))
              w == s[Len(coverage)]
          IN  w.gaps \union (IF w.cursor < session.end THEN Dates!Classified(evidence, w.cursor, session.end) ELSE {})
    BY Zenon DEF Dates!GapsIn, Scans, ScanStep, T
  <2> HIDE DEF coverage, n
  <2> QED BY <1>4, <2>1, Zenon
<1> HIDE DEF coverage, n
<1>6. Scans(scan, session.start, coverage, evidence, n)
  BY <1>3, ScanExists, Zenon
<1> HIDE DEF scan
<1>7. Scanned(gaps, T, evidence, session.start, session.end)
  BY <1>1, <1>2, <1>3, <1>6, ScanIs
<1> QED BY <1>5, <1>7 DEF T
\* For sessions that do not overlap, any bars and any evidence: what bars leave
\* uncovered is in one gap, of the kind that the evidence says (scan_gaps).
THEOREM GapsRest ==
  ASSUME NEW sessions, IntervalsOK(sessions), Dates!Accepted(sessions),
         NEW bars, IntervalsOK(bars), IsFiniteSet(bars), NEW evidence, EvidenceOK(evidence)
  PROVE  Dates!GapsAreTheRest(sessions, bars, evidence)
<1> DEFINE active == {s \in sessions : s.phase = "continuous"}
           in(s) == Dates!GapsIn(s, bars, evidence)
           gaps == Dates!Gaps(sessions, bars, evidence)
           first == Dates!First({s.start : s \in sessions})
           last == Dates!Last({s.end : s \in sessions})
<1>1. gaps = UNION {in(s) : s \in active}
  BY Zenon DEF Dates!Gaps
<1>2. ASSUME NEW s \in active
      PROVE  /\ s.start \in Nat /\ s.end \in Nat /\ s.start < s.end
             /\ \A g \in in(s) : g.start \in Nat /\ g.end \in Nat /\ s.start <= g.start /\ g.end <= s.end
             /\ \A m \in (s.start)..(s.end - 1) :
                    IF Within(bars, m) # {} THEN Within(in(s), m) = {}
                    ELSE \E g \in in(s) : Within(in(s), m) = {g} /\ g.kind = Dates!KindOf(Kinds(evidence, m))
  <2>1. IntervalsOK({s}) /\ s.start \in Nat /\ s.end \in Nat /\ s.start < s.end
    BY DEF IntervalsOK
  <2> DEFINE T == Dates!Clipped(bars, s)
  <2>2. Scanned(in(s), T, evidence, s.start, s.end)
    BY <2>1, GapsInIs
  <2>3. \A m \in (s.start)..(s.end - 1) : Within(T, m) # {} <=> Within(bars, m) # {}
    BY <2>1, ClippedIs
  <2> HIDE DEF T, in
  <2> QED BY <2>1, <2>2, <2>3 DEF Scanned
<1>3. \A s, t \in active : s # t => s.end <= t.start \/ t.end <= s.start
  BY <1>2 DEF Dates!Accepted, Dates!Overlap
<1> HIDE DEF active, in, gaps
<1>4. ASSUME NEW m \in Int
      PROVE  IF Within(active, m) = {} \/ Within(bars, m) # {} THEN Within(gaps, m) = {}
             ELSE \E g \in Within(gaps, m) : Within(gaps, m) = {g} /\ g.kind = Dates!KindOf(Kinds(evidence, m))
  <2>1. ASSUME NEW s \in active, NEW g \in in(s), g.start <= m, m < g.end
        PROVE  s \in Within(active, m) /\ m \in (s.start)..(s.end - 1)
    <3>1. /\ s.start \in Nat /\ s.end \in Nat /\ g.start \in Nat /\ g.end \in Nat
          /\ s.start <= g.start /\ g.end <= s.end
      BY <1>2, <2>1
    <3> QED BY <2>1, <3>1 DEF Within
  <2>2. \A g \in gaps : \E s \in active : g \in in(s)
    BY <1>1
  <2>3. CASE Within(active, m) = {}
    <3>1. ASSUME NEW g \in gaps, g.start <= m, m < g.end PROVE FALSE
      BY <2>1, <2>2, <2>3, <3>1
    <3> QED BY <2>3, <3>1 DEF Within
  <2>4. ASSUME NEW s \in Within(active, m)
        PROVE  /\ s \in active /\ m \in (s.start)..(s.end - 1) /\ Within(gaps, m) = Within(in(s), m)
    <3>1. s \in active /\ s.start <= m /\ m < s.end
      BY DEF Within
    <3>2. m \in (s.start)..(s.end - 1)
      BY <1>2, <3>1
    <3>3. ASSUME NEW t \in active, NEW g \in in(t), g.start <= m, m < g.end PROVE t = s
      <4>1. t.start <= m /\ m < t.end
        BY <2>1, <3>3 DEF Within
      <4> QED BY <1>2, <1>3, <3>1, <4>1
    <3>4. ASSUME NEW g \in Within(gaps, m) PROVE g \in Within(in(s), m)
      <4>1. g \in gaps /\ g.start <= m /\ m < g.end
        BY DEF Within
      <4>2. PICK t \in active : g \in in(t)
        BY <2>2, <4>1
      <4> QED BY <3>3, <4>1, <4>2 DEF Within
    <3>5. Within(in(s), m) \subseteq Within(gaps, m)
      BY <1>1, <3>1 DEF Within
    <3> QED BY <3>1, <3>2, <3>4, <3>5
  <2>5. CASE Within(active, m) # {} /\ Within(bars, m) # {}
    <3>1. PICK s : s \in Within(active, m)
      BY <2>5
    <3>2. s \in active /\ m \in (s.start)..(s.end - 1) /\ Within(gaps, m) = Within(in(s), m)
      BY <2>4, <3>1
    <3>3. Within(in(s), m) = {}
      BY <1>2, <2>5, <3>2
    <3> QED BY <2>5, <3>2, <3>3
  <2>6. CASE Within(active, m) # {} /\ Within(bars, m) = {}
    <3>1. PICK s : s \in Within(active, m)
      BY <2>6
    <3>2. s \in active /\ m \in (s.start)..(s.end - 1) /\ Within(gaps, m) = Within(in(s), m)
      BY <2>4, <3>1
    <3>3. PICK g \in in(s) : Within(in(s), m) = {g} /\ g.kind = Dates!KindOf(Kinds(evidence, m))
      BY <1>2, <2>6, <3>2
    <3>4. g \in Within(gaps, m) /\ Within(gaps, m) = {g}
      BY <3>2, <3>3
    <3> QED BY <2>6, <3>3, <3>4
  <2> QED BY <2>3, <2>5, <2>6
<1>5. ASSUME NEW m \in first..last
      PROVE  LET within(set, x) == {y \in set : y.start <= x /\ x < y.end}
                 found == within(gaps, m)
             IN  IF within(active, m) = {} \/ within(bars, m) # {} THEN found = {}
                 ELSE \E g \in found : found = {g} /\ g.kind = Dates!KindOf({e.kind : e \in within(evidence, m)})
  <2>1. m \in Int
    OBVIOUS
  <2> HIDE DEF first, last
  <2> QED BY <1>4, <2>1, Zenon DEF Within, Kinds
<1> HIDE DEF first, last
<1> QED BY <1>5, Zenon DEF Dates!GapsAreTheRest, gaps, active, first, last
-------------------------------------------------------------------------------
(* The calendars, bars and evidence of a run. *)

\* What is compared is an input that never changes.
InputInv ==
    /\ part = "calendar" => input \in CalendarInputs
    /\ part = "gaps" => input \in GapInputs

LEMMA InputsKept ==
  ASSUME InputInv, [ResearchNext]_researchVars
  PROVE  InputInv'
<1>1. UNCHANGED <<part, input>>
  <2>1. CASE UNCHANGED researchVars
    BY <2>1 DEF researchVars
  <2>2. CASE Simulates(BacktestNext)
    BY <2>2, Zenon DEF Simulates
  <2>3. CASE Stores(Store!DataNext)
    BY <2>3, Zenon DEF Stores
  <2>4. CASE Registers(Rules!RulesNext)
    BY <2>4, Zenon DEF Registers
  <2>5. CASE Observes(Dominant!ObserveDay)
    BY <2>5, Zenon DEF Observes
  <2>6. CASE Closes(Routes!RoutingNext)
    BY <2>6, Zenon DEF Closes
  <2> QED BY <2>1, <2>2, <2>3, <2>4, <2>5, <2>6, Zenon DEF ResearchNext
<1> QED BY <1>1 DEF InputInv

LEMMA InputsBegin == ResearchInit => InputInv
<1> SUFFICES ASSUME ResearchInit PROVE InputInv
  OBVIOUS
<1>1. input \in CASE part = "prices"   -> PriceInputs
                  [] part = "calendar" -> CalendarInputs
                  [] part = "gaps"     -> GapInputs
                  [] OTHER             -> {<<>>}
  BY DEF ResearchInit
<1>2. part = "calendar" => part # "prices" /\ part # "gaps"
  OBVIOUS
<1>3. part = "gaps" => part # "prices" /\ part # "calendar"
  OBVIOUS
<1> QED BY <1>1, <1>2, <1>3 DEF InputInv

LEMMA CalendarsSound ==
  ASSUME NEW x \in CalendarInputs
  PROVE  Dates!SessionsCountToTheirDay(x.profile, x.days, x.announced) /\ Dates!HolidaysAgree(x.days)
<1>1. x.profile \in Profiles /\ x.days \in SUBSET (1..9)
  BY DEF CalendarInputs
<1>2. ProfileOK(x.profile)
  <2>1. x.profile.night => x.profile.close \in {23 * 60, 25 * 60, 26 * 60 + 30}
    BY <1>1 DEF Profiles
  <2> QED BY <2>1 DEF ProfileOK
<1>3. 9 \in Nat
  OBVIOUS
<1> QED BY <1>1, <1>2, <1>3, SessionsCount, HolidaysAlwaysAgree

LEMMA GapsSound ==
  ASSUME NEW x \in GapInputs
  PROVE  Dates!GapsAreTheRest(Morning, x.bars, x.evidence)
<1>1. /\ IntervalsOK(Morning)
      /\ Dates!Accepted(Morning)
  BY DEF IntervalsOK, Morning, Dates!Session, Dates!Accepted, Dates!Overlap
<1> DEFINE B == Intervals({0, 1, 3, 4, 6, 8})
           E == {e \in [start : {0, 2, 4}, end : {2, 4, 8}, kind : {"disconnected", "no trades"}] : e.start < e.end}
<1>2. x.bars \in UpToTwo(B) /\ x.evidence \in UpToTwo(E)
  BY DEF GapInputs
<1>3. IntervalsOK(x.bars) /\ IsFiniteSet(x.bars)
  <2>1. IntervalsOK(B)
    BY DEF Intervals, IntervalsOK
  <2> HIDE DEF B
  <2>2. CASE x.bars = {}
    BY <2>2, FS_EmptySet DEF IntervalsOK
  <2>3. ASSUME NEW p \in B, NEW q \in B, x.bars = {p, q} PROVE IntervalsOK(x.bars) /\ IsFiniteSet(x.bars)
    <3>1. IsFiniteSet({p}) /\ {p} \union {q} = {p, q}
      BY FS_Singleton
    <3>2. IsFiniteSet({p, q})
      BY <3>1, FS_AddElement
    <3> QED BY <2>1, <2>3, <3>2 DEF IntervalsOK
  <2>4. x.bars = {} \/ \E p, q \in B : x.bars = {p, q}
    <3>1. x.bars \in UpToTwo(B)
      BY <1>2
    <3>2. \A b \in UpToTwo(B) : b = {} \/ \E p, q \in B : b = {p, q}
      BY DEF UpToTwo
    <3> QED BY <3>1, <3>2
  <2> QED BY <2>2, <2>3, <2>4
<1>4. EvidenceOK(x.evidence)
  <2>1. EvidenceOK(E)
    <3> SUFFICES ASSUME NEW e \in E PROVE e.start \in Nat /\ e.end \in Nat /\ e.start < e.end
      BY DEF EvidenceOK
    <3>1. e.start \in {0, 2, 4} /\ e.end \in {2, 4, 8} /\ e.start < e.end
      OBVIOUS
    <3> HIDE DEF E
    <3>2. e.start \in Nat /\ e.end \in Nat
      BY <3>1
    <3> QED BY <3>1, <3>2
  <2> HIDE DEF E
  <2>2. x.evidence \subseteq E
    BY <1>2 DEF UpToTwo
  <2> QED BY <2>1, <2>2 DEF EvidenceOK
<1> QED BY <1>1, <1>3, <1>4, GapsRest

\* Sessions count to the trading day that follows, the holidays of the risk hook are
\* those of the templates, and what bars leave open is a gap of one kind: for every
\* calendar and all bars and evidence of the run, from lemmas that hold for any.
THEOREM SessionsAlwaysSound == ResearchSpec => []SessionsAreSound
<1>1. InputInv => SessionsAreSound
  BY CalendarsSound, GapsSound DEF InputInv, SessionsAreSound
<1>2. ResearchInit => InputInv
  BY InputsBegin
<1>3. InputInv /\ [ResearchNext]_researchVars => InputInv'
  BY InputsKept
<1> QED BY <1>1, <1>2, <1>3, PTL DEF ResearchSpec

-------------------------------------------------------------------------------
(* Dominant contracts, for any history of days. *)

Days == {x \in [bars : SUBSET Contracts, leader : Contracts] : x.leader \in x.bars}
Entries == [contract : Contracts, from : Nat, to : Nat]
Marks == [ended : Seq(Entries), dominant : Contracts, since : Nat, challenger : Contracts \union {"none"}, days : Nat]

\* What is assumed of contracts, days and prices.
ContractsGiven ==
    /\ ConfirmDays \in Nat \ {0} /\ MaxDays \in Nat /\ "none" \notin Contracts
    /\ \A c \in Contracts : \A d \in 1..MaxDays : OpeningPrice[c][d] \in Int /\ ClosingPrice[c][d] \in Int

LEMMA ContractsAreGiven == ContractsGiven
<1>1. ASSUME NEW c \in Contracts, NEW d \in 1..MaxDays PROVE OpeningPrice[c][d] \in Int /\ ClosingPrice[c][d] \in Int
  <2>1. OpeningPrice \in [Contracts -> [1..MaxDays -> Nat \ {0}]] /\ ClosingPrice \in [Contracts -> [1..MaxDays -> Nat \ {0}]]
    BY ContractAssumption
  <2>2. OpeningPrice[c] \in [1..MaxDays -> Nat \ {0}] /\ ClosingPrice[c] \in [1..MaxDays -> Nat \ {0}]
    BY <2>1, Zenon
  <2>3. OpeningPrice[c][d] \in Nat \ {0} /\ ClosingPrice[c][d] \in Nat \ {0}
    BY <2>2, Zenon
  <2> QED BY <2>3
<1>2. ConfirmDays \in Nat \ {0} /\ MaxDays \in Nat /\ "none" \notin Contracts
  BY ContractAssumption
<1> QED BY <1>1, <1>2 DEF ContractsGiven

\* How many days the contract has led that leads on a day after those of m.
Run(m, leader) == IF m.challenger = leader THEN m.days + 1 ELSE 1
Switches(m, leader) == leader # m.dominant /\ Run(m, leader) >= ConfirmDays
Entry(h, m, d) == [contract |-> m.dominant, from |-> m.since, to |-> Dominant!Effective(h, d)]

\* One day more, field by field.
LEMMA MappedIs ==
  ASSUME ContractsGiven, NEW h \in Seq(Days), NEW d \in 1..Len(h), NEW m \in Marks
  PROVE  LET q == Dominant!Mapped(h, m, d)
             leader == h[d].leader IN
         /\ q \in Marks
         /\ q.dominant = IF Switches(m, leader) THEN leader ELSE m.dominant
         /\ q.challenger = IF leader = m.dominant \/ Switches(m, leader) THEN "none" ELSE leader
         /\ q.days = IF leader = m.dominant \/ Switches(m, leader) THEN 0 ELSE Run(m, leader)
         /\ q.ended = IF Switches(m, leader) THEN Append(m.ended, Entry(h, m, d)) ELSE m.ended
         /\ q.since = IF Switches(m, leader) THEN Dominant!Effective(h, d) ELSE m.since
<1> DEFINE leader == h[d].leader
           challenged == Dominant!Challenged(m, leader)
           q == Dominant!Mapped(h, m, d)
<1>1. leader \in Contracts /\ "none" \notin Contracts /\ m.dominant # "none" /\ ConfirmDays \in Nat \ {0}
  BY DEF Days, Marks, ContractsGiven
<1>2. q = IF leader = m.dominant THEN Dominant!Unchallenged(m)
          ELSE IF challenged.days >= ConfirmDays THEN Dominant!Switched(h, challenged, d)
          ELSE challenged
  <2>1. Dominant!NoContract = "none"
    BY DEF Dominant!NoContract
  <2> QED BY <1>1, <2>1 DEF Dominant!Mapped
<1>3. /\ challenged \in Marks /\ challenged.ended = m.ended /\ challenged.dominant = m.dominant
      /\ challenged.since = m.since /\ challenged.challenger = leader /\ challenged.days = Run(m, leader)
  <2> DEFINE r == Run(m, leader)
  <2>1. challenged = [m EXCEPT !.challenger = leader, !.days = r]
    BY DEF Dominant!Challenged, Run
  <2>2. r \in Nat
    BY DEF Run, Marks
  <2> HIDE DEF r, challenged, leader
  <2>3. /\ challenged \in Marks /\ challenged.ended = m.ended /\ challenged.dominant = m.dominant
        /\ challenged.since = m.since /\ challenged.challenger = leader /\ challenged.days = r
    BY <1>1, <2>1, <2>2 DEF Marks
  <2> QED BY <2>3 DEF r
<1>4. \A x \in Marks : /\ Dominant!Unchallenged(x) \in Marks /\ Dominant!Unchallenged(x).ended = x.ended
                       /\ Dominant!Unchallenged(x).dominant = x.dominant /\ Dominant!Unchallenged(x).since = x.since
                       /\ Dominant!Unchallenged(x).challenger = "none" /\ Dominant!Unchallenged(x).days = 0
  BY DEF Dominant!Unchallenged, Marks, Dominant!NoContract
<1>5. Dominant!Effective(h, d) \in Nat
  BY DEF Dominant!Effective, Dominant!StartOf, Dominant!EndOf
<1>6. Entry(h, m, d) \in Entries
  BY <1>5 DEF Entry, Entries, Marks
<1>7. CASE leader = m.dominant
  <2>1. ~Switches(m, leader)
    BY <1>7 DEF Switches
  <2> HIDE DEF q, challenged, leader
  <2> QED BY <1>2, <1>4, <1>7, <2>1 DEF q, challenged, leader
<1>8. CASE leader # m.dominant /\ ~(Run(m, leader) >= ConfirmDays)
  <2>1. ~Switches(m, leader) /\ q = challenged
    BY <1>2, <1>3, <1>8 DEF Switches
  <2> HIDE DEF q, challenged, leader
  <2> QED BY <1>3, <1>8, <2>1 DEF q, challenged, leader
<1>9. CASE Switches(m, leader)
  <2>1. q = Dominant!Switched(h, challenged, d)
    BY <1>2, <1>3, <1>9 DEF Switches
  <2> DEFINE x == Dominant!Unchallenged(challenged)
  <2>2. x \in Marks /\ x.ended = m.ended /\ x.challenger = "none" /\ x.days = 0
    BY <1>3, <1>4
  <2>3. Entry(h, m, d) = [contract |-> challenged.dominant, from |-> challenged.since, to |-> Dominant!Effective(h, d)]
    BY <1>3 DEF Entry
  <2>4. q = [x EXCEPT !.ended = Append(@, Entry(h, m, d)), !.dominant = leader, !.since = Dominant!Effective(h, d)]
    BY <1>3, <2>1, <2>3 DEF Dominant!Switched
  <2> HIDE DEF x, q, challenged, leader
  <2>5. /\ q.ended = Append(m.ended, Entry(h, m, d)) /\ q.dominant = leader /\ q.since = Dominant!Effective(h, d)
        /\ q.challenger = "none" /\ q.days = 0
    BY <2>2, <2>4 DEF Marks
  <2>6. Append(m.ended, Entry(h, m, d)) \in Seq(Entries)
    BY <1>6 DEF Marks
  <2>7. q \in Marks
    BY <1>1, <1>5, <2>2, <2>4, <2>6 DEF Marks
  <2> QED BY <1>9, <2>5, <2>7 DEF q, leader
<1> QED BY <1>7, <1>8, <1>9 DEF Switches

\* u[d] is the mapping of the first d days of h; n is how many are mapped.
Maps(u, h, n) ==
    u = [d \in 0..n |-> IF d = 0 THEN Dominant!Unmapped ELSE Dominant!Mapped(h, u[d - 1], d)]

LEMMA MapsExist ==
  ASSUME NEW h, NEW n \in Nat
  PROVE  \E u : Maps(u, h, n)
<1> DEFINE bad == {k \in Nat : ~\E u : Maps(u, h, k)}
<1> SUFFICES ASSUME bad # {} PROVE FALSE
  OBVIOUS
<1>1. PICK k \in bad : \A l \in bad : k <= l
  <2>1. bad \in SUBSET Nat
    OBVIOUS
  <2> HIDE DEF bad
  <2> QED BY <2>1, NatsHaveLeast
<1>2. k \in Nat /\ ~\E u : Maps(u, h, k)
  OBVIOUS
<1>3. k # 0
  <2> SUFFICES ASSUME k = 0 PROVE FALSE
    OBVIOUS
  <2> DEFINE first == [d \in 0..0 |-> Dominant!Unmapped]
  <2>1. first = [d \in 0..0 |-> IF d = 0 THEN Dominant!Unmapped ELSE Dominant!Mapped(h, first[d - 1], d)]
    OBVIOUS
  <2> HIDE DEF first, bad
  <2>2. Maps(first, h, 0)
    BY <2>1 DEF Maps
  <2> QED BY <1>2, <2>2
<1>4. k - 1 \in Nat /\ k - 1 \notin bad
  <2> HIDE DEF bad
  <2> QED BY <1>1, <1>2, <1>3
<1>5. PICK u : Maps(u, h, k - 1)
  BY <1>4
<1> DEFINE more == [d \in 0..k |-> IF d = k THEN Dominant!Mapped(h, u[k - 1], k) ELSE u[d]]
<1>6. \A d \in 0..(k - 1) : more[d] = u[d] /\ d # k
  BY <1>2
<1>7. ASSUME NEW d \in 0..k
      PROVE  more[d] = IF d = 0 THEN Dominant!Unmapped ELSE Dominant!Mapped(h, more[d - 1], d)
  <2>1. CASE d = k
    <3>1. k - 1 \in 0..(k - 1)
      BY <1>4
    <3>2. more[d] = Dominant!Mapped(h, u[k - 1], k)
      BY <2>1
    <3> HIDE DEF more, bad
    <3> QED BY <1>3, <1>6, <2>1, <3>1, <3>2
  <2>2. CASE d # k
    <3>1. d \in 0..(k - 1) /\ (d # 0 => d - 1 \in 0..(k - 1))
      BY <1>2, <2>2
    <3>2. u[d] = IF d = 0 THEN Dominant!Unmapped ELSE Dominant!Mapped(h, u[d - 1], d)
      BY <1>5, <3>1 DEF Maps
    <3> HIDE DEF more, bad
    <3> QED BY <1>6, <3>1, <3>2
  <2> QED BY <2>1, <2>2
<1>8. more = [d \in 0..k |-> more[d]]
  OBVIOUS
<1>9. Maps(more, h, k)
  <2> HIDE DEF more
  <2> QED BY <1>7, <1>8 DEF Maps
<1> HIDE DEF more
<1> QED BY <1>2, <1>9

LEMMA MappingIs ==
  ASSUME NEW h, Len(h) \in Nat
  PROVE  \E u : /\ Maps(u, h, Len(h))
                /\ Dominant!Mapping(h) =
                       Append(u[Len(h)].ended, [contract |-> u[Len(h)].dominant, from |-> u[Len(h)].since,
                                                to |-> Dominant!Beyond])
<1> DEFINE n == Len(h)
           u == CHOOSE u : Maps(u, h, n)
<1>1. Maps(u, h, n)
  BY MapsExist
<1>2. Dominant!Mapping(h) = Append(u[n].ended, [contract |-> u[n].dominant, from |-> u[n].since, to |-> Dominant!Beyond])
  BY Zenon DEF Dominant!Mapping, Maps
<1> HIDE DEF u
<1> QED BY <1>1, <1>2

-------------------------------------------------------------------------------
(* What is in effect at the end of a day. *)

\* When a switch that is decided on a day takes effect.
Effect(n, d) == IF d < n THEN 2 * d + 2 ELSE 2 * n + 1
\* Of n days: what is dominant at the end of day d.
DominantOn(u, n, d) == IF d = n THEN u[n].dominant ELSE IF d = 1 THEN u[1].dominant ELSE u[d - 1].dominant
\* After s days: is it known what is dominant at the end of day d?
Decided(n, s, d) == IF d = n THEN s = n ELSE d <= s + 1

\* An entry that has ended shows what was dominant, unless an earlier one does.
Shows(ended, i, d) == /\ ended[i].from <= 2 * d + 1 /\ 2 * d + 1 < ended[i].to
                      /\ \A j \in 1..(i - 1) : ended[j].to <= 2 * d + 1
EffectInv(u, n, s) ==
    LET m == u[s] IN
    /\ \A i \in 1..Len(m.ended) : m.ended[i].to <= m.since
    /\ m.since <= Effect(n, s)
    /\ \A d \in 1..n : IF 2 * d + 1 < m.since
                       THEN \E i \in 1..Len(m.ended) : Shows(m.ended, i, d) /\ m.ended[i].contract = DominantOn(u, n, d)
                       ELSE Decided(n, s, d) => m.dominant = DominantOn(u, n, d)

\* A challenger has led for as many days as were counted, and for no more.
RunInv(u, h, s) ==
    LET m == u[s] IN
    /\ m.days < ConfirmDays /\ m.days < s
    /\ \A k \in 0..(m.days - 1) : h[s - k].leader = m.challenger
    /\ \A c \in Contracts : \A r \in 1..s :
           (\A k \in 0..(r - 1) : h[s - k].leader = c) => m.dominant = c \/ (m.challenger = c /\ m.days >= r)

DayInv(u, h, n, s) == u[s] \in Marks /\ EffectInv(u, n, s) /\ RunInv(u, h, s)

LEMMA DayOne ==
  ASSUME ContractsGiven, NEW h \in Seq(Days), NEW n \in Nat, n = Len(h), n # 0, NEW u, Maps(u, h, n)
  PROVE  /\ DayInv(u, h, n, 1)
         /\ u[1].dominant = h[1].leader /\ u[1].challenger = "none" /\ u[1].days = 0
<1>1. 1 \in 0..n /\ 1 - 1 = 0 /\ 0 \in 0..n /\ 1 \in 1..Len(h)
  OBVIOUS
<1>2. u[1] = Dominant!Begun(Dominant!Unmapped, 1, h[1].leader)
  <2>1. u[0] = Dominant!Unmapped
    BY <1>1 DEF Maps
  <2>2. u[1] = Dominant!Mapped(h, u[1 - 1], 1)
    BY <1>1 DEF Maps
  <2>3. u[1] = Dominant!Mapped(h, Dominant!Unmapped, 1)
    BY <1>1, <2>1, <2>2
  <2>4. Dominant!Unmapped.dominant = Dominant!NoContract
    BY DEF Dominant!Unmapped
  <2> QED BY <2>3, <2>4, Zenon DEF Dominant!Mapped
<1>3. h[1].leader \in Contracts
  BY <1>1 DEF Days
<1>4. /\ u[1] \in Marks /\ u[1].ended = <<>> /\ u[1].dominant = h[1].leader /\ u[1].since = 2
      /\ u[1].challenger = "none" /\ u[1].days = 0
  <2>1. u[1] = [ended |-> <<>>, dominant |-> h[1].leader, since |-> 2 * 1, challenger |-> "none", days |-> 0]
    BY <1>2 DEF Dominant!Begun, Dominant!Unmapped, Dominant!StartOf, Dominant!NoContract
  <2>2. <<>> \in Seq(Entries)
    OBVIOUS
  <2> QED BY <1>3, <2>1, <2>2 DEF Marks
<1>5. EffectInv(u, n, 1)
  <2>1. \A i \in 1..Len(u[1].ended) : u[1].ended[i].to <= u[1].since
    BY <1>4
  <2>2. u[1].since <= Effect(n, 1)
    BY <1>4 DEF Effect
  <2>3. ASSUME NEW d \in 1..n
        PROVE  ~(2 * d + 1 < u[1].since) /\ (Decided(n, 1, d) => u[1].dominant = DominantOn(u, n, d))
    <3>1. ~(2 * d + 1 < u[1].since)
      BY <1>4
    <3>2. ASSUME Decided(n, 1, d) PROVE u[1].dominant = DominantOn(u, n, d)
      <4>1. (d = n /\ n = 1) \/ (d # n /\ (d = 1 \/ d = 2))
        BY <3>2 DEF Decided
      <4>2. 2 - 1 = 1
        OBVIOUS
      <4> QED BY <4>1, <4>2 DEF DominantOn
    <3> QED BY <3>1, <3>2
  <2> QED BY <2>1, <2>2, <2>3 DEF EffectInv
<1>6. RunInv(u, h, 1)
  <2>1. u[1].days < ConfirmDays /\ u[1].days < 1
    BY <1>4 DEF ContractsGiven
  <2>2. \A k \in 0..(u[1].days - 1) : h[1 - k].leader = u[1].challenger
    BY <1>4
  <2>3. ASSUME NEW c \in Contracts, NEW r \in 1..1, \A k \in 0..(r - 1) : h[1 - k].leader = c
        PROVE  u[1].dominant = c
    <3>1. 0 \in 0..(r - 1) /\ 1 - 0 = 1
      OBVIOUS
    <3>2. h[1 - 0].leader = c
      BY <2>3, <3>1
    <3> QED BY <1>4, <3>1, <3>2
  <2> QED BY <2>1, <2>2, <2>3 DEF RunInv
<1> QED BY <1>4, <1>5, <1>6 DEF DayInv

LEMMA RunStep ==
  ASSUME ContractsGiven, NEW h \in Seq(Days), NEW n \in Nat, n = Len(h), NEW u, Maps(u, h, n),
         NEW s \in 2..n, DayInv(u, h, n, s - 1)
  PROVE  RunInv(u, h, s)
<1> DEFINE m == u[s - 1]
           q == u[s]
           leader == h[s].leader
<1>1. s \in 1..Len(h) /\ s \in 0..n /\ s # 0 /\ s - 1 \in Nat
  OBVIOUS
<1>2. m \in Marks /\ leader \in Contracts /\ m.days \in Nat /\ ConfirmDays \in Nat \ {0}
  BY <1>1 DEF DayInv, Days, Marks, ContractsGiven
<1>3. q = Dominant!Mapped(h, m, s)
  BY <1>1 DEF Maps
<1>4. /\ q \in Marks
      /\ q.dominant = IF Switches(m, leader) THEN leader ELSE m.dominant
      /\ q.challenger = IF leader = m.dominant \/ Switches(m, leader) THEN "none" ELSE leader
      /\ q.days = IF leader = m.dominant \/ Switches(m, leader) THEN 0 ELSE Run(m, leader)
  BY <1>1, <1>2, <1>3, MappedIs
<1>5. /\ m.days < ConfirmDays /\ m.days < s - 1
      /\ \A k \in 0..(m.days - 1) : h[s - 1 - k].leader = m.challenger
      /\ \A c \in Contracts : \A r \in 1..(s - 1) :
             (\A k \in 0..(r - 1) : h[s - 1 - k].leader = c) => m.dominant = c \/ (m.challenger = c /\ m.days >= r)
  BY Zenon DEF DayInv, RunInv
<1> HIDE DEF m, q
<1>6. q.days < ConfirmDays /\ q.days < s
  BY <1>1, <1>2, <1>4, <1>5 DEF Run, Switches
<1>7. ASSUME NEW k \in 0..(q.days - 1) PROVE h[s - k].leader = q.challenger
  <2>1. leader # m.dominant /\ ~Switches(m, leader) /\ q.days = Run(m, leader) /\ q.challenger = leader
    BY <1>4, <1>7
  <2>2. CASE k = 0
    <3>1. s - k = s
      BY <1>1, <2>2
    <3> QED BY <2>1, <3>1
  <2>3. CASE k # 0
    <3>1. m.challenger = leader /\ k - 1 \in 0..(m.days - 1) /\ s - 1 - (k - 1) = s - k
      BY <1>1, <1>2, <2>1, <2>3 DEF Run
    <3>2. h[s - 1 - (k - 1)].leader = m.challenger
      BY <1>5, <3>1
    <3> QED BY <2>1, <3>1, <3>2
  <2> QED BY <2>2, <2>3
<1>8. ASSUME NEW c \in Contracts, NEW r \in 1..s, \A k \in 0..(r - 1) : h[s - k].leader = c
      PROVE  q.dominant = c \/ (q.challenger = c /\ q.days >= r)
  <2>1. leader = c
    <3>1. 0 \in 0..(r - 1) /\ s - 0 = s
      BY <1>1
    <3>2. h[s - 0].leader = c
      BY <1>8, <3>1
    <3> QED BY <3>1, <3>2
  <2>2. CASE leader = m.dominant \/ Switches(m, leader)
    BY <1>4, <2>1, <2>2 DEF Switches
  <2>3. CASE leader # m.dominant /\ ~Switches(m, leader)
    <3>1. q.challenger = c /\ q.days = Run(m, leader)
      BY <1>4, <2>1, <2>3
    <3>2. CASE r = 1
      BY <1>2, <3>1, <3>2 DEF Run
    <3>3. CASE r # 1
      <4>1. r - 1 \in 1..(s - 1)
        BY <1>1, <3>3
      <4>2. ASSUME NEW k \in 0..(r - 1 - 1) PROVE h[s - 1 - k].leader = c
        <5>1. k + 1 \in 0..(r - 1) /\ s - (k + 1) = s - 1 - k
          BY <1>1
        <5>2. h[s - (k + 1)].leader = c
          BY <1>8, <5>1
        <5> QED BY <5>1, <5>2
      <4>3. m.dominant = c \/ (m.challenger = c /\ m.days >= r - 1)
        BY <1>5, <4>1, <4>2
      <4> QED BY <1>2, <2>1, <2>3, <3>1, <4>3 DEF Run
    <3> QED BY <3>2, <3>3
  <2> QED BY <2>2, <2>3
<1> QED BY <1>6, <1>7, <1>8 DEF RunInv, q

LEMMA EffectStep ==
  ASSUME ContractsGiven, NEW h \in Seq(Days), NEW n \in Nat, n = Len(h), NEW u, Maps(u, h, n),
         NEW s \in 2..n, DayInv(u, h, n, s - 1)
  PROVE  u[s] \in Marks /\ EffectInv(u, n, s)
<1> DEFINE m == u[s - 1]
           q == u[s]
           leader == h[s].leader
           e == Effect(n, s)
<1>1. s \in 1..Len(h) /\ s \in 0..n /\ s # 0 /\ s \in Nat /\ s - 1 \in Nat /\ s + 1 - 1 = s /\ 2 <= s /\ s <= n
  OBVIOUS
<1>2. m \in Marks
  BY DEF DayInv
<1>3. q = Dominant!Mapped(h, m, s)
  BY <1>1 DEF Maps
<1>4. Dominant!Effective(h, s) = e /\ e \in Nat /\ Effect(n, s - 1) <= e
  <2>1. Dominant!Effective(h, s) = IF s < n THEN 2 * (s + 1) ELSE 2 * s + 1
    BY DEF Dominant!Effective, Dominant!StartOf, Dominant!EndOf
  <2>2. e \in Nat /\ Effect(n, s - 1) <= e /\ e = IF s < n THEN 2 * (s + 1) ELSE 2 * s + 1
    <3> HIDE DEF m, q, leader
    <3>1. CASE s < n
      <4>1. s - 1 < n
        BY <1>1, <3>1
      <4>2. Effect(n, s) = 2 * s + 2 /\ Effect(n, s - 1) = 2 * (s - 1) + 2
        BY <3>1, <4>1 DEF Effect
      <4> QED BY <1>1, <3>1, <4>2
    <3>2. CASE ~(s < n)
      <4>1. s - 1 < n /\ s = n
        BY <1>1, <3>2
      <4>2. Effect(n, s) = 2 * n + 1 /\ Effect(n, s - 1) = 2 * (s - 1) + 2
        BY <3>2, <4>1 DEF Effect
      <4> QED BY <1>1, <3>2, <4>1, <4>2
    <3> QED BY <3>1, <3>2
  <2> QED BY <2>1, <2>2, Zenon
<1>5. /\ q \in Marks
      /\ q.dominant = IF Switches(m, leader) THEN leader ELSE m.dominant
      /\ q.ended = IF Switches(m, leader) THEN Append(m.ended, Entry(h, m, s)) ELSE m.ended
      /\ q.since = IF Switches(m, leader) THEN e ELSE m.since
  BY <1>1, <1>2, <1>3, <1>4, MappedIs
<1>6. /\ \A i \in 1..Len(m.ended) : m.ended[i].to <= m.since
      /\ m.since <= Effect(n, s - 1)
      /\ \A d \in 1..n : IF 2 * d + 1 < m.since
                         THEN \E i \in 1..Len(m.ended) : Shows(m.ended, i, d) /\ m.ended[i].contract = DominantOn(u, n, d)
                         ELSE Decided(n, s - 1, d) => m.dominant = DominantOn(u, n, d)
  BY Zenon DEF DayInv, EffectInv
<1>7. ASSUME NEW d \in 1..n, Decided(n, s, d), ~Decided(n, s - 1, d) PROVE q.dominant = DominantOn(u, n, d)
  <2>1. (d = n /\ s = n) \/ (d # n /\ d = s + 1)
    BY <1>1, <1>7 DEF Decided
  <2> HIDE DEF m, leader, e
  <2> QED BY <1>1, <2>1 DEF DominantOn
<1>8. m.since \in Nat /\ m.ended \in Seq(Entries) /\ Len(m.ended) \in Nat
  BY <1>2 DEF Marks
<1>9. \A i \in 1..Len(m.ended) : m.ended[i].to \in Nat /\ m.ended[i].from \in Nat
  <2>1. \A i \in 1..Len(m.ended) : m.ended[i] \in Entries
    <3> HIDE DEF m
    <3> QED BY <1>8
  <2> QED BY <2>1 DEF Entries
<1> HIDE DEF m, q, leader, e
<1>10. CASE ~Switches(m, leader)
  <2>1. q.dominant = m.dominant /\ q.ended = m.ended /\ q.since = m.since
    BY <1>5, <1>10
  <2>2. q.since <= Effect(n, s)
    BY <1>4, <1>6, <1>8, <2>1 DEF e, Effect
  <2>3. ASSUME NEW d \in 1..n
        PROVE  IF 2 * d + 1 < q.since
               THEN \E i \in 1..Len(q.ended) : Shows(q.ended, i, d) /\ q.ended[i].contract = DominantOn(u, n, d)
               ELSE Decided(n, s, d) => q.dominant = DominantOn(u, n, d)
    BY <1>6, <1>7, <2>1
  <2>4. \A i \in 1..Len(q.ended) : q.ended[i].to <= q.since
    BY <1>6, <2>1
  <2> QED BY <1>5, <2>2, <2>3, <2>4 DEF EffectInv, q
<1>11. CASE Switches(m, leader)
  <2> DEFINE k == Len(m.ended)
             entry == Entry(h, m, s)
  <2>1. /\ q.ended = Append(m.ended, entry) /\ q.since = e
        /\ entry.contract = m.dominant /\ entry.from = m.since /\ entry.to = e
    BY <1>4, <1>5, <1>11 DEF Entry
  <2>2. k \in Nat /\ Len(q.ended) = k + 1 /\ q.ended[k + 1] = entry /\ \A i \in 1..k : q.ended[i] = m.ended[i]
    <3> HIDE DEF entry
    <3> QED BY <1>8, <2>1
  <2>3. m.since <= e
    BY <1>4, <1>6, <1>8 DEF Effect
  <2> HIDE DEF k, entry
  <2>4. \A i \in 1..k : q.ended[i].to <= m.since /\ q.ended[i].to \in Nat
    BY <1>6, <1>9, <2>2 DEF k
  <2>5. \A i \in 1..Len(q.ended) : q.ended[i].to <= q.since
    <3> SUFFICES ASSUME NEW i \in 1..(k + 1) PROVE q.ended[i].to <= e
      BY <2>1, <2>2
    <3>1. CASE i = k + 1
      BY <1>4, <2>1, <2>2, <3>1
    <3>2. CASE i # k + 1
      <4>1. i \in 1..k
        BY <2>2, <3>2
      <4> QED BY <1>4, <1>8, <2>3, <2>4, <4>1
    <3> QED BY <3>1, <3>2
  <2>6. ASSUME NEW d \in 1..n, 2 * d + 1 < q.since
        PROVE  \E i \in 1..Len(q.ended) : Shows(q.ended, i, d) /\ q.ended[i].contract = DominantOn(u, n, d)
    <3>1. CASE 2 * d + 1 < m.since
      <4>1. PICK i \in 1..k : Shows(m.ended, i, d) /\ m.ended[i].contract = DominantOn(u, n, d)
        BY <1>6, <3>1 DEF k
      <4>2. i \in 1..Len(q.ended) /\ \A j \in 1..(i - 1) : j \in 1..k
        BY <2>2
      <4>3. Shows(q.ended, i, d)
        BY <2>2, <4>1, <4>2 DEF Shows
      <4> QED BY <2>2, <4>1, <4>2, <4>3
    <3>2. CASE ~(2 * d + 1 < m.since)
      <4>1. Decided(n, s - 1, d)
        <5>1. 2 * d + 1 < Effect(n, s)
          BY <2>1, <2>6 DEF e
        <5> QED BY <1>1, <5>1 DEF Effect, Decided
      <4>2. m.dominant = DominantOn(u, n, d)
        BY <1>6, <3>2, <4>1
      <4>3. k + 1 \in 1..Len(q.ended) /\ k + 1 - 1 = k
        BY <2>2
      <4>4. \A j \in 1..k : q.ended[j].to <= 2 * d + 1
        BY <1>8, <2>4, <3>2
      <4>5. entry.from <= 2 * d + 1 /\ 2 * d + 1 < entry.to
        BY <1>8, <2>1, <2>6, <3>2
      <4>6. Shows(q.ended, k + 1, d)
        BY <2>2, <4>3, <4>4, <4>5 DEF Shows
      <4> QED BY <2>1, <2>2, <4>2, <4>3, <4>6
    <3> QED BY <3>1, <3>2
  <2>7. ASSUME NEW d \in 1..n, ~(2 * d + 1 < q.since), Decided(n, s, d) PROVE q.dominant = DominantOn(u, n, d)
    <3>1. ~Decided(n, s - 1, d)
      <4>1. ~(2 * d + 1 < Effect(n, s))
        BY <2>1, <2>7 DEF e
      <4> QED BY <1>1, <2>7, <4>1 DEF Effect, Decided
    <3> QED BY <1>7, <2>7, <3>1
  <2>8. q.since <= Effect(n, s)
    BY <1>4, <2>1 DEF e
  <2> QED BY <1>5, <2>5, <2>6, <2>7, <2>8 DEF EffectInv, q
<1> QED BY <1>10, <1>11

LEMMA EveryDay ==
  ASSUME ContractsGiven, NEW h \in Seq(Days), NEW n \in Nat, n = Len(h), NEW u, Maps(u, h, n)
  PROVE  \A s \in 1..n : DayInv(u, h, n, s)
<1> DEFINE bad == {s \in 1..n : ~DayInv(u, h, n, s)}
<1> SUFFICES ASSUME bad # {} PROVE FALSE
  OBVIOUS
<1>1. PICK s \in bad : \A x \in bad : s <= x
  <2>1. bad \in SUBSET Nat
    OBVIOUS
  <2> HIDE DEF bad
  <2> QED BY <2>1, NatsHaveLeast
<1>2. s \in 1..n /\ s \in Nat /\ ~DayInv(u, h, n, s)
  OBVIOUS
<1>3. s # 1
  BY <1>2, DayOne
<1>4. s \in 2..n /\ s - 1 \in 1..n /\ s - 1 \in Nat
  BY <1>2, <1>3
<1>5. DayInv(u, h, n, s - 1)
  <2>1. s - 1 \notin bad
    <3> HIDE DEF bad
    <3> QED BY <1>1, <1>2
  <2> QED BY <1>4, <2>1
<1> QED BY <1>2, <1>4, <1>5, RunStep, EffectStep DEF DayInv

LEMMA DominantsAre ==
  ASSUME ContractsGiven, NEW h \in Seq(Days), NEW n \in Nat, n = Len(h), n # 0, n <= MaxDays
  PROVE  \E u : /\ Maps(u, h, n) /\ \A s \in 1..n : DayInv(u, h, n, s)
                /\ Dominant!Dominants(h) = [d \in 1..n |-> DominantOn(u, n, d)]
<1>1. PICK u : /\ Maps(u, h, n)
               /\ Dominant!Mapping(h) = Append(u[n].ended, [contract |-> u[n].dominant, from |-> u[n].since,
                                                            to |-> Dominant!Beyond])
  BY MappingIs
<1>2. \A s \in 1..n : DayInv(u, h, n, s)
  BY <1>1, EveryDay
<1> DEFINE m == u[n]
           k == Len(m.ended)
           last == [contract |-> m.dominant, from |-> m.since, to |-> Dominant!Beyond]
           mapping == Dominant!Mapping(h)
<1>3. n \in 1..n /\ m \in Marks /\ EffectInv(u, n, n)
  <2>1. n \in 1..n
    OBVIOUS
  <2> QED BY <1>2, <2>1, Zenon DEF DayInv
<1>4. m.ended \in Seq(Entries) /\ k \in Nat /\ m.since \in Nat
  BY <1>3 DEF Marks
<1>5. /\ mapping = Append(m.ended, last) /\ last.contract = m.dominant /\ last.from = m.since
      /\ last.to = 2 * MaxDays + 2 /\ MaxDays \in Nat
  <2>1. Dominant!Beyond = 2 * MaxDays + 2
    BY DEF Dominant!Beyond, Dominant!EndOf, ContractsGiven
  <2> QED BY <1>1, <2>1 DEF ContractsGiven
<1> HIDE DEF last, mapping
<1>6. Len(mapping) = k + 1 /\ mapping[k + 1] = last /\ \A i \in 1..k : mapping[i] = m.ended[i]
  <2> HIDE DEF m
  <2> QED BY <1>4, <1>5
<1>7. /\ \A i \in 1..k : m.ended[i].to <= m.since
      /\ \A d \in 1..n : IF 2 * d + 1 < m.since
                         THEN \E i \in 1..k : Shows(m.ended, i, d) /\ m.ended[i].contract = DominantOn(u, n, d)
                         ELSE Decided(n, n, d) => m.dominant = DominantOn(u, n, d)
  BY <1>3, Zenon DEF EffectInv
<1> HIDE DEF m, k
<1>8. \A i \in 1..k : m.ended[i].to \in Nat
  <2>1. \A i \in 1..k : m.ended[i] \in Entries
    BY <1>4 DEF k
  <2> QED BY <2>1 DEF Entries
<1> DEFINE inEffect(t) == {i \in 1..Len(mapping) : mapping[i].from <= t /\ t < mapping[i].to}
           first(set) == CHOOSE i \in set : \A j \in set : i <= j
<1>9. ASSUME NEW d \in 1..n PROVE mapping[first(inEffect(Dominant!EndOf(d)))].contract = DominantOn(u, n, d)
  <2> DEFINE t == 2 * d + 1
             set == inEffect(t)
  <2>1. Dominant!EndOf(d) = t /\ t \in Nat
    BY DEF Dominant!EndOf
  <2>2. \E i \in 1..(k + 1) : /\ mapping[i].from <= t /\ t < mapping[i].to /\ mapping[i].contract = DominantOn(u, n, d)
                              /\ \A j \in 1..(k + 1) : j < i => ~(t < mapping[j].to)
    <3>1. CASE t < m.since
      <4>1. PICK i \in 1..k : Shows(m.ended, i, d) /\ m.ended[i].contract = DominantOn(u, n, d)
        BY <1>7, <3>1
      <4>2. i \in 1..(k + 1) /\ mapping[i] = m.ended[i]
        BY <1>4, <1>6
      <4>3. ASSUME NEW j \in 1..(k + 1), j < i PROVE ~(t < mapping[j].to)
        <5>1. j \in 1..k /\ j \in 1..(i - 1)
          BY <1>4, <4>3
        <5>2. m.ended[j].to <= t /\ m.ended[j].to \in Nat
          BY <1>8, <4>1, <5>1 DEF Shows
        <5> QED BY <1>6, <2>1, <5>1, <5>2
      <4> HIDE DEF t
      <4>4. mapping[i].from <= t /\ t < mapping[i].to /\ mapping[i].contract = DominantOn(u, n, d)
        BY <4>1, <4>2 DEF Shows, t
      <4> QED BY <4>2, <4>3, <4>4
    <3>2. CASE ~(t < m.since)
      <4>1. k + 1 \in 1..(k + 1)
        BY <1>4
      <4>2. Decided(n, n, d)
        BY DEF Decided
      <4>3. last.from <= t /\ t < last.to /\ last.contract = DominantOn(u, n, d)
        BY <1>4, <1>5, <1>7, <3>2, <4>2
      <4>4. ASSUME NEW j \in 1..(k + 1), j < k + 1 PROVE ~(t < mapping[j].to)
        <5>1. j \in 1..k
          BY <1>4, <4>4
        <5> QED BY <1>4, <1>6, <1>7, <1>8, <2>1, <3>2, <5>1
      <4> QED BY <1>6, <4>1, <4>3, <4>4
    <3> QED BY <3>1, <3>2
  <2> HIDE DEF t
  <2>3. PICK i \in 1..(k + 1) : /\ mapping[i].from <= t /\ t < mapping[i].to /\ mapping[i].contract = DominantOn(u, n, d)
                                /\ \A j \in 1..(k + 1) : j < i => ~(t < mapping[j].to)
    BY <2>2
  <2>4. i \in set /\ set \subseteq 1..(k + 1) /\ \A j \in set : t < mapping[j].to
    BY <1>6, <2>3
  <2>5. i \in Nat /\ \A j \in set : j \in Nat /\ i <= j
    <3>1. \A x \in 1..(k + 1) : x \in Nat
      BY <1>4
    <3> HIDE DEF set
    <3>2. ASSUME NEW j \in set PROVE j \in Nat /\ i <= j
      <4>1. j \in 1..(k + 1) /\ t < mapping[j].to /\ i \in Nat
        BY <2>4, <3>1
      <4>2. ~(j < i)
        BY <2>3, <4>1
      <4> QED BY <3>1, <4>1, <4>2
    <3> QED BY <3>1, <3>2
  <2>6. first(set) = i
    <3> HIDE DEF set
    <3>1. ASSUME NEW x \in set, \A j \in set : x <= j PROVE x = i
      <4>1. x \in Nat /\ i \in Nat /\ i <= x
        BY <2>5
      <4>2. x <= i
        BY <2>4, <3>1
      <4> QED BY <4>1, <4>2
    <3> QED BY <2>4, <2>5, <3>1, Zenon
  <2> QED BY <2>1, <2>3, <2>6
<1>10. Dominant!Dominants(h) = [d \in 1..n |-> mapping[first(inEffect(Dominant!EndOf(d)))].contract]
  BY Zenon DEF Dominant!Dominants, mapping
<1>11. Dominant!Dominants(h) = [d \in 1..n |-> DominantOn(u, n, d)]
  <2> HIDE DEF first, inEffect
  <2> QED BY <1>9, <1>10
<1> QED BY <1>1, <1>2, <1>11

-------------------------------------------------------------------------------
(* Switches are confirmed, and the past is kept. *)

HistoryInv == observed \in Seq(Days) /\ Len(observed) <= MaxDays

LEMMA Confirmed ==
  ASSUME ContractsGiven, HistoryInv
  PROVE  Dominant!SwitchesAreConfirmed
<1> DEFINE h == observed
           n == Len(h)
           D == Dominant!Dominants(h)
           led(d, c) == d > ConfirmDays /\ \A k \in 1..ConfirmDays : h[d - k].leader = c
<1>1. h \in Seq(Days) /\ n \in Nat /\ n <= MaxDays
  BY DEF HistoryInv
<1>2. ASSUME NEW d \in 2..(n - 1)
      PROVE  /\ D[d] # D[d - 1] => led(d, D[d])
             /\ \A c \in Contracts : led(d, c) => D[d] = c
  <2>1. n # 0 /\ d \in Nat /\ d # n /\ d # 1 /\ d - 1 \in 1..n /\ d \in 1..n /\ d - 1 # n
    BY <1>1
  <2> HIDE DEF h, n
  <2>2. PICK u : Maps(u, h, n) /\ (\A s \in 1..n : DayInv(u, h, n, s)) /\ D = [x \in 1..n |-> DominantOn(u, n, x)]
    BY <1>1, <2>1, DominantsAre DEF n
  <2>3. D[d] = u[d - 1].dominant /\ D[d - 1] = IF d - 1 = 1 THEN u[1].dominant ELSE u[d - 2].dominant
    <3>1. D[d] = DominantOn(u, n, d) /\ D[d - 1] = DominantOn(u, n, d - 1) /\ d - 1 - 1 = d - 2
      BY <2>1, <2>2
    <3> QED BY <2>1, <3>1 DEF DominantOn
  <2>4. ConfirmDays \in Nat \ {0}
    BY DEF ContractsGiven
  <2>5. ASSUME D[d] # D[d - 1] PROVE led(d, D[d])
    <3> DEFINE s == d - 1
               m == u[s - 1]
               leader == h[s].leader
    <3>1. d - 1 # 1 /\ D[d - 1] = u[d - 2].dominant
      BY <2>3, <2>5
    <3>2. s \in 2..n /\ s - 1 \in 1..n /\ s \in 1..Len(h) /\ s \in 0..n /\ s # 0 /\ s - 1 = d - 2
      BY <2>1, <3>1 DEF n
    <3>3. u[s] = Dominant!Mapped(h, m, s) /\ DayInv(u, h, n, s - 1) /\ m \in Marks
      BY <2>2, <3>2 DEF Maps, DayInv
    <3>4. u[s].dominant = IF Switches(m, leader) THEN leader ELSE m.dominant
      BY <1>1, <3>2, <3>3, MappedIs
    <3>5. Switches(m, leader) /\ D[d] = leader
      BY <2>3, <2>5, <3>1, <3>2, <3>4
    <3>6. /\ m.days < s - 1 /\ m.days \in Nat
          /\ \A k \in 0..(m.days - 1) : h[s - 1 - k].leader = m.challenger
      BY <3>3, Zenon DEF DayInv, RunInv, Marks
    <3> HIDE DEF m
    <3>7. Run(m, leader) >= ConfirmDays
      BY <3>5 DEF Switches
    <3>8. d > ConfirmDays
      BY <2>1, <2>4, <3>6, <3>7 DEF Run
    <3>9. ASSUME NEW k \in 1..ConfirmDays PROVE h[d - k].leader = leader
      <4>1. CASE k = 1
        BY <4>1
      <4>2. CASE k # 1
        <5>1. m.challenger = leader /\ m.days + 1 >= ConfirmDays
          BY <2>4, <3>7, <4>2 DEF Run
        <5>2. k - 2 \in 0..(m.days - 1) /\ s - 1 - (k - 2) = d - k
          BY <2>1, <2>4, <3>6, <4>2, <5>1
        <5>3. h[s - 1 - (k - 2)].leader = m.challenger
          BY <3>6, <5>2
        <5> QED BY <5>1, <5>2, <5>3
      <4> QED BY <4>1, <4>2
    <3> QED BY <3>5, <3>8, <3>9
  <2>6. ASSUME NEW c \in Contracts, led(d, c) PROVE D[d] = c
    <3> DEFINE s == d - 1
               m == u[s]
    <3>1. DayInv(u, h, n, s)
      BY <2>1, <2>2
    <3>2. /\ m.days < ConfirmDays /\ m.days \in Nat
          /\ \A r \in 1..s : (\A k \in 0..(r - 1) : h[s - k].leader = c) => m.dominant = c \/ (m.challenger = c /\ m.days >= r)
      BY <3>1, Zenon DEF DayInv, RunInv, Marks
    <3>3. ConfirmDays \in 1..s
      BY <2>1, <2>4, <2>6
    <3>4. ASSUME NEW k \in 0..(ConfirmDays - 1) PROVE h[s - k].leader = c
      <4>1. k + 1 \in 1..ConfirmDays /\ d - (k + 1) = s - k
        BY <2>1, <2>4
      <4>2. h[d - (k + 1)].leader = c
        BY <2>6, <4>1
      <4> QED BY <4>1, <4>2
    <3>5. m.dominant = c \/ (m.challenger = c /\ m.days >= ConfirmDays)
      BY <3>2, <3>3, <3>4
    <3> HIDE DEF m
    <3>6. m.dominant = c
      BY <2>4, <3>2, <3>5
    <3> QED BY <2>3, <3>6 DEF m
  <2> QED BY <2>5, <2>6
<1> QED BY <1>2, Zenon DEF Dominant!SwitchesAreConfirmed

\* A day less changes nothing before its eve.
LEMMA DominantsKept ==
  ASSUME ContractsGiven, NEW h \in Seq(Days), NEW n \in Nat, n = Len(h), n <= MaxDays, n > 2,
         NEW g \in Seq(Days), Len(g) = n - 1, \A d \in 1..(n - 1) : g[d] = h[d]
  PROVE  \A d \in 1..(n - 2) : Dominant!Dominants(g)[d] = Dominant!Dominants(h)[d]
<1> DEFINE k == n - 1
<1>1. k \in Nat /\ k # 0 /\ k <= MaxDays /\ n # 0 /\ k = Len(g)
  <2>1. MaxDays \in Nat
    BY DEF ContractsGiven
  <2>2. k \in Nat /\ k # 0 /\ n # 0 /\ k = Len(g)
    <3>1. \A x \in Nat : x > 2 => x - 1 \in Nat /\ x - 1 # 0 /\ x # 0
      OBVIOUS
    <3> QED BY <3>1
  <2>3. k <= MaxDays
    <3>1. \A x, y \in Nat : x <= y => x - 1 <= y
      OBVIOUS
    <3> QED BY <2>1, <3>1
  <2> QED BY <2>2, <2>3
<1>2. PICK u : Maps(u, h, n) /\ (\A s \in 1..n : DayInv(u, h, n, s))
               /\ Dominant!Dominants(h) = [d \in 1..n |-> DominantOn(u, n, d)]
  BY DominantsAre
<1>3. PICK v : Maps(v, g, k) /\ (\A s \in 1..k : DayInv(v, g, k, s))
               /\ Dominant!Dominants(g) = [d \in 1..k |-> DominantOn(v, k, d)]
  <2> HIDE DEF k
  <2> QED BY <1>1, DominantsAre
<1> DEFINE same(s) == v[s].dominant = u[s].dominant /\ v[s].challenger = u[s].challenger /\ v[s].days = u[s].days
           bad == {s \in 1..k : ~same(s)}
<1>4. ASSUME bad # {} PROVE FALSE
  <2>1. PICK s \in bad : \A x \in bad : s <= x
    <3>1. bad \in SUBSET Nat
      BY <1>1
    <3> HIDE DEF bad
    <3> QED BY <1>4, <3>1, NatsHaveLeast
  <2>2. s \in 1..k /\ s \in Nat /\ ~same(s)
    BY <1>1
  <2>3. s # 1
    <3>1. u[1].dominant = h[1].leader /\ u[1].challenger = "none" /\ u[1].days = 0
      BY <1>2, DayOne
    <3>2. v[1].dominant = g[1].leader /\ v[1].challenger = "none" /\ v[1].days = 0
      <4> HIDE DEF k
      <4> QED BY <1>1, <1>3, DayOne
    <3>3. g[1] = h[1]
      OBVIOUS
    <3> QED BY <2>2, <3>1, <3>2, <3>3
  <2>4. /\ s \in 1..n /\ s \in 0..n /\ s \in 0..k /\ s # 0 /\ s \in 1..Len(g) /\ s \in 1..Len(h)
        /\ s - 1 \in 1..k /\ s - 1 \in 1..n
    BY <1>1, <2>2, <2>3
  <2>5. same(s - 1)
    <3>1. s - 1 \notin bad
      <4> HIDE DEF bad
      <4> QED BY <2>1, <2>2
    <3> QED BY <2>4, <3>1
  <2> HIDE DEF bad, k
  <2>6. u[s] = Dominant!Mapped(h, u[s - 1], s) /\ u[s - 1] \in Marks
    BY <1>2, <2>4 DEF Maps, DayInv
  <2>7. v[s] = Dominant!Mapped(g, v[s - 1], s) /\ v[s - 1] \in Marks
    BY <1>3, <2>4 DEF Maps, DayInv
  <2> DEFINE leader == h[s].leader
             m == u[s - 1]
             x == v[s - 1]
  <2>8. g[s].leader = leader
    BY <2>2 DEF k
  <2>9. /\ u[s].dominant = IF Switches(m, leader) THEN leader ELSE m.dominant
        /\ u[s].challenger = IF leader = m.dominant \/ Switches(m, leader) THEN "none" ELSE leader
        /\ u[s].days = IF leader = m.dominant \/ Switches(m, leader) THEN 0 ELSE Run(m, leader)
    BY <2>4, <2>6, MappedIs
  <2>10. /\ v[s].dominant = IF Switches(x, leader) THEN leader ELSE x.dominant
         /\ v[s].challenger = IF leader = x.dominant \/ Switches(x, leader) THEN "none" ELSE leader
         /\ v[s].days = IF leader = x.dominant \/ Switches(x, leader) THEN 0 ELSE Run(x, leader)
    <3> DEFINE other == g[s].leader
    <3>1. /\ v[s].dominant = IF Switches(x, other) THEN other ELSE x.dominant
          /\ v[s].challenger = IF other = x.dominant \/ Switches(x, other) THEN "none" ELSE other
          /\ v[s].days = IF other = x.dominant \/ Switches(x, other) THEN 0 ELSE Run(x, other)
      BY <2>4, <2>7, MappedIs
    <3> HIDE DEF other, leader, x
    <3> QED BY <2>8, <3>1 DEF other
  <2>11. Run(x, leader) = Run(m, leader) /\ (Switches(x, leader) <=> Switches(m, leader)) /\ x.dominant = m.dominant
    <3> HIDE DEF leader
    <3> QED BY <2>5 DEF Run, Switches
  <2> HIDE DEF leader, m, x
  <2> QED BY <2>2, <2>9, <2>10, <2>11
<1>5. ASSUME NEW d \in 1..(n - 2) PROVE Dominant!Dominants(g)[d] = Dominant!Dominants(h)[d]
  <2>1. d \in 1..n /\ d \in 1..k /\ d # n /\ d # k /\ 1 \in 1..k /\ (d # 1 => d - 1 \in 1..k)
    BY <1>1
  <2>2. \A s \in 1..k : v[s].dominant = u[s].dominant
    BY <1>4
  <2> HIDE DEF bad, k
  <2>3. DominantOn(v, k, d) = DominantOn(u, n, d)
    BY <2>1, <2>2 DEF DominantOn
  <2> QED BY <1>2, <1>3, <2>1, <2>3
<1> QED BY <1>5

-------------------------------------------------------------------------------
(* The series, item by item. *)

Items == [day : Nat, contract : Contracts, spread : Int, old : Int, new : Int, degraded : BOOLEAN]
\* An item is adjusted to the one before it.
Follows(h, last, item) ==
    LET a == Dominant!Adjustment(h, last, item) IN
    /\ last.day < item.day /\ item.degraded = a.degraded
    /\ item.spread = last.spread + a.new - a.old
    /\ item.old = last.old * a.old /\ item.new = last.new * a.new
\* The series q of the first d days of h.
WovenInv(h, q, d) ==
    /\ q \in Seq(Items)
    /\ \A i \in 1..Len(q) : q[i].day \in 1..d /\ q[i].contract \in h[q[i].day].bars
    /\ \A i \in 2..Len(q) : Follows(h, q[i - 1], q[i])

LEMMA PricesAreWhole ==
  ASSUME ContractsGiven, NEW c \in Contracts, NEW d \in Nat, 1 <= d, d <= MaxDays
  PROVE  OpeningPrice[c][d] \in Int /\ ClosingPrice[c][d] \in Int
<1>1. d \in 1..MaxDays
  BY DEF ContractsGiven
<1> QED BY <1>1 DEF ContractsGiven

\* What is compared when the contract changes.
LEMMA AdjustmentIs ==
  ASSUME ContractsGiven, NEW h, NEW last, NEW bar, last.contract \in Contracts, bar.contract \in Contracts,
         last.day \in 1..MaxDays, bar.day \in 1..MaxDays
  PROVE  LET a == Dominant!Adjustment(h, last, bar)
             old == last.contract
             new == bar.contract IN
         /\ a.old \in Int /\ a.new \in Int /\ a.degraded \in BOOLEAN
         /\ \/ old = new /\ a.old = 1 /\ a.new = 1 /\ ~a.degraded
            \/ /\ new \in h[last.day].bars /\ ~a.degraded
               /\ a.old = ClosingPrice[old][last.day] /\ a.new = ClosingPrice[new][last.day]
            \/ /\ old \in h[bar.day].bars /\ ~a.degraded
               /\ a.old = ClosingPrice[old][bar.day] /\ a.new = ClosingPrice[new][bar.day]
            \/ /\ old # new /\ new \notin h[last.day].bars /\ old \notin h[bar.day].bars /\ a.degraded
               /\ a.old = ClosingPrice[old][last.day] /\ a.new = OpeningPrice[new][bar.day]
<1> DEFINE a == Dominant!Adjustment(h, last, bar)
           old == last.contract
           new == bar.contract
<1>1. MaxDays \in Nat
  BY DEF ContractsGiven
<1>2. /\ ClosingPrice[old][last.day] \in Int /\ ClosingPrice[new][last.day] \in Int
      /\ ClosingPrice[old][bar.day] \in Int /\ ClosingPrice[new][bar.day] \in Int /\ OpeningPrice[new][bar.day] \in Int
  BY <1>1, PricesAreWhole
<1>3. a = IF old = new THEN [old |-> 1, new |-> 1, degraded |-> FALSE]
          ELSE IF new \in h[last.day].bars
          THEN [old |-> ClosingPrice[old][last.day], new |-> ClosingPrice[new][last.day], degraded |-> FALSE]
          ELSE IF old \in h[bar.day].bars
          THEN [old |-> ClosingPrice[old][bar.day], new |-> ClosingPrice[new][bar.day], degraded |-> FALSE]
          ELSE [old |-> ClosingPrice[old][last.day], new |-> OpeningPrice[new][bar.day], degraded |-> TRUE]
  BY Zenon DEF Dominant!Adjustment
<1> HIDE DEF a, old, new
<1>4. a.old \in Int /\ a.new \in Int /\ a.degraded \in BOOLEAN
  BY <1>2, <1>3
<1>5. \/ old = new /\ a.old = 1 /\ a.new = 1 /\ ~a.degraded
      \/ /\ new \in h[last.day].bars /\ ~a.degraded
         /\ a.old = ClosingPrice[old][last.day] /\ a.new = ClosingPrice[new][last.day]
      \/ /\ old \in h[bar.day].bars /\ ~a.degraded
         /\ a.old = ClosingPrice[old][bar.day] /\ a.new = ClosingPrice[new][bar.day]
      \/ /\ old # new /\ new \notin h[last.day].bars /\ old \notin h[bar.day].bars /\ a.degraded
         /\ a.old = ClosingPrice[old][last.day] /\ a.new = OpeningPrice[new][bar.day]
  BY <1>3
<1> QED BY <1>4, <1>5 DEF a, old, new

\* w[d] is the series of the first d days of h, of which D[d] is the dominant contract.
Weaves(w, h, D, n) ==
    w = [d \in 0..n |-> IF d = 0 THEN <<>>
                        ELSE IF D[d] \notin h[d].bars THEN w[d - 1]
                        ELSE Dominant!Adjusted(h, w[d - 1], [day |-> d, contract |-> D[d]])]

LEMMA WeavesExist ==
  ASSUME NEW h, NEW D, NEW n \in Nat
  PROVE  \E w : Weaves(w, h, D, n)
<1> DEFINE Next(q, d) == IF D[d] \notin h[d].bars THEN q
                         ELSE Dominant!Adjusted(h, q, [day |-> d, contract |-> D[d]])
           bad == {k \in Nat : ~\E w : Weaves(w, h, D, k)}
<1> SUFFICES ASSUME bad # {} PROVE FALSE
  OBVIOUS
<1>1. PICK k \in bad : \A l \in bad : k <= l
  <2>1. bad \in SUBSET Nat
    OBVIOUS
  <2> HIDE DEF bad
  <2> QED BY <2>1, NatsHaveLeast
<1>2. k \in Nat /\ ~\E w : Weaves(w, h, D, k)
  OBVIOUS
<1>3. k # 0
  <2> SUFFICES ASSUME k = 0 PROVE FALSE
    OBVIOUS
  <2> DEFINE first == [d \in 0..0 |-> <<>>]
  <2>1. first = [d \in 0..0 |-> IF d = 0 THEN <<>> ELSE Next(first[d - 1], d)]
    OBVIOUS
  <2> HIDE DEF first, bad
  <2>2. Weaves(first, h, D, 0)
    BY <2>1 DEF Weaves
  <2> QED BY <1>2, <2>2
<1>4. k - 1 \in Nat /\ k - 1 \notin bad
  <2> HIDE DEF bad
  <2> QED BY <1>1, <1>2, <1>3
<1>5. PICK w : Weaves(w, h, D, k - 1)
  BY <1>4
<1> DEFINE more == [d \in 0..k |-> IF d = k THEN Next(w[k - 1], k) ELSE w[d]]
<1>6. \A d \in 0..(k - 1) : more[d] = w[d] /\ d # k
  BY <1>2
<1>7. ASSUME NEW d \in 0..k
      PROVE  more[d] = IF d = 0 THEN <<>> ELSE Next(more[d - 1], d)
  <2>1. CASE d = k
    <3>1. k - 1 \in 0..(k - 1)
      BY <1>4
    <3>2. more[d] = Next(w[k - 1], k)
      BY <2>1
    <3> HIDE DEF more, bad, Next
    <3> QED BY <1>3, <1>6, <2>1, <3>1, <3>2
  <2>2. CASE d # k
    <3>1. d \in 0..(k - 1) /\ (d # 0 => d - 1 \in 0..(k - 1))
      BY <1>2, <2>2
    <3>2. w[d] = IF d = 0 THEN <<>> ELSE Next(w[d - 1], d)
      BY <1>5, <3>1 DEF Weaves
    <3> HIDE DEF more, bad, Next
    <3> QED BY <1>6, <3>1, <3>2
  <2> QED BY <2>1, <2>2
<1>8. more = [d \in 0..k |-> more[d]]
  OBVIOUS
<1>9. Weaves(more, h, D, k)
  <2>1. more = [d \in 0..k |-> IF d = 0 THEN <<>> ELSE Next(more[d - 1], d)]
    <3> HIDE DEF more, Next
    <3> QED BY <1>7, <1>8
  <2> HIDE DEF more
  <2> QED BY <2>1 DEF Weaves
<1> HIDE DEF more
<1> QED BY <1>2, <1>9

LEMMA SeriesIs ==
  ASSUME NEW h, Len(h) \in Nat
  PROVE  \E w : Weaves(w, h, Dominant!Dominants(h), Len(h)) /\ Dominant!Series(h) = w[Len(h)]
<1> DEFINE n == Len(h)
           D == Dominant!Dominants(h)
           w == CHOOSE w : Weaves(w, h, D, n)
<1>1. Weaves(w, h, D, n)
  BY WeavesExist
<1>2. Dominant!Series(h) = w[n]
  BY Zenon DEF Dominant!Series, Weaves
<1> HIDE DEF w
<1> QED BY <1>1, <1>2

\* One bar more.
LEMMA WovenStep ==
  ASSUME ContractsGiven, NEW h, NEW d \in Nat, 1 <= d, d <= MaxDays, NEW q, WovenInv(h, q, d - 1),
         NEW c \in Contracts, c \in h[d].bars
  PROVE  LET t == Dominant!Adjusted(h, q, [day |-> d, contract |-> c]) IN
         WovenInv(h, t, d) /\ \E item \in Items : t = Append(q, item) /\ item.day = d
<1> DEFINE bar == [day |-> d, contract |-> c]
           t == Dominant!Adjusted(h, q, bar)
           k == Len(q)
<1>1. bar.day = d /\ bar.contract = c /\ MaxDays \in Nat /\ d \in 1..MaxDays
  BY DEF ContractsGiven
<1>2. q \in Seq(Items) /\ k \in Nat
  BY DEF WovenInv
<1>3. /\ \A i \in 1..k : q[i].day \in 1..(d - 1) /\ q[i].contract \in h[q[i].day].bars
      /\ \A i \in 2..k : Follows(h, q[i - 1], q[i])
  BY Zenon DEF WovenInv
<1>4. \E item \in Items : /\ t = Append(q, item) /\ item.day = d /\ item.contract = c
                          /\ k # 0 => Follows(h, q[k], item)
  <2>1. CASE q = <<>>
    <3> DEFINE item == Dominant!Item(bar, 0, 1, 1, FALSE)
    <3>1. item = [day |-> d, contract |-> c, spread |-> 0, old |-> 1, new |-> 1, degraded |-> FALSE]
      BY <1>1 DEF Dominant!Item
    <3>2. t = <<item>>
      BY <2>1 DEF Dominant!Adjusted
    <3>3. item \in Items
      <4>1. FALSE \in BOOLEAN /\ 0 \in Int /\ 1 \in Int
        OBVIOUS
      <4> HIDE DEF item
      <4> QED BY <3>1, <4>1 DEF Items
    <3> HIDE DEF item, t
    <3>4. t = Append(q, item) /\ k = 0
      BY <2>1, <3>2, <3>3
    <3> QED BY <3>1, <3>3, <3>4
  <2>2. CASE q # <<>>
    <3> DEFINE last == q[k]
               a == Dominant!Adjustment(h, last, bar)
               item == Dominant!Item(bar, last.spread + a.new - a.old, last.old * a.old, last.new * a.new, a.degraded)
    <3>1. t = Append(q, item)
      BY <2>2, Zenon DEF Dominant!Adjusted
    <3>2. k # 0 /\ k \in 1..k /\ last \in Items
      BY <1>2, <2>2
    <3>3. last.day \in 1..(d - 1)
      BY <1>3, <3>2
    <3>4. last.day \in 1..MaxDays /\ last.day < d /\ last.contract \in Contracts
          /\ last.spread \in Int /\ last.old \in Int /\ last.new \in Int
      <4> HIDE DEF last
      <4>1. last.contract \in Contracts /\ last.spread \in Int /\ last.old \in Int /\ last.new \in Int
        BY <3>2 DEF Items
      <4>2. last.day \in 1..MaxDays /\ last.day < d
        BY <1>1, <3>3
      <4> QED BY <4>1, <4>2
    <3>5. a.old \in Int /\ a.new \in Int /\ a.degraded \in BOOLEAN
      BY <1>1, <3>4, AdjustmentIs
    <3>6. item = [day |-> d, contract |-> c, spread |-> last.spread + a.new - a.old, old |-> last.old * a.old,
                  new |-> last.new * a.new, degraded |-> a.degraded]
      BY <1>1 DEF Dominant!Item
    <3>7. a = Dominant!Adjustment(h, last, item)
      <4>1. item.contract = c /\ item.day = d
        BY <3>6
      <4> HIDE DEF item, last
      <4> QED BY <1>1, <4>1 DEF Dominant!Adjustment
    <3> HIDE DEF a, last, item, t, bar
    <3>8. last.old * a.old \in Int /\ last.new * a.new \in Int /\ last.spread + a.new - a.old \in Int
      <4>1. \A x, y \in Int : x * y \in Int
        OBVIOUS
      <4>2. \A x, y, z \in Int : x + y - z \in Int
        OBVIOUS
      <4> QED BY <3>4, <3>5, <4>1, <4>2
    <3>9. item \in Items
      BY <3>5, <3>6, <3>8 DEF Items
    <3>10. Follows(h, last, item)
      BY <3>4, <3>6, <3>7 DEF Follows
    <3> QED BY <3>1, <3>6, <3>9, <3>10 DEF last
  <2> QED BY <2>1, <2>2
<1> HIDE DEF t, k
<1>5. PICK item \in Items : /\ t = Append(q, item) /\ item.day = d /\ item.contract = c
                            /\ k # 0 => Follows(h, q[k], item)
  BY <1>4
<1>6. t \in Seq(Items) /\ Len(t) = k + 1 /\ t[k + 1] = item /\ \A i \in 1..k : t[i] = q[i]
  BY <1>2, <1>5 DEF k
<1>7. ASSUME NEW i \in 1..(k + 1) PROVE t[i].day \in 1..d /\ t[i].contract \in h[t[i].day].bars
  <2>1. CASE i = k + 1
    BY <1>5, <1>6, <2>1
  <2>2. CASE i # k + 1
    <3>1. i \in 1..k
      BY <1>2, <2>2
    <3>2. q[i].day \in 1..(d - 1) /\ q[i].contract \in h[q[i].day].bars
      BY <1>3, <3>1
    <3> QED BY <1>6, <3>1, <3>2
  <2> QED BY <2>1, <2>2
<1>8. ASSUME NEW i \in 2..(k + 1) PROVE Follows(h, t[i - 1], t[i])
  <2>1. CASE i = k + 1
    <3>1. i - 1 = k /\ k # 0 /\ k \in 1..k
      BY <1>2, <2>1
    <3> QED BY <1>5, <1>6, <2>1, <3>1
  <2>2. CASE i # k + 1
    <3>1. i \in 2..k /\ i \in 1..k /\ i - 1 \in 1..k
      BY <1>2, <2>2
    <3> QED BY <1>3, <1>6, <3>1
  <2> QED BY <2>1, <2>2
<1>9. WovenInv(h, t, d)
  BY <1>6, <1>7, <1>8 DEF WovenInv
<1> QED BY <1>5, <1>9 DEF t

\* Day by day: nothing or one item is added.
GrowsBy(w, n) == \A d \in 1..n : w[d] = w[d - 1] \/ \E item \in Items : w[d] = Append(w[d - 1], item) /\ item.day = d

LEMMA Woven ==
  ASSUME ContractsGiven, NEW h \in Seq(Days), NEW n \in Nat, n = Len(h), n <= MaxDays, NEW D, NEW w, Weaves(w, h, D, n)
  PROVE  /\ w[0] = <<>>
         /\ \A d \in 0..n : WovenInv(h, w[d], d)
         /\ GrowsBy(w, n)
<1>1. 0 \in 0..n /\ w[0] = <<>>
  BY DEF Weaves
<1>2. WovenInv(h, w[0], 0)
  <2>1. Len(<<>>) = 0 /\ <<>> \in Seq(Items)
    OBVIOUS
  <2> QED BY <1>1, <2>1 DEF WovenInv
<1>3. ASSUME NEW d \in 1..n, WovenInv(h, w[d - 1], d - 1)
      PROVE  /\ WovenInv(h, w[d], d)
             /\ w[d] = w[d - 1] \/ \E item \in Items : w[d] = Append(w[d - 1], item) /\ item.day = d
  <2>1. d \in 0..n /\ d # 0 /\ d \in Nat /\ 1 <= d /\ d \in 1..Len(h)
    OBVIOUS
  <2>2. d <= MaxDays
    <3>1. MaxDays \in Nat
      BY DEF ContractsGiven
    <3> QED BY <2>1, <3>1
  <2>3. w[d] = IF D[d] \notin h[d].bars THEN w[d - 1] ELSE Dominant!Adjusted(h, w[d - 1], [day |-> d, contract |-> D[d]])
    BY <2>1 DEF Weaves
  <2>4. CASE D[d] \notin h[d].bars
    <3>1. w[d] = w[d - 1]
      BY <2>3, <2>4
    <3> DEFINE q == w[d - 1]
    <3>2. WovenInv(h, q, d)
      <4>1. q \in Seq(Items) /\ (\A i \in 2..Len(q) : Follows(h, q[i - 1], q[i]))
            /\ \A i \in 1..Len(q) : q[i].day \in 1..(d - 1) /\ q[i].contract \in h[q[i].day].bars
        BY <1>3, Zenon DEF WovenInv
      <4>2. \A x \in 1..(d - 1) : x \in 1..d
        OBVIOUS
      <4> HIDE DEF q
      <4> QED BY <4>1, <4>2 DEF WovenInv
    <3> QED BY <3>1, <3>2
  <2>5. CASE D[d] \in h[d].bars
    <3>1. D[d] \in Contracts
      <4>1. h[d] \in Days
        BY <2>1
      <4> QED BY <2>5, <4>1 DEF Days
    <3> DEFINE q == w[d - 1]
               c == D[d]
               t == Dominant!Adjusted(h, q, [day |-> d, contract |-> c])
    <3>2. WovenInv(h, q, d - 1) /\ c \in Contracts /\ c \in h[d].bars
      BY <1>3, <2>5, <3>1
    <3>3. WovenInv(h, t, d) /\ \E item \in Items : t = Append(q, item) /\ item.day = d
      <4> HIDE DEF q, c
      <4> QED BY <2>1, <2>2, <3>2, WovenStep
    <3>4. w[d] = t
      BY <2>3, <2>5
    <3> HIDE DEF t
    <3> QED BY <3>3, <3>4
  <2> QED BY <2>4, <2>5
<1> DEFINE bad == {d \in 0..n : ~WovenInv(h, w[d], d)}
<1>4. ASSUME bad # {} PROVE FALSE
  <2>1. PICK d \in bad : \A x \in bad : d <= x
    <3>1. bad \in SUBSET Nat
      OBVIOUS
    <3> HIDE DEF bad
    <3> QED BY <1>4, <3>1, NatsHaveLeast
  <2>2. d \in 0..n /\ ~WovenInv(h, w[d], d)
    OBVIOUS
  <2>3. d # 0
    BY <1>2, <2>2
  <2>4. d \in 1..n /\ d - 1 \in 0..n /\ ~(d <= d - 1)
    BY <2>2, <2>3
  <2>5. d - 1 \notin bad
    <3> HIDE DEF bad
    <3> QED BY <2>1, <2>4
  <2>6. WovenInv(h, w[d - 1], d - 1)
    BY <2>4, <2>5
  <2> QED BY <1>3, <2>2, <2>4, <2>6
<1>5. ASSUME NEW d \in 1..n
      PROVE  w[d] = w[d - 1] \/ \E item \in Items : w[d] = Append(w[d - 1], item) /\ item.day = d
  <2>1. d - 1 \in 0..n
    OBVIOUS
  <2>2. WovenInv(h, w[d - 1], d - 1)
    BY <1>4, <2>1
  <2> QED BY <1>3, <2>2
<1> QED BY <1>1, <1>4, <1>5 DEF GrowsBy

\* What was in the series by the end of day k.
PastOf(q, k) == {<<i, q[i]>> : i \in {i \in DOMAIN q : q[i].day <= k}}

LEMMA PastStays ==
  ASSUME NEW q \in Seq(Items), NEW k \in Nat, NEW item \in Items, item.day > k
  PROVE  PastOf(Append(q, item), k) = PastOf(q, k)
<1> DEFINE t == Append(q, item)
           n == Len(q)
<1>1. /\ n \in Nat /\ Len(t) = n + 1 /\ t[n + 1] = item /\ DOMAIN q = 1..n /\ DOMAIN t = 1..(n + 1)
      /\ \A i \in 1..n : t[i] = q[i]
  OBVIOUS
<1>2. ~(item.day <= k)
  BY DEF Items
<1> HIDE DEF t, n
<1>3. {i \in DOMAIN t : t[i].day <= k} = {i \in DOMAIN q : q[i].day <= k}
  <2>1. ASSUME NEW i \in 1..(n + 1), t[i].day <= k PROVE i \in 1..n
    BY <1>1, <1>2, <2>1
  <2>2. \A i \in 1..n : i \in 1..(n + 1)
    BY <1>1
  <2> QED BY <1>1, <2>1, <2>2
<1>4. PastOf(t, k) = PastOf(q, k)
  <2> DEFINE S == {i \in DOMAIN q : q[i].day <= k}
  <2>1. PastOf(t, k) = {<<i, t[i]>> : i \in S} /\ PastOf(q, k) = {<<i, q[i]>> : i \in S}
    BY <1>3 DEF PastOf
  <2>2. \A i \in S : t[i] = q[i]
    BY <1>1
  <2> HIDE DEF S
  <2> QED BY <2>1, <2>2
<1> QED BY <1>4 DEF t

\* Days after k add nothing to it.
LEMMA PastIsOf ==
  ASSUME ContractsGiven, NEW h \in Seq(Days), NEW n \in Nat, n = Len(h), n <= MaxDays, NEW D, NEW w, Weaves(w, h, D, n),
         NEW k \in Nat, NEW d \in 1..n, k < d
  PROVE  PastOf(w[d], k) = PastOf(w[d - 1], k)
<1>1. d - 1 \in 0..n
  OBVIOUS
<1>2. w[d - 1] \in Seq(Items)
  BY <1>1, Woven DEF WovenInv
<1>3. w[d] = w[d - 1] \/ \E item \in Items : w[d] = Append(w[d - 1], item) /\ item.day = d
  <2>1. GrowsBy(w, n)
    BY Woven
  <2> QED BY <2>1 DEF GrowsBy
<1>4. ASSUME NEW item \in Items, w[d] = Append(w[d - 1], item), item.day = d PROVE PastOf(w[d], k) = PastOf(w[d - 1], k)
  BY <1>2, <1>4, PastStays
<1> QED BY <1>3, <1>4

\* Two histories that are the same up to a day have the same series up to it.
SameUpTo(g, h, E, D, k) == \A d \in 1..k : g[d] = h[d] /\ E[d] = D[d]

LEMMA WeavesAgree ==
  ASSUME ContractsGiven, NEW h \in Seq(Days), NEW n \in Nat, n = Len(h), n <= MaxDays, NEW D, NEW w, Weaves(w, h, D, n),
         NEW g, NEW l \in Nat, NEW E, NEW x, Weaves(x, g, E, l),
         NEW k \in Nat, k <= n, k <= l, SameUpTo(g, h, E, D, k)
  PROVE  x[k] = w[k]
<1> DEFINE bad == {d \in 0..k : x[d] # w[d]}
<1>1. ASSUME bad # {} PROVE FALSE
  <2>1. PICK d \in bad : \A y \in bad : d <= y
    <3>1. bad \in SUBSET Nat
      OBVIOUS
    <3> HIDE DEF bad
    <3> QED BY <1>1, <3>1, NatsHaveLeast
  <2>2. d \in 0..k /\ x[d] # w[d]
    OBVIOUS
  <2>3. d \in 0..n /\ d \in 0..l /\ 0 \in 0..n /\ 0 \in 0..l
    BY <2>2
  <2>4. d # 0
    BY <2>2, <2>3 DEF Weaves
  <2>5. d \in 1..k /\ d \in 1..n /\ d - 1 \in 0..k /\ d - 1 \in 0..n /\ ~(d <= d - 1)
    BY <2>2, <2>3, <2>4
  <2>6. x[d - 1] = w[d - 1]
    <3>1. d - 1 \notin bad
      <4> HIDE DEF bad
      <4> QED BY <2>1, <2>5
    <3> QED BY <2>5, <3>1
  <2> HIDE DEF bad
  <2> DEFINE q == w[d - 1]
             bar == [day |-> d, contract |-> D[d]]
  <2>7. g[d] = h[d] /\ E[d] = D[d] /\ \A y \in 1..k : g[y] = h[y]
    BY <2>5 DEF SameUpTo
  <2>8. w[d] = IF D[d] \notin h[d].bars THEN q ELSE Dominant!Adjusted(h, q, bar)
    BY <2>3, <2>4 DEF Weaves
  <2>9. x[d] = IF D[d] \notin h[d].bars THEN q ELSE Dominant!Adjusted(g, q, bar)
    <3>1. x[d] = IF E[d] \notin g[d].bars THEN x[d - 1] ELSE Dominant!Adjusted(g, x[d - 1], [day |-> d, contract |-> E[d]])
      BY <2>3, <2>4 DEF Weaves
    <3> QED BY <2>6, <2>7, <3>1
  <2>10. Dominant!Adjusted(g, q, bar) = Dominant!Adjusted(h, q, bar)
    <3>1. CASE q = <<>>
      BY <3>1, Zenon DEF Dominant!Adjusted
    <3>2. CASE q # <<>>
      <4> DEFINE last == q[Len(q)]
      <4>1. WovenInv(h, q, d - 1)
        BY <2>5, Woven
      <4>2. last.day \in 1..(d - 1)
        <5>1. q \in Seq(Items) /\ \A i \in 1..Len(q) : q[i].day \in 1..(d - 1)
          BY <4>1, Zenon DEF WovenInv
        <5> HIDE DEF q
        <5>2. Len(q) \in 1..Len(q)
          BY <3>2, <5>1
        <5> QED BY <5>1, <5>2
      <4>3. last.day \in 1..k
        BY <2>5, <4>2
      <4>4. g[last.day] = h[last.day] /\ g[bar.day] = h[bar.day]
        <5>1. bar.day = d
          OBVIOUS
        <5> QED BY <2>7, <4>3, <5>1
      <4> HIDE DEF last, q, bar
      <4>5. Dominant!Adjustment(g, last, bar) = Dominant!Adjustment(h, last, bar)
        BY <4>4, Zenon DEF Dominant!Adjustment
      <4> QED BY <3>2, <4>5, Zenon DEF Dominant!Adjusted, last
    <3> QED BY <3>1, <3>2
  <2> QED BY <2>2, <2>8, <2>9, <2>10
<1>2. k \in 0..k
  OBVIOUS
<1> QED BY <1>1, <1>2

LEMMA PastKept ==
  ASSUME ContractsGiven, HistoryInv
  PROVE  Dominant!PastIsKept
<1> DEFINE h == observed
           n == Len(h)
           g == SubSeq(h, 1, n - 1)
<1> SUFFICES ASSUME n > 2 PROVE PastOf(Dominant!Series(g), n - 2) = PastOf(Dominant!Series(h), n - 2)
  BY Zenon DEF Dominant!PastIsKept, PastOf
<1>1. h \in Seq(Days) /\ n \in Nat /\ n <= MaxDays /\ MaxDays \in Nat
  BY DEF HistoryInv, ContractsGiven
<1>2. n - 1 \in Nat /\ n - 2 \in Nat /\ n - 1 <= MaxDays /\ n - 1 \in 1..n /\ n \in 1..n /\ n - 1 - 1 = n - 2
      /\ n - 2 < n - 1 /\ n - 2 < n /\ n - 2 <= n - 1 /\ n - 2 <= n
  BY <1>1
<1>3. g \in Seq(Days) /\ Len(g) = n - 1 /\ \A d \in 1..(n - 1) : g[d] = h[d]
  BY <1>1, <1>2
<1> HIDE DEF h, n, g
<1>4. \A d \in 1..(n - 2) : Dominant!Dominants(g)[d] = Dominant!Dominants(h)[d]
  BY <1>1, <1>3, DominantsKept DEF n
<1>5. PICK w : Weaves(w, h, Dominant!Dominants(h), n) /\ Dominant!Series(h) = w[n]
  BY <1>1, SeriesIs DEF n
<1>6. PICK x : Weaves(x, g, Dominant!Dominants(g), n - 1) /\ Dominant!Series(g) = x[n - 1]
  BY <1>2, <1>3, SeriesIs
<1>7. x[n - 2] = w[n - 2]
  <2>1. \A d \in 1..(n - 2) : g[d] = h[d] /\ Dominant!Dominants(g)[d] = Dominant!Dominants(h)[d]
    <3>1. \A d \in 1..(n - 2) : d \in 1..(n - 1)
      BY <1>1
    <3> QED BY <1>3, <1>4, <3>1
  <2> DEFINE D == Dominant!Dominants(h)
             E == Dominant!Dominants(g)
             k == n - 2
             l == n - 1
  <2>2. n = Len(h) /\ k \in Nat /\ l \in Nat /\ k <= n /\ k <= l
    BY <1>2 DEF n
  <2>3. Weaves(w, h, D, n) /\ Weaves(x, g, E, l) /\ SameUpTo(g, h, E, D, k)
    BY <1>5, <1>6, <2>1 DEF SameUpTo
  <2> HIDE DEF D, E, k, l
  <2>4. x[k] = w[k]
    BY <1>1, <2>2, <2>3, WeavesAgree
  <2> QED BY <2>4 DEF k
<1>8. PastOf(w[n], n - 2) = PastOf(w[n - 1], n - 2) /\ PastOf(w[n - 1], n - 2) = PastOf(w[n - 2], n - 2)
  <2>1. PastOf(w[n], n - 2) = PastOf(w[n - 1], n - 2)
    BY <1>1, <1>2, <1>5, PastIsOf DEF n
  <2>2. PastOf(w[n - 1], n - 2) = PastOf(w[n - 1 - 1], n - 2)
    BY <1>1, <1>2, <1>5, PastIsOf DEF n
  <2> QED BY <1>2, <2>1, <2>2
<1>9. PastOf(x[n - 1], n - 2) = PastOf(x[n - 2], n - 2)
  <2>1. n - 1 \in 1..(n - 1)
    BY <1>2
  <2>2. PastOf(x[n - 1], n - 2) = PastOf(x[n - 1 - 1], n - 2)
    <3> DEFINE l == n - 1
    <3>1. l \in Nat /\ l = Len(g) /\ l <= MaxDays /\ l \in 1..l /\ n - 2 < l /\ n - 2 \in Nat
      BY <1>2, <1>3, <2>1
    <3>2. Weaves(x, g, Dominant!Dominants(g), l)
      BY <1>6
    <3> HIDE DEF l
    <3>3. PastOf(x[l], n - 2) = PastOf(x[l - 1], n - 2)
      BY <1>3, <3>1, <3>2, PastIsOf
    <3> QED BY <3>3 DEF l
  <2> QED BY <1>2, <2>2
<1> QED BY <1>5, <1>6, <1>7, <1>8, <1>9

-------------------------------------------------------------------------------
(* The adjusted series moves as a contract did. *)

\* Sums and products of whole numbers.
LEMMA Moved ==
  ASSUME NEW p \in Int, NEW q \in Int, NEW a \in Int, NEW b \in Int, NEW before \in Int, NEW after \in Int,
         NEW f \in Int, NEW g \in Int, NEW s \in Int,
         q - p - b + a = after - before, q * a * before = p * b * after
  PROVE  /\ (q - (s + b - a)) - (p - s) = after - before
         /\ (q * (f * a)) * g * before = (p * f) * (g * b) * after
<1>1. (q - (s + b - a)) - (p - s) = after - before
  OBVIOUS
<1>2. (q * (f * a)) * g * before = (f * g) * (q * a * before)
  OBVIOUS
<1>3. (p * f) * (g * b) * after = (f * g) * (p * b * after)
  OBVIOUS
<1> QED BY <1>1, <1>2, <1>3

LEMMA ChangesReal ==
  ASSUME ContractsGiven, HistoryInv
  PROVE  Dominant!ChangesAreReal
<1> DEFINE h == observed
           n == Len(h)
           series == Dominant!Series(h)
           moved(from, to, before, after) ==
               /\ Dominant!Shifted(to) - Dominant!Shifted(from) = after - before
               /\ Dominant!Scaled(to).num * Dominant!Scaled(from).den * before
                      = Dominant!Scaled(from).num * Dominant!Scaled(to).den * after
           both(from, to) == {c \in {from.contract, to.contract} : c \in h[from.day].bars /\ c \in h[to.day].bars}
<1>1. h \in Seq(Days) /\ n \in Nat /\ n <= MaxDays /\ MaxDays \in Nat
  BY DEF HistoryInv, ContractsGiven
<1>2. WovenInv(h, series, n)
  <2>1. PICK w : Weaves(w, h, Dominant!Dominants(h), n) /\ series = w[n]
    BY <1>1, SeriesIs
  <2>2. n \in 0..n
    BY <1>1
  <2> HIDE DEF h
  <2> QED BY <1>1, <2>1, <2>2, Woven
<1> HIDE DEF series
<1>3. ASSUME NEW i \in 2..Len(series)
      PROVE  LET from == series[i - 1]
                 to == series[i] IN
             IF to.degraded
             THEN both(from, to) = {} /\ moved(from, to, OpeningPrice[to.contract][to.day], ClosingPrice[to.contract][to.day])
             ELSE \E c \in both(from, to) : moved(from, to, ClosingPrice[c][from.day], ClosingPrice[c][to.day])
  <2> DEFINE from == series[i - 1]
             to == series[i]
             old == from.contract
             new == to.contract
             a == Dominant!Adjustment(h, from, to)
             p == ClosingPrice[old][from.day]
             q == ClosingPrice[new][to.day]
  <2>1. /\ series \in Seq(Items)
        /\ \A j \in 1..Len(series) : series[j].day \in 1..n /\ series[j].contract \in h[series[j].day].bars
        /\ \A j \in 2..Len(series) : Follows(h, series[j - 1], series[j])
    BY <1>2, Zenon DEF WovenInv
  <2>2. i \in 1..Len(series) /\ i - 1 \in 1..Len(series)
    BY <2>1
  <2>3. from \in Items /\ to \in Items
    BY <2>1, <2>2
  <2>4. from.day \in 1..n /\ to.day \in 1..n /\ old \in h[from.day].bars /\ new \in h[to.day].bars
    BY <2>1, <2>2
  <2>5. Follows(h, from, to)
    BY <2>1
  <2> HIDE DEF from, to, h, n
  <2>6. from.day \in 1..MaxDays /\ to.day \in 1..MaxDays
    BY <1>1, <2>4
  <2>7. /\ old \in Contracts /\ from.spread \in Int /\ from.old \in Int /\ from.new \in Int
        /\ new \in Contracts /\ to.spread \in Int /\ to.old \in Int /\ to.new \in Int
    BY <2>3 DEF Items
  <2>8. \A c \in Contracts : \A d \in 1..MaxDays : ClosingPrice[c][d] \in Int /\ OpeningPrice[c][d] \in Int
    BY DEF ContractsGiven
  <2>9. /\ a.old \in Int /\ a.new \in Int /\ a.degraded \in BOOLEAN
        /\ \/ old = new /\ a.old = 1 /\ a.new = 1 /\ ~a.degraded
           \/ /\ new \in h[from.day].bars /\ ~a.degraded
              /\ a.old = ClosingPrice[old][from.day] /\ a.new = ClosingPrice[new][from.day]
           \/ /\ old \in h[to.day].bars /\ ~a.degraded
              /\ a.old = ClosingPrice[old][to.day] /\ a.new = ClosingPrice[new][to.day]
           \/ /\ old # new /\ new \notin h[from.day].bars /\ old \notin h[to.day].bars /\ a.degraded
              /\ a.old = ClosingPrice[old][from.day] /\ a.new = OpeningPrice[new][to.day]
    BY <2>6, <2>7, AdjustmentIs
  <2>10. /\ to.degraded = a.degraded /\ to.spread = from.spread + a.new - a.old
         /\ to.old = from.old * a.old /\ to.new = from.new * a.new
    BY <2>5 DEF Follows
  <2>11. /\ Dominant!Shifted(from) = p - from.spread /\ Dominant!Shifted(to) = q - to.spread
         /\ Dominant!Scaled(from).num = p * from.old /\ Dominant!Scaled(from).den = from.new
         /\ Dominant!Scaled(to).num = q * to.old /\ Dominant!Scaled(to).den = to.new
    BY DEF Dominant!Shifted, Dominant!Scaled
  <2>12. p \in Int /\ q \in Int
    BY <2>6, <2>7, <2>8
  <2>13. ASSUME NEW before \in Int, NEW after \in Int,
                q - p - a.new + a.old = after - before, q * a.old * before = p * a.new * after
         PROVE  moved(from, to, before, after)
    <3> HIDE DEF p, q, a
    <3> DEFINE s == from.spread
               f == from.old
               g == from.new
               x == a.old
               y == a.new
    <3>1. x \in Int /\ y \in Int /\ s \in Int /\ f \in Int /\ g \in Int /\ q - p - y + x = after - before
          /\ q * x * before = p * y * after
      BY <2>7, <2>9, <2>13
    <3>2. /\ to.spread = s + y - x /\ to.old = f * x /\ to.new = g * y
      BY <2>10
    <3> HIDE DEF s, f, g, x, y
    <3>3. /\ (q - (s + y - x)) - (p - s) = after - before
          /\ (q * (f * x)) * g * before = (p * f) * (g * y) * after
      BY <2>12, <2>13, <3>1, Moved
    <3> QED BY <2>11, <3>2, <3>3 DEF s, f, g
  <2>14. CASE old = new /\ a.old = 1 /\ a.new = 1 /\ ~a.degraded
    <3>1. moved(from, to, p, q)
      <4> HIDE DEF p, q, a, moved
      <4>1. q - p - a.new + a.old = q - p /\ q * a.old * p = p * a.new * q
        BY <2>12, <2>14
      <4> QED BY <2>12, <2>13, <4>1
    <3>2. old \in both(from, to)
      BY <2>4, <2>14
    <3> HIDE DEF both, moved, a
    <3> QED BY <2>10, <2>14, <3>1, <3>2 DEF from, to
  <2>15. CASE /\ new \in h[from.day].bars /\ ~a.degraded
              /\ a.old = ClosingPrice[old][from.day] /\ a.new = ClosingPrice[new][from.day]
    <3> DEFINE before == ClosingPrice[new][from.day]
    <3>1. moved(from, to, before, q)
      <4>1. before \in Int /\ a.old = p /\ a.new = before
        BY <2>6, <2>7, <2>8, <2>15
      <4> HIDE DEF p, q, a, moved, before
      <4>2. q - p - a.new + a.old = q - before /\ q * a.old * before = p * a.new * q
        BY <2>12, <4>1
      <4> QED BY <2>12, <2>13, <4>1, <4>2
    <3>2. new \in both(from, to)
      BY <2>4, <2>15
    <3> HIDE DEF both, moved, a
    <3> QED BY <2>10, <2>15, <3>1, <3>2 DEF from, to
  <2>16. CASE /\ old \in h[to.day].bars /\ ~a.degraded
              /\ a.old = ClosingPrice[old][to.day] /\ a.new = ClosingPrice[new][to.day]
    <3> DEFINE after == ClosingPrice[old][to.day]
    <3>1. moved(from, to, p, after)
      <4>1. after \in Int /\ a.old = after /\ a.new = q
        BY <2>6, <2>7, <2>8, <2>16
      <4> HIDE DEF p, q, a, moved, after
      <4>2. q - p - a.new + a.old = after - p /\ q * a.old * p = p * a.new * after
        BY <2>12, <4>1
      <4> QED BY <2>12, <2>13, <4>1, <4>2
    <3>2. old \in both(from, to)
      BY <2>4, <2>16
    <3> HIDE DEF both, moved, a
    <3> QED BY <2>10, <2>16, <3>1, <3>2 DEF from, to
  <2>17. CASE /\ old # new /\ new \notin h[from.day].bars /\ old \notin h[to.day].bars /\ a.degraded
              /\ a.old = ClosingPrice[old][from.day] /\ a.new = OpeningPrice[new][to.day]
    <3> DEFINE before == OpeningPrice[new][to.day]
    <3>1. moved(from, to, before, q)
      <4>1. before \in Int /\ a.old = p /\ a.new = before
        BY <2>6, <2>7, <2>8, <2>17
      <4> HIDE DEF p, q, a, moved, before
      <4>2. q - p - a.new + a.old = q - before /\ q * a.old * before = p * a.new * q
        BY <2>12, <4>1
      <4> QED BY <2>12, <2>13, <4>1, <4>2
    <3>2. both(from, to) = {}
      BY <2>17
    <3> HIDE DEF both, moved, a
    <3> QED BY <2>10, <2>17, <3>1, <3>2 DEF from, to
  <2> HIDE DEF both, moved, a
  <2> QED BY <2>9, <2>14, <2>15, <2>16, <2>17 DEF from, to
<1> QED BY <1>3, Zenon DEF Dominant!ChangesAreReal, series

-------------------------------------------------------------------------------
(* The histories of a run. *)

LEMMA HistoryBegins == ASSUME ContractsGiven, ResearchInit PROVE HistoryInv
<1>1. observed = <<>>
  BY DEF ResearchInit, Dominant!ContractsInit
<1>2. <<>> \in Seq(Days) /\ Len(<<>>) = 0
  OBVIOUS
<1>3. MaxDays \in Nat
  BY DEF ContractsGiven
<1> QED BY <1>1, <1>2, <1>3 DEF HistoryInv

LEMMA HistoryGrows ==
  ASSUME ContractsGiven, HistoryInv, [ResearchNext]_researchVars
  PROVE  HistoryInv'
<1>1. CASE Dominant!ObserveDay
  <2>1. PICK bars \in SUBSET Contracts :
            \E leader \in bars : observed' = Append(observed, [bars |-> bars, leader |-> leader])
    BY <1>1 DEF Dominant!ObserveDay
  <2>5. PICK leader \in bars : observed' = Append(observed, [bars |-> bars, leader |-> leader])
    BY <2>1
  <2>2. [bars |-> bars, leader |-> leader] \in Days
    BY DEF Days
  <2>3. Len(observed) < MaxDays /\ MaxDays \in Nat
    BY <1>1 DEF Dominant!ObserveDay, ContractsGiven
  <2>4. observed' \in Seq(Days) /\ Len(observed') = Len(observed) + 1 /\ Len(observed) \in Nat
    BY <2>2, <2>5 DEF HistoryInv
  <2> QED BY <2>3, <2>4 DEF HistoryInv
<1>2. UNCHANGED observed \/ Dominant!ObserveDay
  <2>1. CASE UNCHANGED researchVars
    BY <2>1 DEF researchVars, otherVars
  <2>2. CASE Simulates(BacktestNext)
    BY <2>2 DEF Simulates, otherVars
  <2>3. CASE Stores(Store!DataNext)
    BY <2>3 DEF Stores, otherVars
  <2>4. CASE Registers(Rules!RulesNext)
    BY <2>4 DEF Registers
  <2>5. CASE Observes(Dominant!ObserveDay)
    BY <2>5 DEF Observes
  <2>6. CASE Closes(Routes!RoutingNext)
    BY <2>6 DEF Closes
  <2> QED BY <2>1, <2>2, <2>3, <2>4, <2>5, <2>6 DEF ResearchNext
<1>3. CASE UNCHANGED observed
  BY <1>3 DEF HistoryInv
<1> QED BY <1>1, <1>2, <1>3

\* For any contracts, prices above zero, histories and days of confirmation: the dominant
\* contracts and the series made of their bars are known in time
\* (build_dominant_mappings, ContinuousSeriesBuilder.build_series).
THEOREM MappingAlwaysCausal == ResearchSpec => []MappingIsCausal
<1>1. ResearchInit => HistoryInv
  BY ContractsAreGiven, HistoryBegins
<1>2. HistoryInv /\ [ResearchNext]_researchVars => HistoryInv'
  BY ContractsAreGiven, HistoryGrows
<1>3. HistoryInv => MappingIsCausal
  BY ContractsAreGiven, PastKept, Confirmed, ChangesReal DEF MappingIsCausal, Dominant!MappingIsCausal
<1> QED BY <1>1, <1>2, <1>3, PTL DEF ResearchSpec

================================================================================
