-------------------------- MODULE Supervision_proofs ---------------------------
(***************************************************************************)
(* What holds of the supervision, for any timeouts and any number of beats, *)
(* takeovers, restarts and failed writes: of the applications of the        *)
(* watchdog, of the database through which processes speak, for any         *)
(* executors and any number of transactions and snapshots, and of a roll of *)
(* any size, with any number of retries and of bars in a day.               *)
(*                                                                         *)
(* The watchdog: the invariant follows an application from its making to   *)
(* the table.  What the watchdog keeps agrees with what is written, by its  *)
(* number and by the life it was made in; and what this life has written    *)
(* it still keeps, so that it is taken up again instead of being made anew. *)
(*                                                                         *)
(* The database: whatever is kept beside the journal is a function of it.   *)
(* The tables and every snapshot are what the transactions amount to, what  *)
(* an executor remembers is the tables or nothing, a command has taken the  *)
(* steps that the journal holds of it, each after the one before, and a     *)
(* subscriber has read the events of a beginning of the journal.            *)
(*                                                                         *)
(* The roll, closing first: there are two orders at most, the second one    *)
(* waiting for the next opening.  An order that the market may still fill   *)
(* closes all of the old contract that is left, or opens no more of the new *)
(* one than the first leg is ahead; a leg that is placed has an order       *)
(* unless one ended while the roll was paused.  Without a roll an order     *)
(* that is alive fits into Size, whatever the roll before has left.         *)
(***************************************************************************)
EXTENDS MCSupervision, Sums_proofs, SequenceTheorems, WellFoundedInduction, TLAPS

-------------------------------------------------------------------------------
(* The applications of the watchdog *)

Made == table \union watch.pending

\* One application is kept for an incident.
KeptOnce == \A s, t \in watch.pending : s.incident = t.incident => s = t

\* What is kept or written is what is written under its number.
NumbersAgree == \A s \in Made, t \in table : SameNumber(s, t) => s = t

\* What is kept or written is what its life wrote for its incident.
LivesAgree ==
    \A s \in Made, t \in table : s.incident = t.incident /\ s.built = t.built => s = t

\* Nothing comes from a later life, and this life keeps what it wrote.
LivesArePast ==
    /\ \A t \in Made : t.built <= restarts
    /\ \A t \in table : t.built = restarts => t \in watch.pending

ApplicationsInv == KeptOnce /\ NumbersAgree /\ LivesAgree /\ LivesArePast

-------------------------------------------------------------------------------
(* Operators *)

\* An application is a command of this life or one that was kept or written; the
\* watchdog has one for its incident, of the epoch it sees unless it was kept.
LEMMA ApplicationMade ==
    ASSUME WatchdogAssumption, TypeOK, ApplicationsInv
    PROVE  /\ Application \subseteq Commands
           /\ \A s, t \in Application : s = t
           /\ \A t \in Application : t.incident = Incident
           /\ \/ Application \subseteq Made
              \/ /\ Kept \union Existing = {}
                 /\ \A t \in Application : t.epoch = control.epoch /\ t.built = restarts
<1>1. watch.pending \subseteq Commands /\ table \subseteq Commands
  BY DEF TypeOK
<1>2. CASE Kept # {}
  <2>1. Application = Kept
    BY <1>2 DEF Application
  <2>. QED
    BY <1>1, <2>1 DEF Kept, ApplicationsInv, KeptOnce, Made
<1>3. CASE Kept = {} /\ Existing # {}
  <2>1. Application = Existing
    BY <1>3 DEF Application
  <2>. QED
    BY <1>1, <2>1 DEF Existing, ApplicationsInv, NumbersAgree, SameNumber, Made
<1>4. CASE Kept \union Existing = {}
  <2>. DEFINE new == [incident |-> Incident, epoch |-> control.epoch, built |-> restarts]
  <2>1. Application = {new}
    BY <1>4 DEF Application, ObservedEpoch
  <2>2. Incident \in Beats /\ control.epoch \in 1..MaxEpoch /\ restarts \in 0..MaxRestarts
    BY DEF TypeOK, Incident, Roles
  <2>3. new \in Commands
    BY <2>2 DEF Commands
  <2>. QED
    BY <1>4, <2>1, <2>3
<1>. QED
  BY <1>2, <1>3, <1>4

\* What is written now was kept.
LEMMA WrittenWasKept == ToWrite \subseteq watch.pending
BY DEF ToWrite

-------------------------------------------------------------------------------
LEMMA ObservedType ==
    ASSUME WatchdogAssumption, TypeOK, NEW r \in Roles, NEW readable \in SUBSET Roles
    PROVE  /\ Observed(r, r \in readable).silent \in Nat
           /\ Observed(r, r \in readable).silent <= Limit(r)
           /\ Observed(r, r \in readable).last \in Beats
           /\ Observed(r, r \in readable).seen \in BOOLEAN
<1>1. Limit(r) \in Nat /\ watch.silent[r] \in Nat /\ watch.silent[r] <= Limit(r)
  BY DEF WatchdogAssumption, TypeOK, Limit, Timeout
<1>2. /\ Longer(watch.silent[r], r) \in Nat
      /\ Longer(watch.silent[r], r) <= Limit(r)
  BY <1>1 DEF Longer
<1>3. watch.last[r] \in Beats /\ watch.seen[r] \in BOOLEAN /\ file[r].beat \in Beats
  BY DEF TypeOK
<1>. QED
  BY <1>1, <1>2, <1>3 DEF Observed, Progress, Unread

\* Every step of the world and of the watchdog leaves a well typed state.
LEMMA TypeStep ==
    ASSUME WatchdogAssumption, TypeOK, ApplicationsInv, [Next]_vars
    PROVE  TypeOK'
<1>1. ASSUME NEW r \in Roles, Beat(r)
      PROVE  TypeOK'
  <2>1. file[r].beat \in Beats /\ file[r].ready \in BOOLEAN
    BY DEF TypeOK
  <2>2. 1 \in Beats /\ 2 \in Beats /\ (file[r].beat < MaxBeats => file[r].beat + 1 \in Beats)
    BY <2>1 DEF Beats, WatchdogAssumption
  <2>3. file' \in [Roles -> [beat : Beats, ready : BOOLEAN]]
    <3>1. CASE r = "strategy" /\ ~Unread(r)
      <4>1. file' = [file EXCEPT ![r].beat = @ + 1] /\ file[r].beat < MaxBeats
        BY <1>1, <3>1 DEF Beat
      <4>. QED
        BY <2>1, <2>2, <4>1 DEF TypeOK
    <3>2. CASE ~(r = "strategy" /\ ~Unread(r))
      <4>1. PICK b \in Beats, k \in BOOLEAN : file' = [file EXCEPT ![r] = [beat |-> b, ready |-> k]]
        <5>1. CASE r = "strategy"
          BY <1>1, <2>1, <3>2, <5>1 DEF Beat
        <5>2. CASE r # "strategy" /\ watch.last[r] = 1
          BY <1>1, <2>2, <3>2, <5>2 DEF Beat
        <5>3. CASE r # "strategy" /\ watch.last[r] # 1
          BY <1>1, <2>2, <3>2, <5>3 DEF Beat
        <5>. QED
          BY <5>1, <5>2, <5>3
      <4>. QED
        BY <4>1 DEF TypeOK
    <3>. QED
      BY <3>1, <3>2
  <2>. QED
    BY <1>1, <2>3 DEF Beat, TypeOK
<1>2. ASSUME NEW r \in Roles, Stop(r)
      PROVE  TypeOK'
  BY <1>2 DEF Stop, TypeOK
<1>3. ASSUME ReadinessChanges
      PROVE  TypeOK'
  BY <1>3 DEF ReadinessChanges, TypeOK
<1>4. ASSUME NEW ours \in BOOLEAN, TakeOver(ours)
      PROVE  TypeOK'
  <2>1. control' \in [epoch : 1..MaxEpoch, ours : BOOLEAN]
    BY <1>4 DEF TakeOver, TypeOK, WatchdogAssumption
  <2>. QED
    BY <1>4, <2>1 DEF TakeOver, TypeOK
<1>5. ASSUME NEW readable \in SUBSET Roles, Evaluate(readable)
      PROVE  TypeOK'
  <2>. DEFINE now == [r \in Roles |-> Observed(r, r \in readable)]
  <2>1. /\ [r \in Roles |-> now[r].silent] \in [Roles -> Nat]
        /\ \A r \in Roles : now[r].silent <= Limit(r)
        /\ [r \in Roles |-> now[r].last] \in [Roles -> Beats]
        /\ [r \in Roles |-> now[r].seen] \in [Roles -> BOOLEAN]
    BY ObservedType
  <2>2. now["strategy"].last \in Beats
    BY ObservedType DEF Roles
  <2>3. /\ watch'.silent = [r \in Roles |-> now[r].silent]
        /\ watch' \in [silent : [Roles -> Nat], last : [Roles -> Beats],
                       seen : [Roles -> BOOLEAN], requested : SUBSET Beats,
                       pending : SUBSET Commands]
    <3>. HIDE DEF now
    <3>1. watch.requested \subseteq Beats /\ watch.pending \subseteq Commands
      BY DEF TypeOK
    <3>2. \E requested \in SUBSET Beats :
             watch' = [watch EXCEPT !.silent = [r \in Roles |-> now[r].silent],
                                    !.last = [r \in Roles |-> now[r].last],
                                    !.seen = [r \in Roles |-> now[r].seen],
                                    !.requested = requested]
      BY <1>5, <2>2, <3>1 DEF Evaluate, now, TypeOK
    <3>. QED
      BY <2>1, <3>1, <3>2 DEF TypeOK
  <2>4. \A r \in Roles : watch'.silent[r] <= Limit(r)
    BY <2>1, <2>3
  <2>. QED
    BY <1>5, <2>3, <2>4 DEF Evaluate, TypeOK, world
<1>6. ASSUME Refuse
      PROVE  TypeOK'
  BY <1>6 DEF Refuse, TypeOK, world, Incident, Roles
<1>7. ASSUME Build
      PROVE  TypeOK'
  <2>1. ({t \in watch.pending : t.incident # Incident} \union Application) \subseteq Commands
    BY ApplicationMade DEF TypeOK
  <2>. QED
    BY <1>7, <2>1 DEF Build, TypeOK, world
<1>8. ASSUME Submit
      PROVE  TypeOK'
  BY <1>8, WrittenWasKept DEF Submit, TypeOK, world
<1>9. ASSUME NEW written \in BOOLEAN, SubmitFails(written)
      PROVE  TypeOK'
  BY <1>9, WrittenWasKept DEF SubmitFails, Forgiven, TypeOK, world
<1>10. ASSUME Restart
       PROVE  TypeOK'
  BY <1>10 DEF Restart, Fresh, TypeOK, world, WatchdogAssumption, Limit, Timeout, Beats, Never
<1>11. CASE UNCHANGED vars
  BY <1>11 DEF vars, TypeOK
<1>. QED
  BY <1>1, <1>2, <1>3, <1>4, <1>5, <1>6, <1>7, <1>8, <1>9, <1>10, <1>11 DEF Next

-------------------------------------------------------------------------------
\* Writing what is kept, whole or not at all, keeps the agreement.
LEMMA WritingAgrees ==
    ASSUME ApplicationsInv, UNCHANGED restarts, watch'.pending = watch.pending,
           table' = table \/ table' = table \union ToWrite
    PROVE  ApplicationsInv'
<1>1. table' \subseteq Made /\ Made' = Made
  BY WrittenWasKept DEF Made
<1>2. KeptOnce'
  BY DEF KeptOnce, ApplicationsInv
<1>3. ASSUME NEW s \in Made, NEW t \in table', s.incident = t.incident,
             s.epoch = t.epoch \/ s.built = t.built
      PROVE  s = t
  <2>1. CASE t \in table
    BY <1>3, <2>1 DEF ApplicationsInv, NumbersAgree, LivesAgree, SameNumber
  <2>2. CASE t \notin table
    <3>1. t \in watch.pending
      BY <2>2, WrittenWasKept
    <3>2. CASE s \in watch.pending
      BY <1>3, <3>1, <3>2 DEF ApplicationsInv, KeptOnce
    <3>3. CASE s \in table
      BY <1>3, <3>1, <3>3 DEF ApplicationsInv, NumbersAgree, LivesAgree, SameNumber, Made
    <3>. QED
      BY <3>2, <3>3 DEF Made
  <2>. QED
    BY <2>1, <2>2
<1>4. NumbersAgree' /\ LivesAgree'
  BY <1>1, <1>3 DEF NumbersAgree, LivesAgree, SameNumber
<1>5. LivesArePast'
  BY <1>1, WrittenWasKept DEF LivesArePast, ApplicationsInv
<1>. QED
  BY <1>2, <1>4, <1>5 DEF ApplicationsInv

\* Making an application, or taking up the one that was kept or written, keeps it.
LEMMA BuildAgrees ==
    ASSUME WatchdogAssumption, TypeOK, ApplicationsInv, Build
    PROVE  ApplicationsInv'
<1>. DEFINE others == {t \in watch.pending : t.incident # Incident}
<1>1. /\ UNCHANGED <<table, restarts>>
      /\ watch'.pending = others \union Application
  BY DEF Build, TypeOK
<1>2. \/ Application \subseteq Made
      \/ /\ Kept \union Existing = {}
         /\ \A t \in Application : t.epoch = control.epoch /\ t.built = restarts
  BY ApplicationMade
<1>3. \A s, t \in Application : s = t /\ t.incident = Incident
  BY ApplicationMade
<1>4. KeptOnce'
  BY <1>1, <1>3 DEF KeptOnce, ApplicationsInv
<1>5. ASSUME NEW s \in Application, NEW t \in table, s.incident = t.incident,
             s.epoch = t.epoch \/ s.built = t.built
      PROVE  s = t
  <2>1. CASE s \in Made
    BY <1>5, <2>1 DEF ApplicationsInv, NumbersAgree, LivesAgree, SameNumber
  <2>2. CASE s \notin Made
    <3>1. Kept = {} /\ Existing = {} /\ s.epoch = control.epoch /\ s.built = restarts
      BY <1>2, <2>2
    <3>2. t.incident = Incident
      BY <1>3, <1>5
    <3>3. t.epoch # control.epoch
      BY <3>1, <3>2 DEF Existing
    <3>4. t.built # restarts
      BY <3>1, <3>2 DEF Kept, ApplicationsInv, LivesArePast
    <3>. QED
      BY <1>5, <3>1, <3>3, <3>4
  <2>. QED
    BY <2>1, <2>2
<1>6. NumbersAgree' /\ LivesAgree'
  BY <1>1, <1>5 DEF NumbersAgree, LivesAgree, SameNumber, ApplicationsInv, Made
<1>7. \A t \in Made' : t.built <= restarts
  BY <1>1, <1>2 DEF Made, ApplicationsInv, LivesArePast, TypeOK
<1>8. ASSUME NEW t \in table, t.built = restarts
      PROVE  t \in watch'.pending
  <2>1. t \in watch.pending
    BY <1>8 DEF ApplicationsInv, LivesArePast
  <2>2. CASE t.incident # Incident
    BY <1>1, <2>1, <2>2
  <2>3. CASE t.incident = Incident
    <3>1. t \in Kept
      BY <2>1, <2>3 DEF Kept
    <3>. QED
      BY <1>1, <3>1 DEF Application
  <2>. QED
    BY <2>2, <2>3
<1>. QED
  BY <1>1, <1>4, <1>6, <1>7, <1>8 DEF ApplicationsInv, LivesArePast

\* No step makes two different applications under one number or of one life.
LEMMA ApplicationsStep ==
    ASSUME WatchdogAssumption, TypeOK, ApplicationsInv, [Next]_vars
    PROVE  ApplicationsInv'
<1>1. ASSUME UNCHANGED <<table, restarts>>, watch'.pending = watch.pending
      PROVE  ApplicationsInv'
  BY <1>1, WritingAgrees
<1>2. ASSUME NEW r \in Roles, Beat(r) \/ Stop(r)
      PROVE  ApplicationsInv'
  BY <1>1, <1>2 DEF Beat, Stop
<1>3. ASSUME ReadinessChanges \/ Refuse
      PROVE  ApplicationsInv'
  BY <1>1, <1>3 DEF ReadinessChanges, Refuse
<1>4. ASSUME NEW ours \in BOOLEAN, TakeOver(ours)
      PROVE  ApplicationsInv'
  BY <1>1, <1>4 DEF TakeOver
<1>5. ASSUME NEW readable \in SUBSET Roles, Evaluate(readable)
      PROVE  ApplicationsInv'
  <2>1. watch'.pending = watch.pending
    BY <1>5 DEF Evaluate, TypeOK
  <2>. QED
    BY <1>1, <1>5, <2>1 DEF Evaluate
<1>6. ASSUME Build
      PROVE  ApplicationsInv'
  BY <1>6, BuildAgrees
<1>7. ASSUME Submit
      PROVE  ApplicationsInv'
  BY <1>7, WritingAgrees DEF Submit
<1>8. ASSUME NEW written \in BOOLEAN, SubmitFails(written)
      PROVE  ApplicationsInv'
  <2>1. watch'.pending = watch.pending /\ UNCHANGED restarts
    BY <1>8 DEF SubmitFails, TypeOK
  <2>2. table' = table \/ table' = table \union ToWrite
    BY <1>8 DEF SubmitFails
  <2>. QED
    BY <2>1, <2>2, WritingAgrees
<1>9. ASSUME Restart
      PROVE  ApplicationsInv'
  <2>1. watch'.pending = {} /\ table' = table /\ restarts' = restarts + 1
    BY <1>9 DEF Restart, Fresh
  <2>2. \A t \in table : t.built <= restarts /\ t.built \in Nat /\ restarts \in Nat
    BY DEF TypeOK, Commands, ApplicationsInv, LivesArePast, Made
  <2>. QED
    BY <2>1, <2>2 DEF ApplicationsInv, KeptOnce, NumbersAgree, LivesAgree, LivesArePast, Made,
                      SameNumber
<1>10. CASE UNCHANGED vars
  BY <1>1, <1>10 DEF vars
<1>. QED
  BY <1>2, <1>3, <1>4, <1>5, <1>6, <1>7, <1>8, <1>9, <1>10 DEF Next

-------------------------------------------------------------------------------
\* Applications are told apart by their number and by the life they come from,
\* whatever writes fail, before or after they are durable, and whatever takeovers
\* and restarts of the watchdog come in between.
THEOREM WatchdogCorrect ==
    ASSUME WatchdogAssumption
    PROVE  Spec => [](TypeOK /\ ApplicationsInv)
<1>1. Init => TypeOK
  <2>1. \A r \in Roles : 0 <= Limit(r)
    BY DEF WatchdogAssumption, Limit, Timeout
  <2>2. 0 \in Beats /\ 1 \in 1..MaxEpoch /\ 0 \in 0..MaxRestarts
    BY DEF WatchdogAssumption, Beats
  <2>3. Fresh \in [silent : [Roles -> Nat], last : [Roles -> Beats],
                   seen : [Roles -> BOOLEAN], requested : SUBSET Beats,
                   pending : SUBSET Commands]
    BY <2>2 DEF Fresh, Never
  <2>4. \A r \in Roles : Fresh.silent[r] = 0
    BY DEF Fresh
  <2>5. ASSUME Init
        PROVE  /\ up \in [Roles -> BOOLEAN] /\ ready \in BOOLEAN
               /\ file \in [Roles -> [beat : Beats, ready : BOOLEAN]]
               /\ control \in [epoch : 1..MaxEpoch, ours : BOOLEAN]
    BY <2>2, <2>5 DEF Init, Never
  <2>6. ASSUME Init
        PROVE  /\ table \subseteq Commands /\ pc \in {"evaluate", "build", "submit"}
               /\ restarts \in 0..MaxRestarts /\ refused \subseteq Beats
               /\ watch = Fresh
    BY <2>2, <2>6 DEF Init
  <2>. QED
    BY <2>1, <2>3, <2>4, <2>5, <2>6 DEF TypeOK
<1>2. Init => ApplicationsInv
  BY DEF Init, Fresh, ApplicationsInv, KeptOnce, NumbersAgree, LivesAgree, LivesArePast, Made
<1>3. TypeOK /\ ApplicationsInv /\ [Next]_vars => (TypeOK /\ ApplicationsInv)'
  BY TypeStep, ApplicationsStep
<1>. QED
  BY <1>1, <1>2, <1>3, PTL DEF Spec

\* The table never refuses what the watchdog writes, and one life of it applies
\* once for an incident.
THEOREM AlwaysApplicationsAreSound ==
    ASSUME WatchdogAssumption
    PROVE  Spec => []ApplicationsAreSound
<1>1. ASSUME TypeOK, ApplicationsInv
      PROVE  ApplicationsAreSound
  <2>1. NoConflict
    BY <1>1, WrittenWasKept DEF NoConflict, Conflicting, ApplicationsInv, NumbersAgree, Made
  <2>2. AppliedOnce
    BY <1>1 DEF AppliedOnce, ApplicationsInv, LivesAgree, Made
  <2>. QED
    BY <1>1, <2>1, <2>2 DEF ApplicationsAreSound
<1>2. TypeOK /\ ApplicationsInv => ApplicationsAreSound
  BY <1>1
<1>. QED
  BY <1>2, WatchdogCorrect, PTL

-------------------------------------------------------------------------------
(* What a history amounts to *)

\* A set of positions has a last one.
LEMMA LastExists ==
  ASSUME NEW n \in Nat, NEW at \in SUBSET (1..n), at # {}
  PROVE  \E i \in at : \A j \in at : j <= i
<1> DEFINE below == {n - i : i \in at}
<1>1. below \subseteq Nat
  OBVIOUS
<1>2. below # {}
  <2>1. PICK i \in at : TRUE
    OBVIOUS
  <2>2. n - i \in below
    BY <2>1
  <2> QED BY <2>2
<1>3. PICK m \in below : \A k \in below : ~(<<k, m>> \in OpToRel(<, Nat))
  <2> HIDE DEF below
  <2> QED BY <1>1, <1>2, NatLessThanWellFounded, WFMin
<1>4. PICK i \in at : m = n - i
  OBVIOUS
<1>5. ASSUME NEW j \in at PROVE j <= i
  <2>1. n - j \in below /\ n - j \in Nat /\ n - i \in Nat
    OBVIOUS
  <2>2. ~(n - j < n - i)
    BY <1>3, <1>4, <2>1 DEF OpToRel
  <2> QED BY <2>1, <2>2
<1> QED BY <1>5

\* The last of some positions is the new one if it is among them, and is the one it
\* was otherwise.
LEMMA LastAppended ==
  ASSUME NEW T, NEW h \in Seq(T), NEW tx \in T, NEW at \in SUBSET (1..Len(h))
  PROVE  /\ Store!LastOf(Append(h, tx), at \union {Len(h) + 1}) = tx
         /\ at # {} => Store!LastOf(Append(h, tx), at) = Store!LastOf(h, at)
<1> DEFINE n == Len(h)
           h2 == Append(h, tx)
<1>1. n \in Nat /\ h2[n + 1] = tx /\ \A i \in 1..n : h2[i] = h[i]
  OBVIOUS
<1>2. Store!LastOf(h2, at \union {n + 1}) = tx
  <2> DEFINE all == at \union {n + 1}
  <2>1. n + 1 \in all /\ \A j \in all : j <= n + 1
    BY <1>1
  <2>2. \A i \in all : (\A j \in all : j <= i) => i = n + 1
    BY <1>1
  <2>3. (CHOOSE i \in all : \A j \in all : j <= i) = n + 1
    <3> HIDE DEF all
    <3> QED BY <2>1, <2>2
  <2> QED BY <1>1, <2>3 DEF Store!LastOf
<1>3. ASSUME at # {} PROVE Store!LastOf(h2, at) = Store!LastOf(h, at)
  <2>1. (CHOOSE i \in at : \A j \in at : j <= i) \in at
    BY <1>1, <1>3, LastExists
  <2> HIDE DEF h2, n
  <2> QED BY <1>1, <2>1 DEF Store!LastOf, n
<1> QED BY <1>2, <1>3

\* A history with one more transaction amounts to what it did, with that written.
LEMMA AmountAppended ==
  ASSUME NEW T, NEW h \in Seq(T), NEW tx \in T
  PROVE  Store!Amount(Append(h, tx)) = Store!Written(Store!Amount(h), tx)
<1> DEFINE n == Len(h)
           h2 == Append(h, tx)
           new == DOMAIN tx.updates
<1>1. /\ n \in Nat /\ DOMAIN h = 1..n /\ Len(h2) = n + 1 /\ DOMAIN h2 = (1..n) \union {n + 1}
      /\ h2[n + 1] = tx /\ \A i \in 1..n : h2[i] = h[i] /\ i # n + 1
  OBVIOUS
<1>0. ASSUME NEW at \in SUBSET (1..n)
      PROVE  /\ Store!LastOf(h2, at \union {n + 1}) = tx
             /\ at # {} => Store!LastOf(h2, at) = Store!LastOf(h, at)
  BY LastAppended
<1>2. ASSUME NEW k
      PROVE  /\ Store!Naming(h, k) \in SUBSET (1..n)
             /\ Store!Naming(h2, k) = IF k \in new THEN Store!Naming(h, k) \union {n + 1} ELSE Store!Naming(h, k)
  BY <1>1 DEF Store!Naming
<1>3. Store!Named(h2) = Store!Named(h) \union new
  BY <1>1 DEF Store!Named
<1>4. ASSUME NEW k \in Store!Named(h2)
      PROVE  Store!Latest(h2, k) = IF k \in new THEN tx.updates[k] ELSE Store!Latest(h, k)
  <2>1. CASE k \in new
    <3>1. Store!Naming(h2, k) = Store!Naming(h, k) \union {n + 1}
      BY <1>2, <2>1
    <3> HIDE DEF h2
    <3>2. Store!LastOf(h2, Store!Naming(h2, k)) = tx
      <4> HIDE DEF n
      <4> QED BY <1>0, <1>2, <3>1
    <3> QED BY <2>1, <3>2 DEF Store!Latest
  <2>2. CASE k \notin new
    <3>1. Store!Naming(h2, k) = Store!Naming(h, k)
      BY <1>2, <2>2
    <3>2. Store!Naming(h, k) # {}
      BY <1>3, <2>2 DEF Store!Naming, Store!Named
    <3>3. Store!LastOf(h2, Store!Naming(h2, k)) = Store!LastOf(h, Store!Naming(h, k))
      BY <1>0, <1>2, <3>1, <3>2
    <3> HIDE DEF h2
    <3> QED BY <2>2, <3>3 DEF Store!Latest
  <2> QED BY <2>1, <2>2
<1>5. Store!Amount(h2).state = Store!Updated(Store!Amount(h).state, tx.updates)
  <2> DEFINE old == Store!Amount(h).state
             all == Store!KeptNone(old, tx.updates)
             kept == {k \in Store!Named(h2) : Store!Latest(h2, k) # Store!Gone}
  <2>1. /\ DOMAIN old = {k \in Store!Named(h) : Store!Latest(h, k) # Store!Gone}
        /\ \A k \in DOMAIN old : old[k] = Store!Latest(h, k)
    BY DEF Store!Amount
  <2>2. /\ DOMAIN all = new \union DOMAIN old
        /\ \A k \in DOMAIN all : all[k] = IF k \in new THEN tx.updates[k] ELSE old[k]
    <3> HIDE DEF old
    <3> QED BY DEF Store!KeptNone
  <2> HIDE DEF old, all, h2, new
  <2>3. kept = {k \in DOMAIN all : all[k] # Store!Gone} /\ \A k \in kept : Store!Latest(h2, k) = all[k]
    BY <1>3, <1>4, <2>1, <2>2
  <2>4. Store!Amount(h2).state = [k \in kept |-> Store!Latest(h2, k)]
    BY DEF Store!Amount
  <2> QED BY <2>3, <2>4 DEF Store!Updated, all, old
<1>6. Store!Amount(h2).trades = Store!Amount(h).trades \union tx.trades
  <2>1. UNION {h2[i].trades : i \in DOMAIN h2} = (UNION {h[i].trades : i \in DOMAIN h}) \union tx.trades
    BY <1>1
  <2> HIDE DEF h2
  <2> QED BY <2>1 DEF Store!Amount
<1>7. Store!Amount(h2).control = IF tx.control = 0 THEN Store!Amount(h).control ELSE tx.control
  <2>1. /\ Store!Takeovers(h) \in SUBSET (1..n)
        /\ Store!Takeovers(h2) = IF tx.control # 0 THEN Store!Takeovers(h) \union {n + 1} ELSE Store!Takeovers(h)
    BY <1>1 DEF Store!Takeovers
  <2>2. CASE tx.control # 0
    <3>1. Store!LastOf(h2, Store!Takeovers(h2)) = tx
      BY <1>0, <2>1, <2>2
    <3> HIDE DEF h2
    <3> QED BY <2>1, <2>2, <3>1 DEF Store!Amount
  <2>3. CASE tx.control = 0
    <3>1. Store!Takeovers(h2) # {} => Store!LastOf(h2, Store!Takeovers(h2)) = Store!LastOf(h, Store!Takeovers(h))
      BY <1>0, <2>1, <2>3
    <3> HIDE DEF h2
    <3> QED BY <2>1, <2>3, <3>1 DEF Store!Amount
  <2> QED BY <2>2, <2>3
<1>8. Store!Amount(h2).seq = Store!Amount(h).seq + 1
  <2> HIDE DEF h2
  <2> QED BY <1>1 DEF Store!Amount
<1> HIDE DEF h2
<1>9. Store!Amount(h2) = [seq |-> Store!Amount(h2).seq, state |-> Store!Amount(h2).state, trades |-> Store!Amount(h2).trades,
                    control |-> Store!Amount(h2).control]
  BY DEF Store!Amount
<1> QED BY <1>5, <1>6, <1>7, <1>8, <1>9 DEF Store!Written, h2

\* Nothing amounts to empty tables.
LEMMA AmountEmpty == Store!Amount(<<>>) = Store!Empty
<1>1. Store!Named(<<>>) = {} /\ Store!Takeovers(<<>>) = {} /\ UNION {<<>>[i].trades : i \in DOMAIN <<>>} = {}
  BY DEF Store!Named, Store!Takeovers
<1>2. [k \in {k \in Store!Named(<<>>) : Store!Latest(<<>>, k) # Store!Gone} |-> Store!Latest(<<>>, k)] = <<>>
  BY <1>1
<1> QED BY <1>1, <1>2 DEF Store!Amount, Store!Empty

\* What is appended leaves the beginning as it was.
LEMMA Beginnings ==
  ASSUME NEW T, NEW h \in Seq(T), NEW tx \in T, NEW n \in 0..Len(h)
  PROVE  /\ SubSeq(Append(h, tx), 1, n) = SubSeq(h, 1, n)
         /\ SubSeq(h, 1, Len(h)) = h
  BY SubSeqProperties

-------------------------------------------------------------------------------
(* The inductive invariant, in parts *)

\* The projections and the checkpoint in memory are what the journal amounts to; a
\* snapshot is what its beginning amounted to.
ProjectionsInv ==
    /\ tables = Store!Amount(journal) /\ tables.control \in Nat
    /\ cached \in {Store!Nothing, tables}
    /\ \A n \in DOMAIN snapshots : snapshots[n] = Store!Amount(SubSeq(journal, 1, n))

\* What a journal says of a command, and the entry of a command that agrees with it.
StepsIn(h, id) == {i \in DOMAIN h : h[i].step # Store!Nothing /\ h[i].step.queued.id = id}
EntryStepped(h, e) ==
    LET steps == StepsIn(h, e.id) IN
    /\ \A i \in steps : i <= e.processed
    /\ IF steps = {} THEN e.status = "pending" /\ e.processed = 0
       ELSE e.processed \in steps /\ h[e.processed].step.status = e.status
    /\ \A i, j \in steps : i < j =>
           h[i].step.status = "dispatching" /\ h[j].step.status \in {"not sent", "sent unknown"}

\* A command is queued once, its steps are of the queue, and who was told finds it.
QueueInv ==
    /\ \A q \in DOMAIN queue : EntryStepped(journal, queue[q])
    /\ \A p, q \in DOMAIN queue : queue[p].id = queue[q].id => p = q
    /\ \A i \in DOMAIN journal : journal[i].step # Store!Nothing =>
           \E q \in DOMAIN queue : queue[q].id = journal[i].step.queued.id
    /\ \A told \in accepted : \E q \in DOMAIN queue : queue[q].id = told[1] /\ queue[q].body = told[2]

\* A step is one that may be taken from what the command was when it was staged.
StagedInv ==
    staged # Store!Nothing /\ staged.step # Store!Nothing => staged.step.status \in Store!Allowed(staged.step.queued.status)
StepsInv == \A i \in DOMAIN journal : journal[i].step # Store!Nothing => journal[i].step.status # "pending"

StoreInv == Store!StoreTypeOK /\ ProjectionsInv /\ QueueInv /\ StagedInv /\ StepsInv /\ Store!SubscriberIsTold

\* It is what the property says, seen from the entries of the queue.
LEMMA InvIsOneHistory == ASSUME StoreInv PROVE Store!StoreIsOneHistory
<1>1. Store!ProjectionsAreHistory
  <2>1. SubSeq(journal, 1, Len(journal)) = journal
    BY SubSeqFull DEF StoreInv, Store!StoreTypeOK
  <2>2. Store!Checkpoint = tables
    BY DEF StoreInv, ProjectionsInv, Store!Checkpoint, Store!Committed
  <2> QED BY <2>1, <2>2 DEF StoreInv, ProjectionsInv, Store!ProjectionsAreHistory, Store!Replayed
<1>2. Store!CommandsAreStepped
  BY DEF StoreInv, QueueInv, EntryStepped, StepsIn, Store!CommandsAreStepped, Store!StepsOf
<1> QED BY <1>1, <1>2 DEF StoreInv, Store!StoreIsOneHistory

-------------------------------------------------------------------------------
(* A transaction is written *)

\* It says nothing of the other commands.
LEMMA EntryKept ==
  ASSUME NEW T, NEW h \in Seq(T), NEW tx \in T, NEW e, EntryStepped(h, e),
         tx.step = Store!Nothing \/ tx.step.queued.id # e.id
  PROVE  EntryStepped(Append(h, tx), e)
<1> DEFINE h2 == Append(h, tx)
<1>1. /\ Len(h) \in Nat /\ DOMAIN h = 1..Len(h) /\ DOMAIN h2 = (1..Len(h)) \union {Len(h) + 1}
      /\ h2[Len(h) + 1] = tx /\ \A i \in 1..Len(h) : h2[i] = h[i]
  OBVIOUS
<1>2. StepsIn(h2, e.id) = StepsIn(h, e.id) /\ StepsIn(h, e.id) \subseteq 1..Len(h)
  BY <1>1 DEF StepsIn
<1> HIDE DEF h2
<1>3. \A i \in StepsIn(h2, e.id) : h2[i] = h[i]
  BY <1>1, <1>2
<1> QED BY <1>2, <1>3 DEF EntryStepped, h2

\* The first step of a command is from "pending", the second from "dispatching", and
\* there is no third.
LEMMA EntryAdvanced ==
  ASSUME NEW T, NEW h \in Seq(T), NEW tx \in T, NEW e, NEW e2, EntryStepped(h, e),
         tx.step # Store!Nothing, tx.step.queued = e, tx.step.status \in Store!Allowed(e.status),
         \A i \in DOMAIN h : h[i].step # Store!Nothing => h[i].step.status # "pending",
         e2.id = e.id, e2.status = tx.step.status, e2.processed = Len(h) + 1
  PROVE  EntryStepped(Append(h, tx), e2)
<1> DEFINE h2 == Append(h, tx)
           n == Len(h) + 1
           old == StepsIn(h, e.id)
<1>1. /\ Len(h) \in Nat /\ n \in Nat /\ DOMAIN h = 1..Len(h) /\ DOMAIN h2 = (1..Len(h)) \union {n}
      /\ h2[n] = tx /\ \A i \in 1..Len(h) : h2[i] = h[i] /\ i < n
  OBVIOUS
<1>2. StepsIn(h2, e2.id) = old \union {n} /\ old \subseteq 1..Len(h)
  BY <1>1 DEF StepsIn
<1>3. \A i \in old : h[i].step.status # "pending"
  BY DEF StepsIn
<1>4. \/ old = {}
      \/ /\ old = {e.processed} /\ h[e.processed].step.status = "dispatching"
         /\ tx.step.status \in {"not sent", "sent unknown"}
  <2>1. ASSUME old # {}
        PROVE  /\ e.processed \in old /\ h[e.processed].step.status = "dispatching"
               /\ e.status = "dispatching"
    <3>1. e.processed \in old /\ h[e.processed].step.status = e.status
      BY <2>1 DEF EntryStepped
    <3>2. e.status # "pending"
      BY <1>3, <3>1
    <3> QED BY <3>1, <3>2 DEF Store!Allowed
  <2>2. ASSUME NEW i \in old PROVE i = e.processed
    <3>1. /\ e.processed \in old /\ h[e.processed].step.status = "dispatching"
          /\ i <= e.processed /\ i \in 1..Len(h) /\ e.processed \in 1..Len(h)
      BY <1>2, <2>1 DEF EntryStepped
    <3>2. ~(i < e.processed)
      BY <3>1 DEF EntryStepped
    <3> QED BY <3>1, <3>2
  <2>3. old # {} => tx.step.status \in {"not sent", "sent unknown"}
    BY <2>1 DEF Store!Allowed
  <2> QED BY <2>1, <2>2, <2>3
<1> HIDE DEF h2, n, old
<1>5. \A i \in old \union {n} : i <= n
  BY <1>1, <1>2
<1>6. h2[n].step.status = e2.status
  BY <1>1
<1>7. ASSUME NEW i \in old \union {n}, NEW j \in old \union {n}, i < j
      PROVE  h2[i].step.status = "dispatching" /\ h2[j].step.status \in {"not sent", "sent unknown"}
  <2>1. i = e.processed /\ j = n /\ old = {e.processed}
    <3>1. old = {} \/ old = {e.processed}
      BY <1>4
    <3>2. \A k \in old : k \in Nat /\ k < n
      BY <1>1, <1>2
    <3>3. j # n => FALSE
      <4>1. CASE old = {}
        BY <1>7, <4>1
      <4>2. CASE old = {e.processed}
        <5>1. j # n => j = e.processed /\ i = n
          BY <1>7, <3>2, <4>2
        <5> QED BY <1>1, <1>7, <3>2, <4>2, <5>1
      <4> QED BY <3>1, <4>1, <4>2
    <3>4. i # n
      BY <1>1, <1>7, <3>3
    <3> QED BY <1>7, <3>1, <3>3, <3>4
  <2>2. h2[i] = h[i]
    BY <1>1, <1>2, <2>1
  <2> QED BY <1>1, <1>4, <2>1, <2>2
<1>8. e2.processed = n
  BY DEF n
<1>9. EntryStepped(h2, e2)
  BY <1>2, <1>5, <1>6, <1>7, <1>8 DEF EntryStepped
<1> QED BY <1>9 DEF h2

\* The transaction, its projections and the step of its command are one write.
LEMMA WriteKeeps ==
  ASSUME StoreInv, staged # Store!Nothing, Store!Fits(staged),
         journal' = Append(journal, staged), tables' = Store!Written(tables, staged),
         queue' = Store!Acknowledged(staged, tables.seq + 1),
         UNCHANGED <<snapshots, accepted, heard>>, staged' = Store!Nothing,
         cached' \in {Store!Nothing, tables'}, owner' \in {owner, Store!Nobody}
  PROVE  StoreInv'
<1> DEFINE n == Len(journal)
<1>1. /\ journal \in Seq(Store!Transactions) /\ staged \in Store!Transactions /\ n \in Nat
      /\ DOMAIN journal = 1..n /\ Len(journal') = n + 1 /\ DOMAIN journal' = (1..n) \union {n + 1}
      /\ journal' \in Seq(Store!Transactions) /\ journal'[n + 1] = staged
      /\ \A i \in 1..n : journal'[i] = journal[i]
      /\ queue \in Seq(Store!Entries)
  BY DEF StoreInv, Store!StoreTypeOK
<1>2. tables.seq = n
  BY DEF StoreInv, ProjectionsInv, Store!Amount
<1>3. ProjectionsInv'
  <2>1. tables' = Store!Amount(journal')
    BY <1>1, AmountAppended DEF StoreInv, ProjectionsInv
  <2>2. tables'.control \in Nat
    <3>1. staged.control \in Nat /\ tables.control \in Nat
      BY <1>1 DEF Store!Transactions, StoreInv, ProjectionsInv
    <3> QED BY <3>1 DEF Store!Written
  <2>3. ASSUME NEW m \in DOMAIN snapshots'
        PROVE  snapshots'[m] = Store!Amount(SubSeq(journal', 1, m))
    <3>1. m \in 0..n /\ snapshots[m] = Store!Amount(SubSeq(journal, 1, m))
      BY DEF StoreInv, Store!StoreTypeOK, ProjectionsInv
    <3>2. SubSeq(journal', 1, m) = SubSeq(journal, 1, m)
      BY <1>1, <3>1, Beginnings
    <3> QED BY <3>1, <3>2
  <2> QED BY <2>1, <2>2, <2>3 DEF ProjectionsInv
<1>4. QueueInv' /\ queue' \in Seq(Store!Entries)
  <2>1. CASE staged.step = Store!Nothing
    <3>1. queue' = queue
      BY <2>1 DEF Store!Acknowledged
    <3>2. \A q \in DOMAIN queue : EntryStepped(journal', queue[q])
      BY <1>1, <2>1, EntryKept DEF StoreInv, QueueInv
    <3>3. \A i \in DOMAIN journal' : journal'[i].step # Store!Nothing =>
              \E q \in DOMAIN queue : queue[q].id = journal'[i].step.queued.id
      BY <1>1, <2>1 DEF StoreInv, QueueInv
    <3> QED BY <1>1, <3>1, <3>2, <3>3 DEF StoreInv, QueueInv
  <2>2. CASE staged.step # Store!Nothing
    <3> DEFINE e == staged.step.queued
               e2 == [e EXCEPT !.status = staged.step.status, !.processed = n + 1]
    <3>1. PICK p \in DOMAIN queue : queue[p] = e
      BY <2>2 DEF Store!Fits
    <3>2. staged.step \in [queued : Store!Entries, status : Store!Statuses]
      BY <1>1, <2>2 DEF Store!Transactions
    <3>3. e \in Store!Entries /\ staged.step.status \in Store!Statuses
      BY <3>2
    <3>4. e2 = [id |-> e.id, body |-> e.body, status |-> staged.step.status, processed |-> n + 1]
      <4> DEFINE y == [e EXCEPT !.status = staged.step.status]
      <4>1. y = [id |-> e.id, body |-> e.body, status |-> staged.step.status, processed |-> e.processed]
        BY <3>3 DEF Store!Entries
      <4>2. e2 = [y EXCEPT !.processed = n + 1]
        OBVIOUS
      <4> HIDE DEF y, e, e2
      <4> QED BY <4>1, <4>2
    <3>5. Store!PositionOf(e.id) = p
      BY <3>1 DEF Store!PositionOf, StoreInv, QueueInv
    <3>6. queue' = [queue EXCEPT ![p] = e2]
      <4>1. queue' = [queue EXCEPT ![p].status = staged.step.status, ![p].processed = n + 1]
        BY <1>2, <2>2, <3>5 DEF Store!Acknowledged
      <4> QED BY <3>1, <4>1
    <3> HIDE DEF e2
    <3>7. e2 \in Store!Entries
      BY <1>1, <3>3, <3>4 DEF Store!Entries
    <3>8. queue' \in Seq(Store!Entries) /\ DOMAIN queue' = DOMAIN queue /\ queue'[p] = e2
          /\ \A q \in DOMAIN queue \ {p} : queue'[q] = queue[q]
      <4> HIDE DEF e
      <4>1. p \in 1..Len(queue) /\ queue \in Seq(Store!Entries)
        BY <1>1, <3>1
      <4>2. queue' \in Seq(Store!Entries) /\ Len(queue') = Len(queue)
        BY <3>6, <3>7, <4>1, ExceptSeq
      <4> QED BY <3>6, <4>1, <4>2
    <3>9. ASSUME NEW q \in DOMAIN queue PROVE EntryStepped(journal', queue'[q])
      <4>1. EntryStepped(journal, queue[q])
        BY DEF StoreInv, QueueInv
      <4>2. CASE q = p
        <5>1. e2.id = e.id /\ e2.status = staged.step.status /\ e2.processed = n + 1
          BY <3>4
        <5>2. staged.step.status \in Store!Allowed(e.status)
          BY <2>2 DEF StoreInv, StagedInv
        <5>3. EntryStepped(Append(journal, staged), e2)
          <6>1. \A i \in DOMAIN journal : journal[i].step # Store!Nothing => journal[i].step.status # "pending"
            BY DEF StoreInv, StepsInv
          <6>2. EntryStepped(journal, e)
            BY <3>1, <4>1, <4>2
          <6>3. staged.step.queued = e
            OBVIOUS
          <6>4. e2.processed = Len(journal) + 1
            BY <5>1
          <6> HIDE DEF e, n
          <6>5. journal \in Seq(Store!Transactions) /\ staged \in Store!Transactions
            BY <1>1
          <6> QED BY <2>2, <5>1, <5>2, <6>1, <6>2, <6>3, <6>4, <6>5, EntryAdvanced, Zenon
        <5> QED BY <3>8, <4>2, <5>3
      <4>3. CASE q # p
        <5>1. e.id # queue[q].id
          BY <3>1, <4>3 DEF StoreInv, QueueInv
        <5> HIDE DEF e
        <5> QED BY <1>1, <3>8, <4>1, <4>3, <5>1, EntryKept DEF e
      <4> QED BY <4>2, <4>3
    <3>10. \A q \in DOMAIN queue : queue'[q].id = queue[q].id /\ queue'[q].body = queue[q].body
      BY <3>1, <3>4, <3>8
    <3>11. \A i \in DOMAIN journal' : journal'[i].step # Store!Nothing =>
               \E q \in DOMAIN queue : queue[q].id = journal'[i].step.queued.id
      BY <1>1, <3>1 DEF StoreInv, QueueInv
    <3> QED BY <3>8, <3>9, <3>10, <3>11 DEF StoreInv, QueueInv
  <2> QED BY <2>1, <2>2
<1>5. StepsInv'
  <2>1. staged.step # Store!Nothing => staged.step.status # "pending"
    BY DEF StoreInv, StagedInv, Store!Allowed
  <2> QED BY <1>1, <2>1 DEF StoreInv, StepsInv
<1>6. Store!SubscriberIsTold'
  <2>1. heard.cursor \in 0..n /\ DOMAIN heard.events = 1..heard.cursor
    BY DEF StoreInv, Store!StoreTypeOK, Store!SubscriberIsTold
  <2> QED BY <1>1, <2>1 DEF StoreInv, Store!SubscriberIsTold
<1>7. Store!StoreTypeOK'
  BY <1>1, <1>4 DEF StoreInv, Store!StoreTypeOK
<1>8. StagedInv'
  BY DEF StagedInv
<1> QED BY <1>3, <1>4, <1>5, <1>6, <1>7, <1>8 DEF StoreInv

-------------------------------------------------------------------------------
(* The executor *)

\* Nothing is written: what changes is who owns the database, what it is about to
\* write and whether it has a checkpoint.
LEMMA NothingWritten ==
  ASSUME StoreInv, UNCHANGED <<journal, tables, queue, snapshots, accepted, heard>>,
         cached' \in {Store!Nothing, tables}, owner' \in Executors \union {Store!Nobody},
         staged' \in Store!Transactions \union {Store!Nothing}, StagedInv'
  PROVE  StoreInv'
<1>1. Store!StoreTypeOK'
  BY DEF StoreInv, Store!StoreTypeOK
<1>2. ProjectionsInv'
  BY DEF StoreInv, ProjectionsInv
<1>3. QueueInv' /\ StepsInv' /\ Store!SubscriberIsTold'
  BY DEF StoreInv, QueueInv, StepsInv, Store!SubscriberIsTold
<1> QED BY <1>1, <1>2, <1>3 DEF StoreInv

LEMMA OwnersKeep ==
  ASSUME StoreInv, Store!Die \/ Store!CommitFails \/ \E e \in Executors : Store!Open(e)
  PROVE  StoreInv'
<1>1. /\ UNCHANGED <<journal, tables, queue, snapshots, accepted, heard>>
      /\ cached' = Store!Nothing /\ staged' = Store!Nothing /\ owner' \in Executors \union {Store!Nobody}
  BY DEF Store!Die, Store!CommitFails, Store!Open, StoreInv, Store!StoreTypeOK
<1> QED BY <1>1, NothingWritten DEF StagedInv

\* The head of the queue is one of it.
LEMMA FirstExists ==
  ASSUME NEW n \in Nat, NEW at \in SUBSET (1..n), at # {}
  PROVE  \E i \in at : \A j \in at : i <= j
<1>1. at \subseteq Nat
  OBVIOUS
<1>2. PICK m \in at : \A k \in at : ~(<<k, m>> \in OpToRel(<, Nat))
  BY <1>1, NatLessThanWellFounded, WFMin
<1>3. ASSUME NEW j \in at PROVE m <= j
  <2>1. ~(j < m)
    BY <1>1, <1>2 DEF OpToRel
  <2> QED BY <1>1, <2>1
<1> QED BY <1>3

\* A step is of a command that is queued, and one that may be taken.
LEMMA StepIsAllowed ==
  ASSUME StoreInv, NEW step \in Store!Steps \union Store!Applications
  PROVE  step \in [queued : Store!Entries, status : Store!Statuses] /\ step.status \in Store!Allowed(step.queued.status)
<1>1. queue \in Seq(Store!Entries) /\ Len(queue) \in Nat /\ DOMAIN queue = 1..Len(queue)
  BY DEF StoreInv, Store!StoreTypeOK
<1>2. Store!Pending # {} => Store!NextPending \in Store!Pending
  <2>1. Store!Pending \in SUBSET (1..Len(queue))
    BY <1>1 DEF Store!Pending
  <2> QED BY <1>1, <2>1, FirstExists DEF Store!NextPending
<1>3. \E i \in DOMAIN queue : \E s \in Store!Allowed(queue[i].status) : step = [queued |-> queue[i], status |-> s]
  <2>1. CASE step \in Store!Steps
    BY <1>2, <2>1 DEF Store!Steps, Store!Pending
  <2>2. CASE step \in Store!Applications
    <3>1. PICK i \in DOMAIN queue : queue[i].status = "pending" /\ step = [queued |-> queue[i], status |-> "completed"]
      BY <2>2 DEF Store!Applications
    <3>2. "completed" \in Store!Allowed("pending")
      BY DEF Store!Allowed
    <3> QED BY <3>1, <3>2
  <2> QED BY <2>1, <2>2
<1>4. PICK i \in DOMAIN queue : \E s \in Store!Allowed(queue[i].status) : step = [queued |-> queue[i], status |-> s]
  BY <1>3
<1>5. PICK s \in Store!Allowed(queue[i].status) : step = [queued |-> queue[i], status |-> s]
  BY <1>4
<1>6. s \in Store!Statuses
  BY DEF Store!Allowed, Store!Statuses
<1>7. queue[i] \in Store!Entries
  BY <1>1
<1> HIDE DEF Store!Entries, Store!Statuses
<1> QED BY <1>5, <1>6, <1>7

\* A transaction is made from what the tables hold.
LEMMA TransactionIsOne ==
  ASSUME StoreInv, NEW facts \in SUBSET {"f"}, NEW number \in Nat,
         NEW updates \in {<<>>, [k |-> 1, l |-> 1], [k |-> 0]},
         NEW step \in Store!Steps \union Store!Applications \union {Store!Nothing},
         staged' = Store!Transaction(facts, updates, step, number)
  PROVE  staged' \in Store!Transactions /\ StagedInv'
<1>1. Store!Checkpoint = tables
  BY DEF StoreInv, ProjectionsInv, Store!Checkpoint, Store!Committed
<1>2. tables.seq \in Nat /\ tables.control \in Nat
  BY DEF StoreInv, Store!StoreTypeOK, ProjectionsInv, Store!Amount
<1> DEFINE event == [facts |-> facts, made |-> IF facts = {} THEN tables.seq + 1 ELSE 0]
<1>3. staged' = [event |-> event, updates |-> updates, trades |-> facts, control |-> number,
                 before |-> tables.seq, expected |-> tables.control, step |-> step]
  BY <1>1 DEF Store!Transaction
<1>4. step # Store!Nothing => /\ step \in [queued : Store!Entries, status : Store!Statuses]
                        /\ step.status \in Store!Allowed(step.queued.status)
  BY StepIsAllowed
<1>5. event \in Store!Events
  BY <1>2 DEF Store!Events
<1> HIDE DEF event
<1>6. staged' \in Store!Transactions
  BY <1>2, <1>3, <1>4, <1>5 DEF Store!Transactions
<1>7. staged'.step = step
  BY <1>3
<1>8. StagedInv'
  BY <1>4, <1>7 DEF StagedInv
<1> QED BY <1>6, <1>8

LEMMA StageKeeps ==
  ASSUME StoreInv, Store!Stage
  PROVE  StoreInv'
<1>1. Store!Checkpoint = tables
  BY DEF StoreInv, ProjectionsInv, Store!Checkpoint, Store!Committed
<1>2. /\ UNCHANGED <<journal, tables, queue, snapshots, owner, accepted, heard>> /\ cached' = tables
      /\ owner \in Executors \union {Store!Nobody}
  BY <1>1 DEF Store!Stage, StoreInv, Store!StoreTypeOK
<1>3. ASSUME NEW updates \in {<<>>, [k |-> 1, l |-> 1], [k |-> 0]},
             staged' = Store!Transaction({"f"}, updates, Store!Nothing, 0)
      PROVE  staged' \in Store!Transactions /\ StagedInv'
  BY <1>3, TransactionIsOne
<1>4. ASSUME NEW step \in Store!Steps, staged' = Store!Transaction({}, <<>>, step, 0)
      PROVE  staged' \in Store!Transactions /\ StagedInv'
  BY <1>4, TransactionIsOne
<1>5. ASSUME NEW step \in Store!Applications \union {Store!Nothing},
             staged' = Store!Transaction({}, <<>>, step, Store!Checkpoint.control + 1)
      PROVE  staged' \in Store!Transactions /\ StagedInv'
  <2>1. Store!Checkpoint.control + 1 \in Nat
    BY <1>1 DEF StoreInv, ProjectionsInv
  <2> QED BY <1>5, <2>1, TransactionIsOne
<1>6. staged' \in Store!Transactions /\ StagedInv'
  BY <1>3, <1>4, <1>5 DEF Store!Stage
<1> QED BY <1>2, <1>6, NothingWritten

\* The process is told of what it wrote, or dies before.
LEMMA CommitsKeep ==
  ASSUME StoreInv, Store!Commit \/ Store!CommitUnanswered
  PROVE  StoreInv'
<1>1. /\ staged # Store!Nothing /\ Store!Fits(staged) /\ journal' = Append(journal, staged)
      /\ tables' = Store!Written(tables, staged) /\ queue' = Store!Acknowledged(staged, tables.seq + 1)
      /\ UNCHANGED <<snapshots, accepted, heard>> /\ staged' = Store!Nothing /\ owner' \in {owner, Store!Nobody}
  BY DEF Store!Commit, Store!CommitUnanswered
<1>2. cached' \in {Store!Nothing, tables'}
  BY DEF Store!Commit, Store!CommitUnanswered, Store!Advanced, StoreInv, ProjectionsInv
<1> QED BY <1>1, <1>2, WriteKeeps

LEMMA SnapshotKeeps ==
  ASSUME StoreInv, NEW n \in 0..MaxTransactions, Store!Snapshot(n)
  PROVE  StoreInv'
<1>1. /\ UNCHANGED <<journal, tables, queue, owner, cached, staged, accepted, heard>>
      /\ snapshots' = [m \in DOMAIN snapshots \union {n} |-> IF m = n THEN Store!Replayed(n) ELSE snapshots[m]]
  BY DEF Store!Snapshot
<1>2. n \in 0..Len(journal)
  BY DEF Store!Snapshot, StoreInv, Store!StoreTypeOK, ProjectionsInv, Store!Amount
<1>3. DOMAIN snapshots' = DOMAIN snapshots \union {n}
  BY <1>1
<1>4. Store!StoreTypeOK'
  BY <1>1, <1>2, <1>3 DEF StoreInv, Store!StoreTypeOK
<1>5. \A m \in DOMAIN snapshots' : snapshots'[m] = Store!Amount(SubSeq(journal, 1, m))
  BY <1>1, <1>3 DEF Store!Replayed, StoreInv, ProjectionsInv
<1>6. ProjectionsInv'
  BY <1>1, <1>5 DEF StoreInv, ProjectionsInv
<1>7. QueueInv' /\ StagedInv' /\ StepsInv' /\ Store!SubscriberIsTold'
  BY <1>1 DEF StoreInv, QueueInv, StagedInv, StepsInv, Store!SubscriberIsTold
<1> QED BY <1>4, <1>6, <1>7 DEF StoreInv

-------------------------------------------------------------------------------
(* Clients *)

\* A command that is not in the queue has had no step.
LEMMA SubmitKeeps ==
  ASSUME StoreInv, NEW id \in Store!Ids, Store!Submit(id)
  PROVE  StoreInv'
<1>1. PICK body \in [c |-> {1, 2}, t |-> {1}][id] :
          /\ queue' = Store!Inserted(id, body)
          /\ accepted' = IF \E i \in DOMAIN queue' : queue'[i].id = id /\ queue'[i].body = body
                         THEN accepted \union {<<id, body>>} ELSE accepted
          /\ UNCHANGED <<journal, tables, snapshots, owner, cached, staged, heard>>
  BY DEF Store!Submit
<1> DEFINE e == [id |-> id, body |-> body, status |-> "pending", processed |-> 0]
<1>2. e \in Store!Entries
  BY DEF Store!Entries, Store!Statuses, Store!Ids
<1>3. queue \in Seq(Store!Entries)
  BY DEF StoreInv, Store!StoreTypeOK
<1>4. /\ queue' \in Seq(Store!Entries) /\ \A q \in DOMAIN queue : q \in DOMAIN queue' /\ queue'[q] = queue[q]
      /\ \A q \in DOMAIN queue' : EntryStepped(journal, queue'[q])
      /\ \A p, q \in DOMAIN queue' : queue'[p].id = queue'[q].id => p = q
  <2>1. CASE \E i \in DOMAIN queue : queue[i].id = id
    <3>1. queue' = queue
      BY <1>1, <2>1 DEF Store!Inserted
    <3> QED BY <1>3, <3>1 DEF StoreInv, QueueInv
  <2>2. CASE ~\E i \in DOMAIN queue : queue[i].id = id
    <3>1. queue' = Append(queue, e)
      BY <1>1, <2>2 DEF Store!Inserted
    <3>2. StepsIn(journal, id) = {}
      BY <2>2 DEF StepsIn, StoreInv, QueueInv
    <3>3. EntryStepped(journal, e)
      BY <3>2 DEF EntryStepped
    <3>4. e.id = id
      OBVIOUS
    <3> HIDE DEF e
    <3>5. /\ Len(queue) \in Nat /\ DOMAIN queue = 1..Len(queue) /\ Len(queue) + 1 \notin DOMAIN queue
          /\ queue' \in Seq(Store!Entries) /\ DOMAIN queue' = DOMAIN queue \union {Len(queue) + 1}
          /\ queue'[Len(queue) + 1] = e /\ \A q \in DOMAIN queue : queue'[q] = queue[q]
      BY <1>2, <1>3, <3>1
    <3> QED BY <2>2, <3>3, <3>4, <3>5 DEF StoreInv, QueueInv
  <2> QED BY <2>1, <2>2
<1> HIDE DEF e
<1>5. QueueInv'
  <2>1. \A told \in accepted' : \E q \in DOMAIN queue' : queue'[q].id = told[1] /\ queue'[q].body = told[2]
    <3>1. ASSUME NEW told \in accepted
          PROVE  \E q \in DOMAIN queue' : queue'[q].id = told[1] /\ queue'[q].body = told[2]
      BY <1>4 DEF StoreInv, QueueInv
    <3>2. <<id, body>> \in accepted' /\ <<id, body>> \notin accepted =>
              \E q \in DOMAIN queue' : queue'[q].id = id /\ queue'[q].body = body
      BY <1>1
    <3> QED BY <1>1, <3>1, <3>2
  <2>2. \A i \in DOMAIN journal : journal[i].step # Store!Nothing =>
            \E q \in DOMAIN queue' : queue'[q].id = journal[i].step.queued.id
    BY <1>4 DEF StoreInv, QueueInv
  <2> QED BY <1>1, <1>4, <2>1, <2>2 DEF QueueInv
<1>6. Store!StoreTypeOK'
  BY <1>1, <1>4 DEF StoreInv, Store!StoreTypeOK
<1>7. ProjectionsInv' /\ StagedInv' /\ StepsInv' /\ Store!SubscriberIsTold'
  BY <1>1 DEF StoreInv, ProjectionsInv, StagedInv, StepsInv, Store!SubscriberIsTold
<1> QED BY <1>5, <1>6, <1>7 DEF StoreInv

\* A subscriber reads on where it was.
LEMMA ReadersKeep ==
  ASSUME StoreInv, Store!ReadEvents
  PROVE  StoreInv'
<1> DEFINE n == Len(journal)
           c == heard.cursor
           new == Store!EventsAfter(c)
<1>1. /\ UNCHANGED <<journal, tables, queue, snapshots, owner, cached, staged, accepted>>
      /\ heard' = [cursor |-> tables.seq, events |-> heard.events \o new]
  BY DEF Store!ReadEvents
<1>2. tables.seq = n
  BY DEF StoreInv, ProjectionsInv, Store!Amount
<1>3. /\ n \in Nat /\ c \in 0..n /\ heard.events \in Seq(Store!Events) /\ Len(heard.events) = c
      /\ journal \in Seq(Store!Transactions)
      /\ \A i \in 1..c : heard.events[i] = journal[i].event
  BY DEF StoreInv, Store!StoreTypeOK, Store!SubscriberIsTold
<1>4. /\ n - c \in Nat /\ new = [i \in 1..(n - c) |-> journal[c + i].event]
  BY <1>2, <1>3 DEF Store!EventsAfter
<1>5. \A i \in 1..(n - c) : journal[c + i].event \in Store!Events
  <2> SUFFICES ASSUME NEW i \in 1..(n - c) PROVE journal[c + i].event \in Store!Events
    OBVIOUS
  <2>1. c + i \in 1..n
    BY <1>3
  <2>2. journal[c + i] \in Store!Transactions
    BY <1>3, <2>1
  <2> QED BY <2>2 DEF Store!Transactions
<1>6. new \in Seq(Store!Events) /\ Len(new) = n - c
  <2> HIDE DEF new
  <2> QED BY <1>4, <1>5
<1> HIDE DEF new
<1>7. /\ heard.events \o new \in Seq(Store!Events) /\ Len(heard.events \o new) = n
      /\ \A i \in 1..n : (heard.events \o new)[i] = journal[i].event
  <2>1. /\ heard.events \o new \in Seq(Store!Events) /\ Len(heard.events \o new) = c + (n - c)
        /\ \A i \in 1..(c + (n - c)) :
               (heard.events \o new)[i] = IF i <= c THEN heard.events[i] ELSE new[i - c]
    <3> HIDE DEF c, n
    <3> QED BY <1>3, <1>6, ConcatProperties
  <2>2. ASSUME NEW i \in 1..n PROVE (heard.events \o new)[i] = journal[i].event
    <3>1. CASE i <= c
      BY <1>3, <2>1, <3>1
    <3>2. CASE ~(i <= c)
      <4>1. i - c \in 1..(n - c) /\ c + (i - c) = i
        BY <1>3, <3>2
      <4>2. new[i - c] = journal[c + (i - c)].event
        <5> HIDE DEF c, n
        <5> QED BY <1>4, <4>1
      <4> HIDE DEF c, n
      <4> QED BY <1>3, <2>1, <3>2, <4>1, <4>2
    <3> QED BY <3>1, <3>2
  <2>3. c + (n - c) = n
    BY <1>3
  <2> HIDE DEF c, n
  <2> QED BY <2>1, <2>2, <2>3
<1>8. heard'.cursor = n /\ heard'.events = heard.events \o new
  BY <1>1, <1>2
<1>9. Store!SubscriberIsTold'
  BY <1>1, <1>3, <1>7, <1>8, SMTT(40) DEF Store!SubscriberIsTold
<1>10. Store!StoreTypeOK'
  BY <1>1, <1>2, <1>3, <1>7 DEF StoreInv, Store!StoreTypeOK
<1>11. ProjectionsInv' /\ QueueInv' /\ StagedInv' /\ StepsInv'
  BY <1>1 DEF StoreInv, ProjectionsInv, QueueInv, StagedInv, StepsInv
<1> QED BY <1>9, <1>10, <1>11 DEF StoreInv

-------------------------------------------------------------------------------
(* The invariant *)

\* Projections, queue, memory, snapshots and subscriptions are of one journal,
\* whatever fails and whoever dies.
THEOREM StoreCorrect == SupervisionSpec => []StoreInv
<1>1. SupervisionInit => StoreInv
  <2> SUFFICES ASSUME Store!StoreInit PROVE StoreInv
    BY DEF SupervisionInit
  <2> USE DEF Store!StoreInit
  <2>1. Store!StoreTypeOK
    BY DEF Store!StoreTypeOK
  <2>2. ProjectionsInv
    BY AmountEmpty DEF ProjectionsInv, Store!Empty
  <2>3. QueueInv /\ StagedInv /\ StepsInv
    BY DEF QueueInv, StagedInv, StepsInv
  <2>4. Store!SubscriberIsTold
    BY DEF Store!SubscriberIsTold
  <2> QED BY <2>1, <2>2, <2>3, <2>4 DEF StoreInv
<1>2. StoreInv /\ [SupervisionNext]_supervisionVars => StoreInv'
  <2> SUFFICES ASSUME StoreInv, [SupervisionNext]_supervisionVars PROVE StoreInv'
    OBVIOUS
  <2>1. Store!StoreNext \/ UNCHANGED commandVars
    BY DEF SupervisionNext, Watching, Rolls, Stores, supervisionVars
  <2>2. CASE UNCHANGED commandVars
    BY <2>2 DEF commandVars, StoreInv, Store!StoreTypeOK, ProjectionsInv, QueueInv, StagedInv, StepsInv, Store!SubscriberIsTold
  <2>3. CASE Store!StoreNext
    BY <2>3, OwnersKeep, StageKeeps, CommitsKeep, SnapshotKeeps, SubmitKeeps, ReadersKeep DEF Store!StoreNext
  <2> QED BY <2>1, <2>2, <2>3
<1> QED BY <1>1, <1>2, PTL DEF SupervisionSpec

\* The database is one history: projections, checkpoint and snapshots are what the
\* journal amounts to, a command takes its steps once and by the transactions that say
\* so, and a subscriber reads every event once, whatever fails between two writes
\* (journal.py, _append_atomic; command_queue.py, commit).
THEOREM AlwaysOneHistory == SupervisionSpec => []StoreIsOneHistory
<1>1. StoreInv => StoreIsOneHistory
  BY InvIsOneHistory DEF StoreIsOneHistory
<1> QED BY <1>1, StoreCorrect, PTL


-------------------------------------------------------------------------------
(* The roll *)

\* An order that the market may still fill.
Alive(o, ph) == ~o.sent \/ ph \in {"old", "new"}

\* Records as they are made of their fields.
Strategy(h, t, p, q) == [held |-> h, task |-> t, position |-> p, orders |-> q]
Ord(c, op, l, s) == [contract |-> c, opens |-> op, left |-> l, sent |-> s]
LegIs(f, pl, b, bf) == [filled |-> f, placed |-> pl, batch |-> b, batchFilled |-> bf]
TaskIs(st, n, a, b, r) == [state |-> st, total |-> n, leg |-> [i \in 1..2 |-> IF i = 1 THEN a ELSE b], retries |-> r]
Pair(x, y) == [c \in {"old", "new"} |-> IF c = "old" THEN x ELSE y]

\* One order at the market at most, and one that waits for the next opening.
WaitsBehind(q) == Len(q) <= 2 /\ (Len(q) = 2 => q[1].sent /\ ~q[2].sent)

\* Without a roll: at most one order, which fits; the strategy holds lots of no
\* contract but its own.
IdleOrder(h, p, o, ph, dom) ==
    /\ Alive(o, ph) => IF o.opens THEN p[o.contract] + o.left <= Size ELSE o.left <= p[o.contract]
    /\ ph \in {"old", "new"} => o.sent
    /\ h = "old" /\ Alive(o, ph) => o.contract = "old"
    /\ h = "old" /\ dom = "new" /\ ph = "close" => o.sent
IdleInv(h, p, q, ph, dom) ==
    /\ Len(q) <= 1 /\ p["old"] <= Size /\ p["new"] <= Size
    /\ \A i \in DOMAIN q : IdleOrder(h, p, q[i], ph, dom)
    /\ h = "old" => p["new"] = 0
    /\ h = "none" => q = <<>> /\ p["old"] = 0 /\ p["new"] = 0
    /\ dom = "old" => h # "new"

\* Within a roll: what the legs count, and what is alive for them.
LegsCount(t, p) ==
    /\ p["old"] + t.leg[1].filled = t.total /\ p["new"] = t.leg[2].filled
    /\ t.leg[2].filled <= t.leg[1].filled /\ t.leg[2].filled < t.total
    /\ t.leg[1].batchFilled <= t.leg[1].filled /\ t.leg[2].batchFilled <= t.leg[2].filled
OfLeg(t, p, o, ph) ==
    /\ Alive(o, ph) => o.opens = (o.contract = "new")
    /\ Alive(o, ph) /\ o.contract = "old" =>
           o.left = p["old"] /\ (t.leg[1].placed => o.left = t.leg[1].batch - t.leg[1].batchFilled)
    /\ Alive(o, ph) /\ o.contract = "new" =>
           o.left = t.leg[2].batch - t.leg[2].batchFilled /\ t.leg[2].filled + o.left <= t.leg[1].filled
    /\ o.contract = "new" => t.leg[2].placed \/ (t.leg[1].filled = 0 /\ ~Alive(o, ph))
OfLegs(t, p, q, ph) == \A i \in DOMAIN q : OfLeg(t, p, q[i], ph)
NoMatch(q, ph) == \A i \in DOMAIN q : ~(q[i].contract = ph /\ q[i].sent)

\* What waits was not refused, and was sent by the last fill of the day.
Waiting(t, q, ph, bud) ==
    \A i \in DOMAIN q : ~q[i].sent =>
        /\ ph \in {"old", "new", "close"} => t.state # "PAUSED"
        /\ ph \in {"old", "new"} => bud = 0 \/ NoMatch(q, ph)
Apart(q, ph) ==
    Len(q) = 2 =>
        /\ ~(q[1].contract = "new" /\ q[2].contract = "new")
        /\ ph \in {"old", "new"} => q[1].contract # q[2].contract /\ (ph = "old" => q[1].contract = "old")

\* A leg that waits for an order has one, unless an order ended unnoticed.
HasOrder(t, q) ==
    /\ t.leg[1].placed => \E i \in DOMAIN q : q[i].contract = "old"
    /\ t.leg[2].placed => \E i \in DOMAIN q : q[i].contract = "new"
DrivenOn(t) == t.state # "PAUSED" => t.leg[1].placed \/ t.leg[2].placed

RollingInv(t, p, q, ph, bud, dom, mis) ==
    /\ dom = "new" /\ t.state # "COMPLETED"
    /\ LegsCount(t, p) /\ OfLegs(t, p, q, ph) /\ Waiting(t, q, ph, bud) /\ Apart(q, ph)
    /\ ~mis => HasOrder(t, q)
    /\ DrivenOn(t)

IsStrategy(s) ==
    /\ s = Strategy(s.held, s.task, s.position, s.orders)
    /\ s.held \in {"old", "new", "none"} /\ s.task \in Roll!Task \union {Roll!NoTask}
    /\ s.position \in [{"old", "new"} -> Nat] /\ s.orders \in Seq(Roll!Order) /\ WaitsBehind(s.orders)
StrategyInv(s, ph, bud, dom, mis) ==
    /\ IsStrategy(s)
    /\ ~Roll!Rolling(s) => IdleInv(s.held, s.position, s.orders, ph, dom)
    /\ Roll!Rolling(s) => RollingInv(s.task, s.position, s.orders, ph, bud, dom, mis)
RollInv ==
    /\ phase \in {"settled", "expiring", "old", "new", "close"}
    /\ budget \in 0..(2 * Size) /\ barsLeft \in 0..BarsPerDay
    /\ dominant \in {"old", "new"} /\ missed \in BOOLEAN
    /\ StrategyInv(strategy, phase, budget, dominant, missed)

-------------------------------------------------------------------------------
(* Orders, legs and tasks *)

LEMMA OrderIs ==
  /\ \A o \in Roll!Order : /\ o.contract \in {"old", "new"} /\ o.opens \in BOOLEAN /\ o.sent \in BOOLEAN
                           /\ o.left \in Nat /\ o.left > 0 /\ o.left <= 2 * Size
  /\ \A c \in {"old", "new"}, op \in BOOLEAN, l \in Nat, s \in BOOLEAN :
         l > 0 /\ l <= 2 * Size => Ord(c, op, l, s) \in Roll!Order
<1>1. Size \in Nat
  BY RollAssumption
<1>2. \A o \in Roll!Order : /\ o.contract \in {"old", "new"} /\ o.opens \in BOOLEAN /\ o.sent \in BOOLEAN
                            /\ o.left \in 1..(2 * Size)
  BY DEF Roll!Order, Roll!Contracts
<1>3. \A n \in 1..(2 * Size) : n \in Nat /\ n > 0 /\ n <= 2 * Size
  BY <1>1
<1>4. \A n \in Nat : n > 0 /\ n <= 2 * Size => n \in 1..(2 * Size)
  BY <1>1
<1>5. \A c \in {"old", "new"}, op \in BOOLEAN, l \in 1..(2 * Size), s \in BOOLEAN : Ord(c, op, l, s) \in Roll!Order
  BY DEF Roll!Order, Roll!Contracts, Ord
<1>. QED BY <1>2, <1>3, <1>4, <1>5

LEMMA LegFields ==
  \A f, pl, b, bf : /\ LegIs(f, pl, b, bf).filled = f /\ LegIs(f, pl, b, bf).placed = pl
                    /\ LegIs(f, pl, b, bf).batch = b /\ LegIs(f, pl, b, bf).batchFilled = bf
BY DEF LegIs

LEMMA TaskFields ==
  \A st, n, a, b, r : /\ TaskIs(st, n, a, b, r).state = st /\ TaskIs(st, n, a, b, r).total = n
                      /\ TaskIs(st, n, a, b, r).leg[1] = a /\ TaskIs(st, n, a, b, r).leg[2] = b
                      /\ TaskIs(st, n, a, b, r).retries = r
BY DEF TaskIs

\* A leg, and a task, within their types.
LEMMA LegType ==
  /\ \A l \in Roll!Leg : /\ l = LegIs(l.filled, l.placed, l.batch, l.batchFilled) /\ l.filled \in Nat
                         /\ l.placed \in BOOLEAN /\ l.batch \in Nat /\ l.batchFilled \in Nat
  /\ \A f, b, bf \in Nat, pl \in BOOLEAN :
         f <= Size /\ b <= Size /\ bf <= Size => LegIs(f, pl, b, bf) \in Roll!Leg
<1>1. Size \in Nat /\ Roll!Lots = 0..(2 * Size)
  BY RollAssumption DEF Roll!Lots
<1>2. \A n \in Roll!Lots : n \in Nat
  BY <1>1
<1>3. \A n \in Nat : n <= Size => n \in Roll!Lots
  BY <1>1
<1>4. \A l \in Roll!Leg : /\ l = LegIs(l.filled, l.placed, l.batch, l.batchFilled) /\ l.filled \in Roll!Lots
                          /\ l.placed \in BOOLEAN /\ l.batch \in Roll!Lots /\ l.batchFilled \in Roll!Lots
  BY DEF Roll!Leg, LegIs
<1>5. \A f, b, bf \in Roll!Lots, pl \in BOOLEAN : LegIs(f, pl, b, bf) \in Roll!Leg
  BY DEF Roll!Leg, LegIs
<1>. QED BY <1>2, <1>3, <1>4, <1>5

LEMMA TaskType ==
  /\ \A t \in Roll!Task : /\ t = TaskIs(t.state, t.total, t.leg[1], t.leg[2], t.retries) /\ t.state \in Roll!States
                          /\ t.total \in Nat /\ t.total > 0 /\ t.total <= Size
                          /\ t.leg[1] \in Roll!Leg /\ t.leg[2] \in Roll!Leg
                          /\ t.retries \in Nat /\ t.retries <= MaxRetries /\ t # Roll!NoTask
  /\ \A st \in Roll!States, n \in Nat, a, b \in Roll!Leg, r \in Nat :
         n > 0 /\ n <= Size /\ r <= MaxRetries => TaskIs(st, n, a, b, r) \in Roll!Task
<1>1. Size \in Nat /\ MaxRetries \in Nat
  BY RollAssumption
<1>2. ASSUME NEW t \in Roll!Task
      PROVE  /\ t.state \in Roll!States /\ t.total \in 1..Size /\ t.leg \in [1..2 -> Roll!Leg]
             /\ t.retries \in 0..MaxRetries
             /\ t = [state |-> t.state, total |-> t.total, leg |-> t.leg, retries |-> t.retries]
  BY DEF Roll!Task
<1>3. \A f \in [1..2 -> Roll!Leg] : f = [i \in 1..2 |-> IF i = 1 THEN f[1] ELSE f[2]] /\ f[1] \in Roll!Leg /\ f[2] \in Roll!Leg
  <2>1. \A i \in 1..2 : i = 1 \/ i = 2
    OBVIOUS
  <2>2. 1 \in 1..2 /\ 2 \in 1..2
    OBVIOUS
  <2>. QED BY <2>1, <2>2
<1>4. \A n \in 1..Size : n \in Nat /\ n > 0 /\ n <= Size
  BY <1>1
<1>5. \A n \in 0..MaxRetries : n \in Nat /\ n <= MaxRetries
  BY <1>1
<1>6. "none" \notin Roll!States /\ Roll!NoTask.state = "none"
  BY DEF Roll!States, Roll!NoTask
<1>7. ASSUME NEW t \in Roll!Task
      PROVE  t = TaskIs(t.state, t.total, t.leg[1], t.leg[2], t.retries)
  <2>1. t.leg = [i \in 1..2 |-> IF i = 1 THEN t.leg[1] ELSE t.leg[2]]
    BY <1>2, <1>3
  <2>. QED BY <1>2, <2>1 DEF TaskIs
<1>8. ASSUME NEW st \in Roll!States, NEW n \in Nat, NEW a \in Roll!Leg, NEW b \in Roll!Leg, NEW r \in Nat,
             n > 0, n <= Size, r <= MaxRetries
      PROVE  TaskIs(st, n, a, b, r) \in Roll!Task
  <2>1. n \in 1..Size /\ r \in 0..MaxRetries
    BY <1>1, <1>8
  <2>2. [i \in 1..2 |-> IF i = 1 THEN a ELSE b] \in [1..2 -> Roll!Leg]
    OBVIOUS
  <2>. QED BY <2>1, <2>2 DEF TaskIs, Roll!Task
<1>. QED BY <1>2, <1>3, <1>4, <1>5, <1>6, <1>7, <1>8

LEMMA StrategyFields ==
  \A h, t, p, q : /\ Strategy(h, t, p, q).held = h /\ Strategy(h, t, p, q).task = t
                  /\ Strategy(h, t, p, q).position = p /\ Strategy(h, t, p, q).orders = q
BY DEF Strategy

\* Sequences of at most two.
LEMMA Short ==
  ASSUME NEW S, NEW q \in Seq(S), Len(q) <= 2
  PROVE  \/ q = <<>> /\ DOMAIN q = {}
         \/ \E x \in S : q = <<x>> /\ DOMAIN q = {1} /\ Len(q) = 1
         \/ \E x, y \in S : q = <<x, y>> /\ DOMAIN q = {1, 2} /\ Len(q) = 2
<1>1. Len(q) \in Nat /\ DOMAIN q = 1..Len(q) /\ \A i \in 1..Len(q) : q[i] \in S
  OBVIOUS
<1>2. Len(q) = 0 \/ Len(q) = 1 \/ Len(q) = 2
  BY <1>1
<1>3. CASE Len(q) = 0
  BY <1>1, <1>3
<1>4. CASE Len(q) = 1
  <2>1. q = <<q[1]>> /\ q[1] \in S /\ DOMAIN q = {1}
    BY <1>1, <1>4
  <2>. QED BY <1>4, <2>1
<1>5. CASE Len(q) = 2
  <2>1. q = <<q[1], q[2]>> /\ q[1] \in S /\ q[2] \in S /\ DOMAIN q = {1, 2}
    BY <1>1, <1>5
  <2>. QED BY <1>5, <2>1
<1>. QED BY <1>2, <1>3, <1>4, <1>5

LEMMA ShortIs ==
  ASSUME NEW S, NEW x \in S, NEW y \in S
  PROVE  /\ <<>> \in Seq(S) /\ Len(<<>>) = 0 /\ DOMAIN <<>> = {}
         /\ <<x>> \in Seq(S) /\ Len(<<x>>) = 1 /\ DOMAIN <<x>> = {1} /\ <<x>>[1] = x
         /\ <<x, y>> \in Seq(S) /\ Len(<<x, y>>) = 2 /\ DOMAIN <<x, y>> = {1, 2}
         /\ <<x, y>>[1] = x /\ <<x, y>>[2] = y
         /\ Append(<<>>, x) = <<x>> /\ Append(<<x>>, y) = <<x, y>>
         /\ Head(<<x>>) = x /\ Head(<<x, y>>) = x /\ Tail(<<x>>) = <<>> /\ Tail(<<x, y>>) = <<y>>
<1>1. <<>> \in Seq(S) /\ Len(<<>>) = 0 /\ DOMAIN <<>> = {}
  OBVIOUS
<1>2. <<x>> \in Seq(S) /\ Len(<<x>>) = 1 /\ DOMAIN <<x>> = {1} /\ <<x>>[1] = x
  OBVIOUS
<1>3. <<x, y>> \in Seq(S) /\ Len(<<x, y>>) = 2 /\ DOMAIN <<x, y>> = {1, 2} /\ <<x, y>>[1] = x /\ <<x, y>>[2] = y
  OBVIOUS
<1>4. Append(<<>>, x) = <<x>>
  OBVIOUS
<1>5. Append(<<x>>, y) = <<x, y>>
  <2> DEFINE a == Append(<<x>>, y)
             b == <<x, y>>
  <2>1. a \in Seq(S) /\ Len(a) = 2 /\ a[1] = x /\ a[2] = y
    BY <1>2, AppendProperties
  <2>2. \A i \in 1..Len(a) : i = 1 \/ i = 2
    BY <2>1
  <2>3. b \in Seq(S) /\ Len(b) = 2 /\ b[1] = x /\ b[2] = y
    BY <1>3
  <2> HIDE DEF a, b
  <2>4. \A i \in 1..Len(a) : a[i] = b[i]
    BY <2>1, <2>2, <2>3
  <2>5. a = b
    BY <2>1, <2>3, <2>4, SeqEqual
  <2> QED BY <2>5 DEF a, b
<1>6. Head(<<x>>) = x /\ Head(<<x, y>>) = x
  OBVIOUS
<1>7. Tail(<<x>>) = <<>>
  OBVIOUS
<1>8. Tail(<<x, y>>) = <<y>>
  <2> DEFINE q == <<x, y>>
             a == Tail(q)
             b == <<y>>
  <2>1. q \in Seq(S) /\ q # <<>> /\ Len(q) = 2 /\ q[2] = y
    BY <1>3
  <2>2. b \in Seq(S) /\ Len(b) = 1 /\ b[1] = y
    BY <1>2
  <2> HIDE DEF q, b
  <2>3. a \in Seq(S) /\ Len(a) = Len(q) - 1 /\ \A i \in 1..Len(a) : a[i] = q[i + 1]
    BY <2>1, HeadTailProperties
  <2> HIDE DEF a
  <2>4. Len(a) = 1 /\ \A i \in 1..Len(a) : i = 1
    BY <2>1, <2>3
  <2>5. a[1] = y
    BY <2>1, <2>3, <2>4
  <2>6. \A i \in 1..Len(a) : a[i] = b[i]
    BY <2>2, <2>4, <2>5
  <2>7. a = b
    BY <2>2, <2>3, <2>4, <2>6, SeqEqual
  <2> QED BY <2>7 DEF a, b, q
<1>. QED BY <1>1, <1>2, <1>3, <1>4, <1>5, <1>6, <1>7, <1>8

\* What the operators of the roll manager make of a leg and of a task.
AnyLeg == [filled : Int, placed : BOOLEAN, batch : Int, batchFilled : Int]
AnyTask == [state : Roll!States, total : Int, leg : [1..2 -> AnyLeg], retries : Int]

LEMMA AnyIs ==
  /\ \A l \in AnyLeg : l = LegIs(l.filled, l.placed, l.batch, l.batchFilled)
  /\ Roll!Leg \subseteq AnyLeg /\ Roll!Task \subseteq AnyTask
<1>1. Size \in Nat /\ MaxRetries \in Nat
  BY RollAssumption
<1>2. Roll!Lots \subseteq Int /\ 1..Size \subseteq Int /\ 0..MaxRetries \subseteq Int
  BY <1>1 DEF Roll!Lots
<1>3. Roll!Leg \subseteq AnyLeg
  BY <1>2 DEF AnyLeg, Roll!Leg
<1>4. Roll!Task \subseteq AnyTask
  <2>1. [1..2 -> Roll!Leg] \subseteq [1..2 -> AnyLeg]
    BY <1>3
  <2>. QED BY <1>2, <2>1 DEF AnyTask, Roll!Task
<1>. QED BY <1>3, <1>4 DEF AnyLeg, LegIs

LEMMA TaskChanged ==
  ASSUME NEW t \in AnyTask, NEW st \in Roll!States, NEW a \in AnyLeg
  PROVE  /\ t = TaskIs(t.state, t.total, t.leg[1], t.leg[2], t.retries) /\ t.leg[1] \in AnyLeg /\ t.leg[2] \in AnyLeg
         /\ TaskIs(st, t.total, a, t.leg[2], t.retries) \in AnyTask
         /\ TaskIs(st, t.total, t.leg[1], a, t.retries) \in AnyTask
         /\ [t EXCEPT !.state = st, !.leg[1] = a] = TaskIs(st, t.total, a, t.leg[2], t.retries)
         /\ [t EXCEPT !.state = st, !.leg[2] = a] = TaskIs(st, t.total, t.leg[1], a, t.retries)
<1> DEFINE x == [t EXCEPT !.state = st]
           y == [x EXCEPT !.leg = [t.leg EXCEPT ![1] = a]]
           z == [x EXCEPT !.leg = [t.leg EXCEPT ![2] = a]]
<1>0. /\ \A i \in 1..2 : i = 1 \/ i = 2
      /\ 1 \in 1..2 /\ 2 \in 1..2
  OBVIOUS
<1>1. t.leg \in [1..2 -> AnyLeg] /\ t.leg[1] \in AnyLeg /\ t.leg[2] \in AnyLeg
  BY <1>0 DEF AnyTask
<1>2. /\ [t.leg EXCEPT ![1] = a] = [i \in 1..2 |-> IF i = 1 THEN a ELSE t.leg[2]]
      /\ [t.leg EXCEPT ![2] = a] = [i \in 1..2 |-> IF i = 1 THEN t.leg[1] ELSE a]
      /\ t.leg = [i \in 1..2 |-> IF i = 1 THEN t.leg[1] ELSE t.leg[2]]
      /\ [t.leg EXCEPT ![1] = a] \in [1..2 -> AnyLeg] /\ [t.leg EXCEPT ![2] = a] \in [1..2 -> AnyLeg]
  BY <1>0, <1>1
<1>3. x \in AnyTask /\ x.state = st /\ x.total = t.total /\ x.leg = t.leg /\ x.retries = t.retries
  BY DEF AnyTask
<1>5. /\ [t EXCEPT !.state = st, !.leg[1] = a] = y /\ [t EXCEPT !.state = st, !.leg[2] = a] = z
  BY <1>3
<1> HIDE DEF x
<1>7. y \in AnyTask /\ y.state = st /\ y.total = t.total /\ y.leg = [t.leg EXCEPT ![1] = a] /\ y.retries = t.retries
  BY <1>2, <1>3 DEF AnyTask
<1>8. z \in AnyTask /\ z.state = st /\ z.total = t.total /\ z.leg = [t.leg EXCEPT ![2] = a] /\ z.retries = t.retries
  BY <1>2, <1>3 DEF AnyTask
<1> HIDE DEF y, z
<1>10. \A k \in AnyTask : k = [state |-> k.state, total |-> k.total, leg |-> k.leg, retries |-> k.retries]
  BY DEF AnyTask
<1>11. t = TaskIs(t.state, t.total, t.leg[1], t.leg[2], t.retries)
  BY <1>2, <1>10 DEF TaskIs
<1>12. y = TaskIs(st, t.total, a, t.leg[2], t.retries)
  BY <1>2, <1>7, <1>10 DEF TaskIs
<1>13. z = TaskIs(st, t.total, t.leg[1], a, t.retries)
  BY <1>2, <1>8, <1>10 DEF TaskIs
<1>. QED BY <1>1, <1>5, <1>7, <1>8, <1>11, <1>12, <1>13

LEMMA FirstChanged ==
  ASSUME NEW t \in AnyTask, NEW st \in Roll!States, NEW a \in AnyLeg
  PROVE  [t EXCEPT !.state = st, !.leg[1] = a] = TaskIs(st, t.total, a, t.leg[2], t.retries)
BY TaskChanged, Zenon

LEMMA SecondChanged ==
  ASSUME NEW t \in AnyTask, NEW st \in Roll!States, NEW a \in AnyLeg
  PROVE  [t EXCEPT !.state = st, !.leg[2] = a] = TaskIs(st, t.total, t.leg[1], a, t.retries)
BY TaskChanged, Zenon

LEMMA StateChanged ==
  ASSUME NEW t \in AnyTask, NEW st \in Roll!States, NEW r \in Int
  PROVE  [t EXCEPT !.retries = r, !.state = st] = TaskIs(st, t.total, t.leg[1], t.leg[2], r)
<1> DEFINE v == [t EXCEPT !.retries = r]
           w == [v EXCEPT !.state = st]
<1>1. t.leg = [i \in 1..2 |-> IF i = 1 THEN t.leg[1] ELSE t.leg[2]]
  <2>1. \A i \in 1..2 : i = 1 \/ i = 2
    OBVIOUS
  <2>2. t.leg \in [1..2 -> AnyLeg]
    BY DEF AnyTask
  <2>. QED BY <2>1, <2>2
<1>2. v \in AnyTask /\ v.state = t.state /\ v.total = t.total /\ v.leg = t.leg /\ v.retries = r
  BY DEF AnyTask
<1>3. [t EXCEPT !.retries = r, !.state = st] = w
  OBVIOUS
<1> HIDE DEF v
<1>4. w \in AnyTask /\ w.state = st /\ w.total = t.total /\ w.leg = t.leg /\ w.retries = r
  BY <1>2 DEF AnyTask
<1> HIDE DEF w
<1>5. \A k \in AnyTask : k = [state |-> k.state, total |-> k.total, leg |-> k.leg, retries |-> k.retries]
  BY DEF AnyTask
<1>6. w = TaskIs(st, t.total, t.leg[1], t.leg[2], r)
  BY <1>1, <1>4, <1>5 DEF TaskIs
<1>. QED BY <1>3, <1>6

LEMMA FailedIs ==
  ASSUME NEW t \in Roll!Task
  PROVE  /\ Roll!LegFailed(t, 1) = TaskIs("PAUSED", t.total, LegIs(t.leg[1].filled, FALSE, 0, 0), t.leg[2], t.retries)
         /\ Roll!LegFailed(t, 2) = TaskIs("PAUSED", t.total, t.leg[1], LegIs(t.leg[2].filled, FALSE, 0, 0), t.retries)
         /\ Roll!LegFailed(t, 1) \in Roll!Task /\ Roll!LegFailed(t, 2) \in Roll!Task
<1> DEFINE a == LegIs(t.leg[1].filled, FALSE, 0, 0)
           b == LegIs(t.leg[2].filled, FALSE, 0, 0)
<1>1. /\ t.leg[1] \in Roll!Leg /\ t.leg[2] \in Roll!Leg
      /\ t.leg[1].filled \in Roll!Lots /\ t.leg[2].filled \in Roll!Lots /\ 0 \in Roll!Lots
  BY RollAssumption DEF Roll!Task, Roll!Leg, Roll!Lots
<1>2. a \in Roll!Leg /\ b \in Roll!Leg /\ "PAUSED" \in Roll!States /\ t \in AnyTask
  BY <1>1, AnyIs DEF LegIs, Roll!Leg, Roll!States
<1>3. Roll!LegFailed(t, 1) = [t EXCEPT !.state = "PAUSED", !.leg[1] = a]
  BY DEF Roll!LegFailed, LegIs
<1>4. Roll!LegFailed(t, 2) = [t EXCEPT !.state = "PAUSED", !.leg[2] = b]
  BY DEF Roll!LegFailed, LegIs
<1> HIDE DEF a, b
<1>5. a \in AnyLeg /\ b \in AnyLeg
  BY <1>2, AnyIs
<1>6. Roll!LegFailed(t, 1) = TaskIs("PAUSED", t.total, a, t.leg[2], t.retries)
  BY <1>2, <1>3, <1>5, FirstChanged, Zenon
<1>7. Roll!LegFailed(t, 2) = TaskIs("PAUSED", t.total, t.leg[1], b, t.retries)
  BY <1>2, <1>4, <1>5, SecondChanged, Zenon
<1>8. Roll!LegFailed(t, 1) \in Roll!Task /\ Roll!LegFailed(t, 2) \in Roll!Task
  BY <1>1, <1>2, <1>6, <1>7, TaskType
<1>. QED BY <1>6, <1>7, <1>8 DEF a, b

\* The legs after a fill.
FilledLeg(l, m) == LegIs(l.filled + m, l.placed /\ l.batchFilled + m < l.batch, l.batch, l.batchFilled + m)

LEMMA FilledIs ==
  ASSUME NEW t \in Roll!Task, NEW m \in Nat
  PROVE  /\ Roll!LegFilled(t, 1, m) =
              TaskIs(IF t.leg[1].filled + m >= t.total THEN "LEG_1_FILLED" ELSE "LEG_1_PARTIAL", t.total,
                     FilledLeg(t.leg[1], m), t.leg[2], t.retries)
         /\ Roll!LegFilled(t, 2, m) =
              TaskIs(IF t.leg[2].filled + m >= t.total THEN "COMPLETED" ELSE "LEG_2_PARTIAL", t.total, t.leg[1],
                     FilledLeg(t.leg[2], m), t.retries)
<1> DEFINE a == FilledLeg(t.leg[1], m)
           b == FilledLeg(t.leg[2], m)
           st1 == IF t.leg[1].filled + m >= t.total THEN "LEG_1_FILLED" ELSE "LEG_1_PARTIAL"
           st2 == IF t.leg[2].filled + m >= t.total THEN "COMPLETED" ELSE "LEG_2_PARTIAL"
<1>1. /\ t.leg[1] \in AnyLeg /\ t.leg[2] \in AnyLeg /\ t \in AnyTask
  BY AnyIs, TaskType
<1>2. \A l \in AnyLeg : FilledLeg(l, m) \in AnyLeg
  <2>1. \A l \in AnyLeg : /\ l.filled + m \in Int /\ l.batchFilled + m \in Int /\ l.batch \in Int
                           /\ (l.placed /\ l.batchFilled + m < l.batch) \in BOOLEAN
    BY DEF AnyLeg
  <2>. QED BY <2>1 DEF FilledLeg, LegIs, AnyLeg
<1>3. st1 \in Roll!States /\ st2 \in Roll!States
  BY DEF Roll!States
<1>4. Roll!LegFilled(t, 1, m) = [t EXCEPT !.state = st1, !.leg[1] = a]
  BY DEF Roll!LegFilled, Roll!StateAfterFill, LegIs, FilledLeg
<1>5. Roll!LegFilled(t, 2, m) = [t EXCEPT !.state = st2, !.leg[2] = b]
  BY DEF Roll!LegFilled, Roll!StateAfterFill, LegIs, FilledLeg
<1>6. a \in AnyLeg /\ b \in AnyLeg
  BY <1>1, <1>2
<1> HIDE DEF a, b, st1, st2
<1>7. Roll!LegFilled(t, 1, m) = TaskIs(st1, t.total, a, t.leg[2], t.retries)
  BY <1>1, <1>3, <1>4, <1>6, FirstChanged, Zenon
<1>8. Roll!LegFilled(t, 2, m) = TaskIs(st2, t.total, t.leg[1], b, t.retries)
  BY <1>1, <1>3, <1>5, <1>6, SecondChanged, Zenon
<1>. QED BY <1>7, <1>8 DEF a, b, st1, st2

LEMMA ResumedIs ==
  ASSUME NEW t \in Roll!Task
  PROVE  \E st \in {"LEG_2_PARTIAL", "LEG_1_FILLED", "LEG_1_PARTIAL", "PLANNED"} :
            Roll!Resumed(t) = TaskIs(st, t.total, t.leg[1], t.leg[2], t.retries + 1)
<1> DEFINE st == CASE t.leg[1].filled >= t.total /\ t.leg[2].filled > 0 -> "LEG_2_PARTIAL"
                   [] t.leg[1].filled >= t.total /\ t.leg[2].filled = 0 -> "LEG_1_FILLED"
                   [] t.leg[1].filled \in 1..(t.total - 1) -> "LEG_1_PARTIAL"
                   [] t.leg[1].filled = 0 -> "PLANNED"
           r == t.retries + 1
<1>1. Roll!Resumed(t) = [t EXCEPT !.retries = r, !.state = st]
  BY DEF Roll!Resumed
<1>2. /\ t.leg[1].filled \in Nat /\ t.leg[2].filled \in Nat /\ t.total \in Nat /\ t.total > 0
      /\ t.leg[1] \in AnyLeg /\ t \in AnyTask /\ r \in Int
  BY TaskType, LegType, AnyIs
<1>3. \A f, g, n \in Nat : (f >= n /\ g > 0) \/ (f >= n /\ g = 0) \/ f \in 1..(n - 1) \/ f = 0
  OBVIOUS
<1>4. st \in {"LEG_2_PARTIAL", "LEG_1_FILLED", "LEG_1_PARTIAL", "PLANNED"}
  BY <1>2, <1>3
<1>5. st \in Roll!States
  BY <1>4 DEF Roll!States
<1> HIDE DEF st, r
<1>6. Roll!Resumed(t) = TaskIs(st, t.total, t.leg[1], t.leg[2], r)
  BY <1>1, <1>2, <1>5, StateChanged, Zenon
<1>. QED BY <1>4, <1>6 DEF r

LEMMA HeldSet ==
  ASSUME NEW h, NEW t, NEW p, NEW q, NEW x
  PROVE  [Strategy(h, t, p, q) EXCEPT !.held = x] = Strategy(x, t, p, q)
<1> DEFINE All == [held : {h, x}, task : {t, x}, position : {p}, orders : {q, x}]
           s == Strategy(h, t, p, q)
           a == [s EXCEPT !.held = x]
<1>1. s \in All /\ s.held = h /\ s.task = t /\ s.position = p /\ s.orders = q
  BY DEF Strategy
<1>2. \A k \in All : k = Strategy(k.held, k.task, k.position, k.orders)
  BY DEF Strategy
<1> HIDE DEF s
<1>3. a \in All /\ a.held = x /\ a.task = t /\ a.position = p /\ a.orders = q
  BY <1>1
<1> HIDE DEF a, All
<1>4. a = Strategy(x, t, p, q)
  BY <1>2, <1>3
<1>. QED BY <1>4 DEF a, s

LEMMA TaskSet ==
  ASSUME NEW h, NEW t, NEW p, NEW q, NEW x
  PROVE  [Strategy(h, t, p, q) EXCEPT !.task = x] = Strategy(h, x, p, q)
<1> DEFINE All == [held : {h, x}, task : {t, x}, position : {p}, orders : {q, x}]
           s == Strategy(h, t, p, q)
           a == [s EXCEPT !.task = x]
<1>1. s \in All /\ s.held = h /\ s.task = t /\ s.position = p /\ s.orders = q
  BY DEF Strategy
<1>2. \A k \in All : k = Strategy(k.held, k.task, k.position, k.orders)
  BY DEF Strategy
<1> HIDE DEF s
<1>3. a \in All /\ a.held = h /\ a.task = x /\ a.position = p /\ a.orders = q
  BY <1>1
<1> HIDE DEF a, All
<1>4. a = Strategy(h, x, p, q)
  BY <1>2, <1>3
<1>. QED BY <1>4 DEF a, s

LEMMA OrdersSet ==
  ASSUME NEW h, NEW t, NEW p, NEW q, NEW x
  PROVE  [Strategy(h, t, p, q) EXCEPT !.orders = x] = Strategy(h, t, p, x)
<1> DEFINE All == [held : {h, x}, task : {t, x}, position : {p}, orders : {q, x}]
           s == Strategy(h, t, p, q)
           a == [s EXCEPT !.orders = x]
<1>1. s \in All /\ s.held = h /\ s.task = t /\ s.position = p /\ s.orders = q
  BY DEF Strategy
<1>2. \A k \in All : k = Strategy(k.held, k.task, k.position, k.orders)
  BY DEF Strategy
<1> HIDE DEF s
<1>3. a \in All /\ a.held = h /\ a.task = t /\ a.position = p /\ a.orders = x
  BY <1>1
<1> HIDE DEF a, All
<1>4. a = Strategy(h, t, p, x)
  BY <1>2, <1>3
<1>. QED BY <1>4 DEF a, s

\* An order of a leg is bound to that leg.
LEMMA BoundSame ==
  ASSUME NEW t \in AnyTask
  PROVE  /\ t.leg[1].placed = TRUE => [t EXCEPT !.leg[1].placed = TRUE] = t
         /\ t.leg[2].placed = TRUE => [t EXCEPT !.leg[2].placed = TRUE] = t
<1>1. 1 \in 1..2 /\ 2 \in 1..2 /\ t.leg \in [1..2 -> AnyLeg]
  BY DEF AnyTask
<1>2. t.leg[1] \in AnyLeg /\ t.leg[2] \in AnyLeg
  BY <1>1
<1>3. \A l \in AnyLeg : l.placed = TRUE => [l EXCEPT !.placed = TRUE] = l
  BY DEF AnyLeg
<1>4. /\ t.leg[1].placed = TRUE => [t.leg EXCEPT ![1] = [t.leg[1] EXCEPT !.placed = TRUE]] = t.leg
      /\ t.leg[2].placed = TRUE => [t.leg EXCEPT ![2] = [t.leg[2] EXCEPT !.placed = TRUE]] = t.leg
  BY <1>1, <1>2, <1>3
<1>5. [t EXCEPT !.leg = t.leg] = t
  BY DEF AnyTask
<1>6. /\ [t EXCEPT !.leg[1].placed = TRUE] = [t EXCEPT !.leg = [t.leg EXCEPT ![1] = [t.leg[1] EXCEPT !.placed = TRUE]]]
      /\ [t EXCEPT !.leg[2].placed = TRUE] = [t EXCEPT !.leg = [t.leg EXCEPT ![2] = [t.leg[2] EXCEPT !.placed = TRUE]]]
  OBVIOUS
<1>. QED BY <1>4, <1>5, <1>6

\* What the sums of orders come to.
LEMMA LeftIs ==
  ASSUME NEW s, NEW S, IsFiniteSet(S), NEW f, \A i \in S : f[i] = s.orders[i].left
  PROVE  Roll!LeftOf(s, S) = Total(f, S)
<1> DEFINE next(u) == CHOOSE x \in u : TRUE
           Is(g) == g = [u \in SUBSET S |-> IF u = {} THEN 0 ELSE s.orders[next(u)].left + g[u \ {next(u)}]]
           g == CHOOSE x : Is(x)
<1>1. PICK x : Totals(x, f, S)
  BY TotalsExist
<1>2. ASSUME NEW u \in SUBSET S, u # {} PROVE f[next(u)] = s.orders[next(u)].left
  <2>1. next(u) \in S
    BY <1>2
  <2> HIDE DEF next
  <2> QED BY <2>1
<1>3. Is(x)
  BY <1>1, <1>2, SMTT(40) DEF Totals
<1>4. Is(g)
  BY <1>3, ZenonT(40)
<1>5. Roll!LeftOf(s, S) = g[S]
  BY DEF Roll!LeftOf, Roll!MapThenSumSet, Roll!MapThenFoldSet
<1> HIDE DEF g
<1>6. Totals(g, f, S)
  <2>1. \A u \in SUBSET S : (IF u = {} THEN 0 ELSE s.orders[next(u)].left + g[u \ {next(u)}])
                              = (IF u = {} THEN 0 ELSE f[next(u)] + g[u \ {next(u)}])
    BY <1>2
  <2>2. [u \in SUBSET S |-> IF u = {} THEN 0 ELSE s.orders[next(u)].left + g[u \ {next(u)}]]
        = [u \in SUBSET S |-> IF u = {} THEN 0 ELSE f[next(u)] + g[u \ {next(u)}]]
    BY <2>1
  <2> QED BY <1>4, <2>2 DEF Totals
<1>7. Total(f, S) = g[S]
  BY <1>6, TotalIs
<1>. QED BY <1>5, <1>7

LEMMA LeftOfOne ==
  ASSUME NEW s
  PROVE  /\ Roll!LeftOf(s, {}) = 0
         /\ \A i \in Nat : s.orders[i].left \in Nat => Roll!LeftOf(s, {i}) = s.orders[i].left
<1>1. Roll!LeftOf(s, {}) = 0
  <2> DEFINE f == [i \in {} |-> 0]
  <2>1. IsFiniteSet({}) /\ \A i \in {} : f[i] = s.orders[i].left
    BY FS_EmptySet
  <2> HIDE DEF f
  <2> QED BY <2>1, LeftIs, TotalEmpty
<1>2. ASSUME NEW i \in Nat, s.orders[i].left \in Nat PROVE Roll!LeftOf(s, {i}) = s.orders[i].left
  <2> DEFINE c == s.orders[i].left
             f == [j \in {i} |-> c]
             T == {i}
  <2>1. f[i] = c /\ i \in T /\ T \ {i} = {} /\ \A j \in T : j = i
    OBVIOUS
  <2>2. IsFiniteSet(T)
    BY FS_Singleton
  <2>3. c \in Int
    BY <1>2
  <2> HIDE DEF f, T
  <2>4. \A j \in T : f[j] = s.orders[j].left /\ f[j] \in Int
    BY <2>1, <2>3
  <2>5. Total(f, T) = f[i] + Total(f, T \ {i})
    BY <2>1, <2>2, <2>4, TotalWithout
  <2>6. Total(f, T \ {i}) = 0
    BY <2>1, TotalEmpty, Zenon
  <2> HIDE DEF c
  <2>7. Total(f, T) = c
    <3>1. Total(f, T) = c + 0
      BY <2>1, <2>5, <2>6, Zenon
    <3> QED BY <2>3, <3>1
  <2>8. Roll!LeftOf(s, T) = Total(f, T)
    BY <2>2, <2>4, LeftIs
  <2> QED BY <2>7, <2>8 DEF c, T
<1>. QED BY <1>1, <1>2

\* The lots that an order of at most one freezes.
LEMMA FrozenIs ==
  ASSUME NEW h, NEW t, NEW p, NEW q \in Seq(Roll!Order), Len(q) <= 1, NEW c
  PROVE  LET s == Strategy(h, t, p, q) IN
         /\ q = <<>> => Roll!Frozen(s, c) = 0
         /\ q # <<>> => Roll!Frozen(s, c) = IF ~q[1].opens /\ q[1].contract = c THEN q[1].left ELSE 0
<1> DEFINE s == Strategy(h, t, p, q)
<1>1. s.orders = q
  BY StrategyFields
<1> HIDE DEF s
<1>2. Roll!Closing(s, c) = {i \in DOMAIN q : ~q[i].opens /\ q[i].contract = c}
  BY <1>1 DEF Roll!Closing
<1>3. CASE q = <<>>
  <2>1. Roll!Closing(s, c) = {}
    BY <1>2, <1>3
  <2>. QED BY <1>3, <2>1, LeftOfOne DEF Roll!Frozen, s
<1>4. CASE q # <<>>
  <2>1. DOMAIN q = {1} /\ q[1] \in Roll!Order
    <3>1. Len(q) <= 2
      OBVIOUS
    <3>. QED BY <1>4, <3>1, Short
  <2>2. q[1].left \in Nat
    BY <2>1, OrderIs
  <2>3. Roll!Closing(s, c) = IF ~q[1].opens /\ q[1].contract = c THEN {1} ELSE {}
    BY <1>2, <2>1
  <2>4. Roll!LeftOf(s, {1}) = q[1].left /\ Roll!LeftOf(s, {}) = 0
    BY <1>1, <2>2, LeftOfOne
  <2>. QED BY <1>4, <2>3, <2>4 DEF Roll!Frozen, s
<1>. QED BY <1>3, <1>4

-------------------------------------------------------------------------------
(* The next order of a roll *)

\* Either leg after its order was planned, and after the order was refused.
Sent1(t) == TaskIs("LEG_1_SUBMITTED", t.total, LegIs(t.leg[1].filled, TRUE, t.total - t.leg[1].filled, 0), t.leg[2], t.retries)
Sent2(t) == TaskIs("LEG_2_SUBMITTED", t.total, t.leg[1], LegIs(t.leg[2].filled, TRUE, t.leg[1].filled - t.leg[2].filled, 0), t.retries)
Failed1(t) == TaskIs("PAUSED", t.total, LegIs(t.leg[1].filled, FALSE, 0, 0), t.leg[2], t.retries)
Failed2(t) == TaskIs("PAUSED", t.total, t.leg[1], LegIs(t.leg[2].filled, FALSE, 0, 0), t.retries)

Due1(t) == t.leg[1].filled < t.total /\ ~t.leg[1].placed
Due2(t) == ~Due1(t) /\ t.leg[2].filled < t.leg[1].filled /\ ~t.leg[2].placed

\* The orders of the legs, held until the market opens again.
CloseOrder(n) == Ord("old", FALSE, n, FALSE)
OpenOrder(n) == Ord("new", TRUE, n, FALSE)

\* The new contract is opened only when the old one is being closed, and the
\* old one is closed only when nothing is frozen in it.
Advances(t, p, q, t2, q2) ==
    \/ ~Due1(t) /\ ~Due2(t) /\ t2 = t /\ q2 = q
    \/ /\ Due1(t) /\ t2 = Sent1(t) /\ q2 = Append(q, CloseOrder(t.total - t.leg[1].filled))
       /\ p["old"] = t.total - t.leg[1].filled
             => q = <<>> \/ ~(~q[1].opens /\ q[1].contract = "old")
    \/ Due1(t) /\ t2 = Failed1(t) /\ q2 = q
    \/ Due2(t) /\ t2 = Sent2(t) /\ q2 = Append(q, OpenOrder(t.leg[1].filled - t.leg[2].filled))
    \/ Due2(t) /\ t2 = Failed2(t) /\ q2 = q

LEMMA PlannedIs ==
  ASSUME NEW t \in Roll!Task
  PROVE  Roll!Bound(Roll!Planned(t, 1), "old") = Sent1(t) /\ Roll!Bound(Roll!Planned(t, 2), "new") = Sent2(t)
<1> DEFINE a == LegIs(t.leg[1].filled, TRUE, t.total - t.leg[1].filled, 0)
           b == LegIs(t.leg[2].filled, TRUE, t.leg[1].filled - t.leg[2].filled, 0)
<1>1. Roll!Placed(t.leg[1], t.total - t.leg[1].filled) = a /\ Roll!Placed(t.leg[2], t.leg[1].filled - t.leg[2].filled) = b
  BY DEF Roll!Placed, LegIs
<1>2. t \in AnyTask /\ "LEG_1_SUBMITTED" \in Roll!States /\ "LEG_2_SUBMITTED" \in Roll!States
  BY AnyIs DEF Roll!States
<1>3. a \in AnyLeg /\ b \in AnyLeg
  <2>1. t.total \in Int /\ t.leg[1].filled \in Int /\ t.leg[2].filled \in Int
    BY TaskType, LegType
  <2>2. t.total - t.leg[1].filled \in Int /\ t.leg[1].filled - t.leg[2].filled \in Int
    BY <2>1
  <2>. QED BY <2>1, <2>2 DEF LegIs, AnyLeg
<1>4. a.placed = TRUE /\ b.placed = TRUE
  BY DEF LegIs
<1> HIDE DEF a, b
<1>5. Sent1(t) = TaskIs("LEG_1_SUBMITTED", t.total, a, t.leg[2], t.retries)
  BY DEF Sent1, a
<1>6. Sent2(t) = TaskIs("LEG_2_SUBMITTED", t.total, t.leg[1], b, t.retries)
  BY DEF Sent2, b
<1>7. Roll!Planned(t, 1) = Sent1(t)
  <2>1. Roll!Planned(t, 1) = [t EXCEPT !.state = "LEG_1_SUBMITTED", !.leg[1] = a]
    <3>1. Roll!LegQuantity(t, 1) = t.total - t.leg[1].filled
      BY DEF Roll!LegQuantity
    <3>2. Roll!Placed(t.leg[1], Roll!LegQuantity(t, 1)) = a
      BY ONLY <1>1, <3>1
    <3>. QED BY ONLY <3>2 DEF Roll!Planned
  <2>2. [t EXCEPT !.state = "LEG_1_SUBMITTED", !.leg[1] = a] = Sent1(t)
    BY <1>2, <1>3, <1>5, FirstChanged, Zenon
  <2>. QED BY <2>1, <2>2
<1>8. Roll!Planned(t, 2) = Sent2(t)
  <2>1. Roll!Planned(t, 2) = [t EXCEPT !.state = "LEG_2_SUBMITTED", !.leg[2] = b]
    <3>1. Roll!LegQuantity(t, 2) = t.leg[1].filled - t.leg[2].filled
      BY DEF Roll!LegQuantity
    <3>2. Roll!Placed(t.leg[2], Roll!LegQuantity(t, 2)) = b
      BY ONLY <1>1, <3>1
    <3>3. (2 = 1) = FALSE
      OBVIOUS
    <3>. QED BY ONLY <3>2, <3>3 DEF Roll!Planned
  <2>2. [t EXCEPT !.state = "LEG_2_SUBMITTED", !.leg[2] = b] = Sent2(t)
    BY <1>2, <1>3, <1>6, SecondChanged, Zenon
  <2>. QED BY <2>1, <2>2
<1>9. Sent1(t) \in AnyTask /\ Sent2(t) \in AnyTask
  <2>1. TaskIs("LEG_1_SUBMITTED", t.total, a, t.leg[2], t.retries) \in AnyTask
    BY ONLY <1>2, <1>3, TaskChanged, Zenon
  <2>2. TaskIs("LEG_2_SUBMITTED", t.total, t.leg[1], b, t.retries) \in AnyTask
    BY ONLY <1>2, <1>3, TaskChanged, Zenon
  <2>. QED BY <1>5, <1>6, <2>1, <2>2
<1>10. Sent1(t).leg[1].placed = TRUE /\ Sent2(t).leg[2].placed = TRUE
  BY <1>4, <1>5, <1>6, TaskFields
<1>11. [Sent1(t) EXCEPT !.leg[1].placed = TRUE] = Sent1(t)
  BY <1>9, <1>10, BoundSame
<1>12. [Sent2(t) EXCEPT !.leg[2].placed = TRUE] = Sent2(t)
  BY <1>9, <1>10, BoundSame
<1>13. Roll!LegOf("old") = 1 /\ Roll!LegOf("new") = 2
  BY DEF Roll!LegOf
<1>. QED BY <1>7, <1>8, <1>11, <1>12, <1>13 DEF Roll!Bound

LEMMA PlannedTask ==
  ASSUME NEW t \in AnyTask, NEW st \in Roll!States, NEW a \in AnyLeg
  PROVE  TaskIs(st, t.total, a, t.leg[2], t.retries) \in AnyTask
BY TaskChanged

LEMMA PlannedTask2 ==
  ASSUME NEW t \in AnyTask, NEW st \in Roll!States, NEW a \in AnyLeg
  PROVE  TaskIs(st, t.total, t.leg[1], a, t.retries) \in AnyTask
BY TaskChanged

LEMMA AnyFailed ==
  ASSUME NEW t \in AnyTask
  PROVE  /\ Roll!LegFailed(t, 1) = TaskIs("PAUSED", t.total, LegIs(t.leg[1].filled, FALSE, 0, 0), t.leg[2], t.retries)
         /\ Roll!LegFailed(t, 2) = TaskIs("PAUSED", t.total, t.leg[1], LegIs(t.leg[2].filled, FALSE, 0, 0), t.retries)
<1> DEFINE a == LegIs(t.leg[1].filled, FALSE, 0, 0)
           b == LegIs(t.leg[2].filled, FALSE, 0, 0)
<1>1. /\ t.leg[1] \in AnyLeg /\ t.leg[2] \in AnyLeg /\ "PAUSED" \in Roll!States
  <2>1. 1 \in 1..2 /\ 2 \in 1..2
    OBVIOUS
  <2>. QED BY <2>1 DEF AnyTask, Roll!States
<1>2. a \in AnyLeg /\ b \in AnyLeg
  BY <1>1 DEF AnyLeg, LegIs
<1>3. Roll!LegFailed(t, 1) = [t EXCEPT !.state = "PAUSED", !.leg[1] = a]
  BY DEF Roll!LegFailed, LegIs
<1>4. Roll!LegFailed(t, 2) = [t EXCEPT !.state = "PAUSED", !.leg[2] = b]
  BY DEF Roll!LegFailed, LegIs
<1> HIDE DEF a, b
<1>6. Roll!LegFailed(t, 1) = TaskIs("PAUSED", t.total, a, t.leg[2], t.retries)
  BY <1>1, <1>2, <1>3, FirstChanged, Zenon
<1>7. Roll!LegFailed(t, 2) = TaskIs("PAUSED", t.total, t.leg[1], b, t.retries)
  BY <1>1, <1>2, <1>4, SecondChanged, Zenon
<1>. QED BY <1>6, <1>7 DEF a, b

\* An order that was planned and refused.
LEMMA RefusedIs ==
  ASSUME NEW t \in Roll!Task
  PROVE  Roll!LegFailed(Sent1(t), 1) = Failed1(t) /\ Roll!LegFailed(Sent2(t), 2) = Failed2(t)
<1> DEFINE a == LegIs(t.leg[1].filled, TRUE, t.total - t.leg[1].filled, 0)
           b == LegIs(t.leg[2].filled, TRUE, t.leg[1].filled - t.leg[2].filled, 0)
<1>1. t \in AnyTask /\ "LEG_1_SUBMITTED" \in Roll!States /\ "LEG_2_SUBMITTED" \in Roll!States
  BY AnyIs DEF Roll!States
<1>2. a \in AnyLeg /\ b \in AnyLeg
  <2>1. t.total \in Int /\ t.leg[1].filled \in Int /\ t.leg[2].filled \in Int
    BY TaskType, LegType
  <2>2. t.total - t.leg[1].filled \in Int /\ t.leg[1].filled - t.leg[2].filled \in Int
    BY <2>1
  <2>. QED BY <2>1, <2>2 DEF LegIs, AnyLeg
<1>3. a.filled = t.leg[1].filled /\ b.filled = t.leg[2].filled
  BY DEF LegIs
<1> HIDE DEF a, b
<1>4. Sent1(t) = TaskIs("LEG_1_SUBMITTED", t.total, a, t.leg[2], t.retries)
  BY DEF Sent1, a
<1>5. Sent2(t) = TaskIs("LEG_2_SUBMITTED", t.total, t.leg[1], b, t.retries)
  BY DEF Sent2, b
<1>6. Sent1(t) \in AnyTask
  BY <1>1, <1>2, <1>4, PlannedTask, Zenon
<1>7. Sent2(t) \in AnyTask
  BY <1>1, <1>2, <1>5, PlannedTask2, Zenon
<1>8. /\ Sent1(t).total = t.total /\ Sent1(t).leg[1] = a /\ Sent1(t).leg[2] = t.leg[2] /\ Sent1(t).retries = t.retries
      /\ Sent2(t).total = t.total /\ Sent2(t).leg[1] = t.leg[1] /\ Sent2(t).leg[2] = b /\ Sent2(t).retries = t.retries
  BY <1>4, <1>5, TaskFields
<1>9. Roll!LegFailed(Sent1(t), 1) = TaskIs("PAUSED", t.total, LegIs(t.leg[1].filled, FALSE, 0, 0), t.leg[2], t.retries)
  BY <1>3, <1>6, <1>8, AnyFailed
<1>10. Roll!LegFailed(Sent2(t), 2) = TaskIs("PAUSED", t.total, t.leg[1], LegIs(t.leg[2].filled, FALSE, 0, 0), t.retries)
  BY <1>3, <1>7, <1>8, AnyFailed
<1>. QED BY <1>9, <1>10 DEF Failed1, Failed2

\* send_order
CloseSent(s, n) == Roll!Send(s, FALSE, "old", n)
OpenSent(s, n) == Roll!Send(s, TRUE, "new", n)

LEMMA CloseIs ==
  ASSUME NEW h, NEW t, NEW p, NEW q, NEW n
  PROVE  CloseSent(Strategy(h, t, p, q), n) = Strategy(h, t, p, Append(q, CloseOrder(n)))
<1> DEFINE s == Strategy(h, t, p, q)
           y == Append(q, CloseOrder(n))
<1>1. s.orders = q
  BY StrategyFields
<1>2. CloseSent(s, n) = [s EXCEPT !.orders = y]
  BY <1>1 DEF CloseSent, Roll!Send, Ord, CloseOrder
<1> HIDE DEF y
<1>3. [s EXCEPT !.orders = y] = Strategy(h, t, p, y)
  BY ONLY OrdersSet
<1>. QED BY <1>2, <1>3 DEF y

LEMMA OpenIs ==
  ASSUME NEW h, NEW t, NEW p, NEW q, NEW n
  PROVE  OpenSent(Strategy(h, t, p, q), n) = Strategy(h, t, p, Append(q, OpenOrder(n)))
<1> DEFINE s == Strategy(h, t, p, q)
           y == Append(q, OpenOrder(n))
<1>1. s.orders = q
  BY StrategyFields
<1>2. OpenSent(s, n) = [s EXCEPT !.orders = y]
  BY <1>1 DEF OpenSent, Roll!Send, Ord, OpenOrder
<1> HIDE DEF y
<1>3. [s EXCEPT !.orders = y] = Strategy(h, t, p, y)
  BY ONLY OrdersSet
<1>. QED BY <1>2, <1>3 DEF y

\* _advance_roll, CLOSE_FIRST: the first leg closes the old contract, the
\* second opens the new one.
LEMMA AdvanceIs ==
  ASSUME ~OpenFirst, NEW h, NEW t \in Roll!Task, NEW p \in [{"old", "new"} -> Nat],
         NEW q \in Seq(Roll!Order), Len(q) <= 1, t.state \notin {"PAUSED", "COMPLETED"}, NEW no
  PROVE  \E t2, q2 : /\ Roll!Advance(Strategy(h, t, p, q), no) = Strategy(h, t2, p, q2)
                     /\ Advances(t, p, q, t2, q2)
<1> DEFINE s == Strategy(h, t, p, q)
           m == t.total - t.leg[1].filled
           k == t.leg[1].filled - t.leg[2].filled
<1>1. s.task = t /\ s.position = p /\ s.orders = q
  BY StrategyFields
<1>2. /\ Roll!PlannedContract(1) = "old" /\ Roll!PlannedContract(2) = "new"
      /\ Roll!LegOf("old") = 1 /\ Roll!LegOf("new") = 2
  <2>0. OpenFirst = FALSE
    BY RollAssumption
  <2>1. (1 = 1) = TRUE /\ (2 = 1) = FALSE
    OBVIOUS
  <2>2. Roll!PlannedContract(1) = "old" /\ Roll!PlannedContract(2) = "new"
    BY <2>0, <2>1, Zenon DEF Roll!PlannedContract
  <2>. QED BY <2>2 DEF Roll!LegOf
<1>3. \A x : [s EXCEPT !.task = x] = Strategy(h, x, p, q)
  BY TaskSet
<1>4. CloseSent(s, m) = Strategy(h, t, p, Append(q, CloseOrder(m)))
  BY CloseIs
<1>11. OpenSent(s, k) = Strategy(h, t, p, Append(q, OpenOrder(k)))
  BY OpenIs
<1>12. \A x, y : [Strategy(h, t, p, y) EXCEPT !.task = x] = Strategy(h, x, p, y)
  BY TaskSet
<1>5. Roll!Bound(Roll!Planned(t, 1), "old") = Sent1(t) /\ Roll!Bound(Roll!Planned(t, 2), "new") = Sent2(t)
  BY PlannedIs
<1>6. Roll!LegFailed(Sent1(t), 1) = Failed1(t) /\ Roll!LegFailed(Sent2(t), 2) = Failed2(t)
  BY RefusedIs
<1>7. /\ Roll!LegQuantity(t, 1) = m /\ Roll!LegQuantity(t, 2) = k
  BY DEF Roll!LegQuantity
<1>8. CASE ~Due1(t) /\ ~Due2(t)
  <2>1. Roll!NextLeg(t) = 0
    BY <1>8 DEF Roll!NextLeg, Roll!FirstLegDue, Roll!SecondLegDue, Due1, Due2
  <2>2. Roll!Advance(s, no) = s
    BY <1>1, <2>1 DEF Roll!Advance
  <2>. QED BY <1>8, <2>2 DEF Advances
<1>9. CASE Due1(t)
  <2>1. Roll!NextLeg(t) = 1
    BY <1>9 DEF Roll!NextLeg, Roll!FirstLegDue, Due1
  <2>2. Roll!Advance(s, no) =
           IF Roll!Accepted(s, FALSE, "old", m, no)
           THEN Strategy(h, Sent1(t), p, Append(q, CloseOrder(m)))
           ELSE Strategy(h, Failed1(t), p, q)
    <3>1. Roll!Advance(s, no) =
             IF Roll!Accepted(s, FALSE, "old", m, no)
             THEN [CloseSent(s, m) EXCEPT !.task = Sent1(t)]
             ELSE [s EXCEPT !.task = Roll!LegFailed(Sent1(t), 1)]
      <4>1. ("old" = "new") = FALSE /\ (1 = 0) = FALSE
        OBVIOUS
      <4> HIDE DEF s, m, k
      <4> QED BY ONLY <1>1, <1>2, <1>5, <1>7, <2>1, <4>1, Zenon DEF Roll!Advance, CloseSent, OpenSent
    <3>. QED BY <1>3, <1>4, <1>6, <1>11, <1>12, <3>1
  <2>3. CASE ~Roll!Accepted(s, FALSE, "old", m, no)
    BY <1>9, <2>2, <2>3 DEF Advances
  <2>4. CASE Roll!Accepted(s, FALSE, "old", m, no)
    <3>1. p["old"] - Roll!Frozen(s, "old") >= m
      BY <1>1, <2>4 DEF Roll!Accepted
    <3>2. ASSUME p["old"] = m, q # <<>>, ~q[1].opens, q[1].contract = "old" PROVE FALSE
      <4>1. Roll!Frozen(s, "old") = q[1].left
        BY <3>2, FrozenIs
      <4>2. q[1] \in Roll!Order
        <5>1. Len(q) <= 2
          OBVIOUS
        <5>. QED BY <3>2, <5>1, Short
      <4>3. q[1].left \in Nat /\ q[1].left > 0 /\ p["old"] \in Nat
        BY <4>2, OrderIs
      <4> HIDE DEF m
      <4>. QED BY <3>1, <3>2, <4>1, <4>3
    <3>. QED BY <1>9, <2>2, <2>4, <3>2 DEF Advances
  <2>. QED BY <2>3, <2>4
<1>10. CASE Due2(t)
  <2>1. Roll!NextLeg(t) = 2
    BY <1>10 DEF Roll!NextLeg, Roll!FirstLegDue, Roll!SecondLegDue, Due1, Due2
  <2>2. Roll!Advance(s, no) =
           IF Roll!Accepted(s, TRUE, "new", k, no)
           THEN Strategy(h, Sent2(t), p, Append(q, OpenOrder(k)))
           ELSE Strategy(h, Failed2(t), p, q)
    <3>1. Roll!Advance(s, no) =
             IF Roll!Accepted(s, TRUE, "new", k, no)
             THEN [OpenSent(s, k) EXCEPT !.task = Sent2(t)]
             ELSE [s EXCEPT !.task = Roll!LegFailed(Sent2(t), 2)]
      <4>1. ("new" = "new") = TRUE /\ (2 = 0) = FALSE
        OBVIOUS
      <4> HIDE DEF s, m, k
      <4> QED BY ONLY <1>1, <1>2, <1>5, <1>7, <2>1, <4>1, Zenon DEF Roll!Advance, CloseSent, OpenSent
    <3>. QED BY <1>3, <1>4, <1>6, <1>11, <1>12, <3>1
  <2>. QED BY <1>10, <2>2 DEF Advances
<1>. QED BY <1>8, <1>9, <1>10 DEF Due2

\* What a roll that goes on starts from: every order was sent before, and at a
\* fill there is none of another contract, nor volume for the one of this.
Ready(t, p, q, ph, bud, mis) ==
    /\ t \in Roll!Task /\ t.state \notin {"PAUSED", "COMPLETED"} /\ LegsCount(t, p)
    /\ p \in [{"old", "new"} -> Nat] /\ q \in Seq(Roll!Order) /\ Len(q) <= 1
    /\ \A i \in DOMAIN q : q[i].sent
    /\ OfLegs(t, p, q, ph) /\ (~mis => HasOrder(t, q))
    /\ ph \in {"old", "new"} => \A i \in DOMAIN q : bud = 0 /\ q[i].contract = ph

LEMMA TaskNumbers ==
  ASSUME NEW t \in Roll!Task
  PROVE  /\ t.total \in Nat /\ t.total > 0 /\ t.total <= Size
         /\ t.leg[1].filled \in Nat /\ t.leg[1].batch \in Nat /\ t.leg[1].batchFilled \in Nat /\ t.leg[1].placed \in BOOLEAN
         /\ t.leg[2].filled \in Nat /\ t.leg[2].batch \in Nat /\ t.leg[2].batchFilled \in Nat /\ t.leg[2].placed \in BOOLEAN
BY TaskType, LegType

\* The tasks after a step of _advance_roll, field by field.
LEMMA SentFields ==
  ASSUME NEW t
  PROVE  /\ Sent1(t).state = "LEG_1_SUBMITTED" /\ Sent1(t).total = t.total /\ Sent1(t).leg[2] = t.leg[2]
         /\ Sent1(t).leg[1].filled = t.leg[1].filled /\ Sent1(t).leg[1].placed = TRUE
         /\ Sent1(t).leg[1].batch = t.total - t.leg[1].filled /\ Sent1(t).leg[1].batchFilled = 0
         /\ Sent2(t).state = "LEG_2_SUBMITTED" /\ Sent2(t).total = t.total /\ Sent2(t).leg[1] = t.leg[1]
         /\ Sent2(t).leg[2].filled = t.leg[2].filled /\ Sent2(t).leg[2].placed = TRUE
         /\ Sent2(t).leg[2].batch = t.leg[1].filled - t.leg[2].filled /\ Sent2(t).leg[2].batchFilled = 0
         /\ Failed1(t).state = "PAUSED" /\ Failed1(t).total = t.total /\ Failed1(t).leg[2] = t.leg[2]
         /\ Failed1(t).leg[1].filled = t.leg[1].filled /\ Failed1(t).leg[1].placed = FALSE
         /\ Failed1(t).leg[1].batchFilled = 0
         /\ Failed2(t).state = "PAUSED" /\ Failed2(t).total = t.total /\ Failed2(t).leg[1] = t.leg[1]
         /\ Failed2(t).leg[2].filled = t.leg[2].filled /\ Failed2(t).leg[2].placed = FALSE
         /\ Failed2(t).leg[2].batchFilled = 0
<1>1. /\ Sent1(t).state = "LEG_1_SUBMITTED" /\ Sent1(t).total = t.total /\ Sent1(t).leg[2] = t.leg[2]
      /\ Sent1(t).leg[1] = LegIs(t.leg[1].filled, TRUE, t.total - t.leg[1].filled, 0)
  BY DEF Sent1, TaskIs, LegIs
<1>2. /\ Sent2(t).state = "LEG_2_SUBMITTED" /\ Sent2(t).total = t.total /\ Sent2(t).leg[1] = t.leg[1]
      /\ Sent2(t).leg[2] = LegIs(t.leg[2].filled, TRUE, t.leg[1].filled - t.leg[2].filled, 0)
  BY DEF Sent2, TaskIs, LegIs
<1>3. /\ Failed1(t).state = "PAUSED" /\ Failed1(t).total = t.total /\ Failed1(t).leg[2] = t.leg[2]
      /\ Failed1(t).leg[1] = LegIs(t.leg[1].filled, FALSE, 0, 0)
  BY DEF Failed1, TaskIs, LegIs
<1>4. /\ Failed2(t).state = "PAUSED" /\ Failed2(t).total = t.total /\ Failed2(t).leg[1] = t.leg[1]
      /\ Failed2(t).leg[2] = LegIs(t.leg[2].filled, FALSE, 0, 0)
  BY DEF Failed2, TaskIs, LegIs
<1>. QED BY <1>1, <1>2, <1>3, <1>4 DEF LegIs

LEMMA SentType ==
  ASSUME NEW t \in Roll!Task, t.leg[2].filled <= t.leg[1].filled, t.leg[1].filled <= t.total
  PROVE  Sent1(t) \in Roll!Task /\ Sent2(t) \in Roll!Task /\ Failed1(t) \in Roll!Task /\ Failed2(t) \in Roll!Task
<1>1. /\ t.total \in Nat /\ t.total > 0 /\ t.total <= Size /\ Size \in Nat
      /\ t.leg[1].filled \in Nat /\ t.leg[2].filled \in Nat
  BY TaskNumbers, RollAssumption
<1>2. t.leg[1] \in Roll!Leg /\ t.leg[2] \in Roll!Leg /\ t.retries \in Nat /\ t.retries <= MaxRetries
  BY TaskType
<1>3. "LEG_1_SUBMITTED" \in Roll!States /\ "LEG_2_SUBMITTED" \in Roll!States /\ "PAUSED" \in Roll!States
  BY DEF Roll!States
<1>4. \A n, f, g \in Nat : g <= f /\ f <= n /\ n <= Size =>
          /\ n - f \in Nat /\ n - f <= Size /\ f - g \in Nat /\ f - g <= Size
          /\ f <= Size /\ g <= Size /\ 0 \in Nat /\ 0 <= Size
  BY <1>1
<1>5. /\ t.total - t.leg[1].filled \in Nat /\ t.total - t.leg[1].filled <= Size
      /\ t.leg[1].filled - t.leg[2].filled \in Nat /\ t.leg[1].filled - t.leg[2].filled <= Size
      /\ t.leg[1].filled <= Size /\ t.leg[2].filled <= Size /\ 0 \in Nat /\ 0 <= Size
  BY <1>1, <1>4
<1>6. /\ LegIs(t.leg[1].filled, TRUE, t.total - t.leg[1].filled, 0) \in Roll!Leg
      /\ LegIs(t.leg[2].filled, TRUE, t.leg[1].filled - t.leg[2].filled, 0) \in Roll!Leg
  BY <1>1, <1>5, LegType
<1>7. LegIs(t.leg[1].filled, FALSE, 0, 0) \in Roll!Leg /\ LegIs(t.leg[2].filled, FALSE, 0, 0) \in Roll!Leg
  BY <1>1, <1>5, LegType
<1>8. Sent1(t) \in Roll!Task
  BY <1>1, <1>2, <1>3, <1>6, TaskType DEF Sent1
<1>9. Sent2(t) \in Roll!Task
  BY <1>1, <1>2, <1>3, <1>6, TaskType DEF Sent2
<1>10. Failed1(t) \in Roll!Task
  BY <1>1, <1>2, <1>3, <1>7, TaskType DEF Failed1
<1>11. Failed2(t) \in Roll!Task
  BY <1>1, <1>2, <1>3, <1>7, TaskType DEF Failed2
<1>. QED BY <1>8, <1>9, <1>10, <1>11

LEMMA AppendPair ==
  ASSUME NEW x, NEW y
  PROVE  Append(<<x>>, y) = <<x, y>>
<1> DEFINE S == {x, y}
           a == Append(<<x>>, y)
           b == <<x, y>>
<1>1. x \in S /\ y \in S
  OBVIOUS
<1> HIDE DEF S
<1>2. <<x>> \in Seq(S) /\ Len(<<x>>) = 1 /\ <<x>>[1] = x
  BY <1>1
<1>3. a \in Seq(S) /\ Len(a) = 2 /\ a[1] = x /\ a[2] = y
  BY <1>1, <1>2, AppendProperties
<1>4. b \in Seq(S) /\ Len(b) = 2 /\ b[1] = x /\ b[2] = y
  BY <1>1
<1> HIDE DEF a, b
<1>5. \A i \in 1..Len(a) : i = 1 \/ i = 2
  BY <1>3
<1>6. \A i \in 1..Len(a) : a[i] = b[i]
  BY <1>3, <1>4, <1>5
<1>7. a = b
  BY <1>3, <1>4, <1>6, SeqEqual
<1>. QED BY <1>7 DEF a, b

\* The orders and one more that is held.
LEMMA OneMore ==
  ASSUME NEW q \in Seq(Roll!Order), Len(q) <= 1, NEW o \in Roll!Order, \A i \in DOMAIN q : q[i].sent, ~o.sent
  PROVE  /\ Append(q, o) \in Seq(Roll!Order) /\ WaitsBehind(Append(q, o))
         /\ \/ q = <<>> /\ DOMAIN q = {} /\ Append(q, o) = <<o>> /\ DOMAIN Append(q, o) = {1} /\ Append(q, o)[1] = o
            \/ \E x \in Roll!Order : /\ q = <<x>> /\ DOMAIN q = {1} /\ q[1] = x /\ x.sent
                                     /\ Len(Append(q, o)) = 2 /\ DOMAIN Append(q, o) = {1, 2}
                                     /\ Append(q, o)[1] = x /\ Append(q, o)[2] = o
<1> DEFINE q2 == Append(q, o)
<1>1. Len(q) <= 2
  OBVIOUS
<1>2. \/ q = <<>> /\ DOMAIN q = {}
      \/ \E x \in Roll!Order : q = <<x>> /\ DOMAIN q = {1} /\ Len(q) = 1
  BY <1>1, Short
<1>3. CASE q = <<>>
  <2>1. q2 = <<o>>
    BY <1>3, ShortIs
  <2>2. q2 \in Seq(Roll!Order) /\ Len(q2) = 1 /\ DOMAIN q2 = {1} /\ q2[1] = o
    BY <2>1, ShortIs
  <2>3. DOMAIN q = {}
    BY <1>3
  <2> HIDE DEF q2
  <2>4. WaitsBehind(q2)
    BY <2>2 DEF WaitsBehind
  <2>. QED BY <1>3, <2>1, <2>2, <2>3, <2>4 DEF q2
<1>4. ASSUME NEW x \in Roll!Order, q = <<x>>, DOMAIN q = {1}
      PROVE  /\ q2 \in Seq(Roll!Order) /\ WaitsBehind(q2)
             /\ q[1] = x /\ x.sent /\ Len(q2) = 2 /\ DOMAIN q2 = {1, 2} /\ q2[1] = x /\ q2[2] = o
  <2>1. q2 = <<x, o>>
    <3>1. Append(<<x>>, o) = <<x, o>>
      BY AppendPair
    <3>. QED BY <1>4, <3>1
  <2>2. q2 \in Seq(Roll!Order) /\ Len(q2) = 2 /\ DOMAIN q2 = {1, 2} /\ q2[1] = x /\ q2[2] = o
    BY <2>1, ShortIs
  <2>3. q[1] = x /\ x.sent
    BY <1>4
  <2> HIDE DEF q2
  <2>4. WaitsBehind(q2)
    BY <2>2, <2>3 DEF WaitsBehind
  <2>. QED BY <2>2, <2>3, <2>4
<1>. QED BY <1>2, <1>3, <1>4

LEMMA NoneMore ==
  ASSUME NEW q \in Seq(Roll!Order), Len(q) <= 1, \A i \in DOMAIN q : q[i].sent, NEW t, NEW ph, NEW bud
  PROVE  WaitsBehind(q) /\ Waiting(t, q, ph, bud) /\ Apart(q, ph) /\ Len(q) \in Nat
<1>1. Len(q) \in Nat
  OBVIOUS
<1>2. ~(Len(q) = 2) /\ Len(q) <= 2
  <2>1. Len(q) <= 1
    OBVIOUS
  <2> DEFINE n == Len(q)
  <2> HIDE DEF n
  <2>2. n \in Nat /\ n <= 1
    BY <1>1, <2>1 DEF n
  <2>3. ~(n = 2) /\ n <= 2
    BY ONLY <2>2
  <2>. QED BY <2>3 DEF n
<1>. QED BY <1>1, <1>2 DEF WaitsBehind, Waiting, Apart

\* _advance_roll keeps the invariant of a roll.
LEMMA AdvanceKeeps ==
  ASSUME NEW t, NEW p, NEW q, NEW ph \in {"old", "new", "close"}, NEW bud, NEW mis,
         Ready(t, p, q, ph, bud, mis), NEW t2, NEW q2, Advances(t, p, q, t2, q2)
  PROVE  /\ t2 \in Roll!Task /\ q2 \in Seq(Roll!Order) /\ WaitsBehind(q2)
         /\ RollingInv(t2, p, q2, ph, bud, "new", mis)
<1>1. /\ t \in Roll!Task /\ t.state \notin {"PAUSED", "COMPLETED"} /\ p \in [{"old", "new"} -> Nat]
      /\ q \in Seq(Roll!Order) /\ Len(q) <= 1 /\ \A i \in DOMAIN q : q[i].sent
      /\ ~mis => HasOrder(t, q)
  BY DEF Ready
<1>2. /\ t.total \in Nat /\ t.leg[1].filled \in Nat /\ t.leg[2].filled \in Nat /\ t.leg[1].placed \in BOOLEAN
      /\ t.leg[2].placed \in BOOLEAN /\ t.total <= Size /\ Size \in Nat
      /\ p["old"] \in Nat /\ p["new"] \in Nat
  BY <1>1, TaskNumbers, RollAssumption
<1>3. /\ p["old"] + t.leg[1].filled = t.total /\ p["new"] = t.leg[2].filled
      /\ t.leg[2].filled <= t.leg[1].filled /\ t.leg[2].filled < t.total
      /\ t.leg[1].batchFilled <= t.leg[1].filled /\ t.leg[2].batchFilled <= t.leg[2].filled
  BY DEF Ready, LegsCount
<1>4. t.leg[1].filled <= t.total /\ p["old"] = t.total - t.leg[1].filled
  BY <1>2, <1>3
<1>5. Sent1(t) \in Roll!Task /\ Sent2(t) \in Roll!Task /\ Failed1(t) \in Roll!Task /\ Failed2(t) \in Roll!Task
  BY <1>1, <1>3, <1>4, SentType
<1>6. \A n : WaitsBehind(q) /\ Waiting(n, q, ph, bud) /\ Apart(q, ph)
  BY <1>1, NoneMore
<1>7. \A i \in DOMAIN q : OfLeg(t, p, q[i], ph) /\ (ph \in {"old", "new"} => bud = 0 /\ q[i].contract = ph)
  BY DEF Ready, OfLegs
<1>8. CASE ~Due1(t) /\ ~Due2(t) /\ t2 = t /\ q2 = q
  <2>1. t.leg[1].placed \/ t.leg[2].placed
    BY <1>2, <1>3, <1>4, <1>8 DEF Due1, Due2
  <2>. QED BY <1>1, <1>6, <1>8, <2>1 DEF Ready, RollingInv, DrivenOn
<1>9. CASE Due1(t) /\ t2 = Failed1(t) /\ q2 = q
  <2>1. t2.state = "PAUSED" /\ t2.total = t.total /\ t2.leg[2] = t.leg[2] /\ t2.leg[1].filled = t.leg[1].filled
        /\ t2.leg[1].placed = FALSE /\ t2.leg[1].batchFilled = 0
    BY <1>9, SentFields
  <2>2. LegsCount(t2, p)
    BY <1>2, <1>3, <2>1 DEF LegsCount
  <2>3. OfLegs(t2, p, q2, ph)
    BY <1>7, <1>9, <2>1 DEF OfLegs, OfLeg
  <2>4. ~mis => HasOrder(t2, q2)
    BY <1>1, <1>9, <2>1 DEF HasOrder
  <2>. QED BY <1>1, <1>5, <1>6, <1>9, <2>1, <2>2, <2>3, <2>4 DEF RollingInv, DrivenOn
<1>10. CASE Due2(t) /\ t2 = Failed2(t) /\ q2 = q
  <2>1. t2.state = "PAUSED" /\ t2.total = t.total /\ t2.leg[1] = t.leg[1] /\ t2.leg[2].filled = t.leg[2].filled
        /\ t2.leg[2].placed = FALSE /\ t2.leg[2].batchFilled = 0
    BY <1>10, SentFields
  <2>2. LegsCount(t2, p)
    BY <1>2, <1>3, <2>1 DEF LegsCount
  <2>3. OfLegs(t2, p, q2, ph)
    <3>1. ~t.leg[2].placed
      BY <1>10 DEF Due2
    <3>. QED BY <1>7, <1>10, <2>1, <3>1 DEF OfLegs, OfLeg
  <2>4. ~mis => HasOrder(t2, q2)
    BY <1>1, <1>10, <2>1 DEF HasOrder
  <2>. QED BY <1>1, <1>5, <1>6, <1>10, <2>1, <2>2, <2>3, <2>4 DEF RollingInv, DrivenOn
<1>11. ASSUME Due1(t), t2 = Sent1(t), q2 = Append(q, CloseOrder(t.total - t.leg[1].filled)),
              p["old"] = t.total - t.leg[1].filled => q = <<>> \/ ~(~q[1].opens /\ q[1].contract = "old")
       PROVE  /\ q2 \in Seq(Roll!Order) /\ WaitsBehind(q2)
              /\ RollingInv(t2, p, q2, ph, bud, "new", mis)
  <2> DEFINE m == t.total - t.leg[1].filled
             o == CloseOrder(m)
  <2>1. m \in Nat /\ m > 0 /\ m <= 2 * Size /\ m = p["old"]
    BY <1>2, <1>4, <1>11 DEF Due1
  <2>2. t2.state = "LEG_1_SUBMITTED" /\ t2.total = t.total /\ t2.leg[2] = t.leg[2] /\ t2.leg[1].filled = t.leg[1].filled
        /\ t2.leg[1].placed = TRUE /\ t2.leg[1].batch = m /\ t2.leg[1].batchFilled = 0
    BY <1>11, SentFields
  <2> HIDE DEF m
  <2>3. o \in Roll!Order
    BY <2>1, OrderIs DEF CloseOrder
  <2>4. o.contract = "old" /\ o.opens = FALSE /\ o.left = m /\ o.sent = FALSE
    BY DEF CloseOrder, Ord
  <2> HIDE DEF o
  <2>5. q2 = Append(q, o)
    BY <1>11 DEF o, m
  <2>6. /\ q2 \in Seq(Roll!Order) /\ WaitsBehind(q2)
        /\ \/ q = <<>> /\ DOMAIN q = {} /\ q2 = <<o>> /\ DOMAIN q2 = {1} /\ q2[1] = o
           \/ \E x \in Roll!Order : /\ q = <<x>> /\ DOMAIN q = {1} /\ q[1] = x /\ x.sent
                                    /\ Len(q2) = 2 /\ DOMAIN q2 = {1, 2} /\ q2[1] = x /\ q2[2] = o
    BY <1>1, <2>3, <2>4, <2>5, OneMore
  <2>7. LegsCount(t2, p)
    BY <1>2, <1>3, <2>2 DEF LegsCount
  <2>8. OfLeg(t2, p, o, ph)
    <3>1. m = m - 0
      BY <2>1
    <3>. QED BY <2>1, <2>2, <2>4, <3>1 DEF OfLeg
  <2>9. t2.state # "PAUSED" /\ t2.state # "COMPLETED" /\ DrivenOn(t2)
    BY <2>2 DEF DrivenOn
  <2>10. CASE q = <<>> /\ DOMAIN q = {} /\ q2 = <<o>> /\ DOMAIN q2 = {1} /\ q2[1] = o
    <3>1. OfLegs(t2, p, q2, ph) /\ Waiting(t2, q2, ph, bud)
      BY <2>4, <2>8, <2>9, <2>10 DEF OfLegs, Waiting, NoMatch
    <3>2. Apart(q2, ph)
      <4>1. Len(q2) = 1
        BY <2>10
      <4>. QED BY <4>1 DEF Apart
    <3>3. ~mis => HasOrder(t2, q2)
      BY <1>1, <2>2, <2>4, <2>10 DEF HasOrder
    <3>. QED BY <2>6, <2>7, <2>9, <3>1, <3>2, <3>3 DEF RollingInv
  <2>11. ASSUME NEW x \in Roll!Order, q = <<x>>, DOMAIN q = {1}, q[1] = x, x.sent,
                Len(q2) = 2, DOMAIN q2 = {1, 2}, q2[1] = x, q2[2] = o
         PROVE  RollingInv(t2, p, q2, ph, bud, "new", mis)
    <3>1. OfLeg(t, p, x, ph) /\ (ph \in {"old", "new"} => bud = 0 /\ x.contract = ph)
      BY <1>7, <2>11
    <3>2. ~(~x.opens /\ x.contract = "old") /\ q # <<>>
      BY <1>11, <2>1, <2>11 DEF m
    <3>3. ~(Alive(x, ph) /\ x.contract = "old")
      BY <3>1, <3>2 DEF OfLeg
    <3>4. OfLeg(t2, p, x, ph)
      BY <2>2, <3>1, <3>3 DEF OfLeg
    <3>5. OfLegs(t2, p, q2, ph)
      BY <2>8, <2>11, <3>4 DEF OfLegs
    <3>6. Waiting(t2, q2, ph, bud)
      BY <2>9, <2>11, <3>1 DEF Waiting
    <3>7. Apart(q2, ph)
      BY <2>4, <2>11, <3>1, <3>3 DEF Apart, Alive
    <3>8. ~mis => HasOrder(t2, q2)
      BY <1>1, <2>2, <2>4, <2>11 DEF HasOrder
    <3>. QED BY <2>7, <2>9, <3>5, <3>6, <3>7, <3>8 DEF RollingInv
  <2>. QED BY <2>6, <2>10, <2>11
<1>12. ASSUME Due2(t), t2 = Sent2(t), q2 = Append(q, OpenOrder(t.leg[1].filled - t.leg[2].filled))
       PROVE  /\ q2 \in Seq(Roll!Order) /\ WaitsBehind(q2)
              /\ RollingInv(t2, p, q2, ph, bud, "new", mis)
  <2> DEFINE m == t.leg[1].filled - t.leg[2].filled
             o == OpenOrder(m)
  <2>1. m \in Nat /\ m > 0 /\ m <= 2 * Size /\ t.leg[2].filled + m <= t.leg[1].filled
        /\ t.leg[1].filled # 0
    <3>1. \A f, g, n \in Nat : g < f /\ f <= n /\ n <= Size =>
             f - g \in Nat /\ f - g > 0 /\ f - g <= 2 * Size /\ g + (f - g) <= f /\ f # 0
      BY <1>2
    <3>2. t.leg[2].filled < t.leg[1].filled
      BY <1>12 DEF Due2
    <3>. QED BY <1>2, <1>4, <3>1, <3>2
  <2>2. t2.state = "LEG_2_SUBMITTED" /\ t2.total = t.total /\ t2.leg[1] = t.leg[1] /\ t2.leg[2].filled = t.leg[2].filled
        /\ t2.leg[2].placed = TRUE /\ t2.leg[2].batch = m /\ t2.leg[2].batchFilled = 0
    BY <1>12, SentFields
  <2> HIDE DEF m
  <2>3. o \in Roll!Order
    BY <2>1, OrderIs DEF OpenOrder
  <2>4. o.contract = "new" /\ o.opens = TRUE /\ o.left = m /\ o.sent = FALSE
    BY DEF OpenOrder, Ord
  <2> HIDE DEF o
  <2>5. q2 = Append(q, o)
    BY <1>12 DEF o, m
  <2>6. /\ q2 \in Seq(Roll!Order) /\ WaitsBehind(q2)
        /\ \/ q = <<>> /\ DOMAIN q = {} /\ q2 = <<o>> /\ DOMAIN q2 = {1} /\ q2[1] = o
           \/ \E x \in Roll!Order : /\ q = <<x>> /\ DOMAIN q = {1} /\ q[1] = x /\ x.sent
                                    /\ Len(q2) = 2 /\ DOMAIN q2 = {1, 2} /\ q2[1] = x /\ q2[2] = o
    BY <1>1, <2>3, <2>4, <2>5, OneMore
  <2>7. LegsCount(t2, p)
    BY <1>2, <1>3, <2>2 DEF LegsCount
  <2>8. OfLeg(t2, p, o, ph)
    <3>1. m = m - 0
      BY <2>1
    <3>. QED BY <2>1, <2>2, <2>4, <3>1 DEF OfLeg
  <2>9. t2.state # "PAUSED" /\ t2.state # "COMPLETED" /\ DrivenOn(t2)
    BY <2>2 DEF DrivenOn
  <2>10. CASE q = <<>> /\ DOMAIN q = {} /\ q2 = <<o>> /\ DOMAIN q2 = {1} /\ q2[1] = o
    <3>1. OfLegs(t2, p, q2, ph) /\ Waiting(t2, q2, ph, bud)
      BY <2>4, <2>8, <2>9, <2>10 DEF OfLegs, Waiting, NoMatch
    <3>2. Apart(q2, ph)
      <4>1. Len(q2) = 1
        BY <2>10
      <4>. QED BY <4>1 DEF Apart
    <3>3. ~mis => HasOrder(t2, q2)
      BY <1>1, <2>2, <2>4, <2>10 DEF HasOrder
    <3>. QED BY <2>6, <2>7, <2>9, <3>1, <3>2, <3>3 DEF RollingInv
  <2>11. ASSUME NEW x \in Roll!Order, q = <<x>>, DOMAIN q = {1}, q[1] = x, x.sent,
                Len(q2) = 2, DOMAIN q2 = {1, 2}, q2[1] = x, q2[2] = o
         PROVE  RollingInv(t2, p, q2, ph, bud, "new", mis)
    <3>1. OfLeg(t, p, x, ph) /\ (ph \in {"old", "new"} => bud = 0 /\ x.contract = ph)
      BY <1>7, <2>11
    <3>2. ~t.leg[2].placed
      BY <1>12 DEF Due2
    <3>3. x.contract # "new"
      BY <2>1, <3>1, <3>2 DEF OfLeg
    <3>4. OfLeg(t2, p, x, ph)
      BY <2>2, <3>1, <3>3 DEF OfLeg
    <3>5. OfLegs(t2, p, q2, ph)
      BY <2>8, <2>11, <3>4 DEF OfLegs
    <3>6. Waiting(t2, q2, ph, bud)
      BY <2>9, <2>11, <3>1 DEF Waiting
    <3>7. Apart(q2, ph)
      BY <2>4, <2>11, <3>1, <3>3 DEF Apart, Alive
    <3>8. ~mis => HasOrder(t2, q2)
      BY <1>1, <2>2, <2>4, <2>11 DEF HasOrder
    <3>. QED BY <2>7, <2>9, <3>5, <3>6, <3>7, <3>8 DEF RollingInv
  <2>. QED BY <2>6, <2>10, <2>11
<1>. QED BY <1>5, <1>8, <1>9, <1>10, <1>11, <1>12 DEF Advances

-------------------------------------------------------------------------------
(* The actions *)

Phases == {"settled", "expiring", "old", "new", "close"}

LEMMA InvOf ==
  ASSUME NEW h \in {"old", "new", "none"}, NEW t \in Roll!Task \union {Roll!NoTask},
         NEW p \in [{"old", "new"} -> Nat], NEW q \in Seq(Roll!Order), WaitsBehind(q),
         NEW ph, NEW bud, NEW dom, NEW mis,
         t = Roll!NoTask => IdleInv(h, p, q, ph, dom),
         t # Roll!NoTask => RollingInv(t, p, q, ph, bud, dom, mis)
  PROVE  StrategyInv(Strategy(h, t, p, q), ph, bud, dom, mis)
<1> DEFINE s == Strategy(h, t, p, q)
<1>1. s.held = h /\ s.task = t /\ s.position = p /\ s.orders = q
  BY StrategyFields
<1>2. s = Strategy(s.held, s.task, s.position, s.orders)
  BY <1>1
<1> HIDE DEF s
<1>3. IsStrategy(s)
  BY <1>1, <1>2 DEF IsStrategy
<1>4. Roll!Rolling(s) <=> t # Roll!NoTask
  BY <1>1 DEF Roll!Rolling
<1>5. ~Roll!Rolling(s) => IdleInv(s.held, s.position, s.orders, ph, dom)
  BY <1>1, <1>4
<1>6. Roll!Rolling(s) => RollingInv(s.task, s.position, s.orders, ph, bud, dom, mis)
  BY <1>1, <1>4
<1>. QED BY <1>3, <1>5, <1>6 DEF StrategyInv, s

\* The orders of a queue, one by one.
LEMMA QueueIs ==
  ASSUME NEW q \in Seq(Roll!Order), WaitsBehind(q)
  PROVE  \/ q = <<>> /\ DOMAIN q = {}
         \/ \E x \in Roll!Order : q = <<x>> /\ DOMAIN q = {1} /\ Len(q) = 1 /\ q[1] = x
         \/ \E x, y \in Roll!Order : /\ q = <<x, y>> /\ DOMAIN q = {1, 2} /\ Len(q) = 2 /\ q[1] = x /\ q[2] = y
                                     /\ x.sent /\ ~y.sent
<1>1. Len(q) <= 2
  BY DEF WaitsBehind
<1>2. \/ q = <<>> /\ DOMAIN q = {}
      \/ \E x \in Roll!Order : q = <<x>> /\ DOMAIN q = {1} /\ Len(q) = 1
      \/ \E x, y \in Roll!Order : q = <<x, y>> /\ DOMAIN q = {1, 2} /\ Len(q) = 2
  BY <1>1, Short
<1>3. ASSUME NEW x \in Roll!Order, q = <<x>>, DOMAIN q = {1}, Len(q) = 1 PROVE q[1] = x
  BY <1>3
<1>4. ASSUME NEW x \in Roll!Order, NEW y \in Roll!Order, q = <<x, y>>, DOMAIN q = {1, 2}, Len(q) = 2
      PROVE  q[1] = x /\ q[2] = y /\ x.sent /\ ~y.sent
  <2>1. q[1] = x /\ q[2] = y
    BY <1>4
  <2>. QED BY <1>4, <2>1 DEF WaitsBehind
<1>. QED BY <1>2, <1>3, <1>4

\* The day goes on to another phase.
LEMMA PhaseKeeps ==
  ASSUME NEW s, NEW ph, NEW ph2, NEW bud, NEW bud2, NEW dom, NEW dom2, NEW mis,
         StrategyInv(s, ph, bud, dom, mis),
         \/ ph = "settled" /\ ph2 = "expiring" /\ dom2 \in {dom, "new"}
         \/ ph = "old" /\ ph2 = "new" /\ dom2 = dom
         \/ ph = "new" /\ ph2 = "close" /\ dom2 = dom
         \/ ph = "close" /\ ph2 = "settled" /\ dom2 = dom
  PROVE  StrategyInv(s, ph2, bud2, dom2, mis)
<1> DEFINE h == s.held
           t == s.task
           p == s.position
           q == s.orders
<1>1. IsStrategy(s)
  BY DEF StrategyInv
<1>2. q \in Seq(Roll!Order) /\ WaitsBehind(q)
  BY <1>1 DEF IsStrategy
<1>3. ASSUME ~Roll!Rolling(s) PROVE IdleInv(h, p, q, ph2, dom2)
  <2>1. IdleInv(h, p, q, ph, dom)
    BY <1>3 DEF StrategyInv
  <2> HIDE DEF h, p, q
  <2>2. ASSUME NEW i \in DOMAIN q PROVE IdleOrder(h, p, q[i], ph2, dom2)
    <3>1. IdleOrder(h, p, q[i], ph, dom)
      BY <2>1 DEF IdleInv
    <3>. QED BY <3>1 DEF IdleOrder, Alive
  <2>3. dom2 = "old" => dom = "old"
    OBVIOUS
  <2>. QED BY <2>1, <2>2, <2>3 DEF IdleInv
<1>4. ASSUME Roll!Rolling(s) PROVE RollingInv(t, p, q, ph2, bud2, dom2, mis)
  <2>1. RollingInv(t, p, q, ph, bud, dom, mis)
    BY <1>4 DEF StrategyInv
  <2> HIDE DEF t, p, q
  <2>2. OfLegs(t, p, q, ph2)
    <3>1. \A o : Alive(o, ph2) => Alive(o, ph)
      BY DEF Alive
    <3>. QED BY <2>1, <3>1 DEF RollingInv, OfLegs, OfLeg
  <2>3. Apart(q, ph2)
    BY <2>1 DEF RollingInv, Apart
  <2>4. Waiting(t, q, ph2, bud2)
    <3>1. Waiting(t, q, ph, bud) /\ Apart(q, ph)
      BY <2>1 DEF RollingInv
    <3>2. CASE ph = "new" \/ ph2 \in {"expiring", "settled"}
      BY <3>1, <3>2 DEF Waiting
    <3>3. CASE ph = "old" /\ ph2 = "new"
      <4>1. ASSUME NEW i \in DOMAIN q, ~q[i].sent PROVE NoMatch(q, "new")
        <5>1. CASE \E x \in Roll!Order : q = <<x>> /\ DOMAIN q = {1} /\ Len(q) = 1 /\ q[1] = x
          BY <4>1, <5>1 DEF NoMatch
        <5>2. CASE \E x, y \in Roll!Order : /\ q = <<x, y>> /\ DOMAIN q = {1, 2} /\ Len(q) = 2 /\ q[1] = x /\ q[2] = y
                                            /\ x.sent /\ ~y.sent
          BY <3>1, <3>3, <5>2 DEF NoMatch, Apart
        <5>. QED BY <1>2, <4>1, <5>1, <5>2, QueueIs
      <4>. QED BY <3>1, <3>3, <4>1 DEF Waiting
    <3>. QED BY <3>2, <3>3
  <2>. QED BY <2>1, <2>2, <2>3, <2>4 DEF RollingInv
<1>. QED BY <1>1, <1>3, <1>4 DEF StrategyInv

LEMMA PhaseActionsKeep == RollInv /\ (Roll!BeginDay \/ Roll!EndMatch \/ Roll!EndDay) => RollInv'
<1>1. ASSUME RollInv, Roll!BeginDay PROVE RollInv'
  <2>1. /\ phase = "settled" /\ phase' = "expiring" /\ dominant' \in {dominant, "new"}
        /\ strategy' = strategy /\ budget' = budget /\ barsLeft' = barsLeft /\ missed' = missed
    BY <1>1 DEF Roll!BeginDay
  <2>2. StrategyInv(strategy, phase, budget, dominant, missed)
    BY <1>1 DEF RollInv
  <2>3. StrategyInv(strategy, "expiring", budget, dominant', missed)
    BY <2>1, <2>2, PhaseKeeps
  <2>4. StrategyInv(strategy', phase', budget', dominant', missed')
    BY <2>1, <2>3
  <2>. QED BY <1>1, <2>1, <2>4 DEF RollInv
<1>2. ASSUME RollInv, Roll!EndMatch PROVE RollInv'
  <2>0. Size \in Nat /\ BarsPerDay \in Nat
    BY RollAssumption
  <2>1. /\ \/ phase = "old" /\ phase' = "new" /\ budget' \in 0..(2 * Size) /\ barsLeft' = barsLeft
           \/ phase = "new" /\ phase' = "close" /\ budget' = 0 /\ barsLeft' = BarsPerDay
        /\ strategy' = strategy /\ dominant' = dominant /\ missed' = missed
    BY <1>2 DEF Roll!EndMatch, Roll!Contracts
  <2>2. StrategyInv(strategy, phase, budget, dominant, missed)
    BY <1>2 DEF RollInv
  <2>3. StrategyInv(strategy, phase', budget', dominant, missed)
    BY <2>1, <2>2, PhaseKeeps
  <2>4. StrategyInv(strategy', phase', budget', dominant', missed')
    BY <2>1, <2>3
  <2>5. budget' \in 0..(2 * Size) /\ barsLeft' \in 0..BarsPerDay
    BY <1>2, <2>0, <2>1 DEF RollInv
  <2>. QED BY <1>2, <2>1, <2>4, <2>5 DEF RollInv
<1>3. ASSUME RollInv, Roll!EndDay PROVE RollInv'
  <2>1. /\ phase = "close" /\ phase' = "settled"
        /\ strategy' = strategy /\ budget' = budget /\ barsLeft' = barsLeft /\ missed' = missed /\ dominant' = dominant
    BY <1>3 DEF Roll!EndDay
  <2>2. StrategyInv(strategy, phase, budget, dominant, missed)
    BY <1>3 DEF RollInv
  <2>3. StrategyInv(strategy, "settled", budget, dominant, missed)
    BY <2>1, <2>2, PhaseKeeps
  <2>4. StrategyInv(strategy', phase', budget', dominant', missed')
    BY <2>1, <2>3
  <2>. QED BY <1>3, <2>1, <2>4 DEF RollInv
<1>. QED BY <1>1, <1>2, <1>3

\* The order that was held, at the market.
ActivatedOrder(o) == [o EXCEPT !.sent = TRUE]

LEMMA ActivatedIs ==
  /\ Roll!Activated(<<>>) = <<>>
  /\ \A x \in Roll!Order : /\ Roll!Activated(<<x>>) = <<ActivatedOrder(x)>> /\ ActivatedOrder(x) \in Roll!Order
                           /\ ActivatedOrder(x).contract = x.contract /\ ActivatedOrder(x).opens = x.opens
                           /\ ActivatedOrder(x).left = x.left /\ ActivatedOrder(x).sent = TRUE
<1>1. Roll!Activated(<<>>) = <<>>
  <2>1. DOMAIN <<>> = {}
    OBVIOUS
  <2>. QED BY <2>1 DEF Roll!Activated
<1>2. ASSUME NEW x \in Roll!Order
      PROVE  /\ ActivatedOrder(x) \in Roll!Order
             /\ ActivatedOrder(x).contract = x.contract /\ ActivatedOrder(x).opens = x.opens
             /\ ActivatedOrder(x).left = x.left /\ ActivatedOrder(x).sent = TRUE
  BY DEF ActivatedOrder, Roll!Order
<1>3. ASSUME NEW x \in Roll!Order PROVE Roll!Activated(<<x>>) = <<ActivatedOrder(x)>>
  <2> DEFINE y == ActivatedOrder(x)
             a == Roll!Activated(<<x>>)
  <2>1. DOMAIN <<x>> = {1} /\ <<x>>[1] = x
    OBVIOUS
  <2>2. a = [i \in {1} |-> y]
    BY <2>1 DEF Roll!Activated, ActivatedOrder
  <2> HIDE DEF y, a
  <2>3. <<y>> = [i \in {1} |-> y]
    BY 1..1 = {1}
  <2>. QED BY <2>2, <2>3 DEF y, a
<1>. QED BY <1>1, <1>2, <1>3

LEMMA SendDeferredKeeps == RollInv /\ Roll!SendDeferred => RollInv'
<1> SUFFICES ASSUME RollInv, Roll!SendDeferred PROVE RollInv'
  OBVIOUS
<1> DEFINE h == strategy.held
           t == strategy.task
           p == strategy.position
           q == strategy.orders
           q2 == Roll!Activated(q)
<1>1. /\ phase = "expiring" /\ phase' = "old" /\ budget' \in 0..(2 * Size) /\ barsLeft' = barsLeft
      /\ dominant' = dominant /\ missed' = missed /\ (q # <<>> => ~Head(q).sent)
      /\ strategy' = [strategy EXCEPT !.orders = q2]
  BY DEF Roll!SendDeferred, Roll!Expires
<1>2. StrategyInv(strategy, "expiring", budget, dominant, missed) /\ IsStrategy(strategy)
  BY <1>1 DEF RollInv, StrategyInv
<1>3. /\ strategy = Strategy(h, t, p, q) /\ h \in {"old", "new", "none"} /\ t \in Roll!Task \union {Roll!NoTask}
      /\ p \in [{"old", "new"} -> Nat] /\ q \in Seq(Roll!Order) /\ WaitsBehind(q)
  BY <1>2 DEF IsStrategy
<1>4. t = Roll!NoTask => IdleInv(h, p, q, "expiring", dominant)
  BY <1>2 DEF StrategyInv, Roll!Rolling
<1>5. t # Roll!NoTask => RollingInv(t, p, q, "expiring", budget, dominant, missed)
  BY <1>2 DEF StrategyInv, Roll!Rolling
<1> HIDE DEF h, t, p, q
<1>6. strategy' = Strategy(h, t, p, q2)
  <2>1. [Strategy(h, t, p, q) EXCEPT !.orders = q2] = Strategy(h, t, p, q2)
    BY ONLY OrdersSet
  <2>. QED BY <1>1, <1>3, <2>1
<1>7. \/ q = <<>> /\ q2 = <<>>
      \/ \E x \in Roll!Order : q = <<x>> /\ DOMAIN q = {1} /\ q[1] = x /\ ~x.sent /\ q2 = <<ActivatedOrder(x)>>
  <2>1. CASE q = <<>>
    BY <2>1, ActivatedIs
  <2>2. ASSUME NEW x \in Roll!Order, q = <<x>>, DOMAIN q = {1}, q[1] = x PROVE ~x.sent /\ q2 = <<ActivatedOrder(x)>>
    <3>1. Head(q) = x /\ q # <<>>
      BY <2>2
    <3>. QED BY <1>1, <2>2, <3>1, ActivatedIs
  <2>3. ASSUME NEW x \in Roll!Order, NEW y \in Roll!Order, q = <<x, y>>, x.sent PROVE FALSE
    <3>1. Head(q) = x /\ q # <<>>
      BY <2>3
    <3>. QED BY <1>1, <2>3, <3>1
  <2>. QED BY <1>3, <2>1, <2>2, <2>3, QueueIs
<1> HIDE DEF q2
<1>8. StrategyInv(Strategy(h, t, p, q2), "old", budget', dominant, missed)
  <2>1. CASE q = <<>> /\ q2 = <<>>
    <3>1. q2 \in Seq(Roll!Order) /\ WaitsBehind(q2) /\ DOMAIN q2 = {} /\ DOMAIN q = {} /\ Len(q2) = 0
      BY <1>3, <2>1
    <3>2. t = Roll!NoTask => IdleInv(h, p, q2, "old", dominant)
      BY <1>4, <2>1, <3>1 DEF IdleInv
    <3>3. t # Roll!NoTask => RollingInv(t, p, q2, "old", budget', dominant, missed)
      BY <1>5, <2>1, <3>1 DEF RollingInv, OfLegs, Waiting, Apart
    <3>. QED BY <1>3, <3>1, <3>2, <3>3, InvOf
  <2>2. ASSUME NEW x \in Roll!Order, q = <<x>>, DOMAIN q = {1}, q[1] = x, ~x.sent, q2 = <<ActivatedOrder(x)>>
        PROVE  StrategyInv(Strategy(h, t, p, q2), "old", budget', dominant, missed)
    <3> DEFINE y == ActivatedOrder(x)
    <3>1. y \in Roll!Order /\ y.contract = x.contract /\ y.opens = x.opens /\ y.left = x.left /\ y.sent = TRUE
      BY <2>2, ActivatedIs
    <3> HIDE DEF y
    <3>2. q2 \in Seq(Roll!Order) /\ DOMAIN q2 = {1} /\ Len(q2) = 1 /\ q2[1] = y
      BY <2>2, <3>1 DEF y
    <3>3. WaitsBehind(q2) /\ q2 # <<>> /\ q # <<>>
      BY <2>2, <3>2 DEF WaitsBehind
    <3>4. t = Roll!NoTask => IdleInv(h, p, q2, "old", dominant)
      <4>1. ASSUME t = Roll!NoTask PROVE IdleOrder(h, p, y, "old", dominant)
        <5>1. IdleOrder(h, p, x, "expiring", dominant)
          BY <1>4, <2>2, <4>1 DEF IdleInv
        <5>. QED BY <2>2, <3>1, <5>1 DEF IdleOrder, Alive
      <4>. QED BY <1>4, <3>2, <3>3, <4>1 DEF IdleInv
    <3>5. ASSUME t # Roll!NoTask PROVE RollingInv(t, p, q2, "old", budget', dominant, missed)
      <4>1. RollingInv(t, p, q, "expiring", budget, dominant, missed)
        BY <1>5, <3>5
      <4>2. OfLeg(t, p, y, "old")
        <5>1. OfLeg(t, p, x, "expiring")
          BY <2>2, <4>1 DEF RollingInv, OfLegs
        <5>. QED BY <2>2, <3>1, <5>1 DEF OfLeg, Alive
      <4>3. OfLegs(t, p, q2, "old") /\ Waiting(t, q2, "old", budget')
        BY <3>1, <3>2, <4>2 DEF OfLegs, Waiting
      <4>4. Apart(q2, "old")
        <5>1. Len(q2) = 1
          BY <3>2
        <5>. QED BY <5>1 DEF Apart
      <4>5. ~missed => HasOrder(t, q2)
        BY <2>2, <3>1, <3>2, <4>1 DEF RollingInv, HasOrder
      <4>. QED BY <4>1, <4>3, <4>4, <4>5 DEF RollingInv
    <3>. QED BY <1>3, <3>2, <3>3, <3>4, <3>5, InvOf
  <2>. QED BY <1>7, <2>1, <2>2
<1>. QED BY <1>1, <1>6, <1>8 DEF RollInv

LEMMA ExpireKeeps == RollInv /\ Roll!Expire => RollInv'
<1> SUFFICES ASSUME RollInv, Roll!Expire PROVE RollInv'
  OBVIOUS
<1> DEFINE h == strategy.held
           t == strategy.task
           p == strategy.position
           q == strategy.orders
           q2 == Tail(q)
           t2 == IF t # Roll!NoTask /\ t.state # "PAUSED" THEN Roll!LegFailed(t, Roll!LegOf(Head(q).contract)) ELSE t
           mis == missed \/ (t # Roll!NoTask /\ t.state = "PAUSED")
<1>1. StrategyInv(strategy, phase, budget, dominant, missed) /\ IsStrategy(strategy)
  BY DEF RollInv, StrategyInv
<1>2. /\ strategy = Strategy(h, t, p, q) /\ h \in {"old", "new", "none"} /\ t \in Roll!Task \union {Roll!NoTask}
      /\ p \in [{"old", "new"} -> Nat] /\ q \in Seq(Roll!Order) /\ WaitsBehind(q)
  BY <1>1 DEF IsStrategy
<1>3. [strategy EXCEPT !.orders = q2] = Strategy(h, t, p, q2)
  <2> HIDE DEF h, t, p, q, q2
  <2>1. [Strategy(h, t, p, q) EXCEPT !.orders = q2] = Strategy(h, t, p, q2)
    BY ONLY OrdersSet
  <2>. QED BY <1>2, <2>1
<1>4. /\ phase = "expiring" /\ phase' = phase /\ budget' = budget /\ barsLeft' = barsLeft /\ dominant' = dominant
      /\ q # <<>> /\ Head(q).sent /\ missed' = mis
      /\ strategy' = Roll!OnFailedOrder([strategy EXCEPT !.orders = q2], Head(q).contract)
  BY DEF Roll!Expire, Roll!Expires, Roll!Rolling
<1>5. strategy' = Strategy(h, t2, p, q2)
  <2> DEFINE s == Strategy(h, t, p, q2)
             f == Roll!LegFailed(t, Roll!LegOf(Head(q).contract))
  <2>1. s.task = t
    BY StrategyFields
  <2>2. [s EXCEPT !.task = f] = Strategy(h, f, p, q2)
    BY TaskSet
  <2>3. Roll!OnFailedOrder(s, Head(q).contract) = IF t # Roll!NoTask /\ t.state # "PAUSED" THEN [s EXCEPT !.task = f] ELSE s
    <3> HIDE DEF s
    <3>. QED BY <2>1 DEF Roll!OnFailedOrder, Roll!Rolling
  <2>. QED BY <1>3, <1>4, <2>2, <2>3
<1>6. t = Roll!NoTask => IdleInv(h, p, q, "expiring", dominant)
  BY <1>1, <1>4 DEF StrategyInv, Roll!Rolling
<1>7. t # Roll!NoTask => RollingInv(t, p, q, "expiring", budget, dominant, missed)
  BY <1>1, <1>4 DEF StrategyInv, Roll!Rolling
<1>8. PICK x \in Roll!Order : /\ Head(q) = x /\ x.sent /\ x.contract \in {"old", "new"}
                              /\ \/ q = <<x>> /\ DOMAIN q = {1} /\ Len(q) = 1 /\ q[1] = x /\ q2 = <<>>
                                 \/ \E y \in Roll!Order : /\ DOMAIN q = {1, 2} /\ Len(q) = 2 /\ q[1] = x /\ q[2] = y
                                                          /\ ~y.sent /\ q2 = <<y>>
  <2> HIDE DEF q, t, p, h
  <2>1. ASSUME NEW x \in Roll!Order, q = <<x>>, DOMAIN q = {1}, Len(q) = 1, q[1] = x
        PROVE  Head(q) = x /\ q2 = <<>> /\ x.sent /\ x.contract \in {"old", "new"}
    <3>1. Head(q) = x
      BY <2>1
    <3>2. q2 = <<>>
      BY <2>1
    <3>. QED BY <1>4, <3>1, <3>2, OrderIs
  <2>2. ASSUME NEW x \in Roll!Order, NEW y \in Roll!Order, q = <<x, y>>, DOMAIN q = {1, 2}, Len(q) = 2,
               q[1] = x, q[2] = y, x.sent, ~y.sent
        PROVE  Head(q) = x /\ q2 = <<y>> /\ x.contract \in {"old", "new"}
    <3>1. Head(q) = x
      BY <2>2
    <3>2. q2 = <<y>>
      BY <2>2, ShortIs
    <3>. QED BY <3>1, <3>2, OrderIs
  <2>. QED BY <1>2, <1>4, <2>1, <2>2, QueueIs
<1> HIDE DEF h, t, p, q, q2
<1>9. /\ q2 \in Seq(Roll!Order) /\ WaitsBehind(q2) /\ Len(q2) <= 1 /\ ~(Len(q2) = 2)
      /\ \/ q2 = <<>> /\ DOMAIN q2 = {} /\ DOMAIN q = {1} /\ q[1] = x
         \/ \E y \in Roll!Order : DOMAIN q2 = {1} /\ q2[1] = y /\ ~y.sent /\ DOMAIN q = {1, 2} /\ q[1] = x /\ q[2] = y /\ Len(q) = 2
  <2>1. CASE q2 = <<>> /\ DOMAIN q = {1} /\ q[1] = x
    <3>1. q2 \in Seq(Roll!Order) /\ Len(q2) = 0 /\ DOMAIN q2 = {}
      BY <2>1
    <3>. QED BY <2>1, <3>1 DEF WaitsBehind
  <2>2. ASSUME NEW y \in Roll!Order, q2 = <<y>>, ~y.sent, DOMAIN q = {1, 2}, q[1] = x, q[2] = y, Len(q) = 2
        PROVE  /\ q2 \in Seq(Roll!Order) /\ WaitsBehind(q2) /\ Len(q2) <= 1 /\ ~(Len(q2) = 2)
               /\ DOMAIN q2 = {1} /\ q2[1] = y
    <3>1. q2 \in Seq(Roll!Order) /\ Len(q2) = 1 /\ DOMAIN q2 = {1} /\ q2[1] = y
      BY <2>2
    <3>. QED BY <3>1 DEF WaitsBehind
  <2>3. \/ q2 = <<>> /\ DOMAIN q = {1} /\ q[1] = x
        \/ \E y \in Roll!Order : q2 = <<y>> /\ ~y.sent /\ DOMAIN q = {1, 2} /\ q[1] = x /\ q[2] = y /\ Len(q) = 2
    BY <1>8
  <2>. QED BY <2>1, <2>2, <2>3
<1>10. t = Roll!NoTask => IdleInv(h, p, q2, "expiring", dominant)
  BY <1>6, <1>8, <1>9 DEF IdleInv
<1>11. ASSUME t # Roll!NoTask
       PROVE  t2 \in Roll!Task /\ RollingInv(t2, p, q2, "expiring", budget, dominant, mis)
  <2>1. RollingInv(t, p, q, "expiring", budget, dominant, missed) /\ t \in Roll!Task /\ t # Roll!NoTask
    BY <1>2, <1>7, <1>11
  <2>2. Apart(q2, "expiring") /\ \A n : Waiting(n, q2, "expiring", budget)
    BY <1>9 DEF Apart, Waiting
  <2>3. CASE t.state = "PAUSED"
    <3>1. t2 = t /\ mis
      BY <1>11, <2>3
    <3>2. OfLegs(t, p, q2, "expiring")
      BY <1>9, <2>1 DEF RollingInv, OfLegs
    <3>. QED BY <2>1, <2>2, <2>3, <3>1, <3>2 DEF RollingInv
  <2>4. CASE t.state # "PAUSED" /\ x.contract = "old"
    <3>1. t2 = Failed1(t) /\ t2 \in Roll!Task
      <4>1. t2 = Roll!LegFailed(t, 1)
        BY <1>8, <1>11, <2>4 DEF Roll!LegOf
      <4>. QED BY <2>1, <4>1, FailedIs DEF Failed1
    <3>2. mis <=> missed
      BY <2>4
    <3> HIDE DEF t2, mis
    <3>3. t2.state = "PAUSED" /\ t2.total = t.total /\ t2.leg[2] = t.leg[2] /\ t2.leg[1].filled = t.leg[1].filled
          /\ t2.leg[1].placed = FALSE /\ t2.leg[1].batchFilled = 0
      BY <3>1, SentFields
    <3>4. LegsCount(t2, p)
      <4>1. t.leg[1].filled \in Nat
        BY <2>1, TaskNumbers
      <4>. QED BY <2>1, <3>3, <4>1 DEF RollingInv, LegsCount
    <3>5. OfLegs(t2, p, q2, "expiring")
      <4>1. \A i \in DOMAIN q : OfLeg(t2, p, q[i], "expiring")
        BY <2>1, <3>3 DEF RollingInv, OfLegs, OfLeg
      <4>. QED BY <1>9, <4>1 DEF OfLegs
    <3>6. ~mis => HasOrder(t2, q2)
      BY <1>9, <2>1, <2>4, <3>2, <3>3 DEF RollingInv, HasOrder
    <3>. QED BY <2>1, <2>2, <3>1, <3>3, <3>4, <3>5, <3>6 DEF RollingInv, DrivenOn
  <2>5. CASE t.state # "PAUSED" /\ x.contract = "new"
    <3>1. t2 = Failed2(t) /\ t2 \in Roll!Task
      <4>1. t2 = Roll!LegFailed(t, 2)
        BY <1>8, <1>11, <2>5 DEF Roll!LegOf
      <4>. QED BY <2>1, <4>1, FailedIs DEF Failed2
    <3>2. mis <=> missed
      BY <2>5
    <3> HIDE DEF t2, mis
    <3>3. t2.state = "PAUSED" /\ t2.total = t.total /\ t2.leg[1] = t.leg[1] /\ t2.leg[2].filled = t.leg[2].filled
          /\ t2.leg[2].placed = FALSE /\ t2.leg[2].batchFilled = 0
      BY <3>1, SentFields
    <3>4. LegsCount(t2, p)
      <4>1. t.leg[2].filled \in Nat
        BY <2>1, TaskNumbers
      <4>. QED BY <2>1, <3>3, <4>1 DEF RollingInv, LegsCount
    <3>5. OfLegs(t2, p, q2, "expiring")
      <4>1. ASSUME NEW i \in DOMAIN q2 PROVE q2[i].contract # "new" /\ OfLeg(t, p, q2[i], "expiring")
        <5>1. Apart(q, "expiring") /\ OfLegs(t, p, q, "expiring")
          BY <2>1 DEF RollingInv
        <5>2. PICK y \in Roll!Order : DOMAIN q2 = {1} /\ q2[1] = y /\ ~y.sent /\ DOMAIN q = {1, 2} /\ q[1] = x /\ q[2] = y /\ Len(q) = 2
          BY <1>9, <4>1
        <5>3. y.contract # "new" /\ OfLeg(t, p, y, "expiring")
          BY <2>5, <5>1, <5>2 DEF Apart, OfLegs
        <5>. QED BY <4>1, <5>2, <5>3
      <4>. QED BY <3>3, <4>1 DEF OfLegs, OfLeg
    <3>6. ~mis => HasOrder(t2, q2)
      BY <1>9, <2>1, <2>5, <3>2, <3>3 DEF RollingInv, HasOrder
    <3>. QED BY <2>1, <2>2, <3>1, <3>3, <3>4, <3>5, <3>6 DEF RollingInv, DrivenOn
  <2>. QED BY <1>8, <2>3, <2>4, <2>5
<1>12. StrategyInv(Strategy(h, t2, p, q2), "expiring", budget, dominant, mis)
  <2>1. t = Roll!NoTask => t2 = Roll!NoTask
    OBVIOUS
  <2>2. t2 \in Roll!Task \union {Roll!NoTask}
    BY <1>2, <1>11, <2>1
  <2>3. t # Roll!NoTask => t2 # Roll!NoTask
    BY <1>11, TaskType
  <2>4. t2 = Roll!NoTask => IdleInv(h, p, q2, "expiring", dominant)
    BY <1>10, <2>3
  <2>5. t2 # Roll!NoTask => RollingInv(t2, p, q2, "expiring", budget, dominant, mis)
    BY <1>11, <2>1
  <2> HIDE DEF t2, mis
  <2>. QED BY <1>2, <1>9, <2>2, <2>4, <2>5, InvOf
<1>13. mis \in BOOLEAN
  OBVIOUS
<1> HIDE DEF t2, mis
<1>. QED BY <1>4, <1>5, <1>12, <1>13 DEF RollInv

LEMMA AllSent ==
  ASSUME NEW q \in Seq(Roll!Order), WaitsBehind(q), \A i \in DOMAIN q : q[i].sent
  PROVE  Len(q) <= 1
<1>1. Len(q) \in Nat /\ DOMAIN q = 1..Len(q)
  OBVIOUS
<1>2. Len(q) <= 2 /\ (Len(q) = 2 => ~q[2].sent)
  BY DEF WaitsBehind
<1>3. Len(q) # 2
  <2>1. Len(q) = 2 => 2 \in DOMAIN q
    BY <1>1
  <2>. QED BY <1>2, <2>1
<1>. QED BY <1>1, <1>2, <1>3

Holds == {"old", "new", "none"}
Trading == {"old", "new", "close"}

LEMMA ReadyAdvances ==
  ASSUME ~OpenFirst, NEW h \in Holds, NEW t, NEW p, NEW q, NEW ph \in Trading,
         NEW bud, NEW mis, Ready(t, p, q, ph, bud, mis), NEW no, NEW s, s = Strategy(h, t, p, q)
  PROVE  StrategyInv(Roll!Advance(s, no), ph, bud, "new", mis) /\ Roll!Rolling(Roll!Advance(s, no))
<1>1. /\ t \in Roll!Task /\ p \in [{"old", "new"} -> Nat] /\ q \in Seq(Roll!Order) /\ Len(q) <= 1
      /\ t.state \notin {"PAUSED", "COMPLETED"}
  BY DEF Ready
<1>2. PICK t2, q2 : Roll!Advance(s, no) = Strategy(h, t2, p, q2) /\ Advances(t, p, q, t2, q2)
  BY <1>1, AdvanceIs
<1>3. t2 \in Roll!Task /\ q2 \in Seq(Roll!Order) /\ WaitsBehind(q2) /\ RollingInv(t2, p, q2, ph, bud, "new", mis)
  BY <1>2, AdvanceKeeps DEF Trading
<1>4. t2 # Roll!NoTask /\ t2 \in Roll!Task \union {Roll!NoTask}
  BY <1>3, TaskType
<1>5. StrategyInv(Strategy(h, t2, p, q2), ph, bud, "new", mis)
  BY <1>1, <1>3, <1>4, InvOf DEF Holds
<1>6. Roll!Rolling(Strategy(h, t2, p, q2))
  BY <1>4, StrategyFields DEF Roll!Rolling
<1>. QED BY <1>2, <1>5, <1>6

\* _retry_or_abandon_roll: a roll that is retried.
LEMMA RetryKeeps ==
  ASSUME ~OpenFirst, NEW h \in {"old", "new", "none"}, NEW t \in Roll!Task, NEW p \in [{"old", "new"} -> Nat],
         NEW q \in Seq(Roll!Order), WaitsBehind(q), NEW bud, NEW mis,
         RollingInv(t, p, q, "close", bud, "new", mis), t.state = "PAUSED", Roll!RetriesLeft(t), NEW no,
         NEW s, s = Strategy(h, Roll!Resumed(t), p, q)
  PROVE  StrategyInv(Roll!Advance(s, no), "close", bud, "new", mis) /\ Roll!Rolling(Roll!Advance(s, no))
<1> DEFINE t2 == Roll!Resumed(t)
<1>1. PICK st \in {"LEG_2_PARTIAL", "LEG_1_FILLED", "LEG_1_PARTIAL", "PLANNED"} :
          t2 = TaskIs(st, t.total, t.leg[1], t.leg[2], t.retries + 1)
  BY ResumedIs
<1> HIDE DEF t2
<1>2. t2.state = st /\ t2.total = t.total /\ t2.leg[1] = t.leg[1] /\ t2.leg[2] = t.leg[2]
  BY <1>1, TaskFields
<1>3. t2 \in Roll!Task
  <2>1. /\ t.total \in Nat /\ t.total > 0 /\ t.total <= Size /\ t.leg[1] \in Roll!Leg /\ t.leg[2] \in Roll!Leg
        /\ t.retries \in Nat
    BY TaskType
  <2>2. t.retries + 1 \in Nat /\ t.retries + 1 <= MaxRetries
    BY <2>1, RollAssumption DEF Roll!RetriesLeft
  <2>3. st \in Roll!States
    BY DEF Roll!States
  <2>. QED BY <1>1, <2>1, <2>2, <2>3, TaskType
<1>4. ASSUME NEW i \in DOMAIN q PROVE q[i].sent
  BY DEF RollingInv, Waiting
<1>5. Len(q) <= 1
  BY <1>4, AllSent
<1>6. Ready(t2, p, q, "close", bud, mis)
  <2>1. LegsCount(t2, p) /\ OfLegs(t2, p, q, "close") /\ (~mis => HasOrder(t2, q))
    BY <1>2 DEF RollingInv, LegsCount, OfLegs, OfLeg, HasOrder
  <2>. QED BY <1>2, <1>3, <1>4, <1>5, <2>1 DEF Ready
<1>7. s = Strategy(h, t2, p, q) /\ "close" \in Trading /\ h \in Holds
  BY DEF t2, Trading, Holds
<1>8. /\ StrategyInv(Roll!Advance(Strategy(h, t2, p, q), no), "close", bud, "new", mis)
      /\ Roll!Rolling(Roll!Advance(Strategy(h, t2, p, q), no))
  BY <1>6, <1>7, ReadyAdvances, SMTT(60)
<1>. QED BY <1>7, <1>8

\* A roll that is given up.
LEMMA GivenUp ==
  ASSUME NEW t \in Roll!Task, NEW p \in [{"old", "new"} -> Nat],
         NEW q \in Seq(Roll!Order), WaitsBehind(q), NEW bud, NEW mis, NEW mis2,
         RollingInv(t, p, q, "close", bud, "new", mis), t.state = "PAUSED",
         NEW h2, h2 = IF p["new"] = 0 /\ p["old"] # 0 THEN "old" ELSE "new"
  PROVE  StrategyInv(Strategy(h2, Roll!NoTask, p, q), "close", bud, "new", mis2)
<1>1. ASSUME NEW i \in DOMAIN q PROVE q[i].sent
  BY DEF RollingInv, Waiting
<1>2. Len(q) <= 1
  BY <1>1, AllSent
<1>3. /\ p["old"] \in Nat /\ p["new"] \in Nat /\ p["old"] + t.leg[1].filled = t.total /\ p["new"] = t.leg[2].filled
      /\ t.leg[2].filled < t.total /\ t.total <= Size /\ t.leg[1].filled \in Nat /\ t.total \in Nat /\ Size \in Nat
  BY TaskNumbers, RollAssumption DEF RollingInv, LegsCount
<1>4. p["old"] <= Size /\ p["new"] <= Size
  BY <1>3
<1>5. \A i \in DOMAIN q : IdleOrder(h2, p, q[i], "close", "new")
  BY <1>1 DEF IdleOrder, Alive
<1>6. IdleInv(h2, p, q, "close", "new")
  BY <1>2, <1>4, <1>5 DEF IdleInv
<1>7. h2 \in {"old", "new", "none"} /\ Roll!NoTask \in Roll!Task \union {Roll!NoTask}
  OBVIOUS
<1> HIDE DEF IdleInv
<1>. QED BY ONLY <1>6, <1>7, InvOf, p \in [{"old", "new"} -> Nat], q \in Seq(Roll!Order), WaitsBehind(q)

\* _start_roll
LEMMA StartKeeps ==
  ASSUME ~OpenFirst, NEW p \in [{"old", "new"} -> Nat], NEW q \in Seq(Roll!Order),
         NEW bud, NEW mis, IdleInv("old", p, q, "close", "new"), p["old"] # 0, NEW no,
         NEW s, s = Strategy("old", Roll!NoTask, p, q)
  PROVE  StrategyInv(Roll!StartRoll(s, no), "close", bud, "new", mis) /\ Roll!Rolling(Roll!StartRoll(s, no))
<1> DEFINE idle == LegIs(0, FALSE, 0, 0)
           t == TaskIs("PLANNED", p["old"], idle, idle, 0)
<1>1. Roll!StartRoll(s, no) = Roll!Advance(Strategy("old", t, p, q), no)
  <2>1. s.position = p
    BY StrategyFields
  <2> DEFINE t1 == [state |-> "PLANNED", total |-> p["old"], leg |-> [n \in 1..2 |-> idle], retries |-> 0]
  <2>2. t1 = t
    <3> HIDE DEF idle
    <3>1. [n \in 1..2 |-> idle] = [i \in 1..2 |-> IF i = 1 THEN idle ELSE idle]
      OBVIOUS
    <3>. QED BY <3>1 DEF TaskIs
  <2>3. Roll!StartRoll(s, no) = Roll!Advance([s EXCEPT !.task = t1], no)
    BY <2>1 DEF Roll!StartRoll, LegIs
  <2> HIDE DEF t1, t
  <2>4. [Strategy("old", Roll!NoTask, p, q) EXCEPT !.task = t] = Strategy("old", t, p, q)
    BY ONLY TaskSet
  <2>. QED BY <2>2, <2>3, <2>4
<1>2. /\ p["old"] \in Nat /\ p["old"] > 0 /\ p["old"] <= Size /\ p["new"] = 0 /\ Size \in Nat /\ MaxRetries \in Nat
      /\ Len(q) <= 1
  BY RollAssumption DEF IdleInv
<1>3. idle \in Roll!Leg /\ idle.filled = 0 /\ idle.placed = FALSE /\ idle.batchFilled = 0
  <2>1. 0 \in Nat /\ 0 <= Size
    BY <1>2
  <2>2. idle \in Roll!Leg
    BY <2>1, LegType
  <2>. QED BY <2>2 DEF LegIs
<1> HIDE DEF idle
<1>4. t.state = "PLANNED" /\ t.total = p["old"] /\ t.leg[1] = idle /\ t.leg[2] = idle
  BY TaskFields
<1>5. t \in Roll!Task
  <2>1. "PLANNED" \in Roll!States /\ 0 \in Nat /\ 0 <= MaxRetries
    BY <1>2 DEF Roll!States
  <2>. QED BY <1>2, <1>3, <2>1, TaskType
<1> HIDE DEF t
<1>6. \A i \in DOMAIN q : q[i].sent
  BY DEF IdleInv, IdleOrder
<1>7. Ready(t, p, q, "close", bud, mis)
  <2>1. LegsCount(t, p)
    BY <1>2, <1>3, <1>4 DEF LegsCount
  <2>2. OfLegs(t, p, q, "close")
    BY <1>3, <1>4, <1>6 DEF OfLegs, OfLeg, Alive
  <2>3. HasOrder(t, q)
    BY <1>3, <1>4 DEF HasOrder
  <2>. QED BY <1>2, <1>4, <1>5, <1>6, <2>1, <2>2, <2>3 DEF Ready
<1>8. "old" \in Holds /\ "close" \in Trading
  BY DEF Holds, Trading
<1>9. /\ StrategyInv(Roll!Advance(Strategy("old", t, p, q), no), "close", bud, "new", mis)
      /\ Roll!Rolling(Roll!Advance(Strategy("old", t, p, q), no))
  BY <1>7, <1>8, ReadyAdvances, SMTT(60)
<1>. QED BY <1>1, <1>9

\* What is known of the strategy, apart from its fields.
LEMMA Known ==
  ASSUME RollInv
  PROVE  LET h == strategy.held  t == strategy.task  p == strategy.position  q == strategy.orders IN
         /\ strategy = Strategy(h, t, p, q) /\ h \in {"old", "new", "none"} /\ t \in Roll!Task \union {Roll!NoTask}
         /\ p \in [{"old", "new"} -> Nat] /\ q \in Seq(Roll!Order) /\ WaitsBehind(q)
         /\ t = Roll!NoTask => IdleInv(h, p, q, phase, dominant)
         /\ t # Roll!NoTask => RollingInv(t, p, q, phase, budget, dominant, missed)
<1>1. StrategyInv(strategy, phase, budget, dominant, missed) /\ IsStrategy(strategy)
  BY DEF RollInv, StrategyInv
<1>2. IsStrategy(strategy)
  BY <1>1
<1>3. strategy.task = Roll!NoTask => IdleInv(strategy.held, strategy.position, strategy.orders, phase, dominant)
  BY <1>1 DEF StrategyInv, Roll!Rolling
<1>4. strategy.task # Roll!NoTask
          => RollingInv(strategy.task, strategy.position, strategy.orders, phase, budget, dominant, missed)
  BY <1>1 DEF StrategyInv, Roll!Rolling
<1>. QED BY <1>2, <1>3, <1>4 DEF IsStrategy

\* The strategy turns to the main contract, or stays out of the market.
LEMMA IdleTurns ==
  ASSUME NEW h \in {"old", "new", "none"}, NEW p \in [{"old", "new"} -> Nat], NEW q, NEW dom \in {"old", "new"},
         IdleInv(h, p, q, "close", dom), ~(h = "old" /\ dom = "new" /\ p["old"] # 0)
  PROVE  IdleInv(dom, p, q, "close", dom)
<1>1. \A i \in DOMAIN q : IdleOrder(h, p, q[i], "close", dom)
  BY DEF IdleInv
<1>2. h = "none" => q = <<>> /\ DOMAIN q = {} /\ p["new"] = 0
  BY DEF IdleInv
<1>3. \A i \in DOMAIN q : IdleOrder(dom, p, q[i], "close", dom)
  BY <1>1, <1>2 DEF IdleOrder, IdleInv
<1>4. dom = "old" => p["new"] = 0
  BY <1>2 DEF IdleInv
<1>. QED BY <1>3, <1>4 DEF IdleInv

\* An order of n lots towards the target.
Towards(p, dom, target, n, o) ==
    \/ target > p[dom] /\ n = target - p[dom] /\ o = Ord(dom, TRUE, n, FALSE)
    \/ ~(target > p[dom]) /\ n = p[dom] - target /\ o = Ord(dom, FALSE, n, FALSE)

LEMMA TargetOrder ==
  ASSUME NEW p \in [{"old", "new"} -> Nat], NEW dom \in {"old", "new"}, IdleInv(dom, p, <<>>, "close", dom),
         NEW target \in {0, Size}, target # p[dom], NEW n, NEW o, Towards(p, dom, target, n, o)
  PROVE  o \in Roll!Order /\ IdleInv(dom, p, <<o>>, "close", dom)
<1>1. Size \in Nat /\ p["old"] \in Nat /\ p["new"] \in Nat /\ p[dom] \in Nat /\ target \in Nat /\ target <= Size
  BY RollAssumption
<1>2. p["old"] <= Size /\ p["new"] <= Size /\ (dom = "old" => p["new"] = 0)
  BY DEF IdleInv
<1>3. p[dom] <= Size
  BY <1>2
<1>4. CASE target > p[dom] /\ n = target - p[dom] /\ o = Ord(dom, TRUE, n, FALSE)
  <2>1. n \in Nat /\ n > 0 /\ n <= 2 * Size /\ p[dom] + n <= Size
    BY <1>1, <1>3, <1>4
  <2>2. o \in Roll!Order
    BY <1>4, <2>1, OrderIs
  <2>3. o.contract = dom /\ o.opens = TRUE /\ o.left = n /\ o.sent = FALSE
    BY <1>4 DEF Ord
  <2>4. IdleOrder(dom, p, o, "close", dom)
    BY <2>1, <2>3 DEF IdleOrder
  <2>5. Len(<<o>>) = 1 /\ DOMAIN <<o>> = {1} /\ <<o>>[1] = o
    OBVIOUS
  <2>. QED BY <1>2, <2>2, <2>4, <2>5 DEF IdleInv
<1>5. CASE ~(target > p[dom]) /\ n = p[dom] - target /\ o = Ord(dom, FALSE, n, FALSE)
  <2>1. n \in Nat /\ n > 0 /\ n <= 2 * Size /\ n <= p[dom]
    BY <1>1, <1>3, <1>5
  <2>2. o \in Roll!Order
    BY <1>5, <2>1, OrderIs
  <2>3. o.contract = dom /\ o.opens = FALSE /\ o.left = n /\ o.sent = FALSE
    BY <1>5 DEF Ord
  <2>4. IdleOrder(dom, p, o, "close", dom)
    BY <2>1, <2>3 DEF IdleOrder
  <2>5. Len(<<o>>) = 1 /\ DOMAIN <<o>> = {1} /\ <<o>>[1] = o
    OBVIOUS
  <2>. QED BY <1>2, <2>2, <2>4, <2>5 DEF IdleInv
<1>. QED BY <1>4, <1>5, Zenon DEF Towards

\* _apply_target: the strategy turns to the main contract, and may send one order.
LEMMA AppliedIs ==
  ASSUME NEW h, NEW p, NEW q, NEW target, NEW no, NEW s, s = Strategy(h, Roll!NoTask, p, q)
  PROVE  \/ Roll!ApplyTarget(s, target, no) = Strategy(dominant, Roll!NoTask, p, q)
         \/ /\ q = <<>> /\ target # p[dominant]
            /\ \E n, o : /\ Towards(p, dominant, target, n, o)
                         /\ Roll!ApplyTarget(s, target, no) = Strategy(dominant, Roll!NoTask, p, <<o>>)
<1> DEFINE opens == target > p[dominant]
           n == IF opens THEN target - p[dominant] ELSE p[dominant] - target
           o == [contract |-> dominant, opens |-> opens, left |-> n, sent |-> FALSE]
           next == [s EXCEPT !.held = dominant]
           stays == q # <<>> \/ p[dominant] = target \/ ~Roll!Accepted(s, opens, dominant, n, no)
<1>1. s.position = p /\ s.orders = q
  BY StrategyFields
<1>2. next = Strategy(dominant, Roll!NoTask, p, q)
  <2>1. [Strategy(h, Roll!NoTask, p, q) EXCEPT !.held = dominant] = Strategy(dominant, Roll!NoTask, p, q)
    BY ONLY HeldSet
  <2>. QED BY <2>1
<1>3. next.orders = q
  BY <1>2, StrategyFields
<1>4. Roll!ApplyTarget(s, target, no) = IF stays THEN next ELSE Roll!Send(next, opens, dominant, n)
  <2> HIDE DEF next
  <2>. QED BY <1>1, ZenonT(40) DEF Roll!ApplyTarget, next
<1>5. CASE stays
  BY <1>2, <1>4, <1>5
<1>6. CASE ~stays
  <2>1. q = <<>> /\ target # p[dominant]
    BY <1>6
  <2>2. Roll!Send(next, opens, dominant, n) = [next EXCEPT !.orders = Append(q, o)]
    <3> HIDE DEF next, n
    <3>. QED BY <1>3 DEF Roll!Send
  <2>3. Append(q, o) = <<o>>
    <3> HIDE DEF o
    <3>. QED BY <2>1
  <2>4. Roll!ApplyTarget(s, target, no) = [Strategy(dominant, Roll!NoTask, p, q) EXCEPT !.orders = <<o>>]
    <3> HIDE DEF next, o, n, stays
    <3>. QED BY <1>2, <1>4, <1>6, <2>2, <2>3
  <2>5. Roll!ApplyTarget(s, target, no) = Strategy(dominant, Roll!NoTask, p, <<o>>)
    <3> HIDE DEF o
    <3>1. [Strategy(dominant, Roll!NoTask, p, q) EXCEPT !.orders = <<o>>] = Strategy(dominant, Roll!NoTask, p, <<o>>)
      BY ONLY OrdersSet
    <3>. QED BY <2>4, <3>1
  <2>6. Towards(p, dominant, target, n, o)
    <3>1. CASE target > p[dominant]
      <4>1. n = target - p[dominant] /\ opens = TRUE
        BY <3>1
      <4>. QED BY <3>1, <4>1, Zenon DEF Ord, Towards
    <3>2. CASE ~(target > p[dominant])
      <4>1. n = p[dominant] - target /\ opens = FALSE
        BY <3>2
      <4>. QED BY <3>2, <4>1, Zenon DEF Ord, Towards
    <3>. QED BY <3>1, <3>2
  <2> HIDE DEF n, o
  <2>. QED BY <2>1, <2>5, <2>6
<1>. QED BY <1>5, <1>6

LEMMA OnBarKeeps == ASSUME ~OpenFirst, NEW no PROVE RollInv /\ Roll!OnBar(no) => RollInv'
<1> SUFFICES ASSUME RollInv, Roll!OnBar(no) PROVE RollInv'
  OBVIOUS
<1> DEFINE h == strategy.held
           t == strategy.task
           p == strategy.position
           q == strategy.orders
           turned == [strategy EXCEPT !.held = IF @ = "none" THEN @ ELSE dominant]
<1>1. /\ strategy = Strategy(h, t, p, q) /\ h \in {"old", "new", "none"} /\ t \in Roll!Task \union {Roll!NoTask}
      /\ p \in [{"old", "new"} -> Nat] /\ q \in Seq(Roll!Order) /\ WaitsBehind(q)
      /\ t = Roll!NoTask => IdleInv(h, p, q, phase, dominant)
      /\ t # Roll!NoTask => RollingInv(t, p, q, phase, budget, dominant, missed)
      /\ dominant \in {"old", "new"} /\ missed \in BOOLEAN
  BY Known DEF RollInv
<1>2. /\ phase = "close" /\ barsLeft > 0 /\ barsLeft' = barsLeft - 1
      /\ missed' = (missed /\ Roll!Rolling(strategy')) /\ phase' = phase /\ budget' = budget /\ dominant' = dominant
  BY DEF Roll!OnBar
<1>3. Roll!Rolling(strategy) <=> t # Roll!NoTask
  BY DEF Roll!Rolling
<1>4. \/ t # Roll!NoTask /\ t.state # "PAUSED" /\ strategy' = strategy
      \/ t # Roll!NoTask /\ t.state = "PAUSED" /\ strategy' = Roll!RetryOrAbandon(strategy, no)
      \/ t = Roll!NoTask /\ h = "old" /\ dominant = "new" /\ p["old"] # 0 /\ strategy' = Roll!StartRoll(strategy, no)
      \/ /\ t = Roll!NoTask /\ ~(h = "old" /\ dominant = "new" /\ p["old"] # 0)
         /\ strategy' = turned \/ \E target \in {0, Size} : strategy' = Roll!ApplyTarget(strategy, target, no)
  <2> HIDE DEF turned
  <2>. QED BY <1>3, ZenonT(60) DEF Roll!OnBar, turned
<1> HIDE DEF h, t, p, q, turned
<1>5. ASSUME t # Roll!NoTask, t.state # "PAUSED", strategy' = strategy
      PROVE  StrategyInv(strategy', "close", budget, dominant, missed')
  <2>1. missed' = missed
    BY <1>1, <1>2, <1>3, <1>5
  <2>2. StrategyInv(strategy, "close", budget, dominant, missed)
    BY <1>2 DEF RollInv
  <2>. QED BY <1>5, <2>1, <2>2
<1>6. ASSUME t # Roll!NoTask, t.state = "PAUSED", strategy' = Roll!RetryOrAbandon(strategy, no)
      PROVE  StrategyInv(strategy', "close", budget, dominant, missed')
  <2>1. RollingInv(t, p, q, "close", budget, dominant, missed) /\ t \in Roll!Task
    BY <1>1, <1>2, <1>6
  <2>2. dominant = "new"
    BY <2>1 DEF RollingInv
  <2>3. strategy.task = t /\ strategy.position = p
    BY DEF t, p
  <2>4. CASE Roll!RetriesLeft(t)
    <3>1. strategy' = Roll!Advance([strategy EXCEPT !.task = Roll!Resumed(t)], no)
      BY <1>6, <2>3, <2>4 DEF Roll!RetryOrAbandon
    <3>2. [strategy EXCEPT !.task = Roll!Resumed(t)] = Strategy(h, Roll!Resumed(t), p, q)
      <4>1. [Strategy(h, t, p, q) EXCEPT !.task = Roll!Resumed(t)] = Strategy(h, Roll!Resumed(t), p, q)
        BY ONLY TaskSet
      <4>. QED BY <1>1, <4>1
    <3>3. /\ StrategyInv(strategy', "close", budget, "new", missed) /\ Roll!Rolling(strategy')
      BY <1>1, <1>6, <2>1, <2>2, <2>4, <3>1, <3>2, RetryKeeps, SMTT(60)
    <3>4. missed' = missed
      BY <1>1, <1>2, <3>3
    <3>. QED BY <2>2, <3>3, <3>4
  <2>5. CASE ~Roll!RetriesLeft(t)
    <3> DEFINE h2 == IF p["new"] = 0 /\ p["old"] # 0 THEN "old" ELSE "new"
    <3>1. strategy' = Strategy(h2, Roll!NoTask, p, q)
      <4> DEFINE a == [Strategy(h, t, p, q) EXCEPT !.task = Roll!NoTask]
      <4>1. strategy' = [Strategy(h, t, p, q) EXCEPT !.task = Roll!NoTask, !.held = h2]
        BY <1>1, <1>6, <2>3, <2>5 DEF Roll!RetryOrAbandon
      <4>2. strategy' = [a EXCEPT !.held = h2]
        BY <4>1
      <4>3. a = Strategy(h, Roll!NoTask, p, q)
        BY ONLY TaskSet DEF a
      <4> HIDE DEF a, h2
      <4>4. [Strategy(h, Roll!NoTask, p, q) EXCEPT !.held = h2] = Strategy(h2, Roll!NoTask, p, q)
        BY ONLY HeldSet
      <4>. QED BY <4>2, <4>3, <4>4
    <3>2. StrategyInv(Strategy(h2, Roll!NoTask, p, q), "close", budget, "new", missed')
      BY <1>1, <1>6, <2>1, <2>2, GivenUp
    <3>. QED BY <2>2, <3>1, <3>2
  <2>. QED BY <2>4, <2>5
<1>7. ASSUME t = Roll!NoTask, h = "old", dominant = "new", p["old"] # 0, strategy' = Roll!StartRoll(strategy, no)
      PROVE  StrategyInv(strategy', "close", budget, dominant, missed')
  <2>1. IdleInv("old", p, q, "close", "new") /\ strategy = Strategy("old", Roll!NoTask, p, q)
    BY <1>1, <1>2, <1>7
  <2>2. StrategyInv(strategy', "close", budget, "new", missed) /\ Roll!Rolling(strategy')
    BY <1>1, <1>7, <2>1, StartKeeps, SMTT(60)
  <2>3. missed' = missed
    BY <1>1, <1>2, <2>2
  <2>. QED BY <1>7, <2>2, <2>3
<1>8. ASSUME t = Roll!NoTask, ~(h = "old" /\ dominant = "new" /\ p["old"] # 0),
             strategy' = turned \/ \E target \in {0, Size} : strategy' = Roll!ApplyTarget(strategy, target, no)
      PROVE  StrategyInv(strategy', "close", budget, dominant, missed')
  <2>1. IdleInv(h, p, q, "close", dominant) /\ strategy = Strategy(h, Roll!NoTask, p, q)
    BY <1>1, <1>2, <1>8
  <2>2. IdleInv(dominant, p, q, "close", dominant)
    BY <1>1, <1>8, <2>1, IdleTurns
  <2>3. dominant \in {"old", "new", "none"} /\ Roll!NoTask \in Roll!Task \union {Roll!NoTask}
    BY <1>1
  <2>4. StrategyInv(Strategy(dominant, Roll!NoTask, p, q), "close", budget, dominant, missed')
    BY <1>1, <2>2, <2>3, InvOf
  <2>5. StrategyInv(Strategy(h, Roll!NoTask, p, q), "close", budget, dominant, missed')
    BY <1>1, <2>1, <2>3, InvOf
  <2>6. CASE strategy' = turned
    <3> DEFINE h2 == IF h = "none" THEN h ELSE dominant
    <3>1. turned = [strategy EXCEPT !.held = h2]
      BY DEF turned, h
    <3> HIDE DEF h2
    <3>2. [Strategy(h, Roll!NoTask, p, q) EXCEPT !.held = h2] = Strategy(h2, Roll!NoTask, p, q)
      BY ONLY HeldSet
    <3>3. strategy' = Strategy(h2, Roll!NoTask, p, q)
      BY <2>1, <2>6, <3>1, <3>2
    <3>. QED BY <2>4, <2>5, <3>3 DEF h2
  <2>7. ASSUME NEW target \in {0, Size}, strategy' = Roll!ApplyTarget(strategy, target, no)
        PROVE  StrategyInv(strategy', "close", budget, dominant, missed')
    <3>1. CASE strategy' = Strategy(dominant, Roll!NoTask, p, q)
      BY <2>4, <3>1
    <3>2. ASSUME q = <<>>, target # p[dominant], NEW n, NEW o, Towards(p, dominant, target, n, o),
                 strategy' = Strategy(dominant, Roll!NoTask, p, <<o>>)
          PROVE  StrategyInv(strategy', "close", budget, dominant, missed')
      <4>1. o \in Roll!Order /\ IdleInv(dominant, p, <<o>>, "close", dominant)
        BY <1>1, <2>2, <2>7, <3>2, TargetOrder
      <4>2. <<o>> \in Seq(Roll!Order) /\ Len(<<o>>) = 1
        BY <4>1
      <4>3. WaitsBehind(<<o>>)
        BY <4>2 DEF WaitsBehind
      <4> HIDE DEF WaitsBehind, IdleInv
      <4>4. StrategyInv(Strategy(dominant, Roll!NoTask, p, <<o>>), "close", budget, dominant, missed')
        BY <1>1, <2>3, <4>1, <4>2, <4>3, InvOf
      <4>. QED BY <3>2, <4>4
    <3>3. \/ Roll!ApplyTarget(strategy, target, no) = Strategy(dominant, Roll!NoTask, p, q)
          \/ /\ q = <<>> /\ target # p[dominant]
             /\ \E n, o : /\ Towards(p, dominant, target, n, o)
                          /\ Roll!ApplyTarget(strategy, target, no) = Strategy(dominant, Roll!NoTask, p, <<o>>)
      BY ONLY <2>1, AppliedIs
    <3>. QED BY ONLY <2>7, <3>1, <3>2, <3>3
  <2>. QED BY <1>8, <2>6, <2>7
<1>9. StrategyInv(strategy', phase', budget', dominant', missed')
  BY <1>2, <1>4, <1>5, <1>6, <1>7, <1>8
<1>10. barsLeft' \in 0..BarsPerDay
  BY <1>2, RollAssumption DEF RollInv
<1>11. missed' \in BOOLEAN
  BY <1>2
<1>. QED BY <1>1, <1>2, <1>9, <1>10, <1>11 DEF RollInv

\* A fill of m lots of the order x: what is left of it, and of the account.
Less(x, m) == [x EXCEPT !.left = @ - m]
Rest(x, m) == IF m = x.left THEN <<>> ELSE <<Less(x, m)>>
Booked(p, x, m) == [p EXCEPT ![x.contract] = IF x.opens THEN @ + m ELSE @ - m]

LEMMA RestIs ==
  ASSUME NEW x \in Roll!Order, NEW m \in Nat, m <= x.left, m > 0
  PROVE  /\ Rest(x, m) \in Seq(Roll!Order) /\ Len(Rest(x, m)) <= 1 /\ WaitsBehind(Rest(x, m))
         /\ m = x.left => Rest(x, m) = <<>> /\ DOMAIN Rest(x, m) = {}
         /\ m # x.left => \E y \in Roll!Order :
               /\ Rest(x, m) = <<y>> /\ DOMAIN Rest(x, m) = {1} /\ Rest(x, m)[1] = y
               /\ y.contract = x.contract /\ y.opens = x.opens /\ y.left = x.left - m /\ y.sent = x.sent
               /\ y.left > 0 /\ m < x.left
<1>1. x.left \in Nat /\ x.left <= 2 * Size /\ Size \in Nat /\ x.left > 0
  BY OrderIs, RollAssumption
<1>2. CASE m = x.left
  <2>1. Rest(x, m) = <<>>
    BY <1>2 DEF Rest
  <2>2. <<>> \in Seq(Roll!Order) /\ Len(<<>>) = 0 /\ DOMAIN <<>> = {}
    OBVIOUS
  <2>3. WaitsBehind(<<>>)
    BY <2>2 DEF WaitsBehind
  <2>. QED BY <1>2, <2>1, <2>2, <2>3
<1>3. CASE m # x.left
  <2> DEFINE y == Less(x, m)
  <2>1. x.left - m \in 1..(2 * Size) /\ x.left - m > 0 /\ m < x.left
    BY <1>1, <1>3
  <2>2. y \in Roll!Order /\ y.contract = x.contract /\ y.opens = x.opens /\ y.left = x.left - m /\ y.sent = x.sent
    BY <2>1 DEF Less, Roll!Order
  <2> HIDE DEF y
  <2>3. Rest(x, m) = <<y>>
    BY <1>3 DEF Rest, y
  <2>4. <<y>> \in Seq(Roll!Order) /\ Len(<<y>>) = 1 /\ DOMAIN <<y>> = {1} /\ <<y>>[1] = y
    BY <2>2
  <2>5. WaitsBehind(<<y>>)
    BY <2>4 DEF WaitsBehind
  <2>. QED BY <1>3, <2>1, <2>2, <2>3, <2>4, <2>5
<1>. QED BY <1>2, <1>3

LEMMA BookedIs ==
  ASSUME NEW p \in [{"old", "new"} -> Nat], NEW x \in Roll!Order, NEW m \in Nat, ~x.opens => m <= p[x.contract]
  PROVE  /\ Booked(p, x, m) \in [{"old", "new"} -> Nat]
         /\ x.contract = "old" => /\ Booked(p, x, m)["new"] = p["new"]
                                  /\ x.opens => Booked(p, x, m)["old"] = p["old"] + m
                                  /\ ~x.opens => Booked(p, x, m)["old"] = p["old"] - m
         /\ x.contract = "new" => /\ Booked(p, x, m)["old"] = p["old"]
                                  /\ x.opens => Booked(p, x, m)["new"] = p["new"] + m
                                  /\ ~x.opens => Booked(p, x, m)["new"] = p["new"] - m
<1>1. x.contract \in {"old", "new"} /\ p[x.contract] \in Nat
  BY OrderIs
<1> DEFINE n == IF x.opens THEN p[x.contract] + m ELSE p[x.contract] - m
<1>2. n \in Nat
  BY <1>1
<1>3. Booked(p, x, m) = [p EXCEPT ![x.contract] = n]
  BY DEF Booked
<1> HIDE DEF n
<1>4. /\ [p EXCEPT ![x.contract] = n] \in [{"old", "new"} -> Nat]
      /\ x.contract = "old" => [p EXCEPT ![x.contract] = n]["new"] = p["new"] /\ [p EXCEPT ![x.contract] = n]["old"] = n
      /\ x.contract = "new" => [p EXCEPT ![x.contract] = n]["old"] = p["old"] /\ [p EXCEPT ![x.contract] = n]["new"] = n
  BY <1>1, <1>2
<1>. QED BY <1>3, <1>4 DEF n

LEMMA PositionSet ==
  ASSUME NEW h, NEW t, NEW p, NEW q, NEW x
  PROVE  [Strategy(h, t, p, q) EXCEPT !.position = x] = Strategy(h, t, x, q)
<1> DEFINE All == [held : {h}, task : {t}, position : {p, x}, orders : {q}]
           s == Strategy(h, t, p, q)
           a == [s EXCEPT !.position = x]
<1>1. s \in All /\ s.held = h /\ s.task = t /\ s.position = p /\ s.orders = q
  BY DEF Strategy
<1>2. \A k \in All : k = Strategy(k.held, k.task, k.position, k.orders)
  BY DEF Strategy
<1> HIDE DEF s
<1>3. a \in All /\ a.held = h /\ a.task = t /\ a.position = x /\ a.orders = q
  BY <1>1
<1> HIDE DEF a, All
<1>4. a = Strategy(h, t, x, q)
  BY <1>2, <1>3
<1>. QED BY <1>4 DEF a, s

\* match_bar finds one order and no other, and fills it as far as the bar goes.
LEMMA FillIs ==
  ASSUME RollInv, NEW no, Roll!Fill(no)
  PROVE  LET h == strategy.held  t == strategy.task  p == strategy.position  q == strategy.orders IN
         \E x \in Roll!Order, m \in Nat :
            /\ q = <<x>> /\ DOMAIN q = {1} /\ q[1] = x /\ Len(q) = 1
            /\ x.sent /\ x.contract = phase /\ phase \in {"old", "new"}
            /\ m > 0 /\ m <= x.left /\ budget' = budget - m /\ budget - m \in 0..(2 * Size)
            /\ m # x.left => budget - m = 0
            /\ strategy' = Roll!OnTrade(Strategy(h, t, Booked(p, x, m), Rest(x, m)), phase, m, no)
<1> DEFINE h == strategy.held
           t == strategy.task
           p == strategy.position
           q == strategy.orders
           i == CHOOSE j \in Roll!Matchable : \A k \in Roll!Matchable : j <= k
           o == strategy.orders[i]
           m == IF o.left <= budget THEN o.left ELSE budget
           rest == IF m = o.left THEN Roll!RemoveAt(strategy.orders, i) ELSE [strategy.orders EXCEPT ![i].left = @ - m]
           booked == [strategy EXCEPT !.orders = rest, !.position[phase] = IF o.opens THEN @ + m ELSE @ - m]
<1>1. /\ strategy = Strategy(h, t, p, q) /\ t \in Roll!Task \union {Roll!NoTask}
      /\ p \in [{"old", "new"} -> Nat] /\ q \in Seq(Roll!Order) /\ WaitsBehind(q)
      /\ t = Roll!NoTask => IdleInv(h, p, q, phase, dominant)
      /\ t # Roll!NoTask => RollingInv(t, p, q, phase, budget, dominant, missed)
  BY Known
<1>2. /\ phase \in {"old", "new"} /\ budget > 0 /\ Roll!Matchable # {} /\ budget' = budget - m
      /\ strategy' = Roll!OnTrade(booked, phase, m, no)
  BY DEF Roll!Fill, Roll!Contracts
<1>3. Roll!Matchable = {j \in DOMAIN q : q[j].contract = phase /\ q[j].sent}
  BY DEF Roll!Matchable
<1>4. budget \in Nat /\ budget <= 2 * Size /\ Size \in Nat
  BY RollAssumption DEF RollInv
<1>5. \A j \in DOMAIN q : q[j].sent
  <2> HIDE DEF h, t, p, q
  <2>1. CASE t = Roll!NoTask
    BY <1>1, <1>2, <2>1 DEF IdleInv, IdleOrder
  <2>2. CASE t # Roll!NoTask
    <3>1. Waiting(t, q, phase, budget)
      BY <1>1, <2>2 DEF RollingInv
    <3>2. ~NoMatch(q, phase)
      BY <1>2, <1>3 DEF NoMatch
    <3>3. budget # 0
      BY <1>2, <1>4
    <3>. QED BY <1>2, <3>1, <3>2, <3>3 DEF Waiting
  <2>. QED BY <2>1, <2>2
<1>6. PICK x \in Roll!Order : q = <<x>> /\ DOMAIN q = {1} /\ Len(q) = 1 /\ q[1] = x
  <2> HIDE DEF q
  <2>1. Len(q) <= 1
    BY <1>1, <1>5, AllSent
  <2>2. q # <<>>
    <3>1. q = <<>> => DOMAIN q = {}
      OBVIOUS
    <3>2. DOMAIN q # {}
      BY <1>2, <1>3
    <3>. QED BY <3>1, <3>2
  <2>3. Len(q) <= 2
    BY <1>1 DEF WaitsBehind
  <2>4. \/ q = <<>> /\ DOMAIN q = {}
        \/ \E x \in Roll!Order : q = <<x>> /\ DOMAIN q = {1} /\ Len(q) = 1
        \/ \E x, y \in Roll!Order : q = <<x, y>> /\ DOMAIN q = {1, 2} /\ Len(q) = 2
    BY <1>1, <2>3, Short
  <2>5. ~(Len(q) = 2)
    BY ONLY <2>1, 2 > 1
  <2>6. PICK x \in Roll!Order : q = <<x>> /\ DOMAIN q = {1} /\ Len(q) = 1
    BY <2>2, <2>4, <2>5
  <2>. QED BY <2>6
<1>7. Roll!Matchable = {1} /\ x.sent /\ x.contract = phase
  <2> HIDE DEF q
  <2>. QED BY <1>2, <1>3, <1>6
<1>8. i = 1
  <2>1. \E j \in {1} : \A k \in {1} : j <= k
    OBVIOUS
  <2>2. (CHOOSE j \in {1} : \A k \in {1} : j <= k) \in {1}
    BY <2>1
  <2>. QED BY <1>7, <2>2
<1>9. o = x /\ strategy.orders = <<x>> /\ strategy.position = p
  BY <1>6, <1>8
<1>10. x.left \in Nat /\ x.left > 0
  BY OrderIs
<1>11. /\ m \in Nat /\ m > 0 /\ m <= x.left /\ budget - m \in 0..(2 * Size) /\ (m # x.left => budget - m = 0)
  <2> HIDE DEF o
  <2>. QED BY <1>2, <1>4, <1>9, <1>10
<1>12. rest = Rest(x, m)
  <2>1. CASE m = x.left
    <3>1. Roll!RemoveAt(<<x>>, 1) = <<>>
      BY DEF Roll!RemoveAt
    <3> HIDE DEF m, o, i
    <3>. QED BY <1>8, <1>9, <2>1, <3>1 DEF Rest
  <2>2. CASE m # x.left
    <3>1. rest = [strategy.orders EXCEPT ![i].left = @ - m]
      <4> HIDE DEF m, i
      <4>. QED BY <1>9, <2>2
    <3> HIDE DEF m, o, i, rest
    <3>2. rest = [<<x>> EXCEPT ![1] = Less(x, m)]
      BY <1>8, <1>9, <3>1 DEF Less
    <3> DEFINE y == Less(x, m)
    <3> HIDE DEF y
    <3>3. [<<x>> EXCEPT ![1] = y] = <<y>>
      OBVIOUS
    <3>. QED BY <2>2, <3>2, <3>3 DEF Rest, y
  <2>. QED BY <2>1, <2>2
<1>13. booked = Strategy(h, t, Booked(p, x, m), Rest(x, m))
  <2> HIDE DEF m, o, rest, i
  <2>1. booked = [strategy EXCEPT !.orders = rest, !.position = [p EXCEPT ![phase] = IF x.opens THEN @ + m ELSE @ - m]]
    BY <1>9
  <2>2. [p EXCEPT ![phase] = IF x.opens THEN @ + m ELSE @ - m] = Booked(p, x, m)
    BY <1>7 DEF Booked
  <2>3. booked = [strategy EXCEPT !.orders = rest, !.position = Booked(p, x, m)]
    <3> HIDE DEF booked, p
    <3>. QED BY <2>1, <2>2
  <2> HIDE DEF booked, h, t, p, q
  <2> DEFINE p2 == Booked(p, x, m)
  <2> HIDE DEF p2
  <2>4. [strategy EXCEPT !.orders = rest, !.position = p2] = Strategy(h, t, p2, rest)
    <3> DEFINE a == [strategy EXCEPT !.orders = rest]
               b == [a EXCEPT !.position = p2]
    <3>1. [strategy EXCEPT !.orders = rest, !.position = p2] = b
      OBVIOUS
    <3>2. strategy = Strategy(h, t, p, q)
      BY <1>1
    <3>3. a = Strategy(h, t, p, rest)
      BY ONLY <3>2, OrdersSet
    <3> HIDE DEF a
    <3>4. b = Strategy(h, t, p2, rest)
      BY ONLY <3>3, PositionSet DEF b
    <3> HIDE DEF b
    <3>. QED BY ONLY <3>1, <3>4
  <2>. QED BY <1>1, <1>12, <2>3, <2>4 DEF p2
<1>14. strategy' = Roll!OnTrade(Strategy(h, t, Booked(p, x, m), Rest(x, m)), phase, m, no)
  <2> HIDE DEF booked, m
  <2>. QED BY <1>2, <1>13
<1> HIDE DEF m, h, t, p, q, i, o, rest, booked
<1>15. \E y \in Roll!Order, n \in Nat :
            /\ q = <<y>> /\ DOMAIN q = {1} /\ q[1] = y /\ Len(q) = 1
            /\ y.sent /\ y.contract = phase /\ phase \in {"old", "new"}
            /\ n > 0 /\ n <= y.left /\ budget' = budget - n /\ budget - n \in 0..(2 * Size)
            /\ n # y.left => budget - n = 0
            /\ strategy' = Roll!OnTrade(Strategy(h, t, Booked(p, y, n), Rest(y, n)), phase, n, no)
  BY <1>2, <1>6, <1>7, <1>11, <1>14
<1>. QED BY <1>15 DEF h, t, p, q

LEMMA FilledType ==
  ASSUME NEW l \in Roll!Leg, NEW m \in Nat, l.filled + m <= Size, l.batchFilled <= l.filled
  PROVE  /\ FilledLeg(l, m) \in Roll!Leg
         /\ FilledLeg(l, m).filled = l.filled + m /\ FilledLeg(l, m).batch = l.batch
         /\ FilledLeg(l, m).batchFilled = l.batchFilled + m
         /\ FilledLeg(l, m).placed <=> l.placed /\ l.batchFilled + m < l.batch
<1> DEFINE pl == l.placed /\ l.batchFilled + m < l.batch
<1>1. Size \in Nat /\ Roll!Lots = 0..(2 * Size)
  BY RollAssumption DEF Roll!Lots
<1>2. l.filled \in Nat /\ l.batchFilled \in Nat /\ l.batch \in Roll!Lots
  <2>1. l.batch \in Roll!Lots
    BY DEF Roll!Leg
  <2>. QED BY <2>1, LegType
<1>3. l.filled + m \in Roll!Lots /\ l.batchFilled + m \in Roll!Lots /\ pl \in BOOLEAN
  <2>1. l.filled + m \in 0..(2 * Size) /\ l.batchFilled + m \in 0..(2 * Size)
    BY <1>1, <1>2
  <2>. QED BY <1>1, <2>1
<1>4. FilledLeg(l, m) = LegIs(l.filled + m, pl, l.batch, l.batchFilled + m)
  BY DEF FilledLeg
<1>5. \A f, b, bf \in Roll!Lots, x \in BOOLEAN : LegIs(f, x, b, bf) \in Roll!Leg
  BY DEF Roll!Leg, LegIs
<1>6. (l.placed /\ l.batchFilled + m < l.batch) <=> pl
  OBVIOUS
<1> DEFINE f2 == l.filled + m
           b2 == l.batchFilled + m
<1> HIDE DEF pl, f2, b2
<1>7. LegIs(f2, pl, l.batch, b2) \in Roll!Leg
  BY <1>2, <1>3, <1>5, Zenon DEF f2, b2
<1>8. /\ FilledLeg(l, m) \in Roll!Leg
      /\ FilledLeg(l, m).filled = f2 /\ FilledLeg(l, m).batch = l.batch
      /\ FilledLeg(l, m).batchFilled = b2 /\ FilledLeg(l, m).placed = pl
  <2> DEFINE k == LegIs(f2, pl, l.batch, b2)
  <2>1. k.filled = f2 /\ k.placed = pl /\ k.batch = l.batch /\ k.batchFilled = b2
    BY DEF LegIs
  <2>2. FilledLeg(l, m) = k
    BY <1>4 DEF f2, b2
  <2>3. k \in Roll!Leg
    BY <1>7
  <2> HIDE DEF k
  <2>. QED BY <2>1, <2>2, <2>3
<1>. QED BY <1>6, <1>8, Zenon DEF f2, b2

\* What is left of the only order, seen by an operator of orders.
LEMMA RestOne ==
  ASSUME NEW x \in Roll!Order, NEW m \in Nat, m > 0, m <= x.left, NEW i \in DOMAIN Rest(x, m)
  PROVE  /\ m < x.left /\ Rest(x, m)[i].contract = x.contract /\ Rest(x, m)[i].opens = x.opens
         /\ Rest(x, m)[i].left = x.left - m /\ Rest(x, m)[i].sent = x.sent
<1>1. m # x.left
  BY RestIs
<1>2. PICK y \in Roll!Order :
               /\ Rest(x, m) = <<y>> /\ DOMAIN Rest(x, m) = {1} /\ Rest(x, m)[1] = y
               /\ y.contract = x.contract /\ y.opens = x.opens /\ y.left = x.left - m /\ y.sent = x.sent
               /\ y.left > 0 /\ m < x.left
  BY <1>1, RestIs
<1>3. i = 1
  BY <1>2
<1>. QED BY <1>2, <1>3

\* A fill of the old contract, within a roll.
LEMMA FillOld ==
  ASSUME NEW t \in Roll!Task, NEW p \in [{"old", "new"} -> Nat], NEW q, NEW x \in Roll!Order, NEW m \in Nat,
         NEW bud, NEW mis, NEW bud2, q = <<x>>, DOMAIN q = {1}, q[1] = x,
         RollingInv(t, p, q, "old", bud, "new", mis), x.contract = "old", x.sent, m > 0, m <= x.left,
         m # x.left => bud2 = 0
  PROVE  Ready(Roll!LegFilled(t, 1, m), Booked(p, x, m), Rest(x, m), "old", bud2, mis)
<1> DEFINE st == IF t.leg[1].filled + m >= t.total THEN "LEG_1_FILLED" ELSE "LEG_1_PARTIAL"
           a == FilledLeg(t.leg[1], m)
           b == t.leg[2]
           u == TaskIs(st, t.total, a, b, t.retries)
           p2 == Booked(p, x, m)
           r == Rest(x, m)
<1>1. /\ t.total \in Nat /\ t.total > 0 /\ t.total <= Size /\ Size \in Nat
      /\ t.leg[1].filled \in Nat /\ t.leg[1].batch \in Nat /\ t.leg[1].batchFilled \in Nat
      /\ t.leg[2].filled \in Nat /\ t.leg[2].batch \in Nat /\ t.leg[2].batchFilled \in Nat
      /\ t.leg[1] \in Roll!Leg /\ b \in Roll!Leg /\ t.retries \in Nat /\ t.retries <= MaxRetries
      /\ x.left \in Nat /\ x.left > 0 /\ p["old"] \in Nat /\ p["new"] \in Nat
  <2>1. x.left \in Nat /\ x.left > 0 /\ p["old"] \in Nat /\ p["new"] \in Nat
    BY OrderIs
  <2>. QED BY <2>1, TaskNumbers, TaskType, RollAssumption
<1>2. /\ p["old"] + t.leg[1].filled = t.total /\ p["new"] = t.leg[2].filled
      /\ t.leg[2].filled <= t.leg[1].filled /\ t.leg[2].filled < t.total
      /\ t.leg[1].batchFilled <= t.leg[1].filled /\ t.leg[2].batchFilled <= t.leg[2].filled
  BY DEF RollingInv, LegsCount
<1>3. OfLeg(t, p, x, "old") /\ (~mis => HasOrder(t, q))
  <2> HIDE DEF st
  <2>. QED BY DEF RollingInv, OfLegs
<1>4. /\ ~x.opens /\ x.left = p["old"] /\ (t.leg[1].placed => x.left = t.leg[1].batch - t.leg[1].batchFilled)
      /\ x.opens = (x.contract = "new")
  BY <1>3 DEF OfLeg, Alive
<1>5. ~mis => ~t.leg[2].placed
  <2>1. \A i \in DOMAIN q : q[i].contract = "old"
    OBVIOUS
  <2>. QED BY <1>3, <2>1 DEF HasOrder
<1>6. /\ t.leg[1].filled + m <= Size /\ m <= p["old"] /\ t.leg[1].filled + m <= t.total
  BY <1>1, <1>2, <1>4
<1>7. /\ a \in Roll!Leg /\ a.filled = t.leg[1].filled + m /\ a.batch = t.leg[1].batch
      /\ a.batchFilled = t.leg[1].batchFilled + m
      /\ a.placed <=> t.leg[1].placed /\ t.leg[1].batchFilled + m < t.leg[1].batch
  BY <1>1, <1>2, <1>6, FilledType
<1>8. st \in Roll!States /\ st \notin {"PAUSED", "COMPLETED"}
  BY DEF Roll!States
<1>9. Roll!LegFilled(t, 1, m) = u
  BY FilledIs
<1> HIDE DEF a, st
<1>10. u \in Roll!Task
  BY <1>1, <1>7, <1>8, TaskType
<1>11. u.state = st /\ u.total = t.total /\ u.leg[1] = a /\ u.leg[2] = b
  BY TaskFields
<1> HIDE DEF u, b
<1>12. p2 \in [{"old", "new"} -> Nat] /\ p2["old"] = p["old"] - m /\ p2["new"] = p["new"]
  <2>1. ~x.opens => m <= p[x.contract]
    BY <1>6
  <2>2. /\ Booked(p, x, m) \in [{"old", "new"} -> Nat]
        /\ x.contract = "old" => /\ Booked(p, x, m)["new"] = p["new"]
                                 /\ ~x.opens => Booked(p, x, m)["old"] = p["old"] - m
    BY ONLY <2>1, p \in [{"old", "new"} -> Nat], x \in Roll!Order, m \in Nat, BookedIs
  <2>. QED BY <1>4, <2>2
<1>13. r \in Seq(Roll!Order) /\ Len(r) <= 1
  BY RestIs
<1>14. ASSUME NEW i \in DOMAIN r
       PROVE  m < x.left /\ r[i].contract = "old" /\ ~r[i].opens /\ r[i].left = x.left - m /\ r[i].sent /\ bud2 = 0
  <2>1. /\ m < x.left /\ r[i].contract = x.contract /\ r[i].opens = x.opens
        /\ r[i].left = x.left - m /\ r[i].sent = x.sent
    BY RestOne
  <2>. QED BY <1>1, <1>4, <2>1
<1> HIDE DEF p2
<1>15. LegsCount(u, p2)
  <2>1. /\ p2["old"] + a.filled = t.total /\ p2["new"] = t.leg[2].filled /\ t.leg[2].filled <= a.filled
        /\ a.batchFilled <= a.filled
    BY <1>1, <1>2, <1>6, <1>7, <1>12
  <2>. QED BY <1>2, <1>11, <2>1 DEF LegsCount, b
<1>16. OfLegs(u, p2, r, "old")
  <2> SUFFICES ASSUME NEW i \in DOMAIN r PROVE OfLeg(u, p2, r[i], "old")
    BY DEF OfLegs
  <2>1. r[i].left = p2["old"]
    BY <1>4, <1>12, <1>14
  <2>2. a.placed => r[i].left = a.batch - a.batchFilled
    BY <1>1, <1>4, <1>7, <1>14
  <2>3. r[i].opens = (r[i].contract = "new")
    <3>1. r[i].contract = x.contract /\ r[i].opens = x.opens
      BY RestOne
    <3> HIDE DEF r
    <3>. QED BY <1>4, <3>1
  <2> HIDE DEF r
  <2>. QED BY <1>11, <1>14, <2>1, <2>2, <2>3 DEF OfLeg
<1>17. ~mis => HasOrder(u, r)
  <2>1. SUFFICES ASSUME ~mis PROVE HasOrder(u, r)
    OBVIOUS
  <2>2. ~u.leg[2].placed
    BY <1>5, <1>11, <2>1 DEF b
  <2>3. ASSUME a.placed PROVE \E i \in DOMAIN r : r[i].contract = "old"
    <3>1. t.leg[1].placed /\ t.leg[1].batchFilled + m < t.leg[1].batch
      BY <1>7, <2>3
    <3>2. m # x.left
      BY <1>1, <1>4, <3>1
    <3>3. 1 \in DOMAIN r
      BY <3>2, RestIs
    <3>. QED BY <1>14, <3>3
  <2>. QED BY <1>11, <2>2, <2>3 DEF HasOrder
<1>18. \A i \in DOMAIN r : r[i].sent /\ bud2 = 0 /\ r[i].contract = "old"
  BY <1>14
<1> HIDE DEF r
<1>19. Ready(u, p2, r, "old", bud2, mis)
  BY <1>8, <1>10, <1>11, <1>12, <1>13, <1>15, <1>16, <1>17, <1>18 DEF Ready
<1>. QED BY <1>9, <1>19 DEF p2, r

\* A fill of the new contract, within a roll: it completes the roll, or the
\* roll goes on.
LEMMA FillNew ==
  ASSUME NEW t \in Roll!Task, NEW p \in [{"old", "new"} -> Nat], NEW q, NEW x \in Roll!Order, NEW m \in Nat,
         NEW bud, NEW mis, NEW bud2, q = <<x>>, DOMAIN q = {1}, q[1] = x,
         RollingInv(t, p, q, "new", bud, "new", mis), x.contract = "new", x.sent, m > 0, m <= x.left,
         m # x.left => bud2 = 0
  PROVE  \/ /\ Roll!LegFilled(t, 2, m).state = "COMPLETED" /\ Rest(x, m) = <<>>
            /\ Booked(p, x, m) \in [{"old", "new"} -> Nat]
            /\ Booked(p, x, m)["old"] = 0 /\ Booked(p, x, m)["new"] = t.total
         \/ Ready(Roll!LegFilled(t, 2, m), Booked(p, x, m), Rest(x, m), "new", bud2, mis)
<1> DEFINE st == IF t.leg[2].filled + m >= t.total THEN "COMPLETED" ELSE "LEG_2_PARTIAL"
           a == t.leg[1]
           b == FilledLeg(t.leg[2], m)
           u == TaskIs(st, t.total, a, b, t.retries)
           p2 == Booked(p, x, m)
           r == Rest(x, m)
<1>1. /\ t.total \in Nat /\ t.total > 0 /\ t.total <= Size /\ Size \in Nat
      /\ t.leg[1].filled \in Nat /\ t.leg[1].batch \in Nat /\ t.leg[1].batchFilled \in Nat
      /\ t.leg[2].filled \in Nat /\ t.leg[2].batch \in Nat /\ t.leg[2].batchFilled \in Nat
      /\ a \in Roll!Leg /\ t.leg[2] \in Roll!Leg /\ t.retries \in Nat /\ t.retries <= MaxRetries
      /\ x.left \in Nat /\ x.left > 0 /\ p["old"] \in Nat /\ p["new"] \in Nat
  <2>1. x.left \in Nat /\ x.left > 0 /\ p["old"] \in Nat /\ p["new"] \in Nat
    BY OrderIs
  <2>. QED BY <2>1, TaskNumbers, TaskType, RollAssumption
<1>2. /\ p["old"] + t.leg[1].filled = t.total /\ p["new"] = t.leg[2].filled
      /\ t.leg[2].filled <= t.leg[1].filled /\ t.leg[2].filled < t.total
      /\ t.leg[1].batchFilled <= t.leg[1].filled /\ t.leg[2].batchFilled <= t.leg[2].filled
  BY DEF RollingInv, LegsCount
<1>3. OfLeg(t, p, x, "new") /\ (~mis => HasOrder(t, q))
  <2> HIDE DEF st
  <2>. QED BY DEF RollingInv, OfLegs
<1>4. /\ x.opens /\ x.left = t.leg[2].batch - t.leg[2].batchFilled
      /\ t.leg[2].filled + x.left <= t.leg[1].filled /\ t.leg[2].placed
  BY <1>3 DEF OfLeg, Alive
<1>5. ~mis => ~t.leg[1].placed
  <2>1. \A i \in DOMAIN q : q[i].contract = "new"
    OBVIOUS
  <2>. QED BY <1>3, <2>1 DEF HasOrder
<1>6. /\ t.leg[2].filled + m <= Size /\ t.leg[2].filled + m <= t.leg[1].filled /\ t.leg[1].filled <= t.total
  BY <1>1, <1>2, <1>4
<1>7. /\ b \in Roll!Leg /\ b.filled = t.leg[2].filled + m /\ b.batch = t.leg[2].batch
      /\ b.batchFilled = t.leg[2].batchFilled + m
      /\ b.placed <=> t.leg[2].placed /\ t.leg[2].batchFilled + m < t.leg[2].batch
  BY <1>1, <1>2, <1>6, FilledType
<1>8. /\ st \in Roll!States /\ st # "PAUSED"
      /\ t.leg[2].filled + m >= t.total => st = "COMPLETED"
      /\ ~(t.leg[2].filled + m >= t.total) => st # "COMPLETED"
  BY DEF Roll!States
<1>9. Roll!LegFilled(t, 2, m) = u
  BY FilledIs
<1> HIDE DEF b, st
<1>10. u \in Roll!Task
  BY <1>1, <1>7, <1>8, TaskType
<1>11. u.state = st /\ u.total = t.total /\ u.leg[1] = a /\ u.leg[2] = b
  BY TaskFields
<1> HIDE DEF u, a
<1>12. p2 \in [{"old", "new"} -> Nat] /\ p2["old"] = p["old"] /\ p2["new"] = p["new"] + m
  <2>1. ~x.opens => m <= p[x.contract]
    BY <1>4
  <2>2. /\ Booked(p, x, m) \in [{"old", "new"} -> Nat]
        /\ x.contract = "new" => /\ Booked(p, x, m)["old"] = p["old"]
                                 /\ x.opens => Booked(p, x, m)["new"] = p["new"] + m
    BY <2>1, BookedIs
  <2>. QED BY <1>4, <2>2
<1>13. r \in Seq(Roll!Order) /\ Len(r) <= 1
  BY RestIs
<1>14. ASSUME NEW i \in DOMAIN r
       PROVE  m < x.left /\ r[i].contract = "new" /\ r[i].opens /\ r[i].left = x.left - m /\ r[i].sent /\ bud2 = 0
  <2>1. /\ m < x.left /\ r[i].contract = x.contract /\ r[i].opens = x.opens
        /\ r[i].left = x.left - m /\ r[i].sent = x.sent
    BY RestOne
  <2>. QED BY <1>1, <1>4, <2>1
<1> HIDE DEF p2
<1>15. CASE t.leg[2].filled + m >= t.total
  <2>1. m = x.left /\ p["old"] = 0 /\ p["new"] + m = t.total
    BY <1>1, <1>2, <1>4, <1>6, <1>15
  <2>2. r = <<>>
    BY <2>1, RestIs
  <2>3. u.state = "COMPLETED" /\ p2["old"] = 0 /\ p2["new"] = t.total
    BY <1>8, <1>11, <1>12, <1>15, <2>1
  <2> HIDE DEF r
  <2>. QED BY <1>9, <1>12, <2>2, <2>3 DEF p2, r
<1>16. CASE ~(t.leg[2].filled + m >= t.total)
  <2>1. LegsCount(u, p2)
    <3>1. /\ p2["old"] + t.leg[1].filled = t.total /\ p2["new"] = b.filled /\ b.filled <= t.leg[1].filled
          /\ b.filled < t.total /\ b.batchFilled <= b.filled
      BY <1>1, <1>2, <1>6, <1>7, <1>12, <1>16
    <3>. QED BY <1>2, <1>11, <3>1 DEF LegsCount, a
  <2>2. OfLegs(u, p2, r, "new")
    <3> SUFFICES ASSUME NEW i \in DOMAIN r PROVE OfLeg(u, p2, r[i], "new")
      BY DEF OfLegs
    <3>1. r[i].left = b.batch - b.batchFilled /\ b.filled + r[i].left <= t.leg[1].filled
      BY <1>1, <1>4, <1>7, <1>14
    <3>2. b.placed
      BY <1>1, <1>4, <1>7, <1>14
    <3>. QED BY <1>11, <1>14, <3>1, <3>2 DEF OfLeg, a
  <2>3. ~mis => HasOrder(u, r)
    <3>1. SUFFICES ASSUME ~mis PROVE HasOrder(u, r)
      OBVIOUS
    <3>2. ~u.leg[1].placed
      BY <1>5, <1>11, <3>1 DEF a
    <3>3. ASSUME b.placed PROVE \E i \in DOMAIN r : r[i].contract = "new"
      <4>1. t.leg[2].batchFilled + m < t.leg[2].batch
        BY <1>7, <3>3
      <4>2. m # x.left
        BY <1>1, <1>4, <4>1
      <4>3. 1 \in DOMAIN r
        BY <4>2, RestIs
      <4>. QED BY <1>14, <4>3
    <3>. QED BY <1>11, <3>2, <3>3 DEF HasOrder
  <2>4. \A i \in DOMAIN r : r[i].sent /\ bud2 = 0 /\ r[i].contract = "new"
    BY <1>14
  <2>5. u.state \notin {"PAUSED", "COMPLETED"}
    BY <1>8, <1>11, <1>16
  <2> HIDE DEF r
  <2>6. Ready(u, p2, r, "new", bud2, mis)
    BY <1>10, <1>12, <1>13, <2>1, <2>2, <2>3, <2>4, <2>5 DEF Ready
  <2>. QED BY <1>9, <2>6 DEF p2, r
<1>. QED BY <1>15, <1>16

\* A fill without a roll.
LEMMA FillIdle ==
  ASSUME NEW h, NEW p \in [{"old", "new"} -> Nat], NEW q, NEW x \in Roll!Order, NEW m \in Nat,
         NEW ph \in {"old", "new"}, NEW dom, q = <<x>>, DOMAIN q = {1}, q[1] = x, Len(q) = 1,
         IdleInv(h, p, q, ph, dom), x.contract = ph, x.sent, m > 0, m <= x.left
  PROVE  Booked(p, x, m) \in [{"old", "new"} -> Nat] /\ IdleInv(h, Booked(p, x, m), Rest(x, m), ph, dom)
<1> DEFINE p2 == Booked(p, x, m)
           r == Rest(x, m)
<1>1. /\ IdleOrder(h, p, x, ph, dom) /\ p["old"] <= Size /\ p["new"] <= Size
      /\ h = "old" => p["new"] = 0
      /\ dom = "old" => h # "new"
      /\ h # "none"
  <2>1. q # <<>>
    <3>1. q = <<>> => DOMAIN q = {}
      OBVIOUS
    <3>. QED BY <3>1
  <2>. QED BY <2>1 DEF IdleInv
<1>2. /\ x.opens => p[x.contract] + x.left <= Size
      /\ ~x.opens => x.left <= p[x.contract]
      /\ h = "old" => x.contract = "old"
  BY <1>1 DEF IdleOrder, Alive
<1>3. /\ x.left \in Nat /\ x.left > 0 /\ p["old"] \in Nat /\ p["new"] \in Nat /\ p[x.contract] \in Nat
      /\ Size \in Nat /\ x.contract \in {"old", "new"} /\ x.opens \in BOOLEAN
  BY OrderIs, RollAssumption
<1>4. ~x.opens => m <= p[x.contract]
  BY <1>2, <1>3
<1>5. /\ p2 \in [{"old", "new"} -> Nat]
      /\ x.contract = "old" => /\ p2["new"] = p["new"]
                               /\ x.opens => p2["old"] = p["old"] + m
                               /\ ~x.opens => p2["old"] = p["old"] - m
      /\ x.contract = "new" => /\ p2["old"] = p["old"]
                               /\ x.opens => p2["new"] = p["new"] + m
                               /\ ~x.opens => p2["new"] = p["new"] - m
  BY ONLY <1>4, p \in [{"old", "new"} -> Nat], x \in Roll!Order, m \in Nat, BookedIs
<1>6. Len(r) <= 1
  BY RestIs
<1> HIDE DEF p2
<1>7. /\ p2["old"] <= Size /\ p2["new"] <= Size
      /\ x.opens => p2[x.contract] = p[x.contract] + m
      /\ ~x.opens => p2[x.contract] = p[x.contract] - m
  <2>1. CASE x.contract = "old"
    BY <1>1, <1>2, <1>3, <1>5, <2>1
  <2>2. CASE x.contract = "new"
    BY <1>1, <1>2, <1>3, <1>5, <2>2
  <2>. QED BY <1>3, <2>1, <2>2
<1>8. ASSUME NEW i \in DOMAIN r PROVE IdleOrder(h, p2, r[i], ph, dom)
  <2>1. /\ m < x.left /\ r[i].contract = x.contract /\ r[i].opens = x.opens
        /\ r[i].left = x.left - m /\ r[i].sent = x.sent
    BY RestOne
  <2> HIDE DEF r
  <2>2. x.opens => p2[x.contract] + (x.left - m) <= Size
    BY <1>2, <1>3, <1>7
  <2>3. ~x.opens => x.left - m <= p2[x.contract]
    BY <1>2, <1>3, <1>7
  <2>. QED BY <1>2, <1>3, <2>1, <2>2, <2>3 DEF IdleOrder
<1>9. h = "old" => p2["new"] = 0
  BY <1>1, <1>2, <1>5
<1> HIDE DEF r
<1>10. IdleInv(h, p2, r, ph, dom)
  BY <1>1, <1>6, <1>7, <1>8, <1>9 DEF IdleInv
<1>. QED BY <1>5, <1>10 DEF p2, r

\* on_trade of a roll that goes on, and of one that is completed.
LEMMA OnTradeIs ==
  ASSUME NEW h, NEW t \in Roll!Task, NEW p, NEW q, NEW c \in {"old", "new"}, NEW m, NEW no, NEW n,
         n = Roll!LegOf(c), NEW s, s = Strategy(h, t, p, q)
  PROVE  /\ Roll!LegFilled(t, n, m).state = "COMPLETED" => Roll!OnTrade(s, c, m, no) = Strategy("new", Roll!NoTask, p, q)
         /\ Roll!LegFilled(t, n, m).state # "COMPLETED"
                => Roll!OnTrade(s, c, m, no) = Roll!Advance(Strategy(h, Roll!LegFilled(t, n, m), p, q), no)
<1> DEFINE u == Roll!LegFilled(t, n, m)
<1>1. s.task = t /\ Roll!Rolling(s)
  BY StrategyFields, TaskType DEF Roll!Rolling
<1>2. ASSUME u.state = "COMPLETED" PROVE Roll!OnTrade(s, c, m, no) = Strategy("new", Roll!NoTask, p, q)
  <2>1. Roll!OnTrade(s, c, m, no) = [s EXCEPT !.task = Roll!NoTask, !.held = "new"]
    BY <1>1, <1>2 DEF Roll!OnTrade
  <2> DEFINE a == [s EXCEPT !.task = Roll!NoTask]
             b == [a EXCEPT !.held = "new"]
  <2>2. [s EXCEPT !.task = Roll!NoTask, !.held = "new"] = b
    OBVIOUS
  <2>3. a = Strategy(h, Roll!NoTask, p, q)
    BY TaskSet
  <2> HIDE DEF a
  <2>4. b = Strategy("new", Roll!NoTask, p, q)
    BY <2>3, HeldSet
  <2> HIDE DEF b
  <2>. QED BY <2>1, <2>2, <2>4
<1>3. ASSUME u.state # "COMPLETED" PROVE Roll!OnTrade(s, c, m, no) = Roll!Advance(Strategy(h, u, p, q), no)
  <2>1. Roll!OnTrade(s, c, m, no) = Roll!Advance([s EXCEPT !.task = u], no)
    BY <1>1, <1>3 DEF Roll!OnTrade
  <2> HIDE DEF u
  <2>2. [s EXCEPT !.task = u] = Strategy(h, u, p, q)
    BY TaskSet
  <2>. QED BY <2>1, <2>2
<1>. QED BY <1>2, <1>3

\* A roll that a fill ends has moved the whole position.
Moved ==
    Roll!Rolling(strategy) /\ ~Roll!Rolling(strategy')
        => strategy'.position["old"] = 0 /\ strategy'.position["new"] = strategy.task.total

LEMMA FillKeeps == ASSUME ~OpenFirst, NEW no PROVE RollInv /\ Roll!Fill(no) => RollInv' /\ Moved
<1> SUFFICES ASSUME RollInv, Roll!Fill(no) PROVE RollInv' /\ Moved
  OBVIOUS
<1> DEFINE h == strategy.held
           t == strategy.task
           p == strategy.position
           q == strategy.orders
<1>1. /\ strategy = Strategy(h, t, p, q) /\ h \in {"old", "new", "none"} /\ t \in Roll!Task \union {Roll!NoTask}
      /\ p \in [{"old", "new"} -> Nat] /\ q \in Seq(Roll!Order) /\ WaitsBehind(q)
      /\ t = Roll!NoTask => IdleInv(h, p, q, phase, dominant)
      /\ t # Roll!NoTask => RollingInv(t, p, q, phase, budget, dominant, missed)
      /\ dominant \in {"old", "new"} /\ missed \in BOOLEAN /\ barsLeft \in 0..BarsPerDay
  BY Known DEF RollInv
<1>2. /\ phase' = phase /\ barsLeft' = barsLeft /\ dominant' = dominant
      /\ missed' = (missed /\ Roll!Rolling(strategy'))
  BY DEF Roll!Fill
<1>3. PICK x \in Roll!Order, m \in Nat :
            /\ q = <<x>> /\ DOMAIN q = {1} /\ q[1] = x /\ Len(q) = 1
            /\ x.sent /\ x.contract = phase /\ phase \in {"old", "new"}
            /\ m > 0 /\ m <= x.left /\ budget' = budget - m /\ budget - m \in 0..(2 * Size)
            /\ m # x.left => budget - m = 0
            /\ strategy' = Roll!OnTrade(Strategy(h, t, Booked(p, x, m), Rest(x, m)), phase, m, no)
  BY FillIs
<1> DEFINE p2 == Booked(p, x, m)
           r == Rest(x, m)
           s == Strategy(h, t, p2, r)
           bud == budget - m
<1> HIDE DEF h, t, p, q
<1>4. r \in Seq(Roll!Order) /\ WaitsBehind(r)
  BY <1>3, RestIs
<1>5. missed' \in BOOLEAN
  BY <1>1, <1>2
<1> SUFFICES StrategyInv(strategy', phase, bud, dominant, missed') /\ Moved
  <2> HIDE DEF s
  <2>1. budget' = bud /\ bud \in 0..(2 * Size)
    BY <1>3
  <2>2. phase' = phase /\ phase \in {"settled", "expiring", "old", "new", "close"}
    BY <1>2, <1>3
  <2>3. barsLeft' \in 0..BarsPerDay /\ dominant' = dominant /\ dominant \in {"old", "new"}
    BY <1>1, <1>2
  <2> HIDE DEF bud
  <2>4. StrategyInv(strategy', phase', budget', dominant', missed')
    BY <2>1, <2>2, <2>3
  <2>. QED BY <1>5, <2>1, <2>2, <2>3, <2>4 DEF RollInv
<1>6. CASE t = Roll!NoTask
  <2>1. IdleInv(h, p, q, phase, dominant) /\ phase \in {"old", "new"}
    BY <1>1, <1>3, <1>6
  <2>2. p2 \in [{"old", "new"} -> Nat] /\ IdleInv(h, p2, r, phase, dominant)
    BY <1>1, <1>3, <2>1, FillIdle
  <2> HIDE DEF p2, r
  <2>3. ~Roll!Rolling(s)
    BY <1>6, StrategyFields DEF Roll!Rolling
  <2>4. strategy' = s
    BY <1>3, <2>3 DEF Roll!OnTrade, p2, r
  <2>5. StrategyInv(Strategy(h, t, p2, r), phase, bud, dominant, missed')
    <3> HIDE DEF bud
    <3>. QED BY <1>1, <1>4, <1>6, <2>2, InvOf
  <2>6. Moved
    BY <1>6 DEF Moved, Roll!Rolling, t
  <2>. QED BY <2>4, <2>5, <2>6
<1>7. CASE t # Roll!NoTask
  <2>1. /\ t \in Roll!Task /\ RollingInv(t, p, q, phase, budget, dominant, missed)
    BY <1>1, <1>7
  <2>2. dominant = "new"
    BY <2>1 DEF RollingInv
  <2>3. Roll!LegOf("old") = 1 /\ Roll!LegOf("new") = 2 /\ h \in Holds /\ "old" \in Trading /\ "new" \in Trading
    BY <1>1 DEF Roll!LegOf, Holds, Trading
  <2> DEFINE n == Roll!LegOf(phase)
             u == Roll!LegFilled(t, n, m)
  <2>4. \/ phase = "new" /\ u.state = "COMPLETED" /\ r = <<>> /\ p2 \in [{"old", "new"} -> Nat]
           /\ p2["old"] = 0 /\ p2["new"] = t.total
        \/ Ready(u, p2, r, phase, bud, missed)
    <3>1. CASE phase = "old"
      <4>1. Ready(Roll!LegFilled(t, 1, m), p2, r, "old", bud, missed)
        <5>1. RollingInv(t, p, q, "old", budget, "new", missed)
          BY <2>1, <2>2, <3>1
        <5>. QED BY <1>1, <1>3, <2>1, <3>1, <5>1, FillOld
      <4>. QED BY <2>3, <3>1, <4>1
    <3>2. CASE phase = "new"
      <4>1. RollingInv(t, p, q, "new", budget, "new", missed)
        BY <2>1, <2>2, <3>2
      <4>2. \/ /\ Roll!LegFilled(t, 2, m).state = "COMPLETED" /\ r = <<>>
               /\ p2 \in [{"old", "new"} -> Nat]
               /\ p2["old"] = 0 /\ p2["new"] = t.total
            \/ Ready(Roll!LegFilled(t, 2, m), p2, r, "new", bud, missed)
        BY <1>1, <1>3, <2>1, <3>2, <4>1, FillNew
      <4>. QED BY <2>3, <3>2, <4>2
    <3>. QED BY <1>3, <3>1, <3>2
  <2> HIDE DEF p2, r, bud
  <2>5. strategy' = Roll!OnTrade(s, phase, m, no)
    BY <1>3 DEF p2, r
  <2>6. /\ u.state = "COMPLETED" => strategy' = Strategy("new", Roll!NoTask, p2, r)
        /\ u.state # "COMPLETED" => strategy' = Roll!Advance(Strategy(h, u, p2, r), no)
    <3>1. phase \in {"old", "new"}
      BY <1>3
    <3>. QED BY <2>1, <2>5, <3>1, OnTradeIs
  <2> HIDE DEF u, n, s
  <2>7. CASE Ready(u, p2, r, phase, bud, missed)
    <3>1. u.state # "COMPLETED" /\ phase \in Trading
      BY <1>3, <2>3, <2>7 DEF Ready
    <3>2. /\ StrategyInv(Roll!Advance(Strategy(h, u, p2, r), no), phase, bud, "new", missed)
          /\ Roll!Rolling(Roll!Advance(Strategy(h, u, p2, r), no))
      BY <2>3, <2>7, <3>1, ReadyAdvances, SMTT(60)
    <3>3. strategy' = Roll!Advance(Strategy(h, u, p2, r), no)
      BY <2>6, <3>1
    <3>4. Roll!Rolling(strategy')
      BY <3>2, <3>3
    <3>5. missed' = missed
      BY <1>1, <1>2, <3>4
    <3>. QED BY <2>2, <3>2, <3>3, <3>4, <3>5 DEF Moved
  <2>8. CASE /\ phase = "new" /\ u.state = "COMPLETED" /\ r = <<>> /\ p2 \in [{"old", "new"} -> Nat]
             /\ p2["old"] = 0 /\ p2["new"] = t.total
    <3>1. IdleInv("new", p2, r, phase, dominant)
      <4>1. Len(r) = 0 /\ DOMAIN r = {} /\ Size \in Nat /\ 0 <= Size /\ t.total <= Size
        BY <2>1, <2>8, TaskNumbers, RollAssumption
      <4>. QED BY <2>2, <2>8, <4>1 DEF IdleInv
    <3>2. StrategyInv(Strategy("new", Roll!NoTask, p2, r), phase, bud, dominant, missed')
      <4>1. Roll!NoTask \in Roll!Task \union {Roll!NoTask}
        OBVIOUS
      <4>. QED BY <1>4, <2>8, <3>1, <4>1, InvOf
    <3>3. strategy' = Strategy("new", Roll!NoTask, p2, r)
      BY <2>6, <2>8
    <3>4. strategy'.position = p2
      BY <3>3, StrategyFields
    <3>5. Moved
      BY <2>8, <3>4 DEF Moved, t
    <3>. QED BY <3>2, <3>3, <3>5
  <2>. QED BY <2>4, <2>7, <2>8
<1>. QED BY <1>6, <1>7

-------------------------------------------------------------------------------
(* The theorems of the roll *)

LEMMA InitRolls == Roll!Init => RollInv
<1> SUFFICES ASSUME Roll!Init PROVE RollInv
  OBVIOUS
<1> DEFINE p == [c \in {"old", "new"} |-> 0]
<1>1. Size \in Nat /\ BarsPerDay \in Nat /\ 0 \in 0..(2 * Size) /\ 0 \in 0..BarsPerDay /\ 0 <= Size
  BY RollAssumption
<1>2. strategy = Strategy("none", Roll!NoTask, p, <<>>)
  BY DEF Roll!Init, Roll!Contracts, Strategy
<1>3. p \in [{"old", "new"} -> Nat] /\ p["old"] = 0 /\ p["new"] = 0
  OBVIOUS
<1>4. <<>> \in Seq(Roll!Order) /\ Len(<<>>) = 0 /\ DOMAIN <<>> = {}
  OBVIOUS
<1> HIDE DEF p
<1>5. WaitsBehind(<<>>) /\ IdleInv("none", p, <<>>, "settled", "old")
  BY <1>1, <1>3, <1>4 DEF WaitsBehind, IdleInv
<1>6. StrategyInv(Strategy("none", Roll!NoTask, p, <<>>), "settled", 0, "old", missed)
  <2>1. Roll!NoTask \in Roll!Task \union {Roll!NoTask}
    OBVIOUS
  <2>. QED BY <1>3, <1>4, <1>5, <2>1, InvOf
<1>7. /\ phase = "settled" /\ budget = 0 /\ barsLeft = 0 /\ dominant = "old" /\ missed \in BOOLEAN
  BY DEF Roll!Init
<1>. QED BY <1>1, <1>2, <1>6, <1>7 DEF RollInv

\* What a step of the day's run keeps, and what a fill in it moves.
LEMMA RollStep ==
  ASSUME ~OpenFirst, RollInv, Roll!Next
  PROVE  RollInv' /\ (phase \in {"old", "new"} => Moved)
<1>1. CASE Roll!BeginDay \/ Roll!EndMatch \/ Roll!EndDay
  <2>1. strategy' = strategy
    BY <1>1 DEF Roll!BeginDay, Roll!EndMatch, Roll!EndDay
  <2>2. RollInv'
    BY <1>1, PhaseActionsKeep
  <2>. QED BY <2>1, <2>2 DEF Moved
<1>2. CASE Roll!Expire
  <2>1. phase = "expiring"
    BY <1>2 DEF Roll!Expire
  <2>. QED BY <1>2, <2>1, ExpireKeeps
<1>3. CASE Roll!SendDeferred
  <2>1. phase = "expiring"
    BY <1>3 DEF Roll!SendDeferred
  <2>. QED BY <1>3, <2>1, SendDeferredKeeps
<1>4. ASSUME NEW no, Roll!Fill(no) PROVE RollInv' /\ Moved
  BY <1>4, FillKeeps
<1>5. ASSUME NEW no, Roll!OnBar(no) PROVE RollInv' /\ phase = "close"
  <2>1. RollInv'
    BY <1>5, OnBarKeeps
  <2>2. phase = "close"
    BY <1>5 DEF Roll!OnBar
  <2>. QED BY <2>1, <2>2
<1>. QED BY <1>1, <1>2, <1>3, <1>4, <1>5 DEF Roll!Next

\* With CLOSE_FIRST what the account holds, what is alive at the market and what
\* the legs of the roll count go together at every moment of the day (Rollover).
THEOREM RollCorrect == ASSUME ~OpenFirst PROVE SupervisionSpec => []RollInv
<1>1. SupervisionInit => RollInv
  BY InitRolls DEF SupervisionInit
<1>2. RollInv /\ [SupervisionNext]_supervisionVars => RollInv'
  <2> SUFFICES ASSUME RollInv, [SupervisionNext]_supervisionVars PROVE RollInv'
    OBVIOUS
  <2>1. Roll!Next \/ UNCHANGED rollVars
    BY DEF SupervisionNext, Watching, Rolls, Stores, supervisionVars
  <2>2. CASE UNCHANGED rollVars
    <3>1. /\ strategy' = strategy /\ phase' = phase /\ budget' = budget /\ barsLeft' = barsLeft
          /\ dominant' = dominant /\ missed' = missed
      BY <2>2 DEF rollVars
    <3>. QED BY <3>1 DEF RollInv
  <2>3. CASE Roll!Next
    BY <2>3, RollStep
  <2>. QED BY <2>1, <2>2, <2>3
<1>. QED BY <1>1, <1>2, PTL DEF SupervisionSpec

\* The lots that may still arrive are those of one order, and the first leg is
\* ahead of the second by them.
LEMMA ArrivingIs ==
  ASSUME NEW t, NEW p, NEW q \in Seq(Roll!Order), WaitsBehind(q), NEW bud, NEW mis,
         NEW ph \in {"old", "new"}, t \in Roll!Task, RollingInv(t, p, q, ph, bud, "new", mis),
         NEW s, s.orders = q
  PROVE  Roll!Arriving(s) \in Nat /\ t.leg[2].filled + Roll!Arriving(s) <= t.leg[1].filled
<1>1. t.leg[1].filled \in Nat /\ t.leg[2].filled \in Nat /\ t.leg[2].filled <= t.leg[1].filled
  BY TaskNumbers DEF RollingInv, LegsCount
<1>2. ASSUME NEW i \in DOMAIN q, q[i].contract = "new"
      PROVE  t.leg[2].filled + q[i].left <= t.leg[1].filled
  BY <1>2 DEF RollingInv, OfLegs, OfLeg, Alive
<1>3. ASSUME NEW i \in Roll!Opening(s), NEW j \in Roll!Opening(s) PROVE i = j
  <2>1. i \in DOMAIN q /\ q[i].contract = "new" /\ j \in DOMAIN q /\ q[j].contract = "new"
    BY <1>3 DEF Roll!Opening
  <2>2. CASE Len(q) = 2
    <3>1. q[1].contract # q[2].contract /\ DOMAIN q = {1, 2}
      BY <2>2, QueueIs DEF RollingInv, Apart
    <3>. QED BY <2>1, <3>1
  <2>3. CASE Len(q) # 2
    <3>1. DOMAIN q = {} \/ DOMAIN q = {1}
      BY <2>3, QueueIs
    <3>. QED BY <2>1, <3>1
  <2>. QED BY <2>2, <2>3
<1>4. CASE Roll!Opening(s) = {}
  BY <1>1, <1>4, LeftOfOne DEF Roll!Arriving
<1>5. CASE Roll!Opening(s) # {}
  <2>1. PICK i \in Roll!Opening(s) : Roll!Opening(s) = {i}
    BY <1>3, <1>5
  <2>2. i \in DOMAIN q /\ q[i].contract = "new" /\ i \in Nat /\ q[i] \in Roll!Order
    BY DEF Roll!Opening
  <2>3. q[i].left \in Nat
    BY <2>2, OrderIs
  <2>4. Roll!LeftOf(s, {i}) = q[i].left
    BY <2>2, <2>3, LeftOfOne
  <2>. QED BY <1>2, <2>1, <2>2, <2>3, <2>4 DEF Roll!Arriving
<1>. QED BY <1>4, <1>5

\* The first part of the invariant, and what the checked properties ask of it.
LEMMA RollTypes == ASSUME RollInv PROVE Roll!TypeOK
<1> DEFINE h == strategy.held
           t == strategy.task
           p == strategy.position
           q == strategy.orders
<1>1. /\ h \in {"old", "new", "none"} /\ t \in Roll!Task \union {Roll!NoTask}
      /\ p \in [{"old", "new"} -> Nat] /\ q \in Seq(Roll!Order) /\ WaitsBehind(q)
      /\ t = Roll!NoTask => IdleInv(h, p, q, phase, dominant)
      /\ t # Roll!NoTask => RollingInv(t, p, q, phase, budget, dominant, missed)
  BY Known
<1>2. Size \in Nat /\ Roll!Lots = 0..(2 * Size)
  BY RollAssumption DEF Roll!Lots
<1>3. p["old"] <= Size /\ p["new"] <= Size
  <2>1. CASE t = Roll!NoTask
    BY <1>1, <2>1 DEF IdleInv
  <2>2. CASE t # Roll!NoTask
    <3>1. t \in Roll!Task /\ LegsCount(t, p)
      BY <1>1, <2>2 DEF RollingInv
    <3> HIDE DEF t, p
    <3>2. /\ t.total \in Nat /\ t.total <= Size /\ t.leg[1].filled \in Nat /\ t.leg[2].filled \in Nat
          /\ p["old"] \in Nat /\ p["new"] \in Nat
      BY <1>1, <3>1, TaskNumbers
    <3>. QED BY <1>2, <3>1, <3>2 DEF LegsCount
  <2>. QED BY <2>1, <2>2
<1>4. p \in [Roll!Contracts -> Roll!Lots]
  <2>1. p["old"] \in Roll!Lots /\ p["new"] \in Roll!Lots
    <3> HIDE DEF p
    <3>1. p["old"] \in Nat /\ p["new"] \in Nat
      BY <1>1
    <3>. QED BY <1>2, <1>3, <3>1
  <2>. QED BY <1>1, <2>1 DEF Roll!Contracts
<1>5. Len(q) <= 4
  <2> HIDE DEF q
  <2>1. Len(q) \in Nat /\ Len(q) <= 2
    BY <1>1 DEF WaitsBehind
  <2>. QED BY <2>1
<1>6. /\ phase \in {"settled", "expiring", "old", "new", "close"}
      /\ budget \in 0..(2 * Size) /\ barsLeft \in 0..BarsPerDay
      /\ dominant \in {"old", "new"} /\ missed \in BOOLEAN
  BY DEF RollInv
<1> HIDE DEF h, t, p, q
<1>. QED BY <1>1, <1>4, <1>5, <1>6 DEF Roll!TypeOK, Roll!Contracts, h, t, p, q

LEMMA RollSound == ASSUME RollInv PROVE Roll!RollIsCounted /\ Roll!RollIsDriven
<1> DEFINE h == strategy.held
           t == strategy.task
           p == strategy.position
           q == strategy.orders
<1>1. /\ p \in [{"old", "new"} -> Nat] /\ q \in Seq(Roll!Order) /\ WaitsBehind(q)
      /\ Roll!Rolling(strategy) => t \in Roll!Task /\ RollingInv(t, p, q, phase, budget, "new", missed)
  BY Known DEF Roll!Rolling, RollingInv
<1> HIDE DEF h, t, p, q
<1>2. Roll!LegsAreFills
  BY <1>1 DEF Roll!LegsAreFills, RollingInv, LegsCount, t, p
<1>3. Roll!NeverDoubled
  <2> SUFFICES ASSUME Roll!Rolling(strategy), phase \in {"old", "new"}
               PROVE  Roll!Total(strategy) + Roll!Arriving(strategy) <= t.total
    BY DEF Roll!NeverDoubled, Roll!Contracts, t
  <2>1. Roll!Arriving(strategy) \in Nat /\ t.leg[2].filled + Roll!Arriving(strategy) <= t.leg[1].filled
    BY <1>1, ArrivingIs DEF q
  <2>2. Roll!Total(strategy) = p["old"] + p["new"]
    BY DEF Roll!Total, p
  <2>3. p["old"] + t.leg[1].filled = t.total /\ p["new"] = t.leg[2].filled
    BY <1>1 DEF RollingInv, LegsCount
  <2>4. t.total \in Nat /\ t.leg[1].filled \in Nat /\ t.leg[2].filled \in Nat /\ p["old"] \in Nat
    BY <1>1, TaskNumbers
  <2>. QED BY <2>1, <2>2, <2>3, <2>4
<1>4. Roll!RollIsDriven
  <2> SUFFICES ASSUME Roll!Rolling(strategy), t.state # "PAUSED", ~missed PROVE q # <<>>
    BY DEF Roll!RollIsDriven, t, q
  <2>1. \E i \in DOMAIN q : TRUE
    BY <1>1 DEF RollingInv, DrivenOn, HasOrder
  <2>2. q = <<>> => DOMAIN q = {}
    OBVIOUS
  <2>. QED BY <2>1, <2>2
<1>. QED BY <1>2, <1>3, <1>4, RollTypes DEF Roll!RollIsCounted

\* With CLOSE_FIRST a roll counts what the account holds, risks no more than it
\* rolls, and has an order that drives it on (Rollover).
THEOREM RollAlwaysSound == ASSUME ~OpenFirst PROVE SupervisionSpec => []RollIsSound
<1>1. RollInv => RollIsSound
  BY RollSound DEF RollIsSound
<1>. QED BY <1>1, RollCorrect, PTL

\* With CLOSE_FIRST a roll that ends as COMPLETED has moved the whole position
\* (Rollover).
THEOREM CompletedAlwaysMoved == ASSUME ~OpenFirst PROVE SupervisionSpec => Roll!CompletedIsMoved
<1> DEFINE Ends == [LET ends == Roll!Rolling(strategy) /\ ~Roll!Rolling(strategy') /\ phase \in Roll!Contracts IN
                    ends => /\ strategy'.position["old"] = 0
                            /\ strategy'.position["new"] = strategy.task.total]_(Roll!vars)
<1>1. RollInv /\ [SupervisionNext]_supervisionVars => Ends
  <2> SUFFICES ASSUME RollInv, [SupervisionNext]_supervisionVars PROVE Ends
    OBVIOUS
  <2>1. Roll!Next \/ UNCHANGED Roll!vars
    BY DEF SupervisionNext, Watching, Rolls, Stores, supervisionVars, rollVars, Roll!vars
  <2>2. CASE Roll!Next
    BY <2>2, RollStep DEF Moved, Roll!Contracts
  <2>. QED BY <2>1, <2>2
<1>. QED BY <1>1, RollCorrect, PTL DEF SupervisionSpec, Roll!CompletedIsMoved
===============================================================================
