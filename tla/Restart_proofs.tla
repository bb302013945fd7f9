----------------------------- MODULE Restart_proofs -----------------------------
(***************************************************************************)
(* What a process that starts finds, proved for every value of the         *)
(* constants.                                                              *)
(*                                                                         *)
(* Whose callback is it, for any number of orders, sessions and restarts:  *)
(* over a counter that numbers the references of all sessions of a user, a *)
(* callback is applied to the order it speaks of or to none, and no trade, *)
(* rejection or cancel of an order the process knows goes astray.          *)
(* The argument: the book, the recorded results, the index of the account  *)
(* and the counter never give one triple to two orders, nor two triples to *)
(* one order, because a login starts after every reference the counter has *)
(* seen and a book that is restored has no others.  So every name that a   *)
(* callback is given is the true one.                                      *)
(*                                                                         *)
(* What the history of an account is after any commits, failures,          *)
(* checkpoints and restarts: the journal, read back, is the account; the   *)
(* account in memory is that, or one fact behind, or stands on another     *)
(* checkpoint and is built again; and a reader sees a plain account.       *)
(* The argument: applying a list with one fact more is applying that fact  *)
(* last (a recursive function, unfolded by its least counterexample), a    *)
(* kernel is read back from a checkpoint as it was written, and what is    *)
(* retired is finished, booked and for ever used.                          *)
(*                                                                         *)
(* That trading is enabled on the truth, for any orders, trades and        *)
(* products and any interleaving of the four queries with the market.      *)
(* The argument: when an answer is made, an answer without a difference    *)
(* says that the account agrees with the counter, up to trades it will be  *)
(* told of (a sum over the trades of each product, Sums_proofs); orders that*)
(* end later are told too, so what each answer showed stays true for as long*)
(* as the session lasts; and an answer that is late, cut or another's is   *)
(* never taken for the one that was asked for.                             *)
(*                                                                         *)
(* The strategy's runtime, for any number of market events, crashes and    *)
(* queued facts, on an account whose reports name the order they are about:*)
(* one lot at most is at risk, every fill finds its place in the strategy, *)
(* and no command's fate is forgotten.                                     *)
(* The argument follows a command from the callback that makes it: while   *)
(* it may still trade it is an intent of the strategy, the gate is shut for*)
(* every other one, and the checkpoint holds it; when it has traded it     *)
(* stays an intent until the strategy is told.  So at most one command is  *)
(* not settled, and what the account, the broker and the strategy hold     *)
(* differs by that one command.                                            *)
(***************************************************************************)
EXTENDS MCRestart, Sums_proofs, SequenceTheorems

Placed(o) == placed[o].session # 0

\* Everything that says which triple an order has: a triple and an order each.
Entries == {u \in Refs!Owned : \/ u \in book \union evidence \union bySession
                          \/ /\ placed[u.order].session = u.session
                             /\ placed[u.order].ref = u.ref /\ Placed(u.order)}

-------------------------------------------------------------------------------
(* The inductive invariant, in parts                                       *)

\* References are counted: no more are used than orders were dispatched, and the
\* order that is being dispatched works with the last one.
CountedInv ==
    /\ nextRef <= Cardinality(intended) + 1
    /\ \A o \in Orders : /\ placed[o].ref <= Cardinality(intended)
                         /\ Placed(o) <=> placed[o].ref # 0
                         /\ Placed(o) => o \in intended
    /\ \E o \in Orders : \A p \in Orders : placed[p].ref <= placed[o].ref
    /\ session \in {0, logins}
    /\ step # "idle" => session # 0 /\ nextRef > 1 /\ current \in intended
    /\ step = "allocated" => ~Placed(current)
    /\ \A k \in Refs!Kinds, o \in Orders : <<k, o>> \in news => Placed(o)

\* A report or a trade carries the exchange's number of its order, and a report
\* that was applied to its own order has told the account that number.
LinkedInv ==
    /\ \A f \in ingress : f.name.sys = IF f.kind = "error" THEN "none" ELSE f.order
    /\ \A h \in held : h.name.sys = h.order
    /\ \A o \in Orders : [kind |-> "working", order |-> o, to |-> o] \in applied => byExchange[o] = o
    /\ Refs!ToldTradesAreLinked

\* A name that a callback was given is the true one.
NameTrue(name, o) ==
    /\ name.session # 0 => /\ placed[o].session = name.session /\ placed[o].ref = name.ref
                           /\ Placed(o)
    /\ name.session = 0 => name.ref = 0
    /\ name.sys \in {"none", o}

\* One order has one triple, and one triple, one order.
EntriesInv ==
    /\ \A u, v \in Entries : u.order = v.order => u = v
    /\ \A u, v \in Entries : u.session = v.session /\ u.ref = v.ref => u.order = v.order
    /\ \A u \in Entries : /\ u.session # 0 /\ u.ref # 0 /\ u.order \in intended
                          /\ u.session <= logins
                          /\ u.session = session => u.ref < nextRef

\* A reference alone names one order among those in the book and at the counter.
BookInv ==
    /\ evidence \subseteq book /\ \A u \in evidence : Placed(u.order)
    /\ \A u \in book, p \in Orders : Placed(p) /\ placed[p].ref = u.ref => u.order = p
    /\ \A p, q \in Orders : Placed(p) /\ placed[p].ref = placed[q].ref => p = q
    /\ session = 0 => book = evidence
    /\ session # 0 => /\ \A u \in book : u.ref < nextRef
                      /\ \A p \in Orders : placed[p].ref < nextRef
    /\ step # "idle" => Refs!Owns(Refs!Allocated, current) \in book
    /\ step = "allocated" => /\ \A u \in book : u.ref = nextRef - 1 => u.order = current
                             /\ \A p \in Orders : placed[p].ref < nextRef - 1
    /\ step = "sent" => placed[current] = Refs!Allocated

\* The account's name for an order is in the index or at the counter.
NameKnown(o) ==
    /\ identity[o].session = 0 => identity[o].ref = 0
    /\ identity[o].session # 0 => \/ Refs!Owns(identity[o], o) \in bySession
                                  \/ /\ placed[o].session = identity[o].session
                                     /\ placed[o].ref = identity[o].ref

\* What the account has booked, indexed and holds is true.
TruthInv ==
    /\ \A f \in ingress : Placed(f.order) /\ NameTrue(f.name, f.order)
    /\ \A h \in held : Placed(h.order) /\ NameTrue(h.name, h.order)
    /\ \A o \in Orders : byExchange[o] \in {"none", o}
    /\ \A o \in Orders : identity[o].sys \in {"none", o} /\ NameKnown(o)
    /\ \A o \in Orders : identity[o] # Refs!NoName => o \in intended
    /\ step # "idle" => identity[current] = Refs!NoName
    /\ \A u \in evidence : identity[u.order].session # 0
    /\ \A a \in applied : a.to = a.order
    /\ \A o \in unresolved : Placed(o) /\ Refs!OfOrder(book, o) = {}

AttributedInv == EntriesInv /\ BookInv /\ TruthInv

RefsInv ==
    /\ Refs!TypeOK /\ CountedInv /\ LinkedInv
    /\ refsPerUser => AttributedInv

-------------------------------------------------------------------------------
(* Names *)

LEMMA SameCardinality ==
    ASSUME NEW S
    PROVE  Refs!Cardinality(S) = Cardinality(S)
  BY DEF Refs!Cardinality, Cardinality

LEMMA RefsTyped ==
    /\ Cardinality(Orders) \in Nat /\ Refs!Refs = 0..(Cardinality(Orders) + 1)
    /\ Refs!Refs \subseteq Nat /\ 0 \in Refs!Refs /\ 1 \in Refs!Refs
    /\ Refs!Sessions \subseteq Nat /\ 0 \in Refs!Sessions
<1>1. Cardinality(Orders) \in Nat /\ Refs!Refs = 0..(Cardinality(Orders) + 1)
  BY RestartAssumption, FS_CardinalityType, SameCardinality DEF RestartAssumption, Refs!Refs
<1>2. Refs!Refs \subseteq Nat /\ 0 \in Refs!Refs /\ 1 \in Refs!Refs
  BY <1>1
<1>3. Refs!Sessions \subseteq Nat /\ 0 \in Refs!Sessions
  BY RestartAssumption DEF RestartAssumption, Refs!Sessions
<1>. QED
  BY <1>1, <1>2, <1>3

LEMMA IntendedCounted ==
    ASSUME Refs!TypeOK
    PROVE  /\ IsFiniteSet(intended) /\ Cardinality(intended) \in Nat
           /\ Cardinality(intended) <= Cardinality(Orders)
           /\ \A o \in Orders \ intended :
                 /\ Cardinality(intended \union {o}) = Cardinality(intended) + 1
                 /\ Cardinality(intended) + 1 <= Cardinality(Orders)
<1>1. intended \subseteq Orders /\ IsFiniteSet(Orders)
  BY RestartAssumption DEF Refs!TypeOK, RestartAssumption
<1>2. IsFiniteSet(intended) /\ Cardinality(intended) \in Nat /\ Cardinality(intended) <= Cardinality(Orders)
  BY <1>1, FS_Subset, FS_CardinalityType
<1>3. ASSUME NEW o \in Orders \ intended
      PROVE  /\ Cardinality(intended \union {o}) = Cardinality(intended) + 1
             /\ Cardinality(intended) + 1 <= Cardinality(Orders)
  <2>1. Cardinality(intended \union {o}) = Cardinality(intended) + 1
    BY <1>2, <1>3, FS_AddElement
  <2>2. Cardinality(intended \union {o}) <= Cardinality(Orders)
    BY <1>1, <1>3, FS_Subset
  <2>. QED
    BY <2>1, <2>2
<1>. QED
  BY <1>2, <1>3

LEMMA FindTyped ==
    ASSUME Refs!TypeOK, NEW name \in Refs!Names
    PROVE  /\ Refs!Find(name) \in Orders \union {"none"}
           /\ name.sys # "none" /\ byExchange[name.sys] # "none" => Refs!Find(name) = byExchange[name.sys]
           /\ Refs!OwnerBySession(name) \subseteq Orders
<1>1. Refs!OwnerBySession(name) \subseteq Orders
  BY DEF Refs!TypeOK, Refs!OwnerBySession, Refs!Owned
<1>2. name.sys \in Orders \union {"none"}
  BY DEF Refs!Names
<1>3. CASE name.sys # "none" /\ byExchange[name.sys] # "none"
  BY <1>1, <1>2, <1>3 DEF Refs!Find, Refs!TypeOK
<1>4. CASE ~(name.sys # "none" /\ byExchange[name.sys] # "none")
  <2>1. CASE Refs!HasTriple(name) /\ Refs!OwnerBySession(name) # {}
    <3>1. Refs!Find(name) = CHOOSE o \in Refs!OwnerBySession(name) : TRUE
      BY <1>4, <2>1 DEF Refs!Find
    <3>2. Refs!Find(name) \in Refs!OwnerBySession(name)
      BY <2>1, <3>1
    <3>. QED
      BY <1>1, <1>4, <3>2
  <2>2. CASE ~(Refs!HasTriple(name) /\ Refs!OwnerBySession(name) # {})
    BY <1>1, <1>4, <2>2 DEF Refs!Find
  <2>. QED
    BY <2>1, <2>2
<1>. QED
  BY <1>3, <1>4

\* What a name indexes, and that no entry is given to a second order.
LEMMA Indexed ==
    ASSUME Refs!TypeOK, NEW o \in Orders, NEW name \in Refs!Names
    PROVE  /\ Refs!IndexedExchange(o, name) \in [Orders -> Orders \union {"none"}]
           /\ Refs!IndexedSession(o, name) \subseteq Refs!Owned
           /\ bySession \subseteq Refs!IndexedSession(o, name)
           /\ Refs!IndexedSession(o, name) \subseteq bySession \union {Refs!Owns(name, o)}
           /\ Refs!IndexedSession(o, name) # bySession => name.session # 0
           /\ \A x \in Orders : Refs!IndexedExchange(o, name)[x] =
                 IF x = name.sys /\ byExchange[x] \in {"none", o} THEN o ELSE byExchange[x]
<1>1. Refs!Owns(name, o) \in Refs!Owned
  BY DEF Refs!Owns, Refs!Names, Refs!Owned
<1>2. /\ Refs!IndexedSession(o, name) \subseteq Refs!Owned
      /\ bySession \subseteq Refs!IndexedSession(o, name)
      /\ Refs!IndexedSession(o, name) \subseteq bySession \union {Refs!Owns(name, o)}
      /\ Refs!IndexedSession(o, name) # bySession => name.session # 0
  BY <1>1 DEF Refs!IndexedSession, Refs!TypeOK, Refs!HasTriple
<1>3. name.sys \in Orders \union {"none"} /\ "none" \notin Orders
  BY RestartAssumption DEF Refs!Names, RestartAssumption
<1>4. /\ Refs!IndexedExchange(o, name) \in [Orders -> Orders \union {"none"}]
      /\ \A x \in Orders : Refs!IndexedExchange(o, name)[x] =
                 IF x = name.sys /\ byExchange[x] \in {"none", o} THEN o ELSE byExchange[x]
  BY <1>3 DEF Refs!IndexedExchange, Refs!ExchangeTaken, Refs!TypeOK
<1>. QED
  BY <1>2, <1>4

LEMMA AllocatedTyped ==
    ASSUME Refs!TypeOK, nextRef > 1
    PROVE  Refs!Allocated \in Refs!Triple /\ nextRef - 1 \in Refs!Refs
<1>1. session \in Refs!Sessions /\ nextRef \in Refs!Refs
  BY DEF Refs!TypeOK
<1>2. nextRef - 1 \in Refs!Refs
  BY <1>1, RefsTyped
<1>. QED
  BY <1>1, <1>2 DEF Refs!Allocated, Refs!Triple

\* What a conversion makes of a callback.
LEMMA ConvertEffect ==
    ASSUME Refs!TypeOK, NEW o \in Orders, NEW kind \in Refs!Kinds, Refs!Convert(kind, o)
    PROVE  /\ <<kind, o>> \in news /\ session # 0 /\ Refs!NameOf(kind, o) \in Refs!Names
           /\ Refs!NameOf(kind, o).sys = IF kind = "error" THEN "none" ELSE o
           /\ \/ /\ Refs!NameOf(kind, o).session = placed[o].session /\ Refs!NameOf(kind, o).ref = placed[o].ref
                 /\ kind = "working"
              \/ Refs!NameOf(kind, o).session = 0 /\ Refs!NameOf(kind, o).ref = 0
              \/ /\ Refs!NameOf(kind, o).session = Refs!SessionForRef(placed[o].ref)
                 /\ Refs!NameOf(kind, o).ref = placed[o].ref /\ Refs!NameOf(kind, o).session \in Refs!SessionsOf(placed[o].ref)
           /\ Refs!NameOf(kind, o) = Refs!NoName => Refs!SessionForRef(placed[o].ref) = 0
           /\ \/ ingress' = ingress /\ unresolved' = unresolved \union {o} /\ Refs!NameOf(kind, o) = Refs!NoName
              \/ /\ ingress' = ingress \union {[kind |-> kind, order |-> o, name |-> Refs!NameOf(kind, o)]}
                 /\ unresolved' = unresolved
           /\ UNCHANGED <<step, current, session, nextRef, book, intended, evidence, Refs!account,
                          logins, Refs!counter, deaths>>
<1>. DEFINE sys == IF kind = "error" THEN "none" ELSE o
            s == IF kind = "working" THEN placed[o].session ELSE Refs!SessionForRef(placed[o].ref)
<1>1. Refs!NameOf(kind, o) = IF s = 0 THEN [Refs!NoName EXCEPT !.sys = sys]
                        ELSE [session |-> s, ref |-> placed[o].ref, sys |-> sys]
  BY DEF Refs!NameOf
<1>2. placed[o].session \in Refs!Sessions /\ placed[o].ref \in Refs!Refs
  BY DEF Refs!TypeOK, Refs!Triple
<1>3. \/ Refs!SessionForRef(placed[o].ref) = 0
      \/ Refs!SessionForRef(placed[o].ref) \in Refs!SessionsOf(placed[o].ref)
  <2>1. ASSUME Cardinality(Refs!SessionsOf(placed[o].ref)) = 1
        PROVE  Refs!SessionsOf(placed[o].ref) # {}
    BY <2>1, FS_EmptySet
  <2>. QED
    BY <2>1 DEF Refs!SessionForRef
<1>4. Refs!SessionsOf(placed[o].ref) \subseteq Refs!Sessions
  BY DEF Refs!SessionsOf, Refs!TypeOK, Refs!Owned
<1>5. s \in Refs!Sessions /\ sys \in Orders \union {"none"} /\ 0 \in Refs!Sessions /\ 0 \in Refs!Refs
  BY <1>2, <1>3, <1>4, RefsTyped
<1>6. [Refs!NoName EXCEPT !.sys = sys] = [session |-> 0, ref |-> 0, sys |-> sys]
  BY DEF Refs!NoName
<1>. HIDE DEF sys, s
<1>7. /\ Refs!NameOf(kind, o) \in Refs!Names /\ Refs!NameOf(kind, o).sys = sys
      /\ s = 0 => Refs!NameOf(kind, o).session = 0 /\ Refs!NameOf(kind, o).ref = 0
      /\ s # 0 => Refs!NameOf(kind, o).session = s /\ Refs!NameOf(kind, o).ref = placed[o].ref
  BY <1>1, <1>2, <1>5, <1>6 DEF Refs!Names
<1>8. Refs!NameOf(kind, o) = Refs!NoName => Refs!SessionForRef(placed[o].ref) = 0
  <2>. SUFFICES ASSUME Refs!NameOf(kind, o) = Refs!NoName
                PROVE  Refs!SessionForRef(placed[o].ref) = 0
    OBVIOUS
  <2>1. sys = "none" /\ s = 0
    BY <1>7 DEF Refs!NoName
  <2>2. kind = "error"
    BY <2>1, RestartAssumption DEF sys, RestartAssumption
  <2>. QED
    BY <2>1, <2>2 DEF s
<1>9. \/ /\ Refs!NameOf(kind, o).session = placed[o].session /\ Refs!NameOf(kind, o).ref = placed[o].ref
         /\ kind = "working"
      \/ Refs!NameOf(kind, o).session = 0 /\ Refs!NameOf(kind, o).ref = 0
      \/ /\ Refs!NameOf(kind, o).session = Refs!SessionForRef(placed[o].ref)
         /\ Refs!NameOf(kind, o).ref = placed[o].ref /\ Refs!NameOf(kind, o).session \in Refs!SessionsOf(placed[o].ref)
  BY <1>3, <1>7 DEF s
<1>. QED
  BY <1>7, <1>8, <1>9 DEF Refs!Convert, sys

-------------------------------------------------------------------------------
(* Every step keeps the types *)

\* A login starts after every reference the counter has seen, and within bounds.
LEMMA LoginStarts ==
    ASSUME Refs!TypeOK, CountedInv
    PROVE  /\ Refs!StartOf(Refs!MaxOrderRef) \in Refs!Refs \ {0}
           /\ Refs!StartOf(Refs!MaxOrderRef) >= nextRef
           /\ Refs!StartOf(Refs!MaxOrderRef) <= Cardinality(intended) + 1
           /\ refsPerUser => \A o \in Orders : placed[o].ref < Refs!StartOf(Refs!MaxOrderRef)
<1>1. /\ nextRef \in Nat \ {0} /\ nextRef <= Cardinality(Orders) + 1
      /\ nextRef <= Cardinality(intended) + 1
      /\ Cardinality(intended) \in Nat /\ Cardinality(Orders) \in Nat
      /\ Cardinality(intended) <= Cardinality(Orders)
      /\ \A o \in Orders : placed[o].ref \in Nat
  BY IntendedCounted, RefsTyped DEF Refs!TypeOK, CountedInv, Refs!Triple
<1>2. CASE refsPerUser
  <2>. DEFINE S == {placed[o].ref : o \in Orders}
  <2>1. PICK o \in Orders : \A p \in Orders : placed[p].ref <= placed[o].ref
    BY DEF CountedInv
  <2>2. placed[o].ref \in S /\ \A y \in S : placed[o].ref >= y
    BY <1>1, <2>1
  <2>3. Refs!Max(S) \in S /\ \A y \in S : Refs!Max(S) >= y
    BY <2>2 DEF Refs!Max
  <2>4. PICK m \in Orders : Refs!Max(S) = placed[m].ref
    BY <2>3
  <2>5. Refs!MaxOrderRef = placed[m].ref /\ \A p \in Orders : placed[p].ref <= placed[m].ref
    BY <1>1, <1>2, <2>3, <2>4 DEF Refs!MaxOrderRef
  <2>6. placed[m].ref <= Cardinality(intended)
    BY DEF CountedInv
  <2>7. /\ Refs!StartOf(Refs!MaxOrderRef) \in Nat /\ Refs!StartOf(Refs!MaxOrderRef) >= nextRef
        /\ Refs!StartOf(Refs!MaxOrderRef) <= Cardinality(intended) + 1
        /\ \A p \in Orders : placed[p].ref < Refs!StartOf(Refs!MaxOrderRef)
    BY <1>1, <2>5, <2>6 DEF Refs!StartOf, Refs!Larger
  <2>. QED
    BY <1>1, <2>7, RefsTyped
<1>3. CASE ~refsPerUser
  <2>1. Refs!MaxOrderRef = 0
    BY <1>3 DEF Refs!MaxOrderRef
  <2>2. Refs!StartOf(Refs!MaxOrderRef) = nextRef
    BY <1>1, <2>1 DEF Refs!StartOf, Refs!Larger
  <2>. QED
    BY <1>1, <1>3, <2>2 DEF Refs!TypeOK
<1>. QED
  BY <1>2, <1>3

LEMMA TypeStep ==
    ASSUME Refs!TypeOK, CountedInv, [Refs!Next]_refVars
    PROVE  Refs!TypeOK'
<1>. USE DEF Refs!process, Refs!account, Refs!counter
<1>1. ASSUME Refs!Login
      PROVE  Refs!TypeOK'

  <2>. USE <1>1 DEF Refs!Login
  <2>1. Refs!StartOf(Refs!MaxOrderRef) \in Refs!Refs \ {0} /\ Refs!StartOf(Refs!MaxOrderRef) >= nextRef
    BY LoginStarts
  <2>2. logins + 1 \in Refs!Sessions
    BY RestartAssumption DEF Refs!TypeOK, Refs!Sessions, RestartAssumption
  <2>. QED
    BY <2>1, <2>2 DEF Refs!TypeOK
<1>2. ASSUME Refs!FinalFence
      PROVE  Refs!TypeOK'

  BY <1>2 DEF Refs!FinalFence, Refs!TypeOK, Refs!Steps
<1>3. ASSUME Refs!Record
      PROVE  Refs!TypeOK'

  <2>. USE <1>3 DEF Refs!Record
  <2>. DEFINE name == [session |-> Refs!Allocated.session, ref |-> Refs!Allocated.ref, sys |-> "none"]
  <2>1. current \in Orders /\ nextRef > 1
    BY DEF CountedInv, Refs!TypeOK
  <2>2. Refs!Allocated \in Refs!Triple
    BY <2>1, AllocatedTyped
  <2>3. name \in Refs!Names /\ Refs!Owns(Refs!Allocated, current) \in Refs!Owned
    BY <2>1, <2>2 DEF Refs!Names, Refs!Owns, Refs!Owned, Refs!Triple
  <2>4. Refs!IndexedSession(current, name) \subseteq Refs!Owned
    BY <2>1, <2>3, Indexed
  <2>5. identity' \in [Orders -> Refs!Names]
    BY <2>1, <2>3 DEF Refs!TypeOK
  <2>. QED
    BY <2>3, <2>4, <2>5 DEF Refs!TypeOK, Refs!Steps
<1>4. ASSUME Refs!Restart
      PROVE  Refs!TypeOK'

  BY <1>4, RefsTyped DEF Refs!Restart, Refs!Restored, Refs!TypeOK, Refs!Steps
<1>5. ASSUME NEW reaches \in BOOLEAN, Refs!Insert(reaches)
      PROVE  Refs!TypeOK'

  <2>1. current \in Orders /\ nextRef > 1
    BY <1>5 DEF CountedInv, Refs!TypeOK, Refs!Insert
  <2>2. Refs!Allocated \in Refs!Triple
    BY <2>1, AllocatedTyped
  <2>3. placed' \in [Orders -> Refs!Triple]
    BY <1>5, <2>1, <2>2 DEF Refs!Insert, Refs!TypeOK
  <2>. QED
    BY <1>5, <2>3 DEF Refs!Insert, Refs!TypeOK, Refs!Steps
<1>6. ASSUME NEW o \in Orders, Refs!Allocate(o)
      PROVE  Refs!TypeOK'

  <2>1. o \in Orders \ intended
    BY <1>6 DEF Refs!Allocate
  <2>2. nextRef + 1 \in Refs!Refs \ {0}
    <3>1. /\ Cardinality(intended) \in Nat /\ Cardinality(intended) + 1 <= Cardinality(Orders)
          /\ nextRef <= Cardinality(intended) + 1 /\ nextRef \in Refs!Refs
      BY <2>1, IntendedCounted DEF CountedInv, Refs!TypeOK
    <3>. QED
      BY <3>1, RefsTyped
  <2>3. [session |-> session, ref |-> nextRef, order |-> o] \in Refs!Owned
    BY DEF Refs!TypeOK, Refs!Owned
  <2>. QED
    BY <1>6, <2>2, <2>3 DEF Refs!Allocate, Refs!TypeOK, Refs!Steps
<1>7. ASSUME NEW o \in Orders, Refs!Cancel(o)
      PROVE  Refs!TypeOK'

  <2>1. Refs!Owns(identity[o], o) \in Refs!Owned
    BY DEF Refs!TypeOK, Refs!Owns, Refs!Owned, Refs!Names
  <2>. QED
    BY <1>7, <2>1 DEF Refs!Cancel, Refs!TypeOK
<1>8. ASSUME NEW o \in Orders, Refs!CounterTrades(o)
      PROVE  Refs!TypeOK'

  BY <1>8 DEF Refs!CounterTrades, Refs!Emit, Refs!TypeOK, Refs!Kinds
<1>9. ASSUME NEW o \in Orders, Refs!CounterRejects(o)
      PROVE  Refs!TypeOK'

  BY <1>9 DEF Refs!CounterRejects, Refs!Emit, Refs!TypeOK, Refs!Kinds
<1>10. ASSUME NEW o \in Orders, NEW kind \in Refs!Kinds, Refs!Convert(kind, o)
       PROVE  Refs!TypeOK'

  <2>. USE <1>10
  <2>1. Refs!NameOf(kind, o) \in Refs!Names
    BY ConvertEffect
  <2>2. [kind |-> kind, order |-> o, name |-> Refs!NameOf(kind, o)] \in [kind : Refs!Kinds, order : Orders, name : Refs!Names]
    BY <2>1
  <2>3. /\ \/ ingress' = ingress
           \/ ingress' = ingress \union {[kind |-> kind, order |-> o, name |-> Refs!NameOf(kind, o)]}
        /\ unresolved' \in {unresolved, unresolved \union {o}}
    BY ConvertEffect
  <2>4. ingress' \subseteq [kind : Refs!Kinds, order : Orders, name : Refs!Names] /\ unresolved' \subseteq Orders
    BY <2>2, <2>3 DEF Refs!TypeOK
  <2>. QED
    BY <2>4, ConvertEffect DEF Refs!TypeOK
<1>11. ASSUME NEW f \in ingress, Refs!Book(f)
       PROVE  Refs!TypeOK'

  <2>. USE <1>11
  <2>1. f.kind \in Refs!Kinds /\ f.order \in Orders /\ f.name \in Refs!Names
    BY DEF Refs!TypeOK
  <2>2. Refs!Find(f.name) \in Orders \union {"none"}
    BY <2>1, FindTyped
  <2>3. CASE Refs!BookReport(f)
    <3>1. CASE Refs!Find(f.name) = "none"
      BY <2>3, <3>1 DEF Refs!TypeOK, Refs!Book, Refs!BookReport
    <3>2. CASE Refs!Find(f.name) # "none"
      <4>. DEFINE o == Refs!Find(f.name)
                  linked == {h \in held : Refs!Find(h.name)' = o}
      <4>1. o \in Orders
        BY <2>2, <3>2
      <4>2. Refs!Merged(identity[o], f.name) \in Refs!Names
        BY <2>1, <4>1 DEF Refs!TypeOK, Refs!Merged, Refs!Names
      <4>3. /\ byExchange' \in [Orders -> Orders \union {"none"}]
            /\ bySession' \subseteq Refs!Owned
        BY <2>1, <2>3, <3>2, <4>1, Indexed DEF Refs!BookReport
      <4>4. identity' \in [Orders -> Refs!Names]
        BY <2>3, <3>2, <4>1, <4>2 DEF Refs!BookReport, Refs!TypeOK
      <4>5. held' \subseteq held
        BY <2>3, <3>2 DEF Refs!BookReport
      <4>6. /\ \A h \in linked : h.order \in Orders
            /\ applied' = applied \union {[kind |-> f.kind, order |-> f.order, to |-> o]}
                          \union {[kind |-> "trade", order |-> h.order, to |-> o] : h \in linked}
        BY <2>3, <3>2 DEF Refs!BookReport, Refs!TypeOK
      <4>7. applied' \subseteq [kind : Refs!Kinds, order : Orders, to : Orders]
        BY <2>1, <4>1, <4>6 DEF Refs!TypeOK, Refs!Kinds
      <4>. QED
        BY <4>3, <4>4, <4>5, <4>7 DEF Refs!Book, Refs!TypeOK
    <3>. QED
      BY <3>1, <3>2
  <2>4. CASE Refs!BookTrade(f)
    <3>1. UNCHANGED identity
      BY <2>4 DEF Refs!BookTrade
    <3>2. CASE UNCHANGED <<held, byExchange, bySession, applied>>
      BY <3>1, <3>2 DEF Refs!Book, Refs!TypeOK
    <3>3. CASE /\ held' = held \union {[order |-> f.order, name |-> f.name]}
               /\ UNCHANGED <<byExchange, bySession, applied>>
      BY <2>1, <3>1, <3>3 DEF Refs!Book, Refs!TypeOK
    <3>4. CASE /\ Refs!Find(f.name) # "none" /\ UNCHANGED held
               /\ byExchange' = Refs!IndexedExchange(Refs!Find(f.name), f.name)
               /\ bySession' = Refs!IndexedSession(Refs!Find(f.name), f.name)
               /\ applied' = applied \union {[kind |-> "trade", order |-> f.order, to |-> Refs!Find(f.name)]}
      <4>1. /\ byExchange' \in [Orders -> Orders \union {"none"}]
            /\ bySession' \subseteq Refs!Owned
        BY <2>1, <2>2, <3>4, Indexed
      <4>2. applied' \subseteq [kind : Refs!Kinds, order : Orders, to : Orders]
        BY <2>1, <2>2, <3>4 DEF Refs!TypeOK, Refs!Kinds
      <4>. QED
        BY <3>1, <3>4, <4>1, <4>2 DEF Refs!Book, Refs!TypeOK
    <3>. QED
      BY <2>4, <3>2, <3>3, <3>4 DEF Refs!BookTrade
  <2>. QED
    BY <2>3, <2>4 DEF Refs!Book
<1>12. CASE UNCHANGED refVars
  BY <1>12 DEF refVars, Refs!TypeOK
<1>. QED
  BY <1>1, <1>2, <1>3, <1>4, <1>5, <1>6, <1>7, <1>8, <1>9, <1>10, <1>11, <1>12
  DEF Refs!Next, Refs!Kinds

-------------------------------------------------------------------------------
(* References are counted *)

LEMMA CountedStep ==
    ASSUME Refs!TypeOK, CountedInv, [Refs!Next]_refVars
    PROVE  CountedInv'
<1>. USE DEF Refs!process, Refs!account, Refs!counter
<1>1. ASSUME Refs!Login
      PROVE  CountedInv'

  BY <1>1, LoginStarts DEF Refs!Login, CountedInv, Placed
<1>2. ASSUME Refs!FinalFence
      PROVE  CountedInv'
  BY <1>2
  DEF Refs!FinalFence, CountedInv, Placed
<1>3. ASSUME Refs!Record
      PROVE  CountedInv'
  BY <1>3
  DEF Refs!Record, CountedInv, Placed
<1>4. ASSUME Refs!Restart
      PROVE  CountedInv'

  <2>1. Cardinality(intended) \in Nat
    BY IntendedCounted
  <2>. QED
    BY <1>4, <2>1 DEF Refs!Restart, CountedInv, Placed
<1>5. ASSUME NEW reaches \in BOOLEAN, Refs!Insert(reaches)
      PROVE  CountedInv'

  <2>. USE <1>5
  <2>1. /\ current \in Orders /\ current \in intended /\ session # 0 /\ nextRef > 1 /\ nextRef \in Nat
        /\ nextRef <= Cardinality(intended) + 1 /\ Cardinality(intended) \in Nat /\ step # "idle"
        /\ \A p \in Orders : placed[p].ref \in Nat
    BY IntendedCounted, RefsTyped DEF CountedInv, Refs!TypeOK, Refs!Insert, Refs!Triple
  <2>2. placed[current].ref = 0
    BY <2>1 DEF CountedInv, Refs!Insert
  <2>3. CASE placed' = placed
    BY <2>1, <2>3 DEF Refs!Insert, CountedInv, Placed
  <2>4. CASE placed' = [placed EXCEPT ![current] = Refs!Allocated]
    <3>1. /\ \A p \in Orders : placed'[p] = IF p = current THEN Refs!Allocated ELSE placed[p]
          /\ Refs!Allocated.session = session /\ Refs!Allocated.ref = nextRef - 1
      BY <2>1, <2>4 DEF Refs!TypeOK, Refs!Allocated
    <3>2. \A p \in Orders : /\ placed'[p].ref <= Cardinality(intended)
                            /\ placed'[p].session # 0 <=> placed'[p].ref # 0
                            /\ placed'[p].session # 0 => p \in intended
                            /\ placed[p].session # 0 => placed'[p].session # 0
      BY <2>1, <3>1 DEF CountedInv, Placed
    <3>3. PICK m \in Orders : \A p \in Orders : placed[p].ref <= placed[m].ref
      BY DEF CountedInv
    <3>4. \E n \in Orders : \A p \in Orders : placed'[p].ref <= placed'[n].ref
      <4>1. CASE placed[m].ref >= nextRef - 1
        <5>1. m # current
          BY <2>1, <2>2, <4>1
        <5>2. \A p \in Orders : placed'[p].ref <= placed'[m].ref
          BY <2>1, <3>1, <3>3, <4>1, <5>1
        <5>. QED
          BY <5>2
      <4>2. CASE placed[m].ref < nextRef - 1
        <5>1. \A p \in Orders : placed'[p].ref <= placed'[current].ref
          BY <2>1, <3>1, <3>3, <4>2
        <5>. QED
          BY <2>1, <5>1
      <4>. QED
        BY <2>1, <4>1, <4>2
    <3>. QED
      BY <2>1, <3>2, <3>4 DEF Refs!Insert, CountedInv, Placed
  <2>. QED
    BY <2>3, <2>4 DEF Refs!Insert
<1>6. ASSUME NEW o \in Orders, Refs!Allocate(o)
      PROVE  CountedInv'

  <2>. USE <1>6
  <2>1. /\ o \in Orders \ intended /\ intended' = intended \union {o}
        /\ nextRef \in Nat \ {0} /\ nextRef' = nextRef + 1 /\ UNCHANGED <<placed, session, logins, news>>
        /\ session # 0 /\ current' = o
    BY RefsTyped DEF Refs!Allocate, Refs!TypeOK
  <2>2. Cardinality(intended') = Cardinality(intended) + 1 /\ Cardinality(intended) \in Nat
    BY <2>1, IntendedCounted
  <2>3. \A p \in Orders : placed[p].ref \in Nat
    BY RefsTyped DEF Refs!TypeOK, Refs!Triple
  <2>4. ~Placed(o)
    BY <2>1 DEF CountedInv
  <2>5. \A p \in Orders : placed'[p].ref <= Cardinality(intended')
    BY <2>1, <2>2, <2>3 DEF CountedInv
  <2>6. /\ nextRef' <= Cardinality(intended') + 1 /\ nextRef' > 1
        /\ \A p \in Orders : Placed(p)' => p \in intended'
    BY <2>1, <2>2 DEF CountedInv, Placed
  <2>7. /\ \E m \in Orders : \A p \in Orders : placed'[p].ref <= placed'[m].ref
        /\ \A p \in Orders : Placed(p)' <=> placed'[p].ref # 0
        /\ \A k \in Refs!Kinds, p \in Orders : <<k, p>> \in news' => Placed(p)'
        /\ session' \in {0, logins'}
    BY <2>1 DEF CountedInv, Placed
  <2>8. ~Placed(current)' /\ current' \in intended'
    BY <2>1, <2>4 DEF Placed
  <2>. QED
    BY <2>1, <2>5, <2>6, <2>7, <2>8 DEF CountedInv
<1>7. ASSUME NEW o \in Orders, Refs!Cancel(o)
      PROVE  CountedInv'
  BY <1>7
  DEF Refs!Cancel, CountedInv, Placed
<1>8. ASSUME NEW o \in Orders, Refs!CounterTrades(o)
      PROVE  CountedInv'

  BY <1>8 DEF Refs!CounterTrades, Refs!Emit, CountedInv, Placed, Refs!Nobody, Refs!TypeOK, Refs!Triple
<1>9. ASSUME NEW o \in Orders, Refs!CounterRejects(o)
      PROVE  CountedInv'

  BY <1>9 DEF Refs!CounterRejects, Refs!Emit, CountedInv, Placed, Refs!Nobody, Refs!TypeOK, Refs!Triple
<1>10. ASSUME NEW o \in Orders, NEW kind \in Refs!Kinds, Refs!Convert(kind, o)
       PROVE  CountedInv'

  <2>1. UNCHANGED <<step, current, session, nextRef, intended, logins, placed, news>>
    BY <1>10, ConvertEffect
  <2>. QED
    BY <2>1 DEF CountedInv, Placed
<1>11. ASSUME NEW f \in ingress, Refs!Book(f)
       PROVE  CountedInv'
  BY <1>11
  DEF Refs!Book, CountedInv, Placed
<1>12. CASE UNCHANGED refVars
  BY <1>12 DEF refVars, CountedInv, Placed
<1>. QED
  BY <1>1, <1>2, <1>3, <1>4, <1>5, <1>6, <1>7, <1>8, <1>9, <1>10, <1>11, <1>12
  DEF Refs!Next, Refs!Kinds

-------------------------------------------------------------------------------
(* Trades a report has told of are linked *)

LEMMA LinkedStep ==
    ASSUME Refs!TypeOK, LinkedInv, [Refs!Next]_refVars
    PROVE  LinkedInv'
<1>. USE DEF Refs!process, Refs!account, Refs!counter
<1>1. ASSUME Refs!Login
      PROVE  LinkedInv'
  BY <1>1
  DEF Refs!Login, LinkedInv, Refs!ToldTradesAreLinked
<1>2. ASSUME Refs!FinalFence
      PROVE  LinkedInv'
  BY <1>2
  DEF Refs!FinalFence, LinkedInv, Refs!ToldTradesAreLinked
<1>3. ASSUME Refs!Record
      PROVE  LinkedInv'
  BY <1>3
  DEF Refs!Record, LinkedInv, Refs!ToldTradesAreLinked
<1>4. ASSUME Refs!Restart
      PROVE  LinkedInv'
  BY <1>4
  DEF Refs!Restart, LinkedInv, Refs!ToldTradesAreLinked
<1>5. ASSUME NEW reaches \in BOOLEAN, Refs!Insert(reaches)
      PROVE  LinkedInv'
  BY <1>5
  DEF Refs!Insert, LinkedInv, Refs!ToldTradesAreLinked
<1>6. ASSUME NEW o \in Orders, Refs!Allocate(o)
      PROVE  LinkedInv'
  BY <1>6
  DEF Refs!Allocate, LinkedInv, Refs!ToldTradesAreLinked
<1>7. ASSUME NEW o \in Orders, Refs!Cancel(o)
      PROVE  LinkedInv'
  BY <1>7
  DEF Refs!Cancel, LinkedInv, Refs!ToldTradesAreLinked
<1>8. ASSUME NEW o \in Orders, Refs!CounterTrades(o)
      PROVE  LinkedInv'
  BY <1>8
  DEF Refs!CounterTrades, Refs!Emit, LinkedInv, Refs!ToldTradesAreLinked
<1>9. ASSUME NEW o \in Orders, Refs!CounterRejects(o)
      PROVE  LinkedInv'
  BY <1>9
  DEF Refs!CounterRejects, Refs!Emit, LinkedInv, Refs!ToldTradesAreLinked
<1>10. ASSUME NEW o \in Orders, NEW kind \in Refs!Kinds, Refs!Convert(kind, o)
       PROVE  LinkedInv'

  <2>. USE <1>10
  <2>1. /\ Refs!NameOf(kind, o).sys = IF kind = "error" THEN "none" ELSE o
        /\ UNCHANGED <<held, applied, byExchange>>
    BY ConvertEffect
  <2>2. \A f \in ingress' : f.name.sys = IF f.kind = "error" THEN "none" ELSE f.order
    <3>1. \/ ingress' = ingress
          \/ ingress' = ingress \union {[kind |-> kind, order |-> o, name |-> Refs!NameOf(kind, o)]}
      BY ConvertEffect
    <3>. QED
      BY <2>1, <3>1 DEF LinkedInv
  <2>. QED
    BY <2>1, <2>2 DEF LinkedInv, Refs!ToldTradesAreLinked
<1>11. ASSUME NEW f \in ingress, Refs!Book(f)
       PROVE  LinkedInv'

  <2>. USE <1>11
  <2>0. "none" \notin Orders
    BY RestartAssumption DEF RestartAssumption
  <2>1. /\ f.kind \in Refs!Kinds /\ f.order \in Orders /\ f.name \in Refs!Names
        /\ f.name.sys = IF f.kind = "error" THEN "none" ELSE f.order
        /\ f.kind = "trade" => f.name.sys = f.order
    BY DEF Refs!TypeOK, LinkedInv, Refs!Book
  <2>2. Refs!Find(f.name) \in Orders \union {"none"}
    BY <2>1, FindTyped
  <2>3. f.kind \in {"working", "trade"} /\ byExchange[f.order] # "none" => Refs!Find(f.name) = byExchange[f.order]
    BY <2>0, <2>1, FindTyped
  <2>4. ingress' \subseteq ingress
    BY DEF Refs!Book
  <2>5. CASE Refs!BookReport(f)
    <3>1. CASE Refs!Find(f.name) = "none"
      BY <2>4, <2>5, <3>1 DEF LinkedInv, Refs!ToldTradesAreLinked, Refs!BookReport
    <3>2. CASE Refs!Find(f.name) # "none"
      <4>. DEFINE o == Refs!Find(f.name)
                  linked == {h \in held : Refs!Find(h.name)' = o}
      <4>1. /\ f.kind # "trade" /\ o \in Orders
            /\ byExchange' = Refs!IndexedExchange(o, f.name) /\ held' = held \ linked
            /\ applied' = applied \union {[kind |-> f.kind, order |-> f.order, to |-> o]}
                          \union {[kind |-> "trade", order |-> h.order, to |-> o] : h \in linked}
        BY <2>2, <2>5, <3>2 DEF Refs!BookReport
      <4>2. /\ byExchange' \in [Orders -> Orders \union {"none"}]
            /\ \A x \in Orders : byExchange'[x] =
                 IF x = f.name.sys /\ byExchange[x] \in {"none", o} THEN o ELSE byExchange[x]
        BY <2>1, <4>1, Indexed
      <4>3. \A x \in Orders : byExchange[x] = x => byExchange'[x] = x
        BY <2>0, <4>1, <4>2
      <4>4. f.kind = "working" /\ o = f.order => byExchange'[f.order] = f.order
        BY <2>0, <2>1, <2>3, <4>1, <4>2
      <4>5. \A a \in applied' : a.kind = "working" => a \in applied \/ (a.kind = f.kind /\ a.order = f.order /\ a.to = o)
        BY <4>1
      <4>6. \A x \in Orders : [kind |-> "working", order |-> x, to |-> x] \in applied' => byExchange'[x] = x
        BY <4>3, <4>4, <4>5 DEF LinkedInv
      <4>7. ASSUME NEW h \in held', [kind |-> "working", order |-> h.order, to |-> h.order] \in applied'
            PROVE  FALSE
        <5>1. h \in held /\ h \notin linked /\ h.order \in Orders /\ h.name \in Refs!Names /\ h.name.sys = h.order
          BY <4>1, <4>7 DEF Refs!TypeOK, LinkedInv
        <5>2. [kind |-> "working", order |-> h.order, to |-> h.order] \notin applied
          BY <5>1 DEF LinkedInv, Refs!ToldTradesAreLinked
        <5>3. f.kind = "working" /\ f.order = h.order /\ o = h.order
          BY <4>5, <4>7, <5>2
        <5>4. byExchange'[h.order] = h.order
          BY <4>4, <5>3
        <5>5. Refs!Find(h.name)' = h.order
          BY <2>0, <5>1, <5>4 DEF Refs!Find
        <5>. QED
          BY <5>1, <5>3, <5>5
      <4>8. held' \subseteq held
        BY <4>1
      <4>. QED
        BY <2>4, <4>6, <4>7, <4>8 DEF LinkedInv, Refs!ToldTradesAreLinked
    <3>. QED
      BY <3>1, <3>2
  <2>6. CASE Refs!BookTrade(f)
    <3>1. CASE UNCHANGED <<held, byExchange, bySession, applied>>
      BY <2>4, <3>1 DEF LinkedInv, Refs!ToldTradesAreLinked
    <3>2. CASE /\ held' = held \union {[order |-> f.order, name |-> f.name]} /\ Refs!Find(f.name) = "none"
               /\ UNCHANGED <<byExchange, bySession, applied>>
      <4>1. f.kind = "trade"
        BY <2>6 DEF Refs!BookTrade
      <4>2. byExchange[f.order] = "none"
        BY <2>3, <3>2, <4>1
      <4>3. [kind |-> "working", order |-> f.order, to |-> f.order] \notin applied
        BY <2>0, <2>1, <4>2 DEF LinkedInv
      <4>. QED
        BY <2>1, <2>4, <3>2, <4>1, <4>3 DEF LinkedInv, Refs!ToldTradesAreLinked
    <3>3. CASE /\ Refs!Find(f.name) # "none" /\ UNCHANGED held
               /\ byExchange' = Refs!IndexedExchange(Refs!Find(f.name), f.name)
               /\ applied' = applied \union {[kind |-> "trade", order |-> f.order, to |-> Refs!Find(f.name)]}
      <4>1. \A x \in Orders : byExchange'[x] =
                 IF x = f.name.sys /\ byExchange[x] \in {"none", Refs!Find(f.name)} THEN Refs!Find(f.name) ELSE byExchange[x]
        BY <2>1, <2>2, <3>3, Indexed
      <4>2. \A x \in Orders : byExchange[x] = x => byExchange'[x] = x
        BY <2>0, <4>1
      <4>3. \A x : [kind |-> "working", order |-> x, to |-> x] \in applied'
                      => [kind |-> "working", order |-> x, to |-> x] \in applied
        BY <3>3
      <4>. QED
        BY <2>4, <3>3, <4>2, <4>3 DEF LinkedInv, Refs!ToldTradesAreLinked
    <3>. QED
      BY <2>6, <3>1, <3>2, <3>3 DEF Refs!BookTrade
  <2>. QED
    BY <2>5, <2>6 DEF Refs!Book
<1>12. CASE UNCHANGED refVars
  BY <1>12 DEF refVars, LinkedInv, Refs!ToldTradesAreLinked
<1>. QED
  BY <1>1, <1>2, <1>3, <1>4, <1>5, <1>6, <1>7, <1>8, <1>9, <1>10, <1>11, <1>12
  DEF Refs!Next, Refs!Kinds

-------------------------------------------------------------------------------
(* Names are true: the counter numbers all sessions of the user *)

LEMMA EntriesOf ==
    ASSUME Refs!TypeOK, CountedInv, LinkedInv, refsPerUser, AttributedInv
    PROVE  /\ book \subseteq Entries /\ evidence \subseteq Entries /\ bySession \subseteq Entries
           /\ \A p \in Orders : Placed(p) => Refs!Owns(placed[p], p) \in Entries
           /\ \A p \in Orders : identity[p].session # 0 => Refs!Owns(identity[p], p) \in Entries
<1>1. book \subseteq Entries /\ evidence \subseteq Entries /\ bySession \subseteq Entries
  BY DEF Refs!TypeOK, Entries
<1>2. ASSUME NEW p \in Orders, Placed(p)
      PROVE  Refs!Owns(placed[p], p) \in Entries
  <2>1. Refs!Owns(placed[p], p) \in Refs!Owned
    BY DEF Refs!TypeOK, Refs!Owns, Refs!Owned, Refs!Triple
  <2>. QED
    BY <1>2, <2>1 DEF Entries, Refs!Owns
<1>3. ASSUME NEW p \in Orders, identity[p].session # 0
      PROVE  Refs!Owns(identity[p], p) \in Entries
  <2>1. CASE Refs!Owns(identity[p], p) \in bySession
    BY <1>1, <2>1
  <2>2. CASE placed[p].session = identity[p].session /\ placed[p].ref = identity[p].ref
    <3>1. Refs!Owns(identity[p], p) = Refs!Owns(placed[p], p) /\ Placed(p)
      BY <1>3, <2>2 DEF Refs!Owns, Placed
    <3>. QED
      BY <1>2, <3>1
  <2>. QED
    BY <1>3, <2>1, <2>2 DEF AttributedInv, TruthInv, NameKnown
<1>. QED
  BY <1>1, <1>2, <1>3

\* A true name finds its own order or none.
LEMMA FindTrue ==
    ASSUME Refs!TypeOK, CountedInv, LinkedInv, refsPerUser, AttributedInv,
           NEW o \in Orders, NEW name \in Refs!Names, NameTrue(name, o)
    PROVE  Refs!Find(name) \in {"none", o} /\ Refs!OwnerBySession(name) \subseteq {o}
<1>1. ASSUME NEW t \in bySession, Refs!HasTriple(name), t.session = name.session, t.ref = name.ref
      PROVE  t.order = o
  <2>1. Refs!Owns(placed[o], o) \in Entries /\ t \in Entries
    BY <1>1, EntriesOf DEF NameTrue, Refs!HasTriple
  <2>2. t.session = placed[o].session /\ t.ref = placed[o].ref
    BY <1>1 DEF NameTrue, Refs!HasTriple
  <2>. QED
    BY <2>1, <2>2 DEF AttributedInv, EntriesInv, Refs!Owns
<1>2. Refs!HasTriple(name) => Refs!OwnerBySession(name) \subseteq {o}
  BY <1>1 DEF Refs!OwnerBySession
<1>3. ~Refs!HasTriple(name) => Refs!OwnerBySession(name) = {}
  <2>1. \A t \in bySession : t.session # 0
    BY EntriesOf DEF AttributedInv, EntriesInv
  <2>. QED
    BY <2>1 DEF Refs!HasTriple, Refs!OwnerBySession
<1>4. Refs!OwnerBySession(name) \subseteq {o}
  BY <1>2, <1>3
<1>5. CASE name.sys # "none" /\ byExchange[name.sys] # "none"
  <2>1. Refs!Find(name) = byExchange[name.sys] /\ name.sys = o
    BY <1>5, FindTyped DEF NameTrue
  <2>. QED
    BY <1>4, <2>1 DEF AttributedInv, TruthInv
<1>6. CASE ~(name.sys # "none" /\ byExchange[name.sys] # "none")
  <2>1. Refs!Find(name) # "none" => Refs!Find(name) \in Refs!OwnerBySession(name)
    BY <1>6 DEF Refs!Find
  <2>. QED
    BY <1>4, <2>1
<1>. QED
  BY <1>5, <1>6

\* What the commit of a result names is in the book already.
LEMMA RecordEffect ==
    ASSUME Refs!TypeOK, CountedInv, LinkedInv, refsPerUser, AttributedInv, Refs!Record
    PROVE  /\ Refs!Owns(Refs!Allocated, current) \in book /\ current \in Orders /\ current \in intended
           /\ evidence \subseteq evidence' /\ evidence' \subseteq evidence \union {Refs!Owns(Refs!Allocated, current)}
           /\ evidence' # evidence => step = "sent" /\ placed[current] = Refs!Allocated /\ Placed(current)
           /\ bySession \subseteq bySession' /\ bySession' \subseteq Entries
           /\ Refs!Owns(Refs!Allocated, current) \in bySession'
           /\ identity' = [identity EXCEPT ![current] =
                              [session |-> session, ref |-> nextRef - 1, sys |-> "none"]]
           /\ Refs!Allocated = [session |-> session, ref |-> nextRef - 1] /\ session # 0
           /\ step' = "idle"
           /\ UNCHANGED <<session, nextRef, book, ingress, intended, byExchange, held, applied, logins,
                          Refs!counter, unresolved>>
<1>. DEFINE name == [session |-> Refs!Allocated.session, ref |-> Refs!Allocated.ref, sys |-> "none"]
            r == Refs!Owns(Refs!Allocated, current)
<1>1. /\ current \in Orders /\ current \in intended /\ nextRef > 1 /\ session # 0
      /\ step \in {"sent", "fenced"} /\ step # "idle"
  BY DEF CountedInv, Refs!TypeOK, Refs!Record
<1>2. /\ Refs!Allocated = [session |-> session, ref |-> nextRef - 1] /\ Refs!Allocated \in Refs!Triple
      /\ nextRef - 1 \in Refs!Refs
  BY <1>1, AllocatedTyped DEF Refs!Allocated
<1>3. name \in Refs!Names /\ name = [session |-> session, ref |-> nextRef - 1, sys |-> "none"]
  BY <1>2 DEF Refs!Names, Refs!Triple
<1>4. r \in book /\ r \in Entries /\ r.order = current /\ r.session = session /\ r.ref = nextRef - 1
  BY <1>1, <1>2, EntriesOf DEF AttributedInv, BookInv, Refs!Owns
<1>5. /\ evidence' = IF step = "sent" THEN evidence \union {r} ELSE evidence
      /\ identity' = [identity EXCEPT ![current] = IF @ = Refs!NoName THEN name ELSE @]
      /\ bySession' = Refs!IndexedSession(current, name)
      /\ step' = "idle"
      /\ UNCHANGED <<session, nextRef, book, ingress, intended, byExchange, held, applied, logins,
                     Refs!counter, unresolved>>
  BY DEF Refs!Record
<1>6. identity[current] = Refs!NoName
  BY <1>1 DEF AttributedInv, TruthInv
<1>7. identity' = [identity EXCEPT ![current] = name]
  BY <1>5, <1>6
<1>8. step = "sent" => placed[current] = Refs!Allocated /\ Placed(current)
  BY <1>1, <1>2 DEF AttributedInv, BookInv, Placed
<1>9. Refs!Owns(name, current) = r
  BY <1>2, <1>3 DEF Refs!Owns
<1>10. Refs!OwnerBySession(name) \subseteq {current}
  <2>1. ASSUME NEW t \in bySession, t.session = name.session, t.ref = name.ref
        PROVE  t.order = current
    BY <1>3, <1>4, <2>1, EntriesOf DEF AttributedInv, EntriesInv
  <2>. QED
    BY <2>1 DEF Refs!OwnerBySession
<1>11. r \in bySession'
  <2>1. Refs!HasTriple(name) /\ ~Refs!ExchangeTaken(current, name)
    BY <1>1, <1>3 DEF Refs!HasTriple, Refs!ExchangeTaken
  <2>2. Refs!OwnerBySession(name) \in {{}, {current}}
    BY <1>10
  <2>. QED
    BY <1>5, <1>9, <2>1, <2>2 DEF Refs!IndexedSession
<1>12. bySession \subseteq bySession' /\ bySession' \subseteq Entries
  BY <1>1, <1>3, <1>4, <1>5, <1>9, Indexed, EntriesOf
<1>. HIDE DEF name, r
<1>. QED
  BY <1>1, <1>2, <1>3, <1>4, <1>5, <1>7, <1>8, <1>11, <1>12 DEF name, r

\* The evidence of a cancel is what the evidence of the order says already.
LEMMA CancelEffect ==
    ASSUME Refs!TypeOK, CountedInv, LinkedInv, refsPerUser, AttributedInv, NEW o \in Orders, Refs!Cancel(o)
    PROVE  UNCHANGED refVars
<1>. USE DEF Refs!process, Refs!account, Refs!counter
<1>1. PICK u \in evidence : u.order = o
  BY DEF Refs!Cancel, Refs!OfOrder
<1>2. identity[o].session # 0
  BY <1>1 DEF AttributedInv, TruthInv
<1>3. u \in Entries /\ Refs!Owns(identity[o], o) \in Entries /\ Refs!Owns(identity[o], o).order = o
  BY <1>1, <1>2, EntriesOf DEF Refs!Owns
<1>4. u = Refs!Owns(identity[o], o)
  BY <1>1, <1>3 DEF AttributedInv, EntriesInv
<1>5. evidence' = evidence
  BY <1>1, <1>4 DEF Refs!Cancel
<1>. QED
  BY <1>5 DEF Refs!Cancel, refVars

\* A fact is booked on the order it speaks of or on none.
LEMMA BookEffect ==
    ASSUME Refs!TypeOK, CountedInv, LinkedInv, refsPerUser, AttributedInv, NEW f \in ingress, Refs!Book(f)
    PROVE  /\ f.order \in Orders /\ f.name \in Refs!Names /\ NameTrue(f.name, f.order) /\ Placed(f.order)
           /\ bySession \subseteq bySession' /\ bySession' \subseteq Entries
           /\ \A x \in Orders : byExchange'[x] \in {"none", x}
           /\ ingress' \subseteq ingress
           /\ \A h \in held' : h \in held \/ h = [order |-> f.order, name |-> f.name]
           /\ \A a \in applied' : a.to = a.order
           /\ \/ identity' = identity
              \/ identity' = [identity EXCEPT ![f.order] = Refs!Merged(identity[f.order], f.name)]
           /\ step = "idle"
           /\ UNCHANGED <<step, current, session, nextRef, book, intended, evidence, logins, Refs!counter,
                          unresolved>>
<1>1. /\ f.order \in Orders /\ f.name \in Refs!Names /\ NameTrue(f.name, f.order) /\ Placed(f.order)
      /\ f.kind \in Refs!Kinds
  BY DEF Refs!TypeOK, AttributedInv, TruthInv
<1>2. /\ ingress' \subseteq ingress /\ step = "idle"
      /\ UNCHANGED <<step, current, session, nextRef, book, intended, evidence, logins, Refs!counter, unresolved>>
  BY DEF Refs!Book
<1>3. Refs!Find(f.name) \in {"none", f.order} /\ "none" \notin Orders
  BY <1>1, FindTrue, RestartAssumption DEF RestartAssumption
<1>4. \A a \in applied : a.to = a.order
  BY DEF AttributedInv, TruthInv
<1>5. \A x \in Orders : byExchange[x] \in {"none", x}
  BY DEF AttributedInv, TruthInv
<1>6. /\ bySession \subseteq Refs!IndexedSession(f.order, f.name)
      /\ Refs!IndexedSession(f.order, f.name) \subseteq Entries
      /\ \A x \in Orders : Refs!IndexedExchange(f.order, f.name)[x] \in {"none", x}
  <2>1. f.name.session # 0 => Refs!Owns(f.name, f.order) \in Entries
    <3>1. f.name.session # 0 => Refs!Owns(f.name, f.order) = Refs!Owns(placed[f.order], f.order)
      BY <1>1 DEF NameTrue, Refs!Owns
    <3>. QED
      BY <1>1, <3>1, EntriesOf
  <2>2. /\ bySession \subseteq Refs!IndexedSession(f.order, f.name)
        /\ Refs!IndexedSession(f.order, f.name) \subseteq bySession \union {Refs!Owns(f.name, f.order)}
        /\ Refs!IndexedSession(f.order, f.name) # bySession => f.name.session # 0
    BY <1>1, Indexed
  <2>3. \A x \in Orders : Refs!IndexedExchange(f.order, f.name)[x] =
              IF x = f.name.sys /\ byExchange[x] \in {"none", f.order} THEN f.order ELSE byExchange[x]
    BY <1>1, Indexed
  <2>4. f.name.sys \in {"none", f.order}
    BY <1>1 DEF NameTrue
  <2>. QED
    BY <1>3, <1>5, <2>1, <2>2, <2>3, <2>4, EntriesOf
<1>7. CASE UNCHANGED Refs!account
  BY <1>1, <1>2, <1>4, <1>5, <1>7, EntriesOf DEF Refs!account
<1>8. CASE Refs!BookReport(f) /\ Refs!Find(f.name) # "none"
  <2>. DEFINE o == Refs!Find(f.name)
              linked == {h \in held : Refs!Find(h.name)' = o}
  <2>1. /\ o = f.order
        /\ byExchange' = Refs!IndexedExchange(f.order, f.name)
        /\ bySession' = Refs!IndexedSession(f.order, f.name)
        /\ identity' = [identity EXCEPT ![f.order] = Refs!Merged(@, f.name)]
        /\ held' \subseteq held
        /\ applied' = applied \union {[kind |-> f.kind, order |-> f.order, to |-> o]}
                      \union {[kind |-> "trade", order |-> h.order, to |-> o] : h \in linked}
    BY <1>3, <1>8 DEF Refs!BookReport
  <2>2. \A x \in Orders : byExchange'[x] \in {"none", x}
    BY <1>6, <2>1
  <2>3. ASSUME NEW h \in linked
        PROVE  h.order = f.order
    <3>1. /\ h \in held /\ h.order \in Orders /\ h.name.sys = h.order /\ NameTrue(h.name, h.order)
          /\ Placed(h.order) /\ Refs!Find(h.name)' = f.order
      BY <2>1 DEF AttributedInv, TruthInv, Refs!TypeOK, LinkedInv
    <3>2. CASE byExchange'[h.order] # "none"
      <4>1. Refs!Find(h.name)' = byExchange'[h.order]
        BY <1>3, <3>1, <3>2 DEF Refs!Find
      <4>. QED
        BY <2>2, <3>1, <3>2, <4>1
    <3>3. CASE byExchange'[h.order] = "none"
      <4>1. Refs!HasTriple(h.name) /\ Refs!OwnerBySession(h.name)' # {}
            /\ Refs!Find(h.name)' = (CHOOSE x \in Refs!OwnerBySession(h.name)' : TRUE)
        BY <1>1, <1>3, <3>1, <3>3 DEF Refs!Find, Refs!HasTriple
      <4>2. f.order \in Refs!OwnerBySession(h.name)'
        BY <3>1, <4>1
      <4>3. PICK t \in bySession' : t.order = f.order /\ t.session = h.name.session /\ t.ref = h.name.ref
        BY <4>2 DEF Refs!OwnerBySession
      <4>4. t \in Entries /\ Refs!Owns(placed[h.order], h.order) \in Entries
        BY <1>6, <2>1, <3>1, EntriesOf
      <4>5. t.session = placed[h.order].session /\ t.ref = placed[h.order].ref
        BY <3>1, <4>1, <4>3 DEF NameTrue, Refs!HasTriple
      <4>. QED
        BY <4>3, <4>4, <4>5 DEF AttributedInv, EntriesInv, Refs!Owns
    <3>. QED
      BY <3>2, <3>3
  <2>4. \A a \in applied' : a.to = a.order
    BY <1>4, <2>1, <2>3
  <2>. QED
    BY <1>1, <1>2, <1>6, <2>1, <2>2, <2>4
<1>9. CASE /\ held' = held \union {[order |-> f.order, name |-> f.name]}
           /\ UNCHANGED <<byExchange, bySession, applied, identity>>
  BY <1>1, <1>2, <1>4, <1>5, <1>9, EntriesOf
<1>10. CASE /\ Refs!Find(f.name) # "none" /\ UNCHANGED <<held, identity>>
            /\ byExchange' = Refs!IndexedExchange(Refs!Find(f.name), f.name)
            /\ bySession' = Refs!IndexedSession(Refs!Find(f.name), f.name)
            /\ applied' = applied \union {[kind |-> "trade", order |-> f.order, to |-> Refs!Find(f.name)]}
  <2>1. /\ Refs!Find(f.name) = f.order
        /\ \A a \in applied' : a.to = a.order
    BY <1>3, <1>4, <1>10
  <2>. QED
    BY <1>1, <1>2, <1>6, <1>10, <2>1
<1>11. Refs!BookReport(f) \/ Refs!BookTrade(f)
  BY DEF Refs!Book
<1>12. CASE Refs!BookReport(f)
  BY <1>7, <1>8, <1>12 DEF Refs!BookReport
<1>13. CASE Refs!BookTrade(f)
  BY <1>7, <1>9, <1>10, <1>13 DEF Refs!BookTrade, Refs!account
<1>. QED
  BY <1>11, <1>12, <1>13

LEMMA EntriesStep ==
    ASSUME Refs!TypeOK, CountedInv, LinkedInv, refsPerUser, AttributedInv, [Refs!Next]_refVars
    PROVE  EntriesInv'
<1>. USE DEF Refs!process, Refs!account, Refs!counter
<1>1. ASSUME Refs!Login
      PROVE  EntriesInv'

  <2>1. Entries' = Entries
    BY <1>1 DEF Refs!Login, Entries, Placed
  <2>2. logins \in Nat /\ \A u \in Entries : u.session \in Nat
    BY RefsTyped DEF Refs!TypeOK, Entries, Refs!Owned
  <2>3. \A u \in Entries : u.session <= logins' /\ u.session # session'
    BY <1>1, <2>2 DEF Refs!Login, AttributedInv, EntriesInv
  <2>. QED
    BY <1>1, <2>1, <2>3 DEF Refs!Login, AttributedInv, EntriesInv
<1>2. ASSUME Refs!FinalFence
      PROVE  EntriesInv'

  <2>1. Entries' = Entries
    BY <1>2 DEF Refs!FinalFence, Entries, Placed
  <2>. QED
    BY <1>2, <2>1 DEF Refs!FinalFence, AttributedInv, EntriesInv
<1>3. ASSUME Refs!Record
      PROVE  EntriesInv'

  <2>1. book' = book /\ evidence' \subseteq Entries /\ bySession' \subseteq Entries
    BY <1>3, RecordEffect, EntriesOf
  <2>2. UNCHANGED <<placed, session, nextRef, logins, intended>>
    BY <1>3, RecordEffect
  <2>3. Entries' \subseteq Entries
    BY <2>1, <2>2, EntriesOf DEF Entries, Placed
  <2>. QED
    BY <2>2, <2>3 DEF AttributedInv, EntriesInv
<1>4. ASSUME Refs!Restart
      PROVE  EntriesInv'

  <2>1. /\ Entries' \subseteq Entries /\ session' = 0
        /\ UNCHANGED <<intended, logins>>
    BY <1>4 DEF Refs!Restart, Refs!Restored, Entries, Placed
  <2>. QED
    BY <2>1 DEF AttributedInv, EntriesInv
<1>5. ASSUME NEW reaches \in BOOLEAN, Refs!Insert(reaches)
      PROVE  EntriesInv'

  <2>1. UNCHANGED <<book, evidence, bySession, intended, session, nextRef, logins>>
    BY <1>5 DEF Refs!Insert
  <2>2. Refs!Owns(Refs!Allocated, current) \in book /\ current \in Orders
    BY <1>5 DEF Refs!Insert, AttributedInv, BookInv, CountedInv, Refs!TypeOK
  <2>3. \A p \in Orders : placed'[p] = placed[p] \/ (p = current /\ placed'[p] = Refs!Allocated)
    BY <1>5 DEF Refs!Insert, Refs!TypeOK
  <2>4. ASSUME NEW u \in Entries', u \notin book \union evidence \union bySession
        PROVE  u \in Entries
    <3>1. /\ u \in Refs!Owned /\ placed'[u.order].session = u.session /\ placed'[u.order].ref = u.ref
          /\ placed'[u.order].session # 0
      BY <2>1, <2>4 DEF Entries, Placed
    <3>2. CASE placed'[u.order] = placed[u.order]
      BY <3>1, <3>2 DEF Entries, Placed
    <3>3. CASE u.order = current /\ placed'[u.order] = Refs!Allocated
      <4>1. u = Refs!Owns(Refs!Allocated, current)
        BY <3>1, <3>3 DEF Refs!Owned, Refs!Owns
      <4>. QED
        BY <2>2, <4>1, EntriesOf
    <3>. QED
      BY <2>3, <3>1, <3>2, <3>3 DEF Refs!Owned
  <2>5. Entries' \subseteq Entries
    BY <2>4, EntriesOf
  <2>. QED
    BY <2>1, <2>5 DEF AttributedInv, EntriesInv
<1>6. ASSUME NEW o \in Orders, Refs!Allocate(o)
      PROVE  EntriesInv'

  <2>. DEFINE n == [session |-> session, ref |-> nextRef, order |-> o]
  <2>1. /\ book' = book \union {n} /\ UNCHANGED <<evidence, bySession, placed, session, logins>>
        /\ nextRef' = nextRef + 1 /\ intended' = intended \union {o} /\ o \notin intended /\ session # 0
    BY <1>6 DEF Refs!Allocate
  <2>2. \A u \in Entries' : u \in Entries \/ u = n
    BY <2>1 DEF Entries, Placed
  <2>3. /\ \A u \in Entries : /\ u.order # n.order /\ ~(u.session = n.session /\ u.ref = n.ref)
                              /\ u.session # 0 /\ u.ref # 0 /\ u.order \in intended'
                              /\ u.session <= logins' /\ u.ref \in Nat
                              /\ u.session = session' => u.ref < nextRef
        /\ \A u, v \in Entries : u.order = v.order => u = v
        /\ \A u, v \in Entries : u.session = v.session /\ u.ref = v.ref => u.order = v.order
    BY <2>1, RefsTyped DEF AttributedInv, EntriesInv, Entries, Refs!Owned
  <2>4. /\ n.session # 0 /\ n.ref # 0 /\ n.order \in intended' /\ n.session <= logins'
        /\ n.ref = nextRef /\ nextRef \in Nat
    BY <2>1, RefsTyped DEF Refs!TypeOK, CountedInv
  <2>. HIDE DEF n
  <2>5. \A u \in Entries' : u.session = session' => u.ref < nextRef'
    BY <2>1, <2>2, <2>3, <2>4
  <2>. QED
    BY <2>2, <2>3, <2>4, <2>5 DEF EntriesInv
<1>7. ASSUME NEW o \in Orders, Refs!Cancel(o)
      PROVE  EntriesInv'

  <2>1. UNCHANGED refVars
    BY <1>7, CancelEffect
  <2>. QED
    BY <2>1 DEF refVars, Entries, EntriesInv, AttributedInv, Placed
<1>8. ASSUME NEW o \in Orders, Refs!CounterTrades(o)
      PROVE  EntriesInv'

  <2>1. Entries' = Entries
    BY <1>8 DEF Refs!CounterTrades, Refs!Emit, Entries, Placed
  <2>. QED
    BY <1>8, <2>1 DEF Refs!CounterTrades, Refs!Emit, AttributedInv, EntriesInv
<1>9. ASSUME NEW o \in Orders, Refs!CounterRejects(o)
      PROVE  EntriesInv'

  <2>1. Entries' = Entries
    BY <1>9 DEF Refs!CounterRejects, Refs!Emit, Entries, Placed
  <2>. QED
    BY <1>9, <2>1 DEF Refs!CounterRejects, Refs!Emit, AttributedInv, EntriesInv
<1>10. ASSUME NEW o \in Orders, NEW kind \in Refs!Kinds, Refs!Convert(kind, o)
       PROVE  EntriesInv'

  <2>1. UNCHANGED <<book, evidence, bySession, placed, session, logins, nextRef, intended>>
    BY <1>10, ConvertEffect
  <2>2. Entries' = Entries
    BY <2>1 DEF Entries, Placed
  <2>. QED
    BY <2>1, <2>2 DEF AttributedInv, EntriesInv
<1>11. ASSUME NEW f \in ingress, Refs!Book(f)
       PROVE  EntriesInv'

  <2>1. /\ UNCHANGED <<book, evidence, placed, session, logins, nextRef, intended>>
        /\ bySession' \subseteq Entries
    BY <1>11, BookEffect
  <2>2. Entries' \subseteq Entries
    BY <2>1, EntriesOf DEF Entries, Placed
  <2>. QED
    BY <2>1, <2>2 DEF AttributedInv, EntriesInv
<1>12. CASE UNCHANGED refVars
  BY <1>12 DEF refVars, EntriesInv, Entries, Placed, AttributedInv
<1>. QED
  BY <1>1, <1>2, <1>3, <1>4, <1>5, <1>6, <1>7, <1>8, <1>9, <1>10, <1>11, <1>12
  DEF Refs!Next, Refs!Kinds

LEMMA BookStep ==
    ASSUME Refs!TypeOK, CountedInv, LinkedInv, refsPerUser, AttributedInv, [Refs!Next]_refVars
    PROVE  BookInv'
<1>. USE DEF Refs!process, Refs!account, Refs!counter
<1>1. ASSUME Refs!Login
      PROVE  BookInv'

  <2>1. /\ UNCHANGED <<evidence, book, placed, step, current>> /\ step = "idle"
        /\ nextRef' = Refs!StartOf(Refs!MaxOrderRef) /\ session' = logins + 1
    BY <1>1 DEF Refs!Login
  <2>2. /\ nextRef' \in Nat /\ nextRef \in Nat /\ nextRef' >= nextRef
        /\ \A p \in Orders : placed[p].ref < nextRef'
    BY <2>1, LoginStarts, RefsTyped DEF Refs!TypeOK
  <2>3. session' # 0
    BY <2>1, RefsTyped DEF Refs!TypeOK
  <2>4. ASSUME NEW u \in book
        PROVE  u.ref < nextRef'
    <3>1. u.ref \in Nat /\ u \in Entries /\ u.order \in Orders
      BY RefsTyped, EntriesOf DEF Refs!TypeOK, Refs!Owned
    <3>2. CASE session # 0
      BY <2>2, <3>1, <3>2 DEF AttributedInv, BookInv
    <3>3. CASE session = 0
      <4>1. Placed(u.order)
        BY <3>3 DEF AttributedInv, BookInv
      <4>2. u = Refs!Owns(placed[u.order], u.order)
        <5>1. Refs!Owns(placed[u.order], u.order) \in Entries
          BY <3>1, <4>1, EntriesOf
        <5>2. Refs!Owns(placed[u.order], u.order).order = u.order
          BY DEF Refs!Owns
        <5>. QED
          BY <3>1, <5>1, <5>2 DEF AttributedInv, EntriesInv
      <4>. QED
        BY <2>2, <3>1, <4>2 DEF Refs!Owns
    <3>. QED
      BY <3>2, <3>3
  <2>. QED
    BY <2>1, <2>2, <2>3, <2>4 DEF AttributedInv, BookInv, Placed
<1>2. ASSUME Refs!FinalFence
      PROVE  BookInv'

  BY <1>2 DEF Refs!FinalFence, AttributedInv, BookInv, Placed, Refs!Allocated
<1>3. ASSUME Refs!Record
      PROVE  BookInv'

  <2>1. /\ evidence' \subseteq book /\ \A u \in evidence' : Placed(u.order)
        /\ UNCHANGED <<book, placed, session, nextRef>> /\ step' = "idle" /\ session # 0
    BY <1>3, RecordEffect DEF AttributedInv, BookInv, Refs!Owns
  <2>. QED
    BY <2>1 DEF AttributedInv, BookInv, Placed
<1>4. ASSUME Refs!Restart
      PROVE  BookInv'

  BY <1>4 DEF Refs!Restart, Refs!Restored, AttributedInv, BookInv, Placed
<1>5. ASSUME NEW reaches \in BOOLEAN, Refs!Insert(reaches)
      PROVE  BookInv'

  <2>1. /\ UNCHANGED <<book, evidence, session, nextRef, current>> /\ step = "allocated" /\ step' = "sent"
        /\ current \in Orders /\ ~Placed(current) /\ session # 0 /\ nextRef \in Nat /\ nextRef > 1
        /\ \A p \in Orders : placed[p].ref \in Nat
    BY <1>5, RefsTyped DEF Refs!Insert, CountedInv, Refs!TypeOK, Refs!Triple
  <2>2. /\ \A p \in Orders : placed'[p] = IF p = current THEN Refs!Allocated ELSE placed[p]
        /\ Refs!Allocated = [session |-> session, ref |-> nextRef - 1] /\ Refs!Allocated' = Refs!Allocated
    BY <1>5, <2>1 DEF Refs!Insert, Refs!TypeOK, Refs!Allocated
  <2>3. \A u \in book : u.order \in Orders
    BY DEF Refs!TypeOK, Refs!Owned
  <2>4. evidence' \subseteq book' /\ \A u \in evidence' : Placed(u.order)'
    BY <2>1, <2>2, <2>3 DEF AttributedInv, BookInv, Placed
  <2>5. /\ \A u \in book : u.ref = nextRef - 1 => u.order = current
        /\ \A p \in Orders : placed[p].ref < nextRef - 1
    BY <2>1 DEF AttributedInv, BookInv
  <2>6. \A u \in book', p \in Orders : Placed(p)' /\ placed'[p].ref = u.ref => u.order = p
    BY <2>1, <2>2, <2>5 DEF AttributedInv, BookInv, Placed
  <2>7. \A p, q \in Orders : Placed(p)' /\ placed'[p].ref = placed'[q].ref => p = q
    BY <2>1, <2>2, <2>5 DEF AttributedInv, BookInv, Placed
  <2>8. (\A u \in book' : u.ref < nextRef') /\ (\A p \in Orders : placed'[p].ref < nextRef')
    BY <2>1, <2>2, <2>5 DEF AttributedInv, BookInv
  <2>9. Refs!Owns(Refs!Allocated', current') \in book' /\ placed'[current'] = Refs!Allocated'
    BY <2>1, <2>2 DEF AttributedInv, BookInv
  <2>. QED
    BY <2>1, <2>4, <2>6, <2>7, <2>8, <2>9 DEF BookInv
<1>6. ASSUME NEW o \in Orders, Refs!Allocate(o)
      PROVE  BookInv'

  <2>. DEFINE n == [session |-> session, ref |-> nextRef, order |-> o]
  <2>1. /\ book' = book \union {n} /\ UNCHANGED <<evidence, placed, session>> /\ nextRef' = nextRef + 1
        /\ current' = o /\ step' = "allocated" /\ session # 0 /\ nextRef \in Nat /\ o \notin intended
        /\ \A u \in book : u.ref \in Nat
        /\ \A p \in Orders : placed[p].ref \in Nat
    BY <1>6, RefsTyped DEF Refs!Allocate, Refs!TypeOK, Refs!Owned, Refs!Triple
  <2>2. (\A u \in book : u.ref < nextRef) /\ (\A p \in Orders : placed[p].ref < nextRef)
    BY <2>1 DEF AttributedInv, BookInv
  <2>3. n.ref = nextRef /\ n.order = o /\ n.session = session
    OBVIOUS
  <2>4. Refs!Owns(Refs!Allocated', current') = n /\ nextRef' - 1 = nextRef
    BY <2>1 DEF Refs!Owns, Refs!Allocated
  <2>5. evidence' \subseteq book' /\ \A u \in evidence' : Placed(u.order)'
    BY <2>1 DEF AttributedInv, BookInv, Placed
  <2>. HIDE DEF n
  <2>6. \A u \in book', p \in Orders : Placed(p)' /\ placed'[p].ref = u.ref => u.order = p
    BY <2>1, <2>2, <2>3 DEF AttributedInv, BookInv, Placed
  <2>7. \A p, q \in Orders : Placed(p)' /\ placed'[p].ref = placed'[q].ref => p = q
    BY <2>1 DEF AttributedInv, BookInv, Placed
  <2>8. (\A u \in book' : u.ref < nextRef') /\ (\A p \in Orders : placed'[p].ref < nextRef')
    BY <2>1, <2>2, <2>3
  <2>9. /\ \A u \in book' : u.ref = nextRef' - 1 => u.order = current'
        /\ \A p \in Orders : placed'[p].ref < nextRef' - 1
    BY <2>1, <2>2, <2>3, <2>4
  <2>. QED
    BY <2>1, <2>4, <2>5, <2>6, <2>7, <2>8, <2>9 DEF BookInv
<1>7. ASSUME NEW o \in Orders, Refs!Cancel(o)
      PROVE  BookInv'

  <2>1. UNCHANGED refVars
    BY <1>7, CancelEffect
  <2>. QED
    BY <2>1 DEF refVars, BookInv, AttributedInv, Placed, Refs!Allocated
<1>8. ASSUME NEW o \in Orders, Refs!CounterTrades(o)
      PROVE  BookInv'

  <2>1. UNCHANGED <<evidence, book, placed, session, nextRef, step, current>>
    BY <1>8 DEF Refs!CounterTrades, Refs!Emit
  <2>. QED
    BY <2>1 DEF AttributedInv, BookInv, Placed, Refs!Allocated
<1>9. ASSUME NEW o \in Orders, Refs!CounterRejects(o)
      PROVE  BookInv'

  <2>1. UNCHANGED <<evidence, book, placed, session, nextRef, step, current>>
    BY <1>9 DEF Refs!CounterRejects, Refs!Emit
  <2>. QED
    BY <2>1 DEF AttributedInv, BookInv, Placed, Refs!Allocated
<1>10. ASSUME NEW o \in Orders, NEW kind \in Refs!Kinds, Refs!Convert(kind, o)
       PROVE  BookInv'

  <2>1. UNCHANGED <<evidence, book, placed, session, nextRef, step, current>>
    BY <1>10, ConvertEffect
  <2>. QED
    BY <2>1 DEF AttributedInv, BookInv, Placed, Refs!Allocated
<1>11. ASSUME NEW f \in ingress, Refs!Book(f)
       PROVE  BookInv'

  <2>1. UNCHANGED <<evidence, book, placed, session, nextRef, step, current>>
    BY <1>11, BookEffect
  <2>. QED
    BY <2>1 DEF AttributedInv, BookInv, Placed, Refs!Allocated
<1>12. CASE UNCHANGED refVars
  BY <1>12 DEF refVars, BookInv, AttributedInv, Placed, Refs!Allocated
<1>. QED
  BY <1>1, <1>2, <1>3, <1>4, <1>5, <1>6, <1>7, <1>8, <1>9, <1>10, <1>11, <1>12
  DEF Refs!Next, Refs!Kinds

LEMMA TruthStep ==
    ASSUME Refs!TypeOK, CountedInv, LinkedInv, refsPerUser, AttributedInv, [Refs!Next]_refVars
    PROVE  TruthInv'
<1>. USE DEF Refs!process, Refs!account, Refs!counter
<1>1. ASSUME Refs!Login
      PROVE  TruthInv'

  <2>1. UNCHANGED <<ingress, held, byExchange, bySession, identity, applied, unresolved, evidence, book,
                    placed, intended>>
    BY <1>1 DEF Refs!Login
  <2>2. step' # "idle" => step # "idle" /\ current' = current
    BY <1>1 DEF Refs!Login
  <2>. QED
    BY <2>1, <2>2 DEF AttributedInv, TruthInv, NameTrue, NameKnown, Placed, Refs!OfOrder
<1>2. ASSUME Refs!FinalFence
      PROVE  TruthInv'

  <2>1. UNCHANGED <<ingress, held, byExchange, bySession, identity, applied, unresolved, evidence, book,
                    placed, intended>>
    BY <1>2 DEF Refs!FinalFence
  <2>2. step' # "idle" => step # "idle" /\ current' = current
    BY <1>2 DEF Refs!FinalFence
  <2>. QED
    BY <2>1, <2>2 DEF AttributedInv, TruthInv, NameTrue, NameKnown, Placed, Refs!OfOrder
<1>3. ASSUME Refs!Record
      PROVE  TruthInv'

  <2>. DEFINE name == [session |-> session, ref |-> nextRef - 1, sys |-> "none"]
  <2>1. /\ UNCHANGED <<ingress, held, byExchange, applied, unresolved, book, placed, intended>>
        /\ step' = "idle" /\ bySession \subseteq bySession' /\ Refs!Owns(Refs!Allocated, current) \in bySession'
        /\ identity' = [identity EXCEPT ![current] = name]
        /\ Refs!Allocated = [session |-> session, ref |-> nextRef - 1]
        /\ current \in Orders /\ current \in intended /\ session # 0
        /\ evidence' \subseteq evidence \union {Refs!Owns(Refs!Allocated, current)}
    BY <1>3, RecordEffect
  <2>2. \A p \in Orders : identity'[p] = IF p = current THEN name ELSE identity[p]
    BY <2>1 DEF Refs!TypeOK
  <2>3. name.sys = "none" /\ name.session = session /\ name.ref = nextRef - 1 /\ Refs!Owns(name, current) = Refs!Owns(Refs!Allocated, current)
    BY <2>1 DEF Refs!Owns
  <2>4. Refs!Owns(Refs!Allocated, current).order = current
    BY DEF Refs!Owns
  <2>. HIDE DEF name
  <2>5. ASSUME NEW p \in Orders, p = current
        PROVE  NameKnown(p)'
    <3>1. identity'[p] = name
      BY <2>2, <2>5
    <3>2. Refs!Owns(identity'[p], p) \in bySession' /\ identity'[p].session # 0
      BY <2>1, <2>3, <2>5, <3>1
    <3>. QED
      BY <3>2 DEF NameKnown
  <2>6. \A p \in Orders : p # current => NameKnown(p)'
    BY <2>1, <2>2 DEF AttributedInv, TruthInv, NameKnown
  <2>7. \A p \in Orders : identity'[p].sys \in {"none", p} /\ NameKnown(p)'
    <3>1. \A p \in Orders : identity'[p].sys \in {"none", p}
      BY <2>2, <2>3 DEF AttributedInv, TruthInv
    <3>. QED
      BY <2>5, <2>6, <3>1
  <2>8. \A p \in Orders : identity'[p] # Refs!NoName => p \in intended'
    BY <2>1, <2>2 DEF AttributedInv, TruthInv
  <2>9. \A u \in evidence' : identity'[u.order].session # 0
    <3>1. \A u \in evidence : u.order \in Orders
      BY DEF Refs!TypeOK, Refs!Owned
    <3>. QED
      BY <2>1, <2>2, <2>3, <2>4, <3>1 DEF AttributedInv, TruthInv
  <2>10. \A p \in unresolved' : Placed(p)' /\ Refs!OfOrder(book, p)' = {}
    BY <2>1 DEF AttributedInv, TruthInv, Placed, Refs!OfOrder
  <2>. QED
    BY <2>1, <2>7, <2>8, <2>9, <2>10 DEF AttributedInv, TruthInv, NameTrue, Placed
<1>4. ASSUME Refs!Restart
      PROVE  TruthInv'

  <2>1. /\ UNCHANGED <<held, byExchange, bySession, identity, applied, unresolved, evidence, placed, intended>>
        /\ ingress' = {} /\ step' = "idle" /\ book' \subseteq book
    BY <1>4 DEF Refs!Restart, Refs!Restored, AttributedInv, BookInv
  <2>. QED
    BY <2>1 DEF AttributedInv, TruthInv, NameTrue, NameKnown, Placed, Refs!OfOrder
<1>5. ASSUME NEW reaches \in BOOLEAN, Refs!Insert(reaches)
      PROVE  TruthInv'

  <2>1. /\ UNCHANGED <<ingress, held, byExchange, bySession, identity, applied, unresolved, evidence, book,
                       intended, current>>
        /\ step = "allocated" /\ ~Placed(current)
    BY <1>5 DEF Refs!Insert, CountedInv
  <2>2. \A p \in Orders : Placed(p) => placed'[p] = placed[p]
    BY <1>5, <2>1 DEF Refs!Insert, Refs!TypeOK
  <2>3. ASSUME NEW p \in Orders, NEW name \in Refs!Names, NameTrue(name, p)
        PROVE  NameTrue(name, p)'
    BY <2>2, <2>3 DEF NameTrue, Placed
  <2>4. \A p \in Orders : NameKnown(p)'
    BY <2>1, <2>2 DEF AttributedInv, TruthInv, NameKnown, Placed
  <2>5. /\ \A f \in ingress : f.order \in Orders /\ f.name \in Refs!Names
        /\ \A h \in held : h.order \in Orders /\ h.name \in Refs!Names
        /\ unresolved \subseteq Orders
    BY DEF Refs!TypeOK
  <2>. QED
    BY <2>1, <2>2, <2>3, <2>4, <2>5 DEF AttributedInv, TruthInv, Placed, Refs!OfOrder
<1>6. ASSUME NEW o \in Orders, Refs!Allocate(o)
      PROVE  TruthInv'

  <2>1. /\ UNCHANGED <<ingress, held, byExchange, bySession, identity, applied, unresolved, evidence, placed>>
        /\ book' = book \union {[session |-> session, ref |-> nextRef, order |-> o]}
        /\ intended' = intended \union {o} /\ o \notin intended /\ current' = o
    BY <1>6 DEF Refs!Allocate
  <2>2. identity[o] = Refs!NoName
    BY <2>1 DEF AttributedInv, TruthInv
  <2>3. \A p \in unresolved : p # o
    BY <2>1 DEF AttributedInv, TruthInv, CountedInv, Refs!TypeOK
  <2>. QED
    BY <2>1, <2>2, <2>3 DEF AttributedInv, TruthInv, NameTrue, NameKnown, Placed, Refs!OfOrder
<1>7. ASSUME NEW o \in Orders, Refs!Cancel(o)
      PROVE  TruthInv'

  <2>1. UNCHANGED refVars
    BY <1>7, CancelEffect
  <2>. QED
    BY <2>1 DEF refVars, TruthInv, AttributedInv, NameTrue, NameKnown, Placed, Refs!OfOrder
<1>8. ASSUME NEW o \in Orders, Refs!CounterTrades(o)
      PROVE  TruthInv'

  <2>1. UNCHANGED <<ingress, held, byExchange, bySession, identity, applied, unresolved, evidence, book,
                    placed, intended>>
    BY <1>8 DEF Refs!CounterTrades, Refs!Emit
  <2>2. step' # "idle" => step # "idle" /\ current' = current
    BY <1>8 DEF Refs!CounterTrades, Refs!Emit
  <2>. QED
    BY <2>1, <2>2 DEF AttributedInv, TruthInv, NameTrue, NameKnown, Placed, Refs!OfOrder
<1>9. ASSUME NEW o \in Orders, Refs!CounterRejects(o)
      PROVE  TruthInv'

  <2>1. UNCHANGED <<ingress, held, byExchange, bySession, identity, applied, unresolved, evidence, book,
                    placed, intended>>
    BY <1>9 DEF Refs!CounterRejects, Refs!Emit
  <2>2. step' # "idle" => step # "idle" /\ current' = current
    BY <1>9 DEF Refs!CounterRejects, Refs!Emit
  <2>. QED
    BY <2>1, <2>2 DEF AttributedInv, TruthInv, NameTrue, NameKnown, Placed, Refs!OfOrder
<1>10. ASSUME NEW o \in Orders, NEW kind \in Refs!Kinds, Refs!Convert(kind, o)
       PROVE  TruthInv'

  <2>. DEFINE name == Refs!NameOf(kind, o)
              n == [kind |-> kind, order |-> o, name |-> name]
  <2>1. UNCHANGED <<held, byExchange, bySession, identity, applied, evidence, book, placed, intended, step,
                    current>>
    BY <1>10, ConvertEffect
  <2>2. Placed(o) /\ Refs!Owns(placed[o], o) \in Entries
    <3>1. <<kind, o>> \in news
      BY <1>10, ConvertEffect
    <3>2. Placed(o)
      BY <3>1 DEF CountedInv
    <3>. QED
      BY <3>2, EntriesOf
  <2>3. ASSUME NEW u \in book, u.ref = placed[o].ref
        PROVE  u = Refs!Owns(placed[o], o)
    <3>1. u.order = o /\ u \in Entries /\ Refs!Owns(placed[o], o).order = o
      BY <2>2, <2>3, EntriesOf DEF AttributedInv, BookInv, Refs!Owns
    <3>. QED
      BY <2>2, <3>1 DEF AttributedInv, EntriesInv
  <2>4. \A s \in Refs!SessionsOf(placed[o].ref) : s = placed[o].session
    BY <2>3 DEF Refs!SessionsOf, Refs!Owns
  <2>5. name \in Refs!Names /\ name.sys \in {"none", o}
    BY <1>10, ConvertEffect
  <2>6. NameTrue(name, o)
    <3>1. CASE name.session = 0 /\ name.ref = 0
      BY <2>5, <3>1 DEF NameTrue
    <3>2. CASE name.session = placed[o].session /\ name.ref = placed[o].ref
      BY <2>2, <2>5, <3>2 DEF NameTrue, Placed
    <3>3. CASE name.session \in Refs!SessionsOf(placed[o].ref) /\ name.ref = placed[o].ref
      BY <2>2, <2>4, <2>5, <3>3 DEF NameTrue, Placed
    <3>. QED
      BY <1>10, <3>1, <3>2, <3>3, ConvertEffect
  <2>7. ASSUME name = Refs!NoName
        PROVE  Refs!OfOrder(book, o) = {}
    <3>. SUFFICES ASSUME NEW u \in book, u.order = o
                  PROVE  FALSE
      BY DEF Refs!OfOrder
    <3>1. u \in Entries /\ Refs!Owns(placed[o], o) \in Entries /\ Refs!Owns(placed[o], o).order = o
      BY <2>2, EntriesOf DEF Refs!Owns
    <3>2. u = Refs!Owns(placed[o], o) /\ u.session # 0
      BY <3>1 DEF AttributedInv, EntriesInv
    <3>3. placed[o].session \in Refs!SessionsOf(placed[o].ref) /\ placed[o].session # 0
      BY <3>2 DEF Refs!SessionsOf, Refs!Owns
    <3>4. Refs!SessionsOf(placed[o].ref) = {placed[o].session}
      BY <2>4, <3>3
    <3>5. Cardinality(Refs!SessionsOf(placed[o].ref)) = 1
      BY <3>4, FS_Singleton
    <3>6. Refs!SessionForRef(placed[o].ref) = placed[o].session
      BY <3>4, <3>5, SameCardinality DEF Refs!SessionForRef
    <3>7. Refs!SessionForRef(placed[o].ref) = 0
      BY <1>10, <2>7, ConvertEffect
    <3>. QED
      BY <3>3, <3>6, <3>7
  <2>8. \/ ingress' = ingress /\ unresolved' = unresolved \union {o} /\ name = Refs!NoName
        \/ ingress' = ingress \union {n} /\ unresolved' = unresolved
    BY <1>10, ConvertEffect
  <2>9. n.order = o /\ n.name = name
    OBVIOUS
  <2>. HIDE DEF name, n
  <2>10. \A f \in ingress' : Placed(f.order) /\ NameTrue(f.name, f.order)
    BY <2>2, <2>6, <2>8, <2>9 DEF AttributedInv, TruthInv
  <2>11. \A p \in unresolved' : Placed(p) /\ Refs!OfOrder(book, p) = {}
    BY <2>2, <2>7, <2>8 DEF AttributedInv, TruthInv
  <2>. QED
    BY <2>1, <2>10, <2>11 DEF AttributedInv, TruthInv, NameTrue, NameKnown, Placed, Refs!OfOrder
<1>11. ASSUME NEW f \in ingress, Refs!Book(f)
       PROVE  TruthInv'

  <2>1. /\ UNCHANGED <<step, current, book, intended, evidence, placed, unresolved>>
        /\ f.order \in Orders /\ f.name \in Refs!Names /\ NameTrue(f.name, f.order) /\ Placed(f.order)
        /\ bySession \subseteq bySession' /\ ingress' \subseteq ingress
        /\ \A x \in Orders : byExchange'[x] \in {"none", x}
        /\ \A h \in held' : h \in held \/ h = [order |-> f.order, name |-> f.name]
        /\ \A a \in applied' : a.to = a.order
        /\ step = "idle"
        /\ \/ identity' = identity
           \/ identity' = [identity EXCEPT ![f.order] = Refs!Merged(identity[f.order], f.name)]
    BY <1>11, BookEffect
  <2>2. \A p \in Orders : \/ identity'[p] = identity[p]
                          \/ p = f.order /\ identity'[p] = Refs!Merged(identity[p], f.name)
    BY <2>1 DEF Refs!TypeOK
  <2>3. identity[f.order].sys \in {"none", f.order} /\ NameKnown(f.order)
    BY <2>1 DEF AttributedInv, TruthInv
  <2>4. /\ Refs!Merged(identity[f.order], f.name).session =
               IF f.name.session # 0 THEN placed[f.order].session ELSE identity[f.order].session
        /\ Refs!Merged(identity[f.order], f.name).ref =
               IF f.name.session # 0 THEN placed[f.order].ref ELSE identity[f.order].ref
        /\ Refs!Merged(identity[f.order], f.name).sys \in {"none", f.order}
    <3>1. Placed(f.order) => placed[f.order].ref # 0
      BY <2>1 DEF CountedInv
    <3>. QED
      BY <2>1, <2>3, <3>1 DEF Refs!Merged, NameTrue
  <2>5. ASSUME NEW p \in Orders
        PROVE  identity'[p].sys \in {"none", p} /\ NameKnown(p)'
    <3>1. CASE identity'[p] = identity[p]
      BY <2>1, <3>1 DEF AttributedInv, TruthInv, NameKnown
    <3>2. CASE p = f.order /\ identity'[p] = Refs!Merged(identity[p], f.name)
      <4>1. CASE f.name.session # 0
        BY <2>1, <2>4, <3>2, <4>1 DEF NameKnown, Placed
      <4>2. CASE f.name.session = 0
        <5>1. /\ identity'[p].session = identity[p].session /\ identity'[p].ref = identity[p].ref
              /\ identity'[p].sys \in {"none", p}
          BY <2>4, <3>2, <4>2
        <5>2. Refs!Owns(identity'[p], p) = Refs!Owns(identity[p], p)
          BY <5>1 DEF Refs!Owns
        <5>. QED
          BY <2>1, <2>3, <3>2, <5>1, <5>2 DEF NameKnown
      <4>. QED
        BY <4>1, <4>2
    <3>. QED
      BY <2>2, <3>1, <3>2
  <2>6. \A p \in Orders : identity'[p] # Refs!NoName => p \in intended'
    BY <2>1, <2>2 DEF AttributedInv, TruthInv, CountedInv
  <2>7. \A u \in evidence' : identity'[u.order].session # 0
    <3>1. \A u \in evidence : u.order \in Orders /\ identity[u.order].session # 0
      BY DEF Refs!TypeOK, Refs!Owned, AttributedInv, TruthInv
    <3>2. f.name.session # 0 => placed[f.order].session # 0
      BY <2>1 DEF NameTrue, Placed
    <3>3. \A p \in Orders : identity[p].session # 0 => identity'[p].session # 0
      BY <2>2, <2>4, <3>2
    <3>. QED
      BY <2>1, <3>1, <3>3
  <2>8. \A h \in held' : Placed(h.order)' /\ NameTrue(h.name, h.order)'
    BY <2>1 DEF AttributedInv, TruthInv, NameTrue, Placed
  <2>9. \A g \in ingress' : Placed(g.order)' /\ NameTrue(g.name, g.order)'
    BY <2>1 DEF AttributedInv, TruthInv, NameTrue, Placed
  <2>10. \A p \in unresolved' : Placed(p)' /\ Refs!OfOrder(book, p)' = {}
    BY <2>1 DEF AttributedInv, TruthInv, Placed, Refs!OfOrder
  <2>. QED
    BY <2>1, <2>5, <2>6, <2>7, <2>8, <2>9, <2>10 DEF TruthInv
<1>12. CASE UNCHANGED refVars
  BY <1>12 DEF refVars, TruthInv, AttributedInv, NameTrue, NameKnown, Placed, Refs!OfOrder
<1>. QED
  BY <1>1, <1>2, <1>3, <1>4, <1>5, <1>6, <1>7, <1>8, <1>9, <1>10, <1>11, <1>12
  DEF Refs!Next, Refs!Kinds

-------------------------------------------------------------------------------
(* The theorem *)

\* What the invariant says of every cancel: it finds its order.
LEMMA CancelsFind ==
    ASSUME Refs!TypeOK, CountedInv, LinkedInv, refsPerUser, AttributedInv
    PROVE  Refs!CancelFindsItsOrder
<1>. SUFFICES ASSUME NEW o \in Orders, session # 0, Refs!MayCancel(o), placed[o] # Refs!Nobody
              PROVE  Refs!CancelTarget(o) = {o}
  BY DEF Refs!CancelFindsItsOrder
<1>1. Placed(o) /\ "none" \notin Orders
  BY RestartAssumption DEF CountedInv, Placed, Refs!Nobody, Refs!TypeOK, Refs!Triple, RestartAssumption
<1>2. CASE Refs!SameSession(o)
  <2>1. identity[o].session = session
    BY <1>2 DEF Refs!SameSession
  <2>2. /\ Refs!Owns(identity[o], o) \in Entries /\ Refs!Owns(placed[o], o) \in Entries
        /\ Refs!Owns(identity[o], o).order = o /\ Refs!Owns(placed[o], o).order = o
    BY <1>1, <2>1, EntriesOf DEF Refs!Owns
  <2>3. placed[o].session = session /\ placed[o].ref = identity[o].ref
    <3>1. Refs!Owns(identity[o], o) = Refs!Owns(placed[o], o)
      BY <2>2 DEF AttributedInv, EntriesInv
    <3>. QED
      BY <2>1, <3>1 DEF Refs!Owns
  <2>4. placed[o] = [session |-> session, ref |-> identity[o].ref]
    BY <2>3 DEF Refs!TypeOK, Refs!Triple
  <2>5. ASSUME NEW p \in Orders, placed[p] = [session |-> session, ref |-> identity[o].ref]
        PROVE  p = o
    <3>1. Placed(p)
      BY <2>5 DEF Placed
    <3>. QED
      BY <2>4, <2>5, <3>1 DEF AttributedInv, BookInv
  <2>. QED
    BY <1>1, <1>2, <2>4, <2>5 DEF Refs!CancelTarget, Placed
<1>3. CASE ~Refs!SameSession(o)
  <2>1. identity[o].sys = o
    BY <1>3 DEF Refs!MayCancel, AttributedInv, TruthInv
  <2>. QED
    BY <1>1, <1>3, <2>1 DEF Refs!CancelTarget, Placed
<1>. QED
  BY <1>2, <1>3

LEMMA RefsInitially ==
    ASSUME Refs!Init
    PROVE  RefsInv
<1>. USE DEF Refs!Init
<1>1. Refs!TypeOK
  BY RefsTyped DEF Refs!TypeOK, Refs!Steps, Refs!Nobody, Refs!NoName, Refs!Triple, Refs!Names
<1>2. CountedInv
  <2>1. Cardinality(intended) = 0
    BY FS_EmptySet
  <2>2. PICK o \in Orders : TRUE
    BY RestartAssumption DEF RestartAssumption
  <2>. QED
    BY <2>1, <2>2 DEF CountedInv, Placed, Refs!Nobody
<1>3. LinkedInv
  BY DEF LinkedInv, Refs!ToldTradesAreLinked
<1>4. Entries = {}
  BY DEF Entries, Placed, Refs!Nobody, Refs!Owned
<1>5. EntriesInv
  BY <1>4 DEF EntriesInv
<1>6. BookInv
  BY DEF BookInv, Placed, Refs!Nobody
<1>7. TruthInv
  BY DEF TruthInv, NameKnown, Refs!NoName
<1>. QED
  BY <1>1, <1>2, <1>3, <1>5, <1>6, <1>7 DEF RefsInv, AttributedInv

LEMMA RefsStep ==
    ASSUME RefsInv, [Refs!Next]_refVars
    PROVE  RefsInv'
<1>1. Refs!TypeOK' /\ CountedInv' /\ LinkedInv'
  BY TypeStep, CountedStep, LinkedStep DEF RefsInv
<1>2. ASSUME refsPerUser
      PROVE  AttributedInv'
  BY <1>2, EntriesStep, BookStep, TruthStep DEF RefsInv, AttributedInv
<1>3. refsPerUser' = refsPerUser
  BY DEF Refs!Next, Refs!Login, Refs!FinalFence, Refs!Record, Refs!Restart, Refs!Insert, Refs!Allocate, Refs!Cancel, Refs!CounterTrades,
     Refs!CounterRejects, Refs!Emit, Refs!Convert, Refs!Book, refVars, Refs!counter
<1>. QED
  BY <1>1, <1>2, <1>3 DEF RefsInv

\* The invariant of the references, whatever the counter, over re-logins, restarts
\* and repeated, reordered or lost callbacks (CtpOrderRefBook, CtpIdentityResolver,
\* OrderManager's indices).
THEOREM ReferencesCorrect == RestartSpec => [](part = "references" => RefsInv)
<1>. DEFINE I == part = "references" => RefsInv
<1>1. RestartInit => I
  BY RefsInitially DEF RestartInit
<1>2. I /\ [RestartNext]_restartVars => I'
  <2>. SUFFICES ASSUME I, [RestartNext]_restartVars, part' = "references"
                PROVE  RefsInv'
    OBVIOUS
  <2>1. part = "references" /\ [Refs!Next]_refVars
    BY DEF RestartNext, Strategy, References, Reconciliation, Commits, restartVars
  <2>. QED
    BY <2>1, RefsStep
<1>. QED
  BY <1>1, <1>2, PTL DEF RestartSpec

\* A callback is applied to the order it speaks of or to none, and trades, rejections
\* and cancels of known orders find them, for any number of orders, logins and restarts.
THEOREM AttributionSound == RestartSpec => []AttributionIsSound
<1>1. (part = "references" => RefsInv) => AttributionIsSound
  BY CancelsFind DEF RefsInv, AttributionIsSound, Refs!NeverMisattributed, Refs!NothingIsLost, LinkedInv,
     Refs!KnownOrdersAreNamed, Refs!CancelFindsItsOrder, AttributedInv, TruthInv
<1>. QED
  BY <1>1, ReferencesCorrect, PTL

-------------------------------------------------------------------------------
(* Facts applied one after the other *)

\* What facts make of a kernel, one by one.
Steps(g, k, list, n) ==
    g = [m \in 0..n |-> IF m = 0 THEN k ELSE History!Apply(g[m - 1], list[m])]

LEMMA StepsExist ==
  ASSUME NEW k, NEW list, NEW n \in Nat
  PROVE  \E g : Steps(g, k, list, n)
<1> DEFINE without == {m \in Nat : ~\E g : Steps(g, k, list, m)}
<1> SUFFICES ASSUME without # {} PROVE FALSE
  OBVIOUS
<1>1. PICK m \in without : \A l \in without : ~(<<l, m>> \in OpToRel(<, Nat))
  <2>1. without \subseteq Nat
    OBVIOUS
  <2> HIDE DEF without
  <2> QED BY <2>1, NatLessThanWellFounded, WFMin
<1>2. CASE m = 0
  <2> DEFINE g == [l \in 0..0 |-> k]
  <2>1. Steps(g, k, list, 0)
    BY DEF Steps
  <2> QED BY <1>2, <2>1
<1>3. CASE m # 0
  <2>1. m \in Nat /\ m - 1 \in Nat /\ m - 1 < m
    BY <1>3
  <2>2. m - 1 \notin without
    BY <1>1, <2>1 DEF OpToRel
  <2>3. PICK g : Steps(g, k, list, m - 1)
    BY <2>1, <2>2
  <2> DEFINE h == [l \in 0..m |-> IF l = m THEN History!Apply(g[m - 1], list[m]) ELSE g[l]]
  <2>4. \A l \in 0..m : h[l] = IF l = 0 THEN k ELSE History!Apply(h[l - 1], list[l])
    <3> SUFFICES ASSUME NEW l \in 0..m PROVE h[l] = IF l = 0 THEN k ELSE History!Apply(h[l - 1], list[l])
      OBVIOUS
    <3>1. CASE l = m
      <4>1. h[l - 1] = g[m - 1]
        BY <2>1, <3>1
      <4> QED BY <1>3, <3>1, <4>1
    <3>2. CASE l # m
      <4>1. l \in 0..(m - 1) /\ h[l] = g[l]
        BY <2>1, <3>2
      <4>2. g[l] = IF l = 0 THEN k ELSE History!Apply(g[l - 1], list[l])
        BY <2>3, <4>1 DEF Steps
      <4>3. l # 0 => l - 1 \in 0..m /\ l - 1 # m
        BY <2>1, <3>2
      <4>4. l # 0 => h[l - 1] = g[l - 1]
        BY <4>3
      <4> HIDE DEF h
      <4> QED BY <4>1, <4>2, <4>4
    <3> QED BY <3>1, <3>2
  <2>5. h = [l \in 0..m |-> h[l]]
    OBVIOUS
  <2>6. Steps(h, k, list, m)
    <3> HIDE DEF h
    <3> QED BY <2>4, <2>5 DEF Steps
  <2> QED BY <2>6
<1> QED BY <1>2, <1>3

\* They make the same of it in a list that goes on.
LEMMA StepsAgree ==
  ASSUME NEW k, NEW list, NEW more, NEW n \in Nat,
         NEW g, Steps(g, k, list, n), NEW h, Steps(h, k, more, n + 1),
         \A i \in 1..n : more[i] = list[i]
  PROVE  h[n] = g[n]
<1> DEFINE apart == {i \in 0..n : h[i] # g[i]}
<1> SUFFICES ASSUME apart # {} PROVE FALSE
  OBVIOUS
<1>1. PICK i \in apart : \A l \in apart : ~(<<l, i>> \in OpToRel(<, Nat))
  <2>1. apart \subseteq Nat
    OBVIOUS
  <2> HIDE DEF apart
  <2> QED BY <2>1, NatLessThanWellFounded, WFMin
<1>2. /\ i \in 0..n /\ i \in 0..(n + 1)
      /\ g[i] = IF i = 0 THEN k ELSE History!Apply(g[i - 1], list[i])
      /\ h[i] = IF i = 0 THEN k ELSE History!Apply(h[i - 1], more[i])
  BY DEF Steps
<1>3. CASE i = 0
  BY <1>2, <1>3
<1>4. CASE i # 0
  <2>1. i - 1 \in 0..n /\ i \in 1..n /\ i - 1 < i
    BY <1>2, <1>4
  <2>2. i - 1 \notin apart
    <3>1. i \in Nat /\ i - 1 \in Nat
      BY <1>2, <2>1
    <3>2. <<i - 1, i>> \in OpToRel(<, Nat)
      BY <2>1, <3>1 DEF OpToRel
    <3> HIDE DEF apart
    <3> QED BY <1>1, <3>2
  <2>3. h[i - 1] = g[i - 1] /\ more[i] = list[i]
    BY <2>1, <2>2
  <2> QED BY <1>2, <1>4, <2>3
<1> QED BY <1>3, <1>4

LEMMA AllSteps ==
  ASSUME NEW k, NEW list, Len(list) \in Nat
  PROVE  \E g : Steps(g, k, list, Len(list)) /\ History!ApplyAll(k, list) = g[Len(list)]
<1> DEFINE g == CHOOSE g : Steps(g, k, list, Len(list))
<1>1. Steps(g, k, list, Len(list))
  BY StepsExist
<1>2. History!ApplyAll(k, list) = g[Len(list)]
  BY DEF History!ApplyAll, Steps
<1> QED BY <1>1, <1>2

\* Nothing changes nothing, and one fact more is applied to what the others made.
LEMMA AppliedNone == ASSUME NEW k PROVE History!ApplyAll(k, <<>>) = k
<1>1. PICK g : Steps(g, k, <<>>, 0) /\ History!ApplyAll(k, <<>>) = g[0]
  BY AllSteps
<1>2. g[0] = k
  BY <1>1 DEF Steps
<1> QED BY <1>1, <1>2

LEMMA AppliedMore ==
  ASSUME NEW T, NEW k, NEW list \in Seq(T), NEW f \in T
  PROVE  History!ApplyAll(k, Append(list, f)) = History!Apply(History!ApplyAll(k, list), f)
<1> DEFINE n == Len(list)
           more == Append(list, f)
<1>1. n \in Nat /\ Len(more) = n + 1 /\ more[n + 1] = f /\ \A i \in 1..n : more[i] = list[i]
  OBVIOUS
<1> HIDE DEF more, n
<1>2. PICK g : Steps(g, k, list, n) /\ History!ApplyAll(k, list) = g[n]
  BY <1>1, AllSteps DEF n
<1>3. PICK h : Steps(h, k, more, n + 1) /\ History!ApplyAll(k, more) = h[n + 1]
  <2>1. Len(more) \in Nat
    BY <1>1
  <2> QED BY <1>1, <2>1, AllSteps
<1>4. h[n] = g[n]
  <2>1. n \in Nat /\ \A i \in 1..n : more[i] = list[i]
    BY <1>1
  <2> QED BY <1>2, <1>3, <2>1, StepsAgree
<1>5. h[n + 1] = History!Apply(h[(n + 1) - 1], more[n + 1])
  BY <1>1, <1>3 DEF Steps
<1>6. (n + 1) - 1 = n
  BY <1>1
<1> QED BY <1>1, <1>2, <1>3, <1>4, <1>5, <1>6 DEF more

-------------------------------------------------------------------------------
(* The invariant of the history *)

Kernels ==
    [day : Nat, lots : Nat, order : [Orders -> {"absent", "active"} \union History!Final],
     reported : SUBSET Orders, known : SUBSET Orders, retired : SUBSET Orders,
     candidates : SUBSET Orders, external : SUBSET Orders]

Reportable ==
    [kind : {"intent", "trade"}, of : Orders] \union [kind : {"report"}, of : Orders, status : History!Final]
        \union [kind : {"advance"}, of : Nat]

UsedIn(k) == {o \in Orders : History!Found(k, o)} \union k.retired

\* What a kernel says of its orders is true at the exchange, what is filled is known
\* to be, and what is retired is finished and booked.
KernelInv(k, ex, keys) ==
    /\ k \in Kernels /\ k.known \subseteq keys /\ \A o \in k.reported : History!Found(k, o)
    /\ \A o \in Orders : k.order[o] = "cancelled" => ex[o] = "cancelled"
    /\ \A o \in Orders : k.order[o] = "filled" => ex[o] = "filled" /\ o \in k.reported
    /\ \A o \in Orders : ex[o] # "none" => o \in UsedIn(k)
    /\ \A o \in k.retired : ex[o] = "cancelled" \/ (ex[o] = "filled" /\ o \in keys)

\* The journal stands for the account.
JournalInv ==
    /\ journal.through \in Nat /\ journal.facts \in Seq(Reportable) /\ journal.keys \in SUBSET Orders
    /\ DOMAIN journal = {"through", "saved", "facts", "keys"}
    /\ account = History!Rebuilt(journal)

ExchangeInv ==
    /\ exchange \in [Orders -> {"none", "working"} \union History!Final]
    /\ \A o \in journal.keys : exchange[o] = "filled"

\* The account in memory is the journal's, or the journal is one fact ahead, or
\* another checkpoint.
ModelInv ==
    /\ service = "up" => /\ model # History!Nothing /\ model.through = journal.through
                         /\ model.applied = Len(journal.facts) /\ model.kernel = account
    /\ service = "publishing" =>
           \/ History!MustRebuild
           \/ model.applied = Len(journal.facts) /\ model.kernel = account
           \/ /\ model.applied + 1 = Len(journal.facts) /\ model.applied \in Nat
              /\ account = History!Apply(model.kernel, journal.facts[Len(journal.facts)])

HistoryInv == KernelInv(account, exchange, journal.keys) /\ JournalInv /\ ExchangeInv /\ ModelInv

\* What a reader of the plain account sees of a step.
Unseen(k, keys, r, keys2) ==
    UsedIn(r) = UsedIn(k) /\ History!Active(r) = History!Active(k) /\ r.lots = k.lots /\ keys2 = keys
PlainStep(k, keys, r, keys2) ==
    \/ Unseen(k, keys, r, keys2)
    \/ \E o \in Orders :
           \/ /\ o \notin UsedIn(k) /\ UsedIn(r) = UsedIn(k) \union {o}
              /\ History!Active(r) = History!Active(k) \union {o} /\ r.lots = k.lots /\ keys2 = keys
           \/ /\ o \in UsedIn(k) \ keys /\ keys2 = keys \union {o} /\ r.lots = k.lots + 1
              /\ History!Active(r) \in {History!Active(k), History!Active(k) \ {o}} /\ UsedIn(r) = UsedIn(k)
           \/ /\ o \in History!Active(k) /\ History!Active(r) = History!Active(k) \ {o}
              /\ UsedIn(r) = UsedIn(k) /\ r.lots = k.lots /\ keys2 = keys

-------------------------------------------------------------------------------
(* Reportable and kernels *)

\* An intent names an order that was never there.
LEMMA IntentStep ==
  ASSUME NEW k, NEW ex, NEW keys, KernelInv(k, ex, keys), NEW o \in Orders, ~History!Taken(k, o)
  PROVE  LET r == History!Apply(k, [kind |-> "intent", of |-> o]) IN
         KernelInv(r, ex, keys) /\ PlainStep(k, keys, r, keys) /\ r.day = k.day
<1> DEFINE r == [k EXCEPT !.order[o] = "active"]
<1>1. History!Apply(k, [kind |-> "intent", of |-> o]) = r
  BY DEF History!Apply
<1>2. k \in Kernels
  BY DEF KernelInv
<1>3. /\ r \in Kernels /\ r.day = k.day /\ r.lots = k.lots /\ r.known = k.known /\ r.retired = k.retired
      /\ r.reported = k.reported /\ r.order = [k.order EXCEPT ![o] = "active"]
  BY <1>2 DEF Kernels
<1> HIDE DEF r
<1>4. \A p \in Orders : r.order[p] = IF p = o THEN "active" ELSE k.order[p]
  BY <1>2, <1>3 DEF Kernels
<1>5. UsedIn(r) = UsedIn(k) \union {o} /\ o \notin UsedIn(k) /\ History!Active(r) = History!Active(k) \union {o}
  BY <1>3, <1>4 DEF UsedIn, History!Found, History!Active, History!Taken
<1>6. KernelInv(r, ex, keys)
  BY <1>3, <1>4, <1>5 DEF KernelInv, History!Found, History!Taken, UsedIn
<1> QED BY <1>1, <1>3, <1>5, <1>6 DEF PlainStep

\* A report is of what the exchange did.
LEMMA ReportStep ==
  ASSUME NEW k, NEW ex, NEW keys, KernelInv(k, ex, keys), NEW o \in Orders, ex[o] \in History!Final
  PROVE  LET r == History!Apply(k, [kind |-> "report", of |-> o, status |-> ex[o]]) IN
         KernelInv(r, ex, keys) /\ PlainStep(k, keys, r, keys) /\ r.day = k.day
<1> DEFINE r == History!Reported(k, o, ex[o])
<1>1. History!Apply(k, [kind |-> "report", of |-> o, status |-> ex[o]]) = r
  BY DEF History!Apply
<1>2. k \in Kernels
  BY DEF KernelInv
<1>3. CASE ~History!Found(k, o)
  <2>1. /\ r \in Kernels /\ r.day = k.day /\ r.lots = k.lots /\ r.known = k.known /\ r.retired = k.retired
        /\ r.reported = k.reported /\ r.order = k.order
    BY <1>2, <1>3 DEF Kernels, History!Reported
  <2> HIDE DEF r
  <2>2. UsedIn(r) = UsedIn(k) /\ History!Active(r) = History!Active(k)
    BY <2>1 DEF UsedIn, History!Found, History!Active
  <2>3. KernelInv(r, ex, keys)
    BY <2>1, <2>2 DEF KernelInv, History!Found
  <2> QED BY <1>1, <2>1, <2>2, <2>3 DEF PlainStep, Unseen
<1>4. CASE History!Found(k, o)
  <2> DEFINE ended == IF k.order[o] \in History!Final THEN k.order[o] ELSE ex[o]
             filled == IF ex[o] = "filled" THEN k.reported \union {o} ELSE k.reported
             y == [k EXCEPT !.order = [k.order EXCEPT ![o] = ended]]
  <2>1. ended \in History!Final /\ filled \in SUBSET Orders
    BY <1>2 DEF Kernels
  <2>2. r = [y EXCEPT !.reported = filled]
    BY <1>2, <1>4 DEF History!Reported, Kernels
  <2> HIDE DEF ended, filled
  <2>3. /\ y \in Kernels /\ y.day = k.day /\ y.lots = k.lots /\ y.known = k.known /\ y.retired = k.retired
        /\ y.reported = k.reported /\ y.order = [k.order EXCEPT ![o] = ended]
    BY <1>2, <2>1 DEF Kernels
  <2> HIDE DEF y, r
  <2>4. /\ r \in Kernels /\ r.day = y.day /\ r.lots = y.lots /\ r.known = y.known /\ r.retired = y.retired
        /\ r.reported = filled /\ r.order = y.order
    BY <2>1, <2>2, <2>3 DEF Kernels
  <2>5. \A p \in Orders : r.order[p] = IF p = o THEN ended ELSE k.order[p]
    BY <1>2, <2>3, <2>4 DEF Kernels
  <2>6. UsedIn(r) = UsedIn(k)
    BY <1>4, <2>1, <2>3, <2>4, <2>5 DEF UsedIn, History!Found, History!Final
  <2>7. History!Active(r) = History!Active(k) \ {o}
    BY <2>1, <2>5 DEF History!Active, History!Final
  <2>8. o \notin History!Active(k) => History!Active(r) = History!Active(k)
    BY <2>7
  <2>9. \A p \in filled : p = o \/ p \in k.reported
    BY DEF filled
  <2>10. k.reported \subseteq filled /\ (ex[o] = "filled" => o \in filled)
    BY DEF filled
  <2>11. /\ (ended = "cancelled" => ex[o] = "cancelled")
         /\ (ended = "filled" => ex[o] = "filled")
    BY DEF ended, KernelInv
  <2>12. KernelInv(r, ex, keys)
    <3>1. \A p \in r.reported : History!Found(r, p)
      BY <1>4, <2>1, <2>4, <2>5, <2>9 DEF KernelInv, History!Found, History!Final, Kernels
    <3>2. \A p \in Orders : r.order[p] = "cancelled" => ex[p] = "cancelled"
      BY <2>5, <2>11 DEF KernelInv
    <3>3. \A p \in Orders : r.order[p] = "filled" => ex[p] = "filled" /\ p \in r.reported
      BY <2>4, <2>5, <2>10, <2>11 DEF KernelInv
    <3> QED BY <2>3, <2>4, <2>6, <3>1, <3>2, <3>3 DEF KernelInv
  <2> QED BY <1>1, <2>3, <2>4, <2>6, <2>7, <2>8, <2>12 DEF PlainStep, Unseen
<1> QED BY <1>3, <1>4

\* A trade is one of an order that is used and not booked.
LEMMA TradeStep ==
  ASSUME NEW k, NEW ex, NEW keys, KernelInv(k, ex, keys), NEW o \in Orders, ex[o] = "filled", o \notin keys
  PROVE  LET r == History!Apply(k, [kind |-> "trade", of |-> o]) IN
         /\ KernelInv(r, ex, keys \union {o}) /\ PlainStep(k, keys, r, keys \union {o}) /\ r.day = k.day
<1> DEFINE r == History!Traded(k, o)
<1>1. History!Apply(k, [kind |-> "trade", of |-> o]) = r
  BY DEF History!Apply
<1>2. k \in Kernels /\ o \notin k.known /\ o \in UsedIn(k) /\ o \notin k.retired
  BY DEF KernelInv
<1>3. History!Found(k, o)
  BY <1>2 DEF UsedIn
<1> DEFINE ended == IF k.order[o] \notin History!Final THEN "filled" ELSE k.order[o]
           x == [k EXCEPT !.known = k.known \union {o}]
           y == [x EXCEPT !.lots = k.lots + 1]
           z == [y EXCEPT !.order = [k.order EXCEPT ![o] = ended]]
<1>4. r = [z EXCEPT !.reported = k.reported \union {o}]
  BY <1>2, <1>3 DEF History!Traded, Kernels
<1>5. ended \in History!Final
  BY DEF History!Final
<1>6. ended = "filled"
  BY <1>2 DEF KernelInv, History!Final
<1> HIDE DEF ended
<1>7. /\ x \in Kernels /\ x.day = k.day /\ x.lots = k.lots /\ x.known = k.known \union {o}
      /\ x.retired = k.retired /\ x.reported = k.reported /\ x.order = k.order
  BY <1>2 DEF Kernels
<1> HIDE DEF x
<1>8. /\ y \in Kernels /\ y.day = k.day /\ y.lots = k.lots + 1 /\ y.known = k.known \union {o}
      /\ y.retired = k.retired /\ y.reported = k.reported /\ y.order = k.order
  BY <1>2, <1>7 DEF Kernels
<1> HIDE DEF y
<1>9. /\ z \in Kernels /\ z.day = k.day /\ z.lots = k.lots + 1 /\ z.known = k.known \union {o}
      /\ z.retired = k.retired /\ z.reported = k.reported /\ z.order = [k.order EXCEPT ![o] = ended]
  BY <1>2, <1>5, <1>8 DEF Kernels
<1> HIDE DEF z, r
<1>10. /\ r \in Kernels /\ r.day = k.day /\ r.lots = k.lots + 1 /\ r.known = k.known \union {o}
       /\ r.retired = k.retired /\ r.reported = k.reported \union {o} /\ r.order = [k.order EXCEPT ![o] = ended]
  BY <1>2, <1>4, <1>9 DEF Kernels
<1>11. \A p \in Orders : r.order[p] = IF p = o THEN "filled" ELSE k.order[p]
  BY <1>2, <1>6, <1>10 DEF Kernels
<1>12. UsedIn(r) = UsedIn(k)
  BY <1>3, <1>10, <1>11 DEF UsedIn, History!Found
<1>13. History!Active(r) = History!Active(k) \ {o}
  BY <1>11 DEF History!Active
<1>14. KernelInv(r, ex, keys \union {o})
  <2>1. \A p \in r.reported : History!Found(r, p)
    BY <1>10, <1>11 DEF KernelInv, History!Found, Kernels
  <2>2. \A p \in Orders : r.order[p] = "cancelled" => ex[p] = "cancelled"
    BY <1>11 DEF KernelInv
  <2>3. \A p \in Orders : r.order[p] = "filled" => ex[p] = "filled" /\ p \in r.reported
    BY <1>10, <1>11 DEF KernelInv
  <2>4. r.known \subseteq keys \union {o}
    BY <1>10 DEF KernelInv
  <2>5. \A p \in r.retired : ex[p] = "cancelled" \/ (ex[p] = "filled" /\ p \in keys \union {o})
    BY <1>10 DEF KernelInv
  <2>6. \A p \in Orders : ex[p] # "none" => p \in UsedIn(r)
    BY <1>12 DEF KernelInv
  <2> QED BY <1>10, <2>1, <2>2, <2>3, <2>4, <2>5, <2>6 DEF KernelInv
<1> QED BY <1>1, <1>2, <1>10, <1>12, <1>13, <1>14 DEF PlainStep

\* The end of a day moves no order.
LEMMA AdvanceStep ==
  ASSUME NEW k, NEW ex, NEW keys, KernelInv(k, ex, keys), NEW d \in Nat
  PROVE  LET r == History!Apply(k, [kind |-> "advance", of |-> d]) IN
         KernelInv(r, ex, keys) /\ Unseen(k, keys, r, keys)
<1> DEFINE r == History!Advanced(k, d)
<1>1. History!Apply(k, [kind |-> "advance", of |-> d]) = r
  BY DEF History!Apply
<1>2. k \in Kernels
  BY DEF KernelInv
<1>3. /\ r \in Kernels /\ r.lots = k.lots /\ r.known = k.known /\ r.retired = k.retired
      /\ r.reported = k.reported /\ r.order = k.order
  BY <1>2 DEF Kernels, History!Advanced
<1> HIDE DEF r
<1>4. UsedIn(r) = UsedIn(k) /\ History!Active(r) = History!Active(k)
  BY <1>3 DEF UsedIn, History!Found, History!Active
<1>5. KernelInv(r, ex, keys)
  BY <1>3, <1>4 DEF KernelInv, History!Found
<1> QED BY <1>1, <1>3, <1>4, <1>5 DEF Unseen

\* What is retired is finished, and is used for ever.
LEMMA RetireStep ==
  ASSUME NEW k, NEW ex, NEW keys, KernelInv(k, ex, keys)
  PROVE  KernelInv(History!Retire(k), ex, keys) /\ Unseen(k, keys, History!Retire(k), keys)
<1> DEFINE gone == k.candidates \intersect History!Retirable(k)
           order == [o \in Orders |-> IF o \in gone THEN "absent" ELSE k.order[o]]
           left == History!Retirable(k) \ gone
           a == [k EXCEPT !.order = order]
           b == [a EXCEPT !.known = k.known \ gone]
           c == [b EXCEPT !.reported = k.reported \ gone]
           d == [c EXCEPT !.retired = k.retired \union gone]
           r == History!Retire(k)
<1>1. k \in Kernels
  BY DEF KernelInv
<1>2. r = [d EXCEPT !.candidates = left]
  BY <1>1 DEF History!Retire, Kernels
<1>3. gone \in SUBSET Orders /\ left \in SUBSET Orders
  BY DEF History!Retirable
<1>4. \A o \in gone : k.order[o] \in History!Final /\ (o \in k.reported => o \in k.known)
  BY DEF History!Retirable
<1> HIDE DEF gone, left
<1>5. order \in [Orders -> {"absent", "active"} \union History!Final]
  BY <1>1 DEF Kernels
<1>6. \A o \in Orders : order[o] = IF o \in gone THEN "absent" ELSE k.order[o]
  OBVIOUS
<1> HIDE DEF order
<1>7. /\ a \in Kernels /\ a.lots = k.lots /\ a.known = k.known /\ a.retired = k.retired
      /\ a.reported = k.reported /\ a.order = order
  BY <1>1, <1>5 DEF Kernels
<1> HIDE DEF a
<1>8. /\ b \in Kernels /\ b.lots = k.lots /\ b.known = k.known \ gone /\ b.retired = k.retired
      /\ b.reported = k.reported /\ b.order = order
  BY <1>1, <1>7 DEF Kernels
<1> HIDE DEF b
<1>9. /\ c \in Kernels /\ c.lots = k.lots /\ c.known = k.known \ gone /\ c.retired = k.retired
      /\ c.reported = k.reported \ gone /\ c.order = order
  BY <1>1, <1>8 DEF Kernels
<1> HIDE DEF c
<1>10. /\ d \in Kernels /\ d.lots = k.lots /\ d.known = k.known \ gone /\ d.retired = k.retired \union gone
       /\ d.reported = k.reported \ gone /\ d.order = order
  BY <1>1, <1>3, <1>9 DEF Kernels
<1> HIDE DEF d, r
<1>11. /\ r \in Kernels /\ r.lots = k.lots /\ r.known = k.known \ gone /\ r.retired = k.retired \union gone
       /\ r.reported = k.reported \ gone /\ r.order = order
  BY <1>2, <1>3, <1>10 DEF Kernels
<1>12. UsedIn(r) = UsedIn(k)
  BY <1>3, <1>4, <1>6, <1>11 DEF UsedIn, History!Found, History!Final
<1>13. History!Active(r) = History!Active(k)
  BY <1>3, <1>4, <1>6, <1>11 DEF History!Active, History!Final
<1>14. KernelInv(r, ex, keys)
  <2>1. \A p \in r.reported : History!Found(r, p)
    BY <1>1, <1>6, <1>11 DEF KernelInv, History!Found, Kernels
  <2>2. \A p \in Orders : r.order[p] = "cancelled" => ex[p] = "cancelled"
    BY <1>6, <1>11 DEF KernelInv
  <2>3. \A p \in Orders : r.order[p] = "filled" => ex[p] = "filled" /\ p \in r.reported
    BY <1>6, <1>11 DEF KernelInv
  <2>4. \A p \in gone : ex[p] = "cancelled" \/ (ex[p] = "filled" /\ p \in keys)
    BY <1>3, <1>4 DEF KernelInv, History!Final
  <2>5. \A p \in r.retired : ex[p] = "cancelled" \/ (ex[p] = "filled" /\ p \in keys)
    BY <1>11, <2>4 DEF KernelInv
  <2>6. r.known \subseteq keys /\ \A p \in Orders : ex[p] # "none" => p \in UsedIn(r)
    BY <1>11, <1>12 DEF KernelInv
  <2> QED BY <1>11, <2>1, <2>2, <2>3, <2>5, <2>6 DEF KernelInv
<1> QED BY <1>11, <1>12, <1>13, <1>14 DEF Unseen, r

\* A kernel is read back as it was written, field by field.
LEMMA RestoredIsDumped ==
  ASSUME NEW k \in Kernels, \A o \in k.reported : History!Found(k, o)
  PROVE  History!Restored(History!Dumped(k)) = k
<1> DEFINE entries == {[id |-> o, status |-> k.order[o], filled |-> o \in k.reported] :
                          o \in {known \in Orders : History!Found(k, known)}}
           order == [o \in Orders |-> IF \E e \in entries : e.id = o
                                      THEN (CHOOSE e \in entries : e.id = o).status ELSE "absent"]
           reported == {e.id : e \in {x \in entries : x.filled}}
           d == History!Dumped(k)
<1>1. /\ d.trading_day = k.day /\ d.positions = k.lots /\ d.orders = entries /\ d.trade_keys = k.known
      /\ d.external = k.external /\ d.retire_candidates = k.candidates /\ d.retired_order_ids = k.retired
  BY DEF History!Dumped
<1>2. order = k.order
  <2>1. ASSUME NEW o \in Orders PROVE order[o] = k.order[o]
    <3>1. CASE History!Found(k, o)
      <4>1. \E e \in entries : e.id = o
        <5> DEFINE e == [id |-> o, status |-> k.order[o], filled |-> o \in k.reported]
        <5>1. e \in entries /\ e.id = o
          BY <3>1
        <5> HIDE DEF e, entries
        <5> QED BY <5>1
      <4>2. \A e \in entries : e.id = o => e.status = k.order[o]
        OBVIOUS
      <4>3. (CHOOSE e \in entries : e.id = o).status = k.order[o]
        <5> HIDE DEF entries
        <5> QED BY <4>1, <4>2
      <4> HIDE DEF entries
      <4> QED BY <4>1, <4>3
    <3>2. CASE ~History!Found(k, o)
      <4>1. ~\E e \in entries : e.id = o
        BY <3>2
      <4> HIDE DEF entries
      <4> QED BY <3>2, <4>1 DEF History!Found
    <3> QED BY <3>1, <3>2
  <2>2. k.order = [o \in Orders |-> k.order[o]]
    BY DEF Kernels
  <2>3. order = [o \in Orders |-> order[o]]
    OBVIOUS
  <2> HIDE DEF order
  <2> QED BY <2>1, <2>2, <2>3
<1>3. reported = k.reported
  <2>1. ASSUME NEW o \in k.reported PROVE o \in reported
    <3> DEFINE e == [id |-> o, status |-> k.order[o], filled |-> o \in k.reported]
    <3>1. o \in Orders /\ History!Found(k, o)
      BY DEF Kernels
    <3>2. e \in entries
      BY <3>1
    <3>3. e.filled /\ e.id = o
      OBVIOUS
    <3> HIDE DEF e, entries
    <3> QED BY <3>2, <3>3
  <2>2. ASSUME NEW o \in reported PROVE o \in k.reported
    <3>1. PICK e \in entries : e.filled /\ e.id = o
      <4> HIDE DEF entries
      <4> QED OBVIOUS
    <3>2. PICK p \in {known \in Orders : History!Found(k, known)} :
             e = [id |-> p, status |-> k.order[p], filled |-> p \in k.reported]
      BY <3>1
    <3>3. e.id = p /\ e.filled = (p \in k.reported)
      BY <3>2
    <3> HIDE DEF entries
    <3> QED BY <3>1, <3>3
  <2> HIDE DEF reported
  <2> QED BY <2>1, <2>2
<1> HIDE DEF entries, d
<1>4. History!Restored(d) = [History!NewKernel EXCEPT !.day = k.day, !.lots = k.lots, !.order = order, !.reported = reported,
                                      !.known = k.known, !.external = k.external,
                                      !.candidates = k.candidates, !.retired = k.retired]
  BY <1>1 DEF History!Restored
<1> HIDE DEF order, reported
<1>5. History!Restored(d) = [day |-> k.day, lots |-> k.lots, order |-> order, reported |-> reported, known |-> k.known,
                     retired |-> k.retired, candidates |-> k.candidates, external |-> k.external]
  BY <1>4 DEF History!NewKernel
<1>6. k = [day |-> k.day, lots |-> k.lots, order |-> k.order, reported |-> k.reported, known |-> k.known,
           retired |-> k.retired, candidates |-> k.candidates, external |-> k.external]
  BY DEF Kernels
<1> QED BY <1>2, <1>3, <1>5, <1>6 DEF d

-------------------------------------------------------------------------------
(* What is staged stands for what was reported *)

\* The fact is appended, or a checkpoint of the account after it takes the place of all.
LEMMA StagedAs ==
  ASSUME HistoryInv, NEW f \in Reportable, NEW compacts, NEW keys,
         KernelInv(History!Apply(account, f), exchange, keys)
  PROVE  LET s == History!Staged(journal, f, compacts)
             r == History!Apply(account, f) IN
         /\ s.through \in Nat /\ s.facts \in Seq(Reportable)
         /\ s.keys = IF f.kind = "trade" THEN journal.keys \union {f.of} ELSE journal.keys
         /\ DOMAIN s = {"through", "saved", "facts", "keys"}
         /\ \/ /\ s.through = journal.through /\ s.facts = Append(journal.facts, f)
               /\ History!Rebuilt(s) = r
            \/ /\ r.day > account.day /\ s.through # journal.through /\ s.facts = <<>>
               /\ History!Rebuilt(s) = History!Retire(r)
<1> DEFINE s == History!Staged(journal, f, compacts)
           r == History!Apply(account, f)
           told == IF f.kind = "trade" THEN journal.keys \union {f.of} ELSE journal.keys
           next == [journal EXCEPT !.keys = told]
<1>1. /\ journal.through \in Nat /\ journal.facts \in Seq(Reportable) /\ account = History!Rebuilt(journal)
      /\ DOMAIN journal = {"through", "saved", "facts", "keys"}
  BY DEF HistoryInv, JournalInv
<1>2. s = IF r.day > account.day /\ compacts THEN History!Compacted(next, r, f)
          ELSE [next EXCEPT !.facts = Append(next.facts, f)]
  BY <1>1 DEF History!Staged
<1>3. KernelInv(r, exchange, keys)
  OBVIOUS
<1> HIDE DEF r, told, s
<1>4. /\ next.through = journal.through /\ next.facts = journal.facts /\ next.saved = journal.saved
      /\ next.keys = told /\ DOMAIN next = {"through", "saved", "facts", "keys"}
  BY <1>1
<1> HIDE DEF next
<1>5. CASE r.day > account.day /\ compacts
  <2> DEFINE a == [next EXCEPT !.through = next.through + Len(next.facts) + 1]
             b == [a EXCEPT !.saved = History!Dumped(History!Retire(r))]
  <2>1. s = [b EXCEPT !.facts = <<>>]
    BY <1>2, <1>4, <1>5 DEF History!Compacted
  <2>2. /\ a.through = journal.through + Len(journal.facts) + 1 /\ a.keys = told
        /\ DOMAIN a = {"through", "saved", "facts", "keys"}
    BY <1>4
  <2> HIDE DEF a
  <2>3. /\ b.through = a.through /\ b.keys = told /\ b.saved = History!Dumped(History!Retire(r))
        /\ DOMAIN b = {"through", "saved", "facts", "keys"}
    BY <2>2
  <2> HIDE DEF b
  <2>4. /\ s.through = a.through /\ s.keys = told /\ s.saved = History!Dumped(History!Retire(r)) /\ s.facts = <<>>
        /\ DOMAIN s = {"through", "saved", "facts", "keys"}
    BY <2>1, <2>3
  <2>5. Len(journal.facts) \in Nat
    BY <1>1
  <2>6. s.through \in Nat /\ s.through # journal.through
    BY <1>1, <2>2, <2>4, <2>5
  <2>7. KernelInv(History!Retire(r), exchange, keys)
    BY <1>3, RetireStep
  <2>8. History!Restored(History!Dumped(History!Retire(r))) = History!Retire(r)
    BY <2>7, RestoredIsDumped DEF KernelInv
  <2>9. History!Rebuilt(s) = History!Retire(r)
    BY <2>4, <2>8, AppliedNone DEF History!Rebuilt
  <2>10. s.facts \in Seq(Reportable)
    BY <2>4
  <2> QED BY <1>5, <2>4, <2>6, <2>9, <2>10 DEF s, r, told
<1>6. CASE ~(r.day > account.day /\ compacts)
  <2>1. s = [next EXCEPT !.facts = Append(journal.facts, f)]
    BY <1>2, <1>4, <1>6
  <2>2. /\ s.through = journal.through /\ s.keys = told /\ s.saved = journal.saved
        /\ s.facts = Append(journal.facts, f) /\ DOMAIN s = {"through", "saved", "facts", "keys"}
    BY <1>4, <2>1
  <2>3. History!Rebuilt(s) = History!Apply(History!Rebuilt(journal), f)
    BY <1>1, <2>2, AppliedMore DEF History!Rebuilt
  <2>4. s.facts \in Seq(Reportable)
    BY <1>1, <2>2
  <2> QED BY <1>1, <2>2, <2>3, <2>4 DEF s, r, told
<1> QED BY <1>5, <1>6

\* A commit leaves the account as it was, or as the fact makes it, or that with its
\* finished orders retired.
LEMMA CommitStep ==
  ASSUME HistoryInv, NEW f \in Reportable, NEW outcome \in History!Outcomes, History!Commit(f, outcome), exchange' = exchange,
         NEW keys \in SUBSET Orders,
         keys = IF f.kind = "trade" THEN journal.keys \union {f.of} ELSE journal.keys,
         \A o \in keys : exchange[o] = "filled",
         KernelInv(History!Apply(account, f), exchange, keys),
         PlainStep(account, journal.keys, History!Apply(account, f), keys),
         \/ History!Apply(account, f).day = account.day
         \/ Unseen(account, journal.keys, History!Apply(account, f), keys)
  PROVE  HistoryInv' /\ PlainStep(account, journal.keys, account', journal'.keys)
<1> DEFINE r == History!Apply(account, f)
           s == History!Staged(journal, f, outcome # "refused")
<1>1. /\ service = "up" /\ account' = History!Rebuilt(journal') /\ UNCHANGED model
      /\ journal' = IF outcome = "lost" THEN journal ELSE s
      /\ service' = IF outcome \in {"done", "refused"} THEN "publishing" ELSE "down"
  BY DEF History!Commit
<1>2. KernelInv(account, exchange, journal.keys) /\ JournalInv /\ ExchangeInv /\ ModelInv
  BY DEF HistoryInv
<1>3. CASE outcome = "lost"
  <2>1. journal' = journal /\ account' = account /\ service' = "down"
    BY <1>1, <1>2, <1>3 DEF JournalInv
  <2>2. KernelInv(account, exchange, journal.keys)'
    BY <1>2, <2>1 DEF KernelInv, History!Found, UsedIn
  <2>3. JournalInv' /\ ExchangeInv'
    BY <1>1, <1>2, <2>1 DEF JournalInv, ExchangeInv
  <2>4. ModelInv'
    BY <2>1 DEF ModelInv
  <2>5. PlainStep(account, journal.keys, account', journal'.keys)
    BY <2>1 DEF PlainStep, Unseen
  <2> QED BY <2>2, <2>3, <2>4, <2>5 DEF HistoryInv
<1>4. CASE outcome # "lost"
  <2>1. /\ s.through \in Nat /\ s.facts \in Seq(Reportable)
        /\ s.keys = keys /\ DOMAIN s = {"through", "saved", "facts", "keys"}
        /\ \/ /\ s.through = journal.through /\ s.facts = Append(journal.facts, f)
              /\ History!Rebuilt(s) = r
           \/ /\ r.day > account.day /\ s.through # journal.through /\ s.facts = <<>>
              /\ History!Rebuilt(s) = History!Retire(r)
    BY StagedAs
  <2> HIDE DEF s
  <2>2. journal' = s
    BY <1>1, <1>4
  <2>3. KernelInv(r, exchange, keys) /\ PlainStep(account, journal.keys, r, keys)
    OBVIOUS
  <2>4. account.day \in Nat
    BY <1>2 DEF KernelInv, Kernels
  <2>5. r.day > account.day => Unseen(account, journal.keys, r, keys)
    BY <2>4
  <2> HIDE DEF r
  <2>6. KernelInv(History!Retire(r), exchange, keys) /\ Unseen(r, keys, History!Retire(r), keys)
    BY <2>3, RetireStep
  <2>7. KernelInv(account', exchange, keys) /\ PlainStep(account, journal.keys, account', keys)
    <3>1. CASE account' = r
      BY <2>3, <3>1
    <3>2. CASE r.day > account.day /\ account' = History!Retire(r)
      <4>1. Unseen(account, journal.keys, History!Retire(r), keys)
        BY <2>5, <2>6, <3>2 DEF Unseen
      <4> QED BY <2>6, <3>2, <4>1 DEF PlainStep
    <3> QED BY <1>1, <2>1, <2>2, <3>1, <3>2
  <2>8. KernelInv(account, exchange, journal.keys)'
    <3>1. exchange' = exchange /\ journal'.keys = keys
      BY <2>1, <2>2
    <3> QED BY <2>7, <3>1 DEF KernelInv, History!Found, UsedIn
  <2>9. JournalInv'
    BY <1>1, <2>1, <2>2 DEF JournalInv
  <2>10. ExchangeInv'
    BY <1>2, <2>1, <2>2 DEF ExchangeInv
  <2>11. ModelInv'
    <3>1. CASE service' = "down"
      BY <3>1 DEF ModelInv
    <3>2. CASE service' = "publishing"
      <4>1. /\ model # History!Nothing /\ model.through = journal.through
            /\ model.applied = Len(journal.facts) /\ model.kernel = account
        BY <1>1, <1>2 DEF ModelInv
      <4>2. CASE s.through # journal.through
        <5>1. History!MustRebuild'
          BY <1>1, <2>2, <4>1, <4>2 DEF History!MustRebuild
        <5> QED BY <3>2, <5>1 DEF ModelInv
      <4>3. CASE s.facts = Append(journal.facts, f) /\ History!Rebuilt(s) = r
        <5>1. journal.facts \in Seq(Reportable)
          BY <1>2 DEF JournalInv
        <5>2. Len(s.facts) = Len(journal.facts) + 1 /\ Len(journal.facts) \in Nat /\ s.facts[Len(s.facts)] = f
          BY <4>3, <5>1
        <5>3. account' = History!Apply(model.kernel, s.facts[Len(s.facts)])
          BY <1>1, <2>2, <4>1, <4>3, <5>2 DEF r
        <5>4. History!Apply(model.kernel, s.facts[Len(s.facts)])
                = History!Apply(model'.kernel, journal'.facts[Len(journal'.facts)])
          BY <1>1, <2>2
        <5> QED BY <1>1, <2>2, <3>2, <4>1, <5>2, <5>3, <5>4 DEF ModelInv
      <4> QED BY <2>1, <4>2, <4>3
    <3> QED BY <1>1, <3>1, <3>2
  <2> QED BY <2>1, <2>2, <2>7, <2>8, <2>9, <2>10, <2>11 DEF HistoryInv
<1> QED BY <1>3, <1>4

-------------------------------------------------------------------------------
(* The steps *)

LEMMA SubmitKeeps ==
  ASSUME HistoryInv, NEW o \in Orders, NEW outcome \in History!Outcomes, History!Submit(o, outcome)
  PROVE  HistoryInv' /\ PlainStep(account, journal.keys, account', journal'.keys)
<1> DEFINE f == [kind |-> "intent", of |-> o]
<1>1. f \in Reportable /\ f.kind # "trade"
  BY DEF Reportable
<1>2. /\ History!Commit(f, outcome) /\ exchange' = exchange /\ service = "up" /\ ~History!Taken(model.kernel, o)
  BY DEF History!Submit
<1>3. KernelInv(account, exchange, journal.keys) /\ model.kernel = account
  BY <1>2 DEF HistoryInv, ModelInv
<1>4. /\ KernelInv(History!Apply(account, f), exchange, journal.keys)
      /\ PlainStep(account, journal.keys, History!Apply(account, f), journal.keys)
      /\ History!Apply(account, f).day = account.day
  BY <1>2, <1>3, IntentStep
<1>5. journal.keys \in SUBSET Orders /\ \A p \in journal.keys : exchange[p] = "filled"
  BY DEF HistoryInv, JournalInv, ExchangeInv
<1> HIDE DEF f
<1> QED BY <1>1, <1>2, <1>4, <1>5, CommitStep

LEMMA OrderReportKeeps ==
  ASSUME HistoryInv, NEW o \in Orders, NEW outcome \in History!Outcomes, History!OrderReport(o, outcome)
  PROVE  HistoryInv' /\ PlainStep(account, journal.keys, account', journal'.keys)
<1> DEFINE f == [kind |-> "report", of |-> o, status |-> exchange[o]]
<1>1. exchange[o] \in History!Final /\ History!Commit(f, outcome) /\ exchange' = exchange
  BY DEF History!OrderReport
<1>2. f \in Reportable /\ f.kind # "trade"
  BY <1>1 DEF Reportable
<1>3. KernelInv(account, exchange, journal.keys)
  BY DEF HistoryInv
<1>4. /\ KernelInv(History!Apply(account, f), exchange, journal.keys)
      /\ PlainStep(account, journal.keys, History!Apply(account, f), journal.keys)
      /\ History!Apply(account, f).day = account.day
  BY <1>1, <1>3, ReportStep
<1>5. journal.keys \in SUBSET Orders /\ \A p \in journal.keys : exchange[p] = "filled"
  BY DEF HistoryInv, JournalInv, ExchangeInv
<1> HIDE DEF f
<1> QED BY <1>1, <1>2, <1>4, <1>5, CommitStep

LEMMA TradeReportKeeps ==
  ASSUME HistoryInv, NEW o \in Orders, NEW outcome \in History!Outcomes, History!TradeReport(o, outcome)
  PROVE  HistoryInv' /\ PlainStep(account, journal.keys, account', journal'.keys)
<1> DEFINE f == [kind |-> "trade", of |-> o]
           keys == journal.keys \union {o}
<1>1. exchange[o] = "filled" /\ o \notin journal.keys /\ History!Commit(f, outcome) /\ exchange' = exchange
  BY DEF History!TradeReport, History!Duplicate
<1>2. f \in Reportable /\ f.kind = "trade" /\ f.of = o
  BY DEF Reportable
<1>3. KernelInv(account, exchange, journal.keys)
  BY DEF HistoryInv
<1>4. /\ KernelInv(History!Apply(account, f), exchange, keys)
      /\ PlainStep(account, journal.keys, History!Apply(account, f), keys)
      /\ History!Apply(account, f).day = account.day
  BY <1>1, <1>3, TradeStep
<1>5. keys \in SUBSET Orders /\ \A p \in keys : exchange[p] = "filled"
  BY <1>1 DEF HistoryInv, JournalInv, ExchangeInv
<1>6. keys = IF f.kind = "trade" THEN journal.keys \union {f.of} ELSE journal.keys
  BY <1>2
<1> HIDE DEF f, keys
<1> QED BY <1>1, <1>2, <1>4, <1>5, <1>6, CommitStep

LEMMA EndDayKeeps ==
  ASSUME HistoryInv, NEW d \in Nat, NEW outcome \in History!Outcomes, History!EndDay(d, outcome)
  PROVE  HistoryInv' /\ PlainStep(account, journal.keys, account', journal'.keys)
<1> DEFINE f == [kind |-> "advance", of |-> d]
<1>1. History!Commit(f, outcome) /\ exchange' = exchange
  BY DEF History!EndDay
<1>2. f \in Reportable /\ f.kind # "trade"
  BY DEF Reportable
<1>3. KernelInv(account, exchange, journal.keys)
  BY DEF HistoryInv
<1>4. /\ KernelInv(History!Apply(account, f), exchange, journal.keys)
      /\ Unseen(account, journal.keys, History!Apply(account, f), journal.keys)
  BY <1>3, AdvanceStep
<1>5. PlainStep(account, journal.keys, History!Apply(account, f), journal.keys)
  BY <1>4 DEF PlainStep
<1>6. journal.keys \in SUBSET Orders /\ \A p \in journal.keys : exchange[p] = "filled"
  BY DEF HistoryInv, JournalInv, ExchangeInv
<1> HIDE DEF f
<1> QED BY <1>1, <1>2, <1>4, <1>5, <1>6, CommitStep

LEMMA ExchangeKeeps ==
  ASSUME HistoryInv, NEW o \in Orders, History!ExchangeStep(o)
  PROVE  HistoryInv' /\ UNCHANGED <<account, journal>>
<1>1. /\ UNCHANGED <<journal, account, model, service>> /\ exchange \in [Orders -> {"none", "working"} \union History!Final]
      /\ KernelInv(account, exchange, journal.keys) /\ \A p \in journal.keys : exchange[p] = "filled"
      /\ journal.keys \in SUBSET Orders
  BY DEF History!ExchangeStep, HistoryInv, ExchangeInv, JournalInv
<1>2. PICK end \in {"working"} \union History!Final :
         /\ exchange' = [exchange EXCEPT ![o] = end] /\ exchange[o] \in {"none", "working"}
         /\ exchange[o] = "none" => account.order[o] = "active"
  BY DEF History!ExchangeStep
<1>3. exchange' \in [Orders -> {"none", "working"} \union History!Final]
  BY <1>1, <1>2
<1>4. \A p \in Orders : p # o => exchange'[p] = exchange[p]
  BY <1>1, <1>2
<1>5. o \notin journal.keys
  BY <1>1, <1>2
<1>6. ExchangeInv'
  BY <1>1, <1>3, <1>4, <1>5 DEF ExchangeInv
<1>7. KernelInv(account, exchange, journal.keys)'
  <2>1. /\ account.order[o] # "cancelled" /\ account.order[o] # "filled" /\ o \notin account.retired
        /\ account.retired \subseteq Orders
    BY <1>1, <1>2 DEF KernelInv, History!Final, Kernels
  <2>2. o \in UsedIn(account)
    BY <1>1, <1>2 DEF KernelInv, UsedIn, History!Found
  <2>3. \A p \in Orders : account.order[p] = "cancelled" => exchange'[p] = "cancelled"
    BY <1>1, <1>4, <2>1 DEF KernelInv
  <2>4. \A p \in Orders : account.order[p] = "filled" => exchange'[p] = "filled" /\ p \in account.reported
    BY <1>1, <1>4, <2>1 DEF KernelInv
  <2>5. \A p \in Orders : exchange'[p] # "none" => p \in UsedIn(account)
    BY <1>1, <1>4, <2>2 DEF KernelInv
  <2>6. \A p \in account.retired : exchange'[p] = "cancelled" \/ (exchange'[p] = "filled" /\ p \in journal.keys)
    BY <1>1, <1>4, <2>1 DEF KernelInv
  <2>7. KernelInv(account, exchange', journal.keys)
    BY <1>1, <2>3, <2>4, <2>5, <2>6 DEF KernelInv
  <2> QED BY <1>1, <2>7 DEF KernelInv, History!Found, UsedIn
<1>8. JournalInv'
  BY <1>1 DEF HistoryInv, JournalInv
<1>9. ModelInv'
  BY <1>1 DEF HistoryInv, ModelInv, History!MustRebuild
<1> QED BY <1>1, <1>6, <1>7, <1>8, <1>9 DEF HistoryInv

\* What is published is what the journal stands for: all is built again, or the one
\* fact that is new is applied.
LEMMA PublishKeeps ==
  ASSUME HistoryInv, History!Publish
  PROVE  HistoryInv' /\ UNCHANGED <<account, journal>>
<1> DEFINE new == SubSeq(journal.facts, model.applied + 1, Len(journal.facts))
           kernel == IF History!MustRebuild THEN History!Rebuilt(journal) ELSE History!ApplyAll(model.kernel, new)
<1>1. /\ service = "publishing" /\ service' = "up" /\ UNCHANGED <<journal, account, exchange>>
      /\ model' = [kernel |-> kernel, through |-> journal.through, applied |-> Len(journal.facts)]
  BY DEF History!Publish
<1>2. /\ journal.facts \in Seq(Reportable) /\ account = History!Rebuilt(journal) /\ Len(journal.facts) \in Nat
  BY DEF HistoryInv, JournalInv
<1>3. kernel = account
  <2>1. CASE History!MustRebuild
    BY <1>2, <2>1
  <2>2. CASE ~History!MustRebuild /\ model.applied = Len(journal.facts) /\ model.kernel = account
    <3>1. new = <<>>
      BY <1>2, <2>2
    <3> HIDE DEF new
    <3> QED BY <2>2, <3>1, AppliedNone
  <2>3. CASE /\ ~History!MustRebuild /\ model.applied + 1 = Len(journal.facts) /\ model.applied \in Nat
             /\ account = History!Apply(model.kernel, journal.facts[Len(journal.facts)])
    <3> DEFINE f == journal.facts[Len(journal.facts)]
    <3>1. f \in Reportable
      BY <1>2, <2>3
    <3>2. new = Append(<<>>, f)
      <4> DEFINE stored == journal.facts
                 n == Len(journal.facts)
                 one == SubSeq(stored, n, n)
      <4>1. one = <<f>>
        <5>1. stored \in Seq(Reportable) /\ n \in 1..Len(stored)
          BY <1>2, <2>3
        <5>2. one \in Seq(Reportable) /\ Len(one) = 1 /\ one[1] = f
          <6>1. one \in Seq(Reportable)
            BY <5>1, SubSeqProperties
          <6>2. /\ Len(one) = n - n + 1 /\ \A i \in 1..(n - n + 1) : one[i] = stored[n + i - 1]
            BY <5>1, SubSeqProperties
          <6>3. n - n + 1 = 1 /\ n + 1 - 1 = n
            BY <5>1
          <6> HIDE DEF one, n, stored
          <6> QED BY <6>1, <6>2, <6>3 DEF n, stored
        <5> HIDE DEF one, f
        <5> QED BY <5>2
      <4>2. model.applied + 1 = Len(journal.facts)
        BY <2>3
      <4> HIDE DEF f
      <4> QED BY <4>1, <4>2
    <3>3. <<>> \in Seq(Reportable)
      OBVIOUS
    <3> HIDE DEF f, new
    <3>4. History!ApplyAll(model.kernel, new) = History!Apply(History!ApplyAll(model.kernel, <<>>), f)
      <4>1. \A list \in Seq(Reportable), g \in Reportable :
              History!ApplyAll(model.kernel, Append(list, g)) = History!Apply(History!ApplyAll(model.kernel, list), g)
        BY AppliedMore
      <4> QED BY <3>1, <3>2, <3>3, <4>1
    <3> QED BY <2>3, <3>4, AppliedNone DEF f
  <2> QED BY <1>1, <2>1, <2>2, <2>3 DEF HistoryInv, ModelInv
<1> HIDE DEF kernel
<1>4. model' # History!Nothing
  <2>1. DOMAIN model' = {"kernel", "through", "applied"} /\ DOMAIN History!Nothing = {"none"}
    BY <1>1 DEF History!Nothing
  <2> QED BY <2>1
<1>5. ModelInv'
  <2>1. model'.through = journal.through /\ model'.applied = Len(journal.facts) /\ model'.kernel = account
    BY <1>1, <1>3
  <2> QED BY <1>1, <1>4, <2>1 DEF ModelInv, History!Nothing
<1>6. JournalInv' /\ ExchangeInv'
  BY <1>1 DEF HistoryInv, JournalInv, ExchangeInv
<1>7. KernelInv(account, exchange, journal.keys)'
  BY <1>1 DEF HistoryInv, KernelInv, History!Found, UsedIn
<1> QED BY <1>1, <1>5, <1>6, <1>7 DEF HistoryInv

LEMMA DownKeeps ==
  ASSUME HistoryInv, History!Crash \/ History!Restart \/ UNCHANGED <<journal, account, model, service, exchange>>
  PROVE  HistoryInv' /\ UNCHANGED <<account, journal>>
<1>1. UNCHANGED <<journal, account, exchange>>
  BY DEF History!Crash, History!Restart
<1>2. JournalInv' /\ ExchangeInv'
  BY <1>1 DEF HistoryInv, JournalInv, ExchangeInv
<1>3. KernelInv(account, exchange, journal.keys)'
  BY <1>1 DEF HistoryInv, KernelInv, History!Found, UsedIn
<1>4. ModelInv'
  <2>1. CASE History!Crash
    BY <2>1 DEF History!Crash, ModelInv
  <2>2. CASE History!Restart
    BY <2>2 DEF History!Restart, ModelInv, History!MustRebuild
  <2>3. CASE UNCHANGED <<journal, account, model, service, exchange>>
    BY <2>3 DEF HistoryInv, ModelInv, History!MustRebuild
  <2> QED BY <2>1, <2>2, <2>3
<1> QED BY <1>1, <1>2, <1>3, <1>4 DEF HistoryInv

LEMMA HistoryKeeps ==
  ASSUME HistoryInv, [RestartNext]_restartVars
  PROVE  HistoryInv' /\ PlainStep(account, journal.keys, account', journal'.keys)
<1>1. CASE History!HistoryNext
  <2>1. ASSUME NEW o \in Orders, NEW outcome \in History!Outcomes \ {"refused"},
               History!Submit(o, outcome) \/ History!TradeReport(o, outcome) \/ History!OrderReport(o, outcome)
        PROVE  HistoryInv' /\ PlainStep(account, journal.keys, account', journal'.keys)
    BY <2>1, SubmitKeeps, TradeReportKeeps, OrderReportKeeps
  <2>2. ASSUME NEW d \in 1..LastDay, NEW outcome \in History!Outcomes, History!EndDay(d, outcome)
        PROVE  HistoryInv' /\ PlainStep(account, journal.keys, account', journal'.keys)
    <3>1. d \in Nat
      BY <2>2 DEF History!EndDay
    <3> QED BY <2>2, <3>1, EndDayKeeps
  <2>3. ASSUME (\E o \in Orders : History!ExchangeStep(o)) \/ History!Publish \/ History!Crash \/ History!Restart
        PROVE  HistoryInv' /\ PlainStep(account, journal.keys, account', journal'.keys)
    <3>1. HistoryInv' /\ UNCHANGED <<account, journal>>
      BY <2>3, ExchangeKeeps, PublishKeeps, DownKeeps
    <3> QED BY <3>1 DEF PlainStep, Unseen
  <2> QED BY <1>1, <2>1, <2>2, <2>3 DEF History!HistoryNext
<1>2. CASE UNCHANGED historyVars
  <2>1. UNCHANGED <<journal, account, model, service, exchange>>
    BY <1>2 DEF historyVars
  <2>2. HistoryInv' /\ UNCHANGED <<account, journal>>
    BY <2>1, DownKeeps
  <2> QED BY <2>2 DEF PlainStep, Unseen
<1> QED BY <1>1, <1>2 DEF RestartNext, restartVars, Strategy, References, Reconciliation, Commits

LEMMA HistoryBegins == ASSUME RestartInit PROVE HistoryInv
<1>1. /\ journal = [through |-> 0, saved |-> History!Dumped(History!NewKernel), facts |-> <<>>, keys |-> {}]
      /\ account = History!NewKernel /\ service = "up"
      /\ model = [kernel |-> History!NewKernel, through |-> 0, applied |-> 0]
      /\ exchange = [o \in Orders |-> "none"]
  BY DEF RestartInit, History!HistoryInit
<1>2. /\ journal.through = 0 /\ journal.facts = <<>> /\ journal.keys = {} /\ journal.saved = History!Dumped(History!NewKernel)
      /\ DOMAIN journal = {"through", "saved", "facts", "keys"}
  BY <1>1
<1>3. History!NewKernel \in Kernels /\ History!NewKernel.reported = {} /\ History!NewKernel.retired = {} /\ History!NewKernel.known = {}
      /\ \A o \in Orders : History!NewKernel.order[o] = "absent"
  BY DEF History!NewKernel, Kernels
<1>4. KernelInv(account, exchange, journal.keys)
  BY <1>1, <1>2, <1>3 DEF KernelInv
<1>5. JournalInv
  <2>1. History!Restored(History!Dumped(History!NewKernel)) = History!NewKernel
    BY <1>3, RestoredIsDumped
  <2>2. History!Rebuilt(journal) = History!NewKernel
    BY <1>2, <2>1, AppliedNone DEF History!Rebuilt
  <2> QED BY <1>1, <1>2, <2>2 DEF JournalInv
<1>6. ExchangeInv
  BY <1>1, <1>2 DEF ExchangeInv
<1>7. ModelInv
  <2>1. model.kernel = account /\ model.through = 0 /\ model.applied = 0
    BY <1>1
  <2>2. model # History!Nothing
    <3>1. DOMAIN model = {"kernel", "through", "applied"} /\ DOMAIN History!Nothing = {"none"}
      BY <1>1 DEF History!Nothing
    <3> QED BY <3>1
  <2>3. Len(journal.facts) = 0
    BY <1>2
  <2> QED BY <1>1, <1>2, <2>1, <2>2, <2>3 DEF ModelInv
<1> QED BY <1>4, <1>5, <1>6, <1>7 DEF HistoryInv

-------------------------------------------------------------------------------
(* Theorems of the history *)

\* Through commits that fail, are refused or only seem to fail, checkpoints, crashes and restarts, the
\* journal stands for the account, and the account in memory is the journal's or one fact behind.
THEOREM HistoryCorrect == RestartSpec => []HistoryInv
<1>1. RestartInit => HistoryInv
  BY HistoryBegins
<1>2. HistoryInv /\ [RestartNext]_restartVars => HistoryInv'
  BY HistoryKeeps
<1> QED BY <1>1, <1>2, PTL DEF RestartSpec

\* What the service shows after any failures is what a process that starts now would build, and an order
\* that a checkpoint retires is finished and its trade is booked (retire_history).
THEOREM AlwaysDurable == RestartSpec => []HistoryIsDurable
<1>1. HistoryInv => HistoryIsDurable
  BY DEF HistoryInv, KernelInv, ModelInv, HistoryIsDurable, History!HistoryIsDurable, History!PublishedIsDurable,
         History!RetiredIsFinished
<1> QED BY <1>1, HistoryCorrect, PTL

\* Checkpoints, retirement, rebuilding and repeated reports are steps that a reader of the account cannot
\* tell: a name is used once, a trade counts once, and what has ended stays ended.
THEOREM PlainImplemented == RestartSpec => ImplementsPlain
<1> DEFINE used == UsedIn(account)
           active == History!Active(account)
<1>1. RestartInit => History!Plain!PlainInit
  <2> SUFFICES ASSUME RestartInit PROVE History!Plain!PlainInit
    OBVIOUS
  <2>1. account = History!NewKernel /\ journal.keys = {}
    BY DEF RestartInit, History!HistoryInit
  <2>2. account.lots = 0 /\ account.retired = {} /\ \A o \in Orders : account.order[o] = "absent"
    BY <2>1 DEF History!NewKernel
  <2> QED BY <2>1, <2>2 DEF History!Plain!PlainInit, History!Active, History!Found
<1>2. HistoryInv /\ [RestartNext]_restartVars => [History!Plain!PlainNext]_History!Plain!plainVars
  <2> SUFFICES ASSUME HistoryInv, [RestartNext]_restartVars
               PROVE  [History!Plain!PlainNext]_History!Plain!plainVars
    OBVIOUS
  <2>1. PlainStep(account, journal.keys, account', journal'.keys)
    BY HistoryKeeps
  <2>2. CASE Unseen(account, journal.keys, account', journal'.keys)
    BY <2>2 DEF Unseen, UsedIn, History!Active, History!Found, History!Plain!plainVars
  <2>3. ASSUME NEW o \in Orders, o \notin UsedIn(account), UsedIn(account') = UsedIn(account) \union {o},
               History!Active(account') = History!Active(account) \union {o}, account'.lots = account.lots,
               journal'.keys = journal.keys
        PROVE  History!Plain!PlainNext
    BY <2>3 DEF UsedIn, History!Active, History!Found, History!Plain!PlainNext, History!Plain!Use
  <2>4. ASSUME NEW o \in Orders, o \in UsedIn(account) \ journal.keys, journal'.keys = journal.keys \union {o},
               account'.lots = account.lots + 1, UsedIn(account') = UsedIn(account),
               History!Active(account') \in {History!Active(account), History!Active(account) \ {o}}
        PROVE  History!Plain!PlainNext
    BY <2>4 DEF UsedIn, History!Active, History!Found, History!Plain!PlainNext, History!Plain!Book
  <2>5. ASSUME NEW o \in Orders, o \in History!Active(account), History!Active(account') = History!Active(account) \ {o},
               UsedIn(account') = UsedIn(account), account'.lots = account.lots, journal'.keys = journal.keys
        PROVE  History!Plain!PlainNext
    BY <2>5 DEF UsedIn, History!Active, History!Found, History!Plain!PlainNext, History!Plain!End
  <2> QED BY <2>1, <2>2, <2>3, <2>4, <2>5 DEF PlainStep
<1> QED BY <1>1, <1>2, HistoryCorrect, PTL
        DEF RestartSpec, ImplementsPlain, History!ImplementsPlain, History!Plain!PlainSpec

-------------------------------------------------------------------------------
(* Recovery: what the answers sum up to *)

Weight(p) == [o \in Deals |-> IF TradeOf[o].product = p THEN TradeOf[o].lots ELSE 0]
Worth == [o \in Deals |-> TradeOf[o].cash]

LEMMA LotsTotal ==
  ASSUME NEW p, NEW S \in SUBSET Deals
  PROVE  Recover!LotsOf(p, S) = Total(Weight(p), S)
<1> DEFINE next(s) == CHOOSE x \in s : TRUE
           term(s) == IF TradeOf[next(s)].product = p THEN TradeOf[next(s)].lots ELSE 0
           Is(t) == t = [s \in SUBSET S |-> IF s = {} THEN 0 ELSE term(s) + t[s \ {next(s)}]]
           u == CHOOSE t : Is(t)
<1>1. IsFiniteSet(S)
  BY RestartAssumption, FS_Subset
<1>2. PICK t : Totals(t, Weight(p), S)
  BY <1>1, TotalsExist
<1>3. ASSUME NEW s \in SUBSET S, s # {} PROVE term(s) = Weight(p)[next(s)]
  BY <1>3 DEF Weight
<1>4. Is(t)
  BY <1>2, <1>3 DEF Totals
<1>5. Is(u)
  BY <1>4
<1>6. Recover!LotsOf(p, S) = u[S]
  BY DEF Recover!LotsOf, Recover!MapThenSumSet, Recover!MapThenFoldSet
<1> HIDE DEF u
<1>7. Totals(u, Weight(p), S)
  BY <1>3, <1>5 DEF Totals
<1> QED BY <1>1, <1>6, <1>7, TotalIs

LEMMA CashTotal ==
  ASSUME NEW S \in SUBSET Deals
  PROVE  Recover!CashOf(S) = Total(Worth, S)
<1> DEFINE next(s) == CHOOSE x \in s : TRUE
           term(s) == TradeOf[next(s)].cash
           Is(t) == t = [s \in SUBSET S |-> IF s = {} THEN 0 ELSE term(s) + t[s \ {next(s)}]]
           u == CHOOSE t : Is(t)
<1>1. IsFiniteSet(S)
  BY RestartAssumption, FS_Subset
<1>2. PICK t : Totals(t, Worth, S)
  BY <1>1, TotalsExist
<1>3. ASSUME NEW s \in SUBSET S, s # {} PROVE term(s) = Worth[next(s)]
  BY <1>3 DEF Worth
<1>4. Is(t)
  BY <1>2, <1>3 DEF Totals
<1>5. Is(u)
  BY <1>4
<1>6. Recover!CashOf(S) = u[S]
  BY DEF Recover!CashOf, Recover!MapThenSumSet, Recover!MapThenFoldSet
<1> HIDE DEF u
<1>7. Totals(u, Worth, S)
  BY <1>3, <1>5 DEF Totals
<1> QED BY <1>1, <1>6, <1>7, TotalIs

LEMMA Weights ==
  ASSUME NEW p
  PROVE  \A o \in Deals : Weight(p)[o] \in Int /\ Worth[o] \in Int
BY RestartAssumption DEF Weight, Worth

\* The lots that an answer names for a product are the lots of the trades it was made of.
Remote(p, records) == MapThenSumSet(LAMBDA r : IF r[1] = p THEN r[2] ELSE 0, records)
PositionsOf(S) == {<<q, Recover!LotsOf(q, S)>> : q \in {q \in Products : Recover!LotsOf(q, S) # 0}}

LEMMA RemoteTotal ==
  ASSUME NEW S \in SUBSET Deals, NEW p \in Products
  PROVE  Remote(p, PositionsOf(S)) = Recover!LotsOf(p, S)
<1> DEFINE R == PositionsOf(S)
           g == [r \in R |-> IF r[1] = p THEN r[2] ELSE 0]
           next(s) == CHOOSE x \in s : TRUE
           term(s) == IF next(s)[1] = p THEN next(s)[2] ELSE 0
           Is(t) == t = [s \in SUBSET R |-> IF s = {} THEN 0 ELSE term(s) + t[s \ {next(s)}]]
           u == CHOOSE t : Is(t)
<1>1. IsFiniteSet(R)
  <2> DEFINE named == {q \in Products : Recover!LotsOf(q, S) # 0}
             f == [q \in named |-> <<q, Recover!LotsOf(q, S)>>]
  <2>1. IsFiniteSet(named)
    BY RestartAssumption, FS_Subset
  <2>2. R = {f[q] : q \in named}
    BY DEF PositionsOf
  <2>3. f \in Surjection(named, R)
    BY <2>2 DEF Surjection
  <2> HIDE DEF f, named, R
  <2> QED BY <2>1, <2>3, FS_Surjection
<1>2. PICK t : Totals(t, g, R)
  BY <1>1, TotalsExist
<1>3. ASSUME NEW s \in SUBSET R, s # {} PROVE term(s) = g[next(s)]
  <2>1. next(s) \in R
    BY <1>3
  <2> HIDE DEF R, next
  <2> QED BY <2>1
<1>4. Is(t)
  <2> HIDE DEF g, R, term
  <2> QED BY <1>2, <1>3 DEF Totals
<1>5. Is(u)
  <2> HIDE DEF Is
  <2> QED BY <1>4
<1>6. Remote(p, R) = u[R]
  BY DEF Remote, MapThenSumSet, MapThenFoldSet
<1>7. Totals(u, g, R)
  <2> HIDE DEF u, g, R, term
  <2> QED BY <1>3, <1>5, ZenonT(40) DEF Totals
<1>8. Remote(p, R) = Total(g, R)
  <2> HIDE DEF u, g, R
  <2> QED BY <1>1, <1>6, <1>7, TotalIs
<1> DEFINE lots == Recover!LotsOf(p, S)
           T == IF lots # 0 THEN {<<p, lots>>} ELSE {}
<1>9. lots \in Int
  <2>1. IsFiniteSet(S) /\ \A o \in S : Weight(p)[o] \in Int
    BY RestartAssumption, Weights, FS_Subset
  <2> QED BY <2>1, LotsTotal, TotalType
<1>10. /\ T \in SUBSET R
       /\ \A r \in T : r = <<p, lots>> /\ g[r] = lots
       /\ \A r \in R \ T : g[r] = 0
  <2>1. \A r \in R : r[1] = p => r = <<p, lots>> /\ lots # 0
    BY DEF PositionsOf
  <2>2. lots # 0 => <<p, lots>> \in R
    BY DEF PositionsOf
  <2> HIDE DEF R, lots
  <2>3. T \in SUBSET R
    BY <2>2
  <2>4. \A r \in R : g[r] = IF r[1] = p THEN r[2] ELSE 0
    OBVIOUS
  <2>5. \A r \in T : r = <<p, lots>> /\ r \in R
    BY <2>3
  <2>6. \A r \in R \ T : r[1] # p
    BY <2>1
  <2> HIDE DEF g, T
  <2> QED BY <2>3, <2>4, <2>5, <2>6
<1> HIDE DEF g, R, T, lots
<1>11. Total(g, R) = Total(g, T)
  BY <1>1, <1>9, <1>10, TotalOfPart
<1>12. Total(g, T) = lots
  <2>1. CASE lots = 0
    BY <2>1, TotalEmpty DEF T
  <2>2. CASE lots # 0
    <3> DEFINE r == <<p, lots>>
    <3>1. T = {} \union {r} /\ r \notin {} /\ IsFiniteSet({}) /\ g[r] = lots /\ r \in T
      BY <2>2, <1>10, FS_EmptySet DEF T
    <3>2. \A y \in {} \union {r} : g[y] \in Int
      BY <1>9, <3>1
    <3> HIDE DEF r
    <3>3. Total(g, {} \union {r}) = g[r] + Total(g, {})
      BY <3>1, <3>2, TotalWith
    <3> QED BY <1>9, <3>1, <3>3, TotalEmpty
  <2> QED BY <2>1, <2>2
<1> QED BY <1>8, <1>11, <1>12 DEF R, lots

-------------------------------------------------------------------------------
(* Recovery: the invariant *)

Waiting == calls \union heard
Traded == Recover!TradedAt(counter)
MissedTrades == {o \in Traded \ booked : <<o, "trade">> \notin Waiting}

RecoveryTyped ==
    /\ counter \in [Deals -> {"none", "working", "traded", "cancelled"}]
    /\ own \in [Deals -> {"absent", "unsent", "unknown", "confirmed", "done"}]
    /\ before \subseteq booked /\ booked \subseteq Traded
    /\ Waiting \subseteq Deals \X {"order", "trade"}
    /\ query \in 1..4 /\ (enabled <=> doing = "run") /\ (enabled => diffs = {})

\* A trade that is told was made, and an order that was not sent is not there.
CounterInv ==
    /\ \A o \in Deals : <<o, "trade">> \in Waiting => o \in Traded
    /\ \A o \in Deals : own[o] = "unsent" => counter[o] = "none"
    /\ online => \A o \in Deals :
           <<o, "order">> \in Waiting /\ o \in Traded \ booked /\ own[o] # "done" => <<o, "trade">> \in Waiting

\* What each of the four answers shows, then and for as long as the session lasts.
OrdersAgree ==
    \A o \in Deals :
        /\ own[o] = "absent" => counter[o] # "working"
        /\ own[o] \in {"unknown", "confirmed"} =>
               counter[o] = "working" \/ <<o, "order">> \in Waiting \/ <<o, "trade">> \in Waiting
TradesAgree == \A o \in Deals : own[o] = "absent" => counter[o] # "traded"
PositionsAgree ==
    \E made \in SUBSET (Traded \ (MissedTrades \union before)) :
        \A p \in Products : Recover!LotsOf(p, MissedTrades \union made) = 0
FundsAgree ==
    \E made \in SUBSET (Traded \ (MissedTrades \union before)) : Recover!CashOf(MissedTrades \union made) = 0

\* Records without a difference show what their query asks.
Shows(q, records) ==
    /\ q = 1 /\ Recover!OrderDiffs(records) = {} => OrdersAgree
    /\ q = 2 /\ Recover!TradeDiffs(records) = {} => TradesAgree
    /\ q = 3 /\ Recover!PositionDiffs(records) = {} => PositionsAgree
    /\ q = 4 /\ Recover!FundsDiffs(records) = {} => FundsAgree

Passed(q) == q < query \/ doing \in {"mark", "enable", "run"}

\* Requests and answers are of the present query or of former ones, and the
\* present query has one request, or one answer in as many parts as there are.
AnswersInv ==
    /\ \A q \in asked : q \in 1..query /\ (doing = "ask" => q # query)
    /\ \A a \in answers : /\ a = [to |-> a.to, records |-> a.records, ok |-> a.ok]
                          /\ a.to \in 1..query /\ (doing = "ask" => a.to # query)
    /\ doing = "wait" =>
           /\ query \in asked => got = {} /\ \A a \in answers : a.to # query
           /\ \A a, b \in answers : a.to = query /\ b.to = query => a = b

ShownInv ==
    online /\ diffs = {} =>
        /\ Passed(1) => OrdersAgree
        /\ Passed(2) => TradesAgree
        /\ Passed(3) => PositionsAgree
        /\ Passed(4) => FundsAgree
        /\ doing = "wait" => \A a \in answers : a.to = query /\ a.ok => Shows(query, got \union a.records)
        /\ doing = "merge" => Shows(query, got)

RecoveryInv == RecoveryTyped /\ CounterInv /\ AnswersInv /\ ShownInv

-------------------------------------------------------------------------------
(* Recovery: what an answer shows *)

LEMMA KindsAre == Recover!Kinds[1] = "orders" /\ Recover!Kinds[2] = "trades" /\ Recover!Kinds[3] = "positions"
                  /\ Recover!Kinds[4] = "funds" /\ Len(Recover!Kinds) = 4
BY DEF Recover!Kinds

LEMMA TotalsOfTrades ==
  ASSUME NEW S \in SUBSET Deals, NEW T \in SUBSET Deals, S \intersect T = {}, NEW p
  PROVE  /\ Recover!LotsOf(p, S) \in Int /\ Recover!CashOf(S) \in Int
         /\ Recover!LotsOf(p, S \union T) = Recover!LotsOf(p, S) + Recover!LotsOf(p, T)
         /\ Recover!CashOf(S \union T) = Recover!CashOf(S) + Recover!CashOf(T)
<1>1. IsFiniteSet(S) /\ IsFiniteSet(T) /\ S \union T \in SUBSET Deals
  BY RestartAssumption, FS_Subset
<1>2. \A o \in S \union T : Weight(p)[o] \in Int /\ Worth[o] \in Int
  BY Weights
<1>3. /\ Total(Weight(p), S) \in Int /\ Total(Worth, S) \in Int
      /\ Total(Weight(p), S \union T) = Total(Weight(p), S) + Total(Weight(p), T)
      /\ Total(Worth, S \union T) = Total(Worth, S) + Total(Worth, T)
  BY <1>1, <1>2, TotalType, TotalDisjoint
<1> QED BY <1>1, <1>3, LotsTotal, CashTotal

\* The trades that were made are booked, missed or told.
LEMMA MadeTrades ==
  ASSUME RecoveryTyped
  PROVE  LET made == Traded \ (MissedTrades \union booked) IN
         /\ made \in SUBSET (Traded \ (MissedTrades \union before))
         /\ Traded = booked \union (MissedTrades \union made)
         /\ booked \intersect (MissedTrades \union made) = {}
         /\ booked \in SUBSET Deals /\ MissedTrades \union made \in SUBSET Deals /\ Traded \in SUBSET Deals
BY DEF RecoveryTyped, Traded, MissedTrades, Recover!TradedAt

LEMMA AnswerShows ==
  ASSUME RecoveryTyped, NEW q \in 1..4
  PROVE  Shows(q, Recover!Records(q))
<1> DEFINE made == Traded \ (MissedTrades \union booked)
           gone == MissedTrades \union made
<1>1. /\ made \in SUBSET (Traded \ (MissedTrades \union before))
      /\ Traded = booked \union gone /\ booked \intersect gone = {}
      /\ booked \in SUBSET Deals /\ gone \in SUBSET Deals /\ Traded \in SUBSET Deals
  BY MadeTrades
<1>2. CASE q = 1
  <2>1. Recover!Records(q) = {o \in Deals : counter[o] = "working"}
    BY <1>2, KindsAre DEF Recover!Records
  <2>2. ASSUME Recover!OrderDiffs(Recover!Records(q)) = {} PROVE OrdersAgree
    BY <2>1, <2>2 DEF Recover!OrderDiffs, Recover!Active, OrdersAgree
  <2> QED BY <1>2, <2>2 DEF Shows
<1>3. CASE q = 2
  <2>1. Recover!Records(q) = Traded
    BY <1>3, KindsAre DEF Recover!Records, Traded
  <2>2. ASSUME Recover!TradeDiffs(Recover!Records(q)) = {} PROVE TradesAgree
    BY <2>1, <2>2 DEF Recover!TradeDiffs, TradesAgree, Traded, Recover!TradedAt
  <2> QED BY <1>3, <2>2 DEF Shows
<1>4. CASE q = 3
  <2>1. Recover!Records(q) = PositionsOf(Traded)
    BY <1>4, KindsAre DEF Recover!Records, PositionsOf, Traded
  <2>2. ASSUME Recover!PositionDiffs(Recover!Records(q)) = {} PROVE PositionsAgree
    <3>1. ASSUME NEW p \in Products PROVE Recover!LotsOf(p, gone) = 0
      <4>1. Remote(p, Recover!Records(q)) = Recover!LotsOf(p, booked)
        BY <2>2, <3>1 DEF Recover!PositionDiffs, Remote, Recover!MapThenSumSet, MapThenSumSet,
           Recover!MapThenFoldSet, MapThenFoldSet
      <4>2. Recover!LotsOf(p, Traded) = Recover!LotsOf(p, booked)
        <5>1. Remote(p, PositionsOf(Traded)) = Recover!LotsOf(p, Traded)
          BY <1>1, RemoteTotal
        <5> QED BY <2>1, <4>1, <5>1
      <4> HIDE DEF gone
      <4>3. Recover!LotsOf(p, booked \union gone) = Recover!LotsOf(p, booked) + Recover!LotsOf(p, gone)
        BY <1>1, TotalsOfTrades, ZenonT(40)
      <4>4. Recover!LotsOf(p, booked) \in Int /\ Recover!LotsOf(p, gone) \in Int
        <5>1. booked \in SUBSET Deals /\ gone \in SUBSET Deals /\ {} \in SUBSET Deals
          BY <1>1
        <5>2. booked \intersect {} = {} /\ gone \intersect {} = {}
          OBVIOUS
        <5> QED BY <5>1, <5>2, TotalsOfTrades
      <4>5. Recover!LotsOf(p, Traded) = Recover!LotsOf(p, booked \union gone)
        BY <1>1
      <4> QED BY <4>2, <4>3, <4>4, <4>5
    <3> HIDE DEF made
    <3> QED BY <1>1, <3>1 DEF PositionsAgree
  <2> QED BY <1>4, <2>2 DEF Shows
<1>5. CASE q = 4
  <2>1. Recover!Records(q) = {Recover!CashOf(Traded)}
    BY <1>5, KindsAre DEF Recover!Records, Traded
  <2>2. ASSUME Recover!FundsDiffs(Recover!Records(q)) = {} PROVE FundsAgree
    <3>1. Recover!CashOf(Traded) = Recover!CashOf(booked)
      <4> DEFINE mine == Recover!CashOf(booked)
                 theirs == Recover!CashOf(Traded)
      <4>1. {theirs} = {mine}
        BY <2>1, <2>2 DEF Recover!FundsDiffs
      <4> HIDE DEF mine, theirs
      <4>2. theirs = mine
        BY <4>1
      <4> QED BY <4>2 DEF mine, theirs
    <3> HIDE DEF gone
    <3>2. Recover!CashOf(booked \union gone) = Recover!CashOf(booked) + Recover!CashOf(gone)
      BY <1>1, TotalsOfTrades
    <3>3. Recover!CashOf(booked) \in Int /\ Recover!CashOf(gone) \in Int
      <4>1. booked \in SUBSET Deals /\ gone \in SUBSET Deals /\ {} \in SUBSET Deals
        BY <1>1
      <4>2. booked \intersect {} = {} /\ gone \intersect {} = {}
        OBVIOUS
      <4> QED BY <4>1, <4>2, TotalsOfTrades
    <3>4. Recover!CashOf(Traded) = Recover!CashOf(booked \union gone)
      BY <1>1
    <3>5. Recover!CashOf(gone) = 0
      BY <3>1, <3>2, <3>3, <3>4
    <3> HIDE DEF made
    <3> QED BY <1>1, <3>5 DEF FundsAgree, gone
  <2> QED BY <1>5, <2>2 DEF Shows
<1> QED BY <1>2, <1>3, <1>4, <1>5

-------------------------------------------------------------------------------
(* Recovery: what is shown stays true while the session lasts *)

\* While the account does nothing, orders arrive, end and are told.
Moves ==
    /\ own' = own /\ booked' = booked /\ before' = before /\ Waiting \subseteq Waiting'
    /\ \A o \in Deals : counter'[o] # counter[o] =>
           \/ counter[o] = "none" /\ own[o] = "unknown" /\ counter'[o] = "working"
           \/ counter[o] = "working" /\ counter'[o] \in {"traded", "cancelled"} /\ <<o, "order">> \in Waiting'
    /\ \A o \in Deals :
           <<o, "trade">> \in Waiting' \ Waiting <=> counter[o] = "working" /\ counter'[o] = "traded"
    /\ \A o \in Deals : <<o, "order">> \in Waiting' \ Waiting => counter'[o] # counter[o]

LEMMA MovesKeep ==
  ASSUME RecoveryTyped, CounterInv, Moves, counter' \in [Deals -> {"none", "working", "traded", "cancelled"}]
  PROVE  /\ MissedTrades' = MissedTrades /\ Traded \subseteq Traded'
         /\ OrdersAgree => OrdersAgree'
         /\ OrdersAgree /\ TradesAgree => TradesAgree'
         /\ PositionsAgree => PositionsAgree'
         /\ FundsAgree => FundsAgree'
         /\ \A q \in 1..4 : \A records : (q > 1 => OrdersAgree) /\ Shows(q, records) => Shows(q, records)'
<1>1. \A o \in Deals : o \in Traded <=> counter[o] = "traded"
  BY DEF Traded, Recover!TradedAt
<1>2. \A o \in Deals : o \in Traded' <=> counter'[o] = "traded"
  BY DEF Traded, Recover!TradedAt
<1>3. Traded \subseteq Deals /\ Traded' \subseteq Deals
  BY DEF Traded, Recover!TradedAt
<1>4. Traded \subseteq Traded'
  BY <1>1, <1>2, <1>3 DEF Moves
<1>5. MissedTrades' = MissedTrades
  <2>1. MissedTrades' = {o \in Traded' \ booked' : <<o, "trade">> \notin Waiting'}
    BY DEF MissedTrades
  <2>2. \A o \in Deals : o \in MissedTrades' <=> counter'[o] = "traded" /\ o \notin booked /\ <<o, "trade">> \notin Waiting'
    BY <1>2, <1>3, <2>1 DEF Moves
  <2>3. \A o \in Deals : o \in MissedTrades <=> counter[o] = "traded" /\ o \notin booked /\ <<o, "trade">> \notin Waiting
    BY <1>1, <1>3 DEF MissedTrades
  <2>4. MissedTrades \subseteq Deals /\ MissedTrades' \subseteq Deals
    BY <1>3, <2>1 DEF MissedTrades
  <2>5. \A o \in Deals : o \in MissedTrades' <=> o \in MissedTrades
    BY <2>2, <2>3 DEF Moves
  <2> QED BY <2>4, <2>5
<1>6. OrdersAgree => OrdersAgree'
  BY DEF OrdersAgree, Moves
<1>7. OrdersAgree /\ TradesAgree => TradesAgree'
  BY DEF OrdersAgree, TradesAgree, Moves
<1>8. Traded \ (MissedTrades \union before) \subseteq (Traded \ (MissedTrades \union before))'
  BY <1>4, <1>5 DEF Moves
<1>9. PositionsAgree => PositionsAgree'
  BY <1>5, <1>8 DEF PositionsAgree
<1>10. FundsAgree => FundsAgree'
  BY <1>5, <1>8 DEF FundsAgree
<1>11. \A records : /\ Recover!OrderDiffs(records)' = Recover!OrderDiffs(records)
                    /\ Recover!TradeDiffs(records)' = Recover!TradeDiffs(records)
                    /\ Recover!FundsDiffs(records)' = Recover!FundsDiffs(records)
  BY DEF Moves, Recover!OrderDiffs, Recover!TradeDiffs, Recover!FundsDiffs, Recover!Active
<1>12. \A records : Recover!PositionDiffs(records)' = Recover!PositionDiffs(records)
  BY DEF Moves, Recover!PositionDiffs, Recover!MapThenSumSet, Recover!MapThenFoldSet, Recover!LotsOf
<1>13. ASSUME NEW q \in 1..4, NEW records, q > 1 => OrdersAgree, Shows(q, records) PROVE Shows(q, records)'
  BY <1>6, <1>7, <1>9, <1>10, <1>11, <1>12, <1>13 DEF Shows
<1> QED BY <1>4, <1>5, <1>6, <1>7, <1>9, <1>10, <1>13

LEMMA MovesCounted ==
  ASSUME RecoveryTyped, CounterInv, Moves, counter' \in [Deals -> {"none", "working", "traded", "cancelled"}],
         online' => online
  PROVE  CounterInv'
<1>1. \A o \in Deals : o \in Traded <=> counter[o] = "traded"
  BY DEF Traded, Recover!TradedAt
<1>2. \A o \in Deals : o \in Traded' <=> counter'[o] = "traded"
  BY DEF Traded, Recover!TradedAt
<1>3. \A o \in Deals : o \in Traded => o \in Traded'
  BY <1>1, <1>2 DEF Moves
<1>4. \A o \in Deals : <<o, "trade">> \in Waiting' => o \in Traded'
  BY <1>2, <1>3 DEF CounterInv, Moves
<1>5. \A o \in Deals : own'[o] = "unsent" => counter'[o] = "none"
  BY DEF CounterInv, Moves
<1>6. ASSUME online', NEW o \in Deals, <<o, "order">> \in Waiting', o \in Traded' \ booked', own'[o] # "done"
      PROVE  <<o, "trade">> \in Waiting'
  <2>1. CASE counter'[o] = counter[o]
    <3>1. <<o, "order">> \in Waiting /\ o \in Traded \ booked /\ own[o] # "done"
      BY <1>1, <1>2, <1>6, <2>1 DEF Moves
    <3> QED BY <1>6, <3>1 DEF CounterInv, Moves
  <2>2. CASE counter'[o] # counter[o]
    BY <1>2, <1>6, <2>2 DEF Moves
  <2> QED BY <2>1, <2>2
<1> QED BY <1>4, <1>5, <1>6 DEF CounterInv

\* What was shown stays so, when no session is gained and no difference forgotten.
LEMMA MovesShow ==
  ASSUME RecoveryInv, Moves, counter' \in [Deals -> {"none", "working", "traded", "cancelled"}],
         online' => online, diffs' = {} => diffs = {}, online', diffs' = {}
  PROVE  /\ Passed(1) => OrdersAgree'
         /\ Passed(2) => TradesAgree'
         /\ Passed(3) => PositionsAgree'
         /\ Passed(4) => FundsAgree'
         /\ \A q \in 1..4 : \A records : q = query /\ Shows(q, records) => Shows(q, records)'
<1>1. RecoveryTyped /\ CounterInv /\ ShownInv /\ online /\ diffs = {} /\ query \in 1..4
  BY DEF RecoveryInv, RecoveryTyped
<1>2. /\ OrdersAgree => OrdersAgree'
      /\ OrdersAgree /\ TradesAgree => TradesAgree'
      /\ PositionsAgree => PositionsAgree'
      /\ FundsAgree => FundsAgree'
      /\ \A q \in 1..4 : \A records : (q > 1 => OrdersAgree) /\ Shows(q, records) => Shows(q, records)'
  BY <1>1, MovesKeep
<1>3. (Passed(2) => Passed(1)) /\ (query > 1 => Passed(1))
  BY <1>1 DEF Passed
<1>4. /\ Passed(1) => OrdersAgree
      /\ Passed(2) => TradesAgree
      /\ Passed(3) => PositionsAgree
      /\ Passed(4) => FundsAgree
  BY <1>1 DEF ShownInv
<1>5. query > 1 => OrdersAgree
  BY <1>3, <1>4
<1>6. \A q \in 1..4 : \A records : q = query /\ Shows(q, records) => Shows(q, records)'
  BY <1>1, <1>2, <1>5
<1> QED BY <1>2, <1>3, <1>4, <1>6

-------------------------------------------------------------------------------
(* Recovery: the steps *)

\* Nothing happens outside.
LEMMA StillMoves ==
  ASSUME UNCHANGED <<counter, own, booked, before, calls, heard>>
  PROVE  Moves
BY DEF Moves, Waiting

\* The counter moves and its callbacks come, and the main thread does nothing.
LEMMA OutsideKeeps ==
  ASSUME RecoveryInv, Moves, counter' \in [Deals -> {"none", "working", "traded", "cancelled"}],
         Waiting' \subseteq Deals \X {"order", "trade"},
         UNCHANGED <<online, doing, query, asked, answers, got, diffs, enabled>>
  PROVE  RecoveryInv'
<1>1. RecoveryTyped /\ CounterInv /\ AnswersInv /\ ShownInv
  BY DEF RecoveryInv
<1>2. Traded \subseteq Traded'
  BY <1>1, MovesKeep
<1>3. RecoveryTyped'
  BY <1>1, <1>2 DEF RecoveryTyped, Moves
<1>4. CounterInv'
  BY <1>1, MovesCounted
<1>5. AnswersInv'
  BY <1>1 DEF AnswersInv
<1>6. ShownInv'
  <2> SUFFICES ASSUME online', diffs' = {}
               PROVE  ShownInv'
    BY DEF ShownInv
  <2>1. /\ Passed(1) => OrdersAgree'
        /\ Passed(2) => TradesAgree'
        /\ Passed(3) => PositionsAgree'
        /\ Passed(4) => FundsAgree'
        /\ \A q \in 1..4 : \A records : q = query /\ Shows(q, records) => Shows(q, records)'
    BY MovesShow
  <2>2. /\ Passed(1)' <=> Passed(1)
        /\ Passed(2)' <=> Passed(2)
        /\ Passed(3)' <=> Passed(3)
        /\ Passed(4)' <=> Passed(4)
    BY DEF Passed
  <2>3. query \in 1..4 /\ query' = query /\ got' = got /\ answers' = answers /\ doing' = doing
    BY <1>1 DEF RecoveryTyped
  <2>4. doing = "wait" => \A a \in answers : a.to = query /\ a.ok => Shows(query, got \union a.records)
    BY <1>1 DEF ShownInv
  <2>5. doing = "merge" => Shows(query, got)
    BY <1>1 DEF ShownInv
  <2>6. doing' = "wait" => \A a \in answers' : a.to = query' /\ a.ok => Shows(query, got \union a.records)'
    BY <2>1, <2>3, <2>4
  <2>7. doing' = "merge" => Shows(query, got)'
    BY <2>1, <2>3, <2>5
  <2> QED BY <2>1, <2>2, <2>6, <2>7 DEF ShownInv
<1> QED BY <1>3, <1>4, <1>5, <1>6 DEF RecoveryInv

LEMMA CounterKeeps ==
  ASSUME RecoveryInv, NEW o \in Deals,
         Recover!OrderArrives(o) \/ \E end \in {"traded", "cancelled"} : Recover!OrderEnds(o, end)
  PROVE  RecoveryInv'
<1>1. PICK next \in {"working", "traded", "cancelled"} :
         /\ counter' = [counter EXCEPT ![o] = next]
         /\ \/ next = "working" /\ counter[o] = "none" /\ own[o] = "unknown" /\ calls' = calls \union {<<o, "order">>}
            \/ /\ next # "working" /\ counter[o] = "working"
               /\ calls' = calls \union (IF next = "traded" THEN {<<o, "order">>, <<o, "trade">>} ELSE {<<o, "order">>})
         /\ UNCHANGED <<own, booked, before, heard, online, doing, query, asked, answers, got, diffs, enabled>>
  BY DEF Recover!OrderArrives, Recover!OrderEnds, Recover!outsideVars
<1>2. /\ counter \in [Deals -> {"none", "working", "traded", "cancelled"}]
      /\ Waiting \subseteq Deals \X {"order", "trade"}
      /\ \A p \in Deals : <<p, "trade">> \in Waiting => counter[p] = "traded"
  BY DEF RecoveryInv, RecoveryTyped, CounterInv, Traded, Recover!TradedAt
<1>3. counter' \in [Deals -> {"none", "working", "traded", "cancelled"}]
  BY <1>1, <1>2
<1>4. Waiting' = Waiting \union (IF next = "traded" THEN {<<o, "order">>, <<o, "trade">>} ELSE {<<o, "order">>})
  BY <1>1 DEF Waiting
<1>5. Waiting' \subseteq Deals \X {"order", "trade"}
  BY <1>2, <1>4
<1>6. \A p \in Deals : counter'[p] = IF p = o THEN next ELSE counter[p]
  BY <1>1, <1>2
<1>7. Moves
  <2>1. \A p \in Deals : <<p, "trade">> \in Waiting' \ Waiting => p = o /\ next = "traded"
    BY <1>4
  <2>2. next = "traded" => <<o, "trade">> \in Waiting' /\ <<o, "trade">> \notin Waiting /\ counter[o] = "working"
    BY <1>1, <1>2, <1>4
  <2>3. \A p \in Deals : <<p, "order">> \in Waiting' \ Waiting => p = o
    BY <1>4
  <2>4. next # counter[o] /\ <<o, "order">> \in Waiting' /\ Waiting \subseteq Waiting'
    BY <1>1, <1>4
  <2>5. \A p \in Deals : counter'[p] # counter[p] =>
           \/ counter[p] = "none" /\ own[p] = "unknown" /\ counter'[p] = "working"
           \/ counter[p] = "working" /\ counter'[p] \in {"traded", "cancelled"} /\ <<p, "order">> \in Waiting'
    BY <1>1, <1>6, <2>4
  <2>6. \A p \in Deals :
           <<p, "trade">> \in Waiting' \ Waiting <=> counter[p] = "working" /\ counter'[p] = "traded"
    BY <1>6, <2>1, <2>2
  <2>7. \A p \in Deals : <<p, "order">> \in Waiting' \ Waiting => counter'[p] # counter[p]
    BY <1>6, <2>3, <2>4
  <2> QED BY <1>1, <2>4, <2>5, <2>6, <2>7 DEF Moves
<1> QED BY <1>1, <1>3, <1>5, <1>7, OutsideKeeps

LEMMA CallbackKeeps ==
  ASSUME RecoveryInv, NEW c \in calls, Recover!Callback(c)
  PROVE  RecoveryInv'
<1>1. /\ calls' = calls \ {c} /\ heard' = heard \union {c}
      /\ UNCHANGED <<counter, own, booked, before, online, doing, query, asked, answers, got, diffs, enabled>>
  BY DEF Recover!Callback, Recover!outsideVars
<1>2. Waiting' = Waiting
  BY <1>1 DEF Waiting
<1>3. RecoveryTyped
  BY DEF RecoveryInv
<1>4. counter' \in [Deals -> {"none", "working", "traded", "cancelled"}] /\ Waiting' \subseteq Deals \X {"order", "trade"}
  BY <1>1, <1>2, <1>3 DEF RecoveryTyped
<1>5. Moves
  BY <1>1, <1>2 DEF Moves
<1> QED BY <1>1, <1>4, <1>5, OutsideKeeps

LEMMA LostKeeps ==
  ASSUME RecoveryInv, Recover!SessionLost
  PROVE  RecoveryInv'
<1>1. /\ online' = FALSE /\ calls' = {} /\ asked' = {} /\ answers' = {}
      /\ UNCHANGED <<counter, own, booked, before, heard, doing, query, got, diffs, enabled>>
  BY DEF Recover!SessionLost, Recover!outsideVars
<1>2. RecoveryTyped /\ CounterInv
  BY DEF RecoveryInv
<1>3. Waiting' \subseteq Waiting /\ Traded' = Traded
  BY <1>1 DEF Waiting, Traded
<1>4. RecoveryTyped'
  BY <1>1, <1>2, <1>3 DEF RecoveryTyped
<1>5. CounterInv'
  BY <1>1, <1>2, <1>3 DEF CounterInv
<1>6. AnswersInv' /\ ShownInv'
  BY <1>1 DEF AnswersInv, ShownInv
<1> QED BY <1>4, <1>5, <1>6 DEF RecoveryInv


\* The main thread, or an answer: nothing happens to the orders.
LEMMA StillKeeps ==
  ASSUME RecoveryInv, UNCHANGED <<counter, own, booked, before, calls, heard, online>>
  PROVE  /\ Moves /\ CounterInv' /\ Traded' = Traded /\ Waiting' = Waiting
         /\ counter' \in [Deals -> {"none", "working", "traded", "cancelled"}]
<1>1. RecoveryTyped /\ CounterInv
  BY DEF RecoveryInv
<1>2. Moves
  BY StillMoves
<1>3. counter' \in [Deals -> {"none", "working", "traded", "cancelled"}]
  BY <1>1 DEF RecoveryTyped
<1>4. CounterInv'
  BY <1>1, <1>2, <1>3, MovesCounted
<1> QED BY <1>1, <1>2, <1>3, <1>4 DEF Traded, Waiting

LEMMA AnswerKeeps ==
  ASSUME RecoveryInv, NEW q \in asked, NEW ok \in BOOLEAN, Recover!Answer(q, ok)
  PROVE  RecoveryInv'
<1> DEFINE new == [to |-> q, records |-> IF ok THEN Recover!Records(q) ELSE {}, ok |-> ok]
<1>1. /\ asked' = asked \ {q} /\ answers' = answers \union {new}
      /\ UNCHANGED <<counter, own, booked, before, calls, heard, online, doing, query, got, diffs, enabled>>
  BY DEF Recover!Answer, Recover!outsideVars
<1>2. new.to = q /\ new.ok = ok /\ new = [to |-> new.to, records |-> new.records, ok |-> new.ok]
      /\ (ok => new.records = Recover!Records(q))
  OBVIOUS
<1> HIDE DEF new
<1>3. RecoveryTyped /\ AnswersInv /\ ShownInv
  BY DEF RecoveryInv
<1>4. Moves /\ CounterInv' /\ Traded' = Traded /\ Waiting' = Waiting
      /\ counter' \in [Deals -> {"none", "working", "traded", "cancelled"}]
  BY <1>1, <1>3, StillKeeps
<1>5. RecoveryTyped'
  BY <1>1, <1>3, <1>4 DEF RecoveryTyped
<1>6. AnswersInv'
  <2>1. \A p \in asked' : p \in 1..query' /\ (doing' = "ask" => p # query')
    BY <1>1, <1>3 DEF AnswersInv
  <2>2. \A a \in answers' : /\ a = [to |-> a.to, records |-> a.records, ok |-> a.ok]
                            /\ a.to \in 1..query' /\ (doing' = "ask" => a.to # query')
    <3> SUFFICES ASSUME NEW a \in answers'
                 PROVE  /\ a = [to |-> a.to, records |-> a.records, ok |-> a.ok]
                        /\ a.to \in 1..query' /\ (doing' = "ask" => a.to # query')
      OBVIOUS
    <3>1. CASE a \in answers
      BY <1>1, <1>3, <3>1 DEF AnswersInv
    <3>2. CASE a = new
      BY <1>1, <1>2, <1>3, <3>2 DEF AnswersInv
    <3> QED BY <1>1, <3>1, <3>2
  <2>3. ASSUME doing' = "wait"
        PROVE  /\ query' \in asked' => got' = {} /\ \A a \in answers' : a.to # query'
               /\ \A a, b \in answers' : a.to = query' /\ b.to = query' => a = b
    <3>1. /\ query \in asked => got = {} /\ \A a \in answers : a.to # query
          /\ \A a, b \in answers : a.to = query /\ b.to = query => a = b
      BY <1>1, <1>3, <2>3 DEF AnswersInv
    <3> QED BY <1>1, <1>2, <3>1
  <2> QED BY <2>1, <2>2, <2>3 DEF AnswersInv
<1>7. ShownInv'
  <2> SUFFICES ASSUME online', diffs' = {}
               PROVE  ShownInv'
    BY DEF ShownInv
  <2>1. /\ Passed(1) => OrdersAgree'
        /\ Passed(2) => TradesAgree'
        /\ Passed(3) => PositionsAgree'
        /\ Passed(4) => FundsAgree'
        /\ \A k \in 1..4 : \A records : k = query /\ Shows(k, records) => Shows(k, records)'
    BY <1>1, <1>4, MovesShow
  <2>2. /\ Passed(1)' <=> Passed(1)
        /\ Passed(2)' <=> Passed(2)
        /\ Passed(3)' <=> Passed(3)
        /\ Passed(4)' <=> Passed(4)
    BY <1>1 DEF Passed
  <2>3. query \in 1..4 /\ query' = query /\ got' = got /\ doing' = doing /\ online /\ diffs = {}
    BY <1>1, <1>3 DEF RecoveryTyped
  <2>4. doing = "wait" => \A a \in answers : a.to = query /\ a.ok => Shows(query, got \union a.records)
    BY <1>3, <2>3 DEF ShownInv
  <2>5. doing = "merge" => Shows(query, got)
    BY <1>3, <2>3 DEF ShownInv
  <2>6. doing = "wait" /\ new.to = query /\ new.ok => Shows(query, got \union new.records)
    <3> SUFFICES ASSUME doing = "wait", new.to = query, new.ok
                 PROVE  Shows(query, got \union new.records)
      OBVIOUS
    <3>1. q = query /\ got = {} /\ new.records = Recover!Records(query)
      BY <1>2, <1>3 DEF AnswersInv
    <3>2. Shows(query, Recover!Records(query))
      BY <1>3, <2>3, AnswerShows
    <3>3. got \union new.records = Recover!Records(query)
      BY <3>1
    <3> QED BY <3>2, <3>3
  <2>7. doing' = "wait" => \A a \in answers' : a.to = query' /\ a.ok => Shows(query, got \union a.records)'
    BY <1>1, <2>1, <2>3, <2>4, <2>6
  <2>8. doing' = "merge" => Shows(query, got)'
    BY <2>1, <2>3, <2>5
  <2> QED BY <2>1, <2>2, <2>7, <2>8 DEF ShownInv
<1> QED BY <1>4, <1>5, <1>6, <1>7 DEF RecoveryInv

LEMMA ResponseKeeps ==
  ASSUME RecoveryInv, NEW a \in answers, NEW records \in SUBSET a.records, Recover!QueryResponse(a, records)
  PROVE  RecoveryInv'
<1> DEFINE rest == a.records \ records
           mine == doing = "wait" /\ a.to = query
           left == [a EXCEPT !.records = rest]
<1>1. /\ answers' = (answers \ {a}) \union (IF rest = {} THEN {} ELSE {left})
      /\ got' = (IF mine THEN got \union records ELSE got)
      /\ diffs' = (IF mine /\ ~a.ok THEN diffs \union {"query"} ELSE diffs)
      /\ doing' = (IF mine /\ rest = {} THEN "merge" ELSE doing)
      /\ UNCHANGED <<counter, own, booked, before, calls, heard, online, query, asked, enabled>>
  BY DEF Recover!QueryResponse, Recover!LastOf, Recover!counterVars
<1>2. RecoveryTyped /\ AnswersInv /\ ShownInv
  BY DEF RecoveryInv
<1>3. left.to = a.to /\ left.ok = a.ok /\ left.records = rest
      /\ left = [to |-> left.to, records |-> left.records, ok |-> left.ok]
  <2>1. a = [to |-> a.to, records |-> a.records, ok |-> a.ok]
    BY <1>2 DEF AnswersInv
  <2> QED BY <2>1
<1>4. rest \subseteq a.records /\ records \union rest = a.records
  OBVIOUS
<1> HIDE DEF left, rest
<1>5. Moves /\ CounterInv' /\ Traded' = Traded /\ Waiting' = Waiting
      /\ counter' \in [Deals -> {"none", "working", "traded", "cancelled"}]
  BY <1>1, <1>2, StillKeeps
<1>6. RecoveryTyped'
  BY <1>1, <1>2, <1>5 DEF RecoveryTyped
<1>7. AnswersInv'
  <2>1. \A q \in asked' : q \in 1..query' /\ (doing' = "ask" => q # query')
    BY <1>1, <1>2 DEF AnswersInv
  <2>2. \A b \in answers' : /\ b = [to |-> b.to, records |-> b.records, ok |-> b.ok]
                            /\ b.to \in 1..query' /\ (doing' = "ask" => b.to # query')
    <3> SUFFICES ASSUME NEW b \in answers'
                 PROVE  /\ b = [to |-> b.to, records |-> b.records, ok |-> b.ok]
                        /\ b.to \in 1..query' /\ (doing' = "ask" => b.to # query')
      OBVIOUS
    <3>1. CASE b \in answers
      BY <1>1, <1>2, <3>1 DEF AnswersInv
    <3>2. CASE b = left
      BY <1>1, <1>2, <1>3, <3>2 DEF AnswersInv
    <3> QED BY <1>1, <3>1, <3>2
  <2>3. ASSUME doing' = "wait"
        PROVE  /\ query' \in asked' => got' = {} /\ \A b \in answers' : b.to # query'
               /\ \A b, c \in answers' : b.to = query' /\ c.to = query' => b = c
    <3>1. /\ query \in asked => got = {} /\ \A b \in answers : b.to # query
          /\ \A b, c \in answers : b.to = query /\ c.to = query => b = c
      BY <1>1, <1>2, <2>3 DEF AnswersInv
    <3>2. \A b \in answers' : b \in answers \ {a} \/ b = left
      BY <1>1
    <3>3. query' \in asked' => got' = {} /\ \A b \in answers' : b.to # query'
      BY <1>1, <1>3, <3>1, <3>2
    <3>4. \A b, c \in answers' : b.to = query' /\ c.to = query' => b = c
      BY <1>1, <1>3, <3>1, <3>2
    <3> QED BY <3>3, <3>4
  <2> QED BY <2>1, <2>2, <2>3 DEF AnswersInv
<1>8. ShownInv'
  <2> SUFFICES ASSUME online', diffs' = {}
               PROVE  ShownInv'
    BY DEF ShownInv
  <2>1. diffs = {} /\ diffs' = diffs /\ (mine => a.ok)
    BY <1>1
  <2>2. /\ Passed(1) => OrdersAgree'
        /\ Passed(2) => TradesAgree'
        /\ Passed(3) => PositionsAgree'
        /\ Passed(4) => FundsAgree'
        /\ \A k \in 1..4 : \A R : k = query /\ Shows(k, R) => Shows(k, R)'
    BY <1>1, <1>5, <2>1, MovesShow
  <2>3. /\ Passed(1)' <=> Passed(1)
        /\ Passed(2)' <=> Passed(2)
        /\ Passed(3)' <=> Passed(3)
        /\ Passed(4)' <=> Passed(4)
    BY <1>1 DEF Passed
  <2>4. query \in 1..4 /\ query' = query /\ online
    BY <1>1, <1>2 DEF RecoveryTyped
  <2>5. doing = "wait" => \A b \in answers : b.to = query /\ b.ok => Shows(query, got \union b.records)
    BY <1>2, <2>1, <2>4 DEF ShownInv
  <2>6. doing = "merge" => Shows(query, got)
    BY <1>2, <2>1, <2>4 DEF ShownInv
  <2>7. ASSUME doing' = "wait", NEW b \in answers', b.to = query', b.ok PROVE Shows(query, got \union b.records)'
    <3>1. doing = "wait"
      BY <1>1, <2>7
    <3>2. CASE mine
      <4>1. \A c \in answers : c.to = query => c = a
        BY <1>2, <3>2 DEF AnswersInv
      <4>2. b = left
        BY <1>1, <2>4, <2>7, <4>1
      <4>3. got' \union b.records = got \union a.records
        BY <1>1, <1>3, <1>4, <3>2, <4>2
      <4>4. Shows(query, got \union a.records)
        BY <2>1, <2>5, <3>2
      <4>5. \A R : R = got \union a.records => Shows(query, R)'
        BY <2>2, <2>4, <4>4
      <4> QED BY <4>3, <4>5
    <3>3. CASE ~mine
      <4>1. b \in answers /\ got' = got
        BY <1>1, <1>3, <2>4, <2>7, <3>1, <3>3
      <4> QED BY <2>2, <2>4, <2>5, <2>7, <3>1, <4>1
    <3> QED BY <3>2, <3>3
  <2>8. ASSUME doing' = "merge" PROVE Shows(query, got)'
    <3>1. CASE mine
      <4>1. rest = {} /\ got' = got \union a.records
        BY <1>1, <1>4, <2>8, <3>1
      <4> QED BY <2>1, <2>2, <2>4, <2>5, <3>1, <4>1
    <3>2. CASE ~mine
      BY <1>1, <2>2, <2>4, <2>6, <2>8, <3>2
    <3> QED BY <3>1, <3>2
  <2> QED BY <2>2, <2>3, <2>7, <2>8 DEF ShownInv
<1> QED BY <1>5, <1>6, <1>7, <1>8 DEF RecoveryInv

LEMMA AskKeeps ==
  ASSUME RecoveryInv, NEW sent \in BOOLEAN, Recover!Ask(sent)
  PROVE  RecoveryInv'
<1>1. /\ doing = "ask" /\ got' = {}
      /\ \/ doing' = "wait" /\ asked' = asked \union {query} /\ diffs' = diffs
         \/ doing' = "merge" /\ diffs' = diffs \union {"query"} /\ asked' = asked
      /\ UNCHANGED <<counter, own, booked, before, calls, heard, online, query, answers, enabled>>
  BY DEF Recover!Ask, Recover!counterVars
<1>2. RecoveryTyped /\ AnswersInv /\ ShownInv
  BY DEF RecoveryInv
<1>3. Moves /\ CounterInv' /\ Traded' = Traded /\ Waiting' = Waiting
      /\ counter' \in [Deals -> {"none", "working", "traded", "cancelled"}]
  BY <1>1, <1>2, StillKeeps
<1>4. RecoveryTyped'
  BY <1>1, <1>2, <1>3 DEF RecoveryTyped
<1>5. AnswersInv'
  BY <1>1, <1>2 DEF AnswersInv, RecoveryTyped
<1>6. ShownInv'
  <2> SUFFICES ASSUME online', diffs' = {}
               PROVE  ShownInv'
    BY DEF ShownInv
  <2>1. doing' = "wait" /\ diffs = {}
    BY <1>1
  <2>2. /\ Passed(1) => OrdersAgree'
        /\ Passed(2) => TradesAgree'
        /\ Passed(3) => PositionsAgree'
        /\ Passed(4) => FundsAgree'
    BY <1>1, <1>3, <2>1, MovesShow
  <2>3. /\ Passed(1)' <=> Passed(1)
        /\ Passed(2)' <=> Passed(2)
        /\ Passed(3)' <=> Passed(3)
        /\ Passed(4)' <=> Passed(4)
    BY <1>1, <2>1 DEF Passed
  <2>4. \A a \in answers' : a.to # query'
    BY <1>1, <1>2 DEF AnswersInv
  <2> QED BY <2>1, <2>2, <2>3, <2>4 DEF ShownInv
<1> QED BY <1>3, <1>4, <1>5, <1>6 DEF RecoveryInv

LEMMA GiveUpKeeps ==
  ASSUME RecoveryInv, Recover!GiveUp
  PROVE  RecoveryInv'
<1>1. /\ doing = "wait" /\ doing' = "merge" /\ diffs' # {}
      /\ UNCHANGED <<counter, own, booked, before, calls, heard, online, query, asked, answers, enabled>>
  BY DEF Recover!GiveUp, Recover!Incomplete, Recover!counterVars
<1>2. RecoveryTyped /\ AnswersInv
  BY DEF RecoveryInv
<1>3. CounterInv' /\ Traded' = Traded /\ Waiting' = Waiting
  BY <1>1, <1>2, StillKeeps
<1>4. RecoveryTyped'
  BY <1>1, <1>2, <1>3 DEF RecoveryTyped
<1>5. AnswersInv' /\ ShownInv'
  BY <1>1, <1>2 DEF AnswersInv, ShownInv
<1> QED BY <1>3, <1>4, <1>5 DEF RecoveryInv

LEMMA MergeKeeps ==
  ASSUME RecoveryInv, Recover!Merge
  PROVE  RecoveryInv'
<1>1. PICK result \in Recover!Converted(got) :
         diffs' = diffs \union result.bad \union
                    CASE Recover!Kinds[query] = "orders"    -> Recover!OrderDiffs(result.records)
                      [] Recover!Kinds[query] = "trades"    -> Recover!TradeDiffs(result.records)
                      [] Recover!Kinds[query] = "positions" -> Recover!PositionDiffs(result.records)
                      [] Recover!Kinds[query] = "funds"     -> Recover!FundsDiffs(result.records)
  BY DEF Recover!Merge
<1>2. /\ doing = "merge"
      /\ \/ query < 4 /\ query' = query + 1 /\ doing' = "ask"
         \/ ~(query < 4) /\ query' = query /\ doing' = "mark"
      /\ UNCHANGED <<counter, own, booked, before, calls, heard, online, asked, answers, got, enabled>>
  BY KindsAre DEF Recover!Merge, Recover!counterVars
<1>3. RecoveryTyped /\ AnswersInv /\ ShownInv /\ query \in 1..4
  BY DEF RecoveryInv, RecoveryTyped
<1>4. Moves /\ CounterInv' /\ Traded' = Traded /\ Waiting' = Waiting
      /\ counter' \in [Deals -> {"none", "working", "traded", "cancelled"}]
  BY <1>2, <1>3, StillKeeps
<1>5. RecoveryTyped'
  <2>1. ~enabled /\ ~enabled' /\ doing' # "run" /\ query' \in 1..4
    BY <1>2, <1>3 DEF RecoveryTyped
  <2> QED BY <1>2, <1>3, <1>4, <2>1 DEF RecoveryTyped
<1>6. AnswersInv'
  <2>1. 1..query \subseteq 1..query' /\ (doing' = "ask" => query' \notin 1..query)
    BY <1>2, <1>3
  <2> QED BY <1>2, <1>3, <2>1 DEF AnswersInv
<1>7. ShownInv'
  <2> SUFFICES ASSUME online', diffs' = {}
               PROVE  ShownInv'
    BY DEF ShownInv
  <2>1. diffs = {} /\ result.bad = {} /\ online
    BY <1>1, <1>2
  <2>2. result.records = got
    BY <2>1 DEF Recover!Converted
  <2>3. /\ query = 1 => Recover!OrderDiffs(got) = {}
        /\ query = 2 => Recover!TradeDiffs(got) = {}
        /\ query = 3 => Recover!PositionDiffs(got) = {}
        /\ query = 4 => Recover!FundsDiffs(got) = {}
    BY <1>1, <2>2, KindsAre
  <2>4. Shows(query, got)
    BY <1>2, <1>3, <2>1 DEF ShownInv
  <2>5. /\ query = 1 => OrdersAgree
        /\ query = 2 => TradesAgree
        /\ query = 3 => PositionsAgree
        /\ query = 4 => FundsAgree
    BY <2>3, <2>4 DEF Shows
  <2>6. /\ Passed(1) => OrdersAgree
        /\ Passed(2) => TradesAgree
        /\ Passed(3) => PositionsAgree
        /\ Passed(4) => FundsAgree
    BY <1>3, <2>1 DEF ShownInv
  <2>7. /\ Passed(1)' => Passed(1) \/ query = 1
        /\ Passed(2)' => Passed(2) \/ query = 2
        /\ Passed(3)' => Passed(3) \/ query = 3
        /\ Passed(4)' => Passed(4) \/ query = 4
    BY <1>2, <1>3 DEF Passed
  <2>8. /\ OrdersAgree => OrdersAgree'
        /\ OrdersAgree /\ TradesAgree => TradesAgree'
        /\ PositionsAgree => PositionsAgree'
        /\ FundsAgree => FundsAgree'
    BY <1>3, <1>4, MovesKeep DEF RecoveryInv
  <2>9. Passed(2)' => Passed(1) \/ query = 1
    BY <1>2, <1>3 DEF Passed
  <2> QED BY <1>2, <2>5, <2>6, <2>7, <2>8, <2>9 DEF ShownInv
<1> QED BY <1>4, <1>5, <1>6, <1>7 DEF RecoveryInv

LEMMA EndKeeps ==
  ASSUME RecoveryInv, Recover!MarkReconciled \/ Recover!Enable
  PROVE  RecoveryInv'
<1>1. /\ \/ doing = "mark" /\ doing' \in {"enable", "stopped"} /\ enabled' = enabled
         \/ /\ doing = "enable" /\ enabled' = (diffs = {} /\ heard = {})
            /\ doing' = IF enabled' THEN "run" ELSE "stopped"
      /\ UNCHANGED <<counter, own, booked, before, calls, heard, online, query, asked, answers, got, diffs>>
  BY DEF Recover!MarkReconciled, Recover!Enable, Recover!counterVars
<1>2. RecoveryTyped /\ AnswersInv /\ ShownInv
  BY DEF RecoveryInv
<1>3. Moves /\ CounterInv' /\ Traded' = Traded /\ Waiting' = Waiting
      /\ counter' \in [Deals -> {"none", "working", "traded", "cancelled"}]
  BY <1>1, <1>2, StillKeeps
<1>4. (enabled' <=> doing' = "run") /\ (enabled' => diffs' = {})
  <2>1. CASE doing = "mark"
    <3>1. ~enabled /\ ~enabled' /\ doing' # "run"
      BY <1>1, <1>2, <2>1 DEF RecoveryTyped
    <3> QED BY <3>1
  <2>2. CASE doing = "enable"
    <3>1. enabled' => diffs = {}
      BY <1>1, <2>2
    <3>2. doing' = IF enabled' THEN "run" ELSE "stopped"
      BY <1>1, <2>2
    <3>3. diffs' = diffs
      BY <1>1
    <3> QED BY <3>1, <3>2, <3>3
  <2> QED BY <1>1, <2>1, <2>2
<1>5. RecoveryTyped'
  BY <1>1, <1>2, <1>3, <1>4 DEF RecoveryTyped
<1>6. AnswersInv'
  BY <1>1, <1>2 DEF AnswersInv
<1>7. ShownInv'
  <2> SUFFICES ASSUME online', diffs' = {}
               PROVE  ShownInv'
    BY DEF ShownInv
  <2>1. /\ Passed(1) => OrdersAgree'
        /\ Passed(2) => TradesAgree'
        /\ Passed(3) => PositionsAgree'
        /\ Passed(4) => FundsAgree'
    BY <1>1, <1>3, MovesShow
  <2>2. /\ Passed(1)' => Passed(1)
        /\ Passed(2)' => Passed(2)
        /\ Passed(3)' => Passed(3)
        /\ Passed(4)' => Passed(4)
    BY <1>1 DEF Passed
  <2> QED BY <1>1, <2>1, <2>2 DEF ShownInv
<1> QED BY <1>3, <1>5, <1>6, <1>7 DEF RecoveryInv

LEMMA FactKeeps ==
  ASSUME RecoveryInv, NEW f \in heard, Recover!TakeFact(f)
  PROVE  RecoveryInv'
<1> DEFINE o == f[1]
<1>1. RecoveryTyped /\ CounterInv /\ AnswersInv /\ ShownInv
  BY DEF RecoveryInv
<1>2. o \in Deals /\ f[2] \in {"order", "trade"} /\ f = <<o, f[2]>> /\ f \in Waiting
  BY <1>1 DEF RecoveryTyped, Waiting
<1>3. /\ doing = "run" /\ heard' = heard \ {f}
      /\ booked' = (IF f[2] = "trade" /\ own[o] # "absent" THEN booked \union {o} ELSE booked)
      /\ own' = (IF own[o] = "absent" THEN own
                 ELSE [own EXCEPT ![o] = IF f[2] = "order" /\ counter[o] = "working" /\ own[o] # "done"
                                         THEN "confirmed" ELSE "done"])
      /\ UNCHANGED <<counter, before, calls, online, doing, query, asked, answers, got, diffs, enabled>>
  BY DEF Recover!TakeFact
<1> HIDE DEF o
<1>4. Waiting \ {f} \subseteq Waiting' /\ Waiting' \subseteq Waiting /\ Traded' = Traded
  BY <1>3 DEF Waiting, Traded
<1>5. \A p \in Deals : /\ p # o => own'[p] = own[p]
                       /\ own'[p] = "absent" <=> own[p] = "absent"
                       /\ own'[p] = "unsent" => own[p] = "unsent"
                       /\ p = o /\ own[p] # "absent" => own'[p] = "done" \/ own'[p] = "confirmed"
                       /\ p = o /\ own'[p] # "absent" /\ own'[p] # "done" => f[2] = "order" /\ counter[p] = "working"
  BY <1>1, <1>2, <1>3 DEF RecoveryTyped
<1>6. f[2] = "trade" => o \in Traded
  BY <1>1, <1>2 DEF CounterInv
<1>7. RecoveryTyped'
  <2>1. own' \in [Deals -> {"absent", "unsent", "unknown", "confirmed", "done"}]
    BY <1>1, <1>2, <1>3 DEF RecoveryTyped
  <2>2. booked \subseteq booked' /\ booked' \subseteq Traded
    BY <1>1, <1>3, <1>6 DEF RecoveryTyped
  <2> QED BY <1>1, <1>3, <1>4, <2>1, <2>2 DEF RecoveryTyped
<1>8. online => TradesAgree /\ OrdersAgree /\ PositionsAgree /\ FundsAgree
  BY <1>1, <1>3 DEF ShownInv, RecoveryTyped, Passed
<1>9. \A p \in Deals : p \in Traded <=> counter[p] = "traded"
  BY DEF Traded, Recover!TradedAt
<1>10. online => (f[2] = "trade" => o \in booked')
  BY <1>2, <1>3, <1>6, <1>8, <1>9 DEF TradesAgree
<1>11. \A p \in Deals : \A k \in {"order", "trade"} : <<p, k>> \in Waiting /\ <<p, k>> \notin Waiting' => p = o /\ k = f[2]
  BY <1>2, <1>4
<1>12. CounterInv'
  <2>1. \A p \in Deals : <<p, "trade">> \in Waiting' => p \in Traded'
    BY <1>1, <1>4 DEF CounterInv
  <2>2. \A p \in Deals : own'[p] = "unsent" => counter'[p] = "none"
    BY <1>1, <1>3, <1>5 DEF CounterInv
  <2>3. ASSUME online', NEW p \in Deals, <<p, "order">> \in Waiting', p \in Traded' \ booked', own'[p] # "done"
        PROVE  <<p, "trade">> \in Waiting'
    <3>1. <<p, "order">> \in Waiting /\ p \in Traded \ booked
      BY <1>3, <1>4, <2>3
    <3>2. p # o
      BY <1>2, <1>3, <1>5, <1>8, <1>9, <2>3, <3>1 DEF TradesAgree
    <3>3. own[p] # "done" /\ online
      BY <1>3, <1>5, <2>3, <3>2
    <3>4. <<p, "trade">> \in Waiting
      BY <1>1, <3>1, <3>3 DEF CounterInv
    <3> QED BY <1>11, <3>2, <3>4
  <2> QED BY <2>1, <2>2, <2>3 DEF CounterInv
<1>13. AnswersInv'
  BY <1>1, <1>3 DEF AnswersInv
<1>14. ShownInv'
  <2> SUFFICES ASSUME online', diffs' = {}
               PROVE  OrdersAgree' /\ TradesAgree' /\ PositionsAgree' /\ FundsAgree'
    BY <1>3 DEF ShownInv
  <2>1. TradesAgree /\ OrdersAgree /\ PositionsAgree /\ FundsAgree /\ online
    BY <1>3, <1>8
  <2>2. TradesAgree'
    BY <1>3, <1>5, <2>1 DEF TradesAgree
  <2>3. OrdersAgree'
    <3>1. ASSUME NEW p \in Deals PROVE own'[p] = "absent" => counter'[p] # "working"
      BY <1>3, <1>5, <2>1 DEF OrdersAgree
    <3>2. ASSUME NEW p \in Deals, own'[p] \in {"unknown", "confirmed"}
          PROVE  counter'[p] = "working" \/ <<p, "order">> \in Waiting' \/ <<p, "trade">> \in Waiting'
      <4>1. CASE p = o
        BY <1>3, <1>5, <3>2, <4>1
      <4>2. CASE p # o
        BY <1>3, <1>5, <1>11, <2>1, <3>2, <4>2 DEF OrdersAgree
      <4> QED BY <4>1, <4>2
    <3> QED BY <3>1, <3>2 DEF OrdersAgree
  <2>4. MissedTrades' = MissedTrades
    <3>1. MissedTrades' = {p \in Traded' \ booked' : <<p, "trade">> \notin Waiting'}
      BY DEF MissedTrades
    <3>2. Traded \subseteq Deals
      BY DEF Traded, Recover!TradedAt
    <3>3. ASSUME NEW p \in Traded PROVE p \in MissedTrades' <=> p \in MissedTrades
      <4>1. CASE p = o /\ f[2] = "trade"
        BY <1>2, <1>10, <2>1, <3>1, <4>1 DEF MissedTrades
      <4>2. CASE ~(p = o /\ f[2] = "trade")
        <5>1. p \in booked' <=> p \in booked
          BY <1>3, <4>2
        <5>2. <<p, "trade">> \in Waiting' <=> <<p, "trade">> \in Waiting
          BY <1>4, <1>11, <3>2, <4>2
        <5> QED BY <1>4, <3>1, <5>1, <5>2 DEF MissedTrades
      <4> QED BY <4>1, <4>2
    <3>4. MissedTrades \subseteq Traded /\ MissedTrades' \subseteq Traded
      BY <1>4, <3>1 DEF MissedTrades
    <3> QED BY <3>3, <3>4
  <2>5. PositionsAgree' /\ FundsAgree'
    BY <1>3, <1>4, <2>1, <2>4 DEF PositionsAgree, FundsAgree
  <2> QED BY <2>2, <2>3, <2>5
<1> QED BY <1>7, <1>12, <1>13, <1>14 DEF RecoveryInv

-------------------------------------------------------------------------------
(* Recovery: the theorems *)

LEMMA RecoveryBegins == RestartInit => RecoveryInv
<1> SUFFICES ASSUME RestartInit PROVE RecoveryInv
  OBVIOUS
<1>1. Recover!RecoveryInit
  BY DEF RestartInit
<1>2. RecoveryTyped
  BY <1>1 DEF Recover!RecoveryInit, RecoveryTyped, Traded, Recover!TradedAt, Waiting
<1>3. CounterInv
  BY <1>1 DEF Recover!RecoveryInit, Recover!Possible, CounterInv, Waiting
<1>4. AnswersInv /\ ShownInv
  BY <1>1 DEF Recover!RecoveryInit, AnswersInv, ShownInv, Passed
<1> QED BY <1>2, <1>3, <1>4 DEF RecoveryInv

LEMMA RecoveryStills ==
  ASSUME RecoveryInv, UNCHANGED recoverVars
  PROVE  RecoveryInv'
<1>1. UNCHANGED <<counter, own, booked, before, calls, heard, online, doing, query, asked, answers, got, diffs, enabled>>
  BY DEF recoverVars
<1>2. Moves /\ Waiting' = Waiting
  BY <1>1, StillMoves DEF Waiting
<1>3. RecoveryTyped
  BY DEF RecoveryInv
<1>4. counter' \in [Deals -> {"none", "working", "traded", "cancelled"}] /\ Waiting' \subseteq Deals \X {"order", "trade"}
  BY <1>1, <1>2, <1>3 DEF RecoveryTyped
<1> QED BY <1>1, <1>2, <1>4, OutsideKeeps

LEMMA RecoveryKeeps == RecoveryInv /\ [RestartNext]_restartVars => RecoveryInv'
<1> SUFFICES ASSUME RecoveryInv, [RestartNext]_restartVars PROVE RecoveryInv'
  OBVIOUS
<1>1. CASE Recover!RecoveryNext
  <2>1. ASSUME NEW o \in Deals,
               Recover!OrderArrives(o) \/ \E end \in {"traded", "cancelled"} : Recover!OrderEnds(o, end)
        PROVE  RecoveryInv'
    BY <2>1, CounterKeeps
  <2>2. ASSUME NEW q \in asked, NEW ok \in BOOLEAN, Recover!Answer(q, ok) PROVE RecoveryInv'
    BY <2>2, AnswerKeeps
  <2>3. ASSUME Recover!SessionLost PROVE RecoveryInv'
    BY <2>3, LostKeeps
  <2>4. ASSUME NEW c \in calls, Recover!Callback(c) PROVE RecoveryInv'
    BY <2>4, CallbackKeeps
  <2>5. ASSUME NEW a \in answers, NEW records \in SUBSET a.records, Recover!QueryResponse(a, records)
        PROVE  RecoveryInv'
    BY <2>5, ResponseKeeps
  <2>6. ASSUME NEW sent \in BOOLEAN, Recover!Ask(sent) PROVE RecoveryInv'
    BY <2>6, AskKeeps
  <2>7. ASSUME Recover!GiveUp PROVE RecoveryInv'
    BY <2>7, GiveUpKeeps
  <2>8. ASSUME Recover!Merge PROVE RecoveryInv'
    BY <2>8, MergeKeeps
  <2>9. ASSUME Recover!MarkReconciled \/ Recover!Enable PROVE RecoveryInv'
    BY <2>9, EndKeeps
  <2>10. ASSUME NEW f \in heard, Recover!TakeFact(f) PROVE RecoveryInv'
    BY <2>10, FactKeeps
  <2> QED BY <1>1, <2>1, <2>2, <2>3, <2>4, <2>5, <2>6, <2>7, <2>8, <2>9, <2>10 DEF Recover!RecoveryNext
<1>2. CASE UNCHANGED recoverVars
  BY <1>2, RecoveryStills
<1>3. Recover!RecoveryNext \/ UNCHANGED recoverVars
  BY DEF RestartNext, Strategy, References, Reconciliation, Commits, restartVars, recoverVars
<1> QED BY <1>1, <1>2, <1>3

\* The reconciliation is correct: what each of the four queries showed stays
\* true for as long as the session lasts (Recovery).
THEOREM ReconciliationCorrect == RestartSpec => []RecoveryInv
<1>1. RestartInit => RecoveryInv
  BY RecoveryBegins
<1>2. RecoveryInv /\ [RestartNext]_restartVars => RecoveryInv'
  BY RecoveryKeeps
<1> QED BY <1>1, <1>2, PTL DEF RestartSpec

\* Trading is enabled on the truth (enable_after_reconciliation).
THEOREM TradingOnTruth == RestartSpec => []EnabledOnTruth
<1>1. RecoveryInv => EnabledOnTruth
  <2> SUFFICES ASSUME RecoveryInv, enabled, online
               PROVE  /\ \A o \in MissedTrades : own[o] = "done"
                      /\ PositionsAgree /\ FundsAgree /\ OrdersAgree
    <3>1. Recover!Missed = MissedTrades
      BY DEF Recover!Missed, MissedTrades, Traded, Waiting
    <3>2. Recover!Told = Traded \ (MissedTrades \union before)
      BY <3>1 DEF Recover!Told, Traded
    <3>3. OrdersAgree =>
            /\ \A o \in Deals : own[o] \in {"unknown", "confirmed"} =>
                 counter[o] = "working" \/ {<<o, "order">>, <<o, "trade">>} \intersect (calls \union heard) # {}
            /\ ~\E o \in Deals : own[o] = "absent" /\ counter[o] = "working"
      BY DEF OrdersAgree, Waiting
    <3> QED BY <3>1, <3>2, <3>3 DEF EnabledOnTruth, Recover!EnabledOnTruth, PositionsAgree, FundsAgree
  <2>1. RecoveryTyped /\ CounterInv /\ ShownInv
    BY DEF RecoveryInv
  <2>2. doing = "run" /\ diffs = {}
    BY <2>1 DEF RecoveryTyped
  <2>3. OrdersAgree /\ TradesAgree /\ PositionsAgree /\ FundsAgree
    BY <2>1, <2>2 DEF ShownInv, Passed
  <2>4. ASSUME NEW o \in MissedTrades PROVE own[o] = "done"
    <3>1. o \in Deals /\ counter[o] = "traded" /\ o \in Traded \ booked /\ <<o, "trade">> \notin Waiting
      BY DEF MissedTrades, Traded, Recover!TradedAt
    <3>2. own[o] # "absent" /\ own[o] # "unsent"
      BY <2>1, <2>3, <3>1 DEF TradesAgree, CounterInv
    <3>3. own[o] \notin {"unknown", "confirmed"}
      BY <2>1, <2>3, <3>1 DEF OrdersAgree, CounterInv
    <3> QED BY <2>1, <3>1, <3>2, <3>3 DEF RecoveryTyped
  <2> QED BY <2>3, <2>4
<1> QED BY <1>1, ReconciliationCorrect, PTL

-------------------------------------------------------------------------------
(* The strategy's runtime *)

Final == {"filled", "cancelled", "rejected"}

\* A command that may still trade.
Live(c) == status[c] # "none" /\ StillOut(c)

\* What the strategy waits for.
Intents == {strategy.opening, strategy.closing} \ {None}

\* Committed events that were not shown to the engine.
Unshown == {observed[i] : i \in DOMAIN observed}
News(kind, c) == [kind |-> kind, id |-> c]

Strategies == [position : 0..1, opening : Numbers, closing : Numbers, planned : BOOLEAN]
Engines == [running : BOOLEAN, pending : SUBSET Commands, seen : SUBSET Commands,
            gate : {"outside", "processed", "blocked"}, event : [kind : Kinds, id : Numbers]]
Checkpoints == [bar : Numbers, tick : Numbers, processing : BOOLEAN, pending : SUBSET Commands]

-------------------------------------------------------------------------------
(* The inductive invariant, in parts *)

\* Queue, account and broker agree about a command.
OrderInv(c) ==
    /\ broker[c] # "none" => status[c] \in {"dispatching", "unknown"}
    /\ orders[c].linked =>
          status[c] = "unknown" /\ broker[c] # "none" /\ orders[c].state # "none"
    /\ orders[c].state = "active" => status[c] \in {"dispatching", "unknown"}
    /\ status[c] \in {"dispatching", "unknown"} => orders[c].state # "none"
    /\ orders[c].state = "terminal" =>
          status[c] = "not_sent" \/ (orders[c].linked /\ broker[c] \in Final)
    /\ orders[c].booked => broker[c] = "filled" /\ orders[c].state = "terminal"

\* They agree about every one, and the broker's reports are true.
OrdersInv ==
    /\ \A c \in Commands : OrderInv(c)
    /\ \A f \in facts : broker[f.id] = IF f.kind = "trade" THEN "filled" ELSE f.kind

\* Where the thread is, what it keeps outstanding and what the checkpoint says.
CallbackInv ==
    /\ Running <=> pc \notin {"down", "startup"}
    /\ ~Running => strategy = Fresh /\ observed = <<>> /\ engine.seen = {}
    /\ pc = "down" => ~ready
    /\ pc \in {"callback", "called"} => checkpoint.processing
    /\ Running => \A c \in Commands : Live(c) => c \in engine.pending
    /\ \A c \in Commands : Live(c) => c \in checkpoint.pending \/ checkpoint.processing
    /\ pc = "callback" =>
          /\ engine.event.id \in Commands
          /\ engine.gate # "blocked" => \A c \in Commands : ~Live(c)

\* The fate of a command is open, or the strategy will hear of it.
FateComes(c) ==
    \/ Live(c)
    \/ status[c] \in Refused /\ c \in engine.pending
    \/ broker[c] = "filled"
    \/ \E kind \in {"cancelled", "rejected"} : News(kind, c) \in Unshown

\* The strategy waits for one command at most, which is the one that may still
\* trade if there is one, and for no command in vain.
IntentInv ==
    Running =>
        /\ strategy.opening # None =>
              strategy.position = 0 /\ strategy.closing = None /\ strategy.planned
        /\ strategy.closing # None => strategy.position = 1
        /\ \A c \in engine.seen : broker[c] = "filled"
        /\ \A c \in Intents :
              /\ status[c] # "none" /\ c \notin engine.seen /\ FateComes(c)
              /\ offset[c] = IF c = strategy.opening THEN "open" ELSE "close"
        /\ \A c \in Commands : Live(c) => c \in Intents

\* What is filled and not yet told is what the strategy waits for, and its
\* position differs from the account's by just that.
ToldInv ==
    Running =>
        /\ \A c \in Commands : broker[c] = "filled" /\ ~orders[c].booked => c \in Intents
        /\ \A c \in Commands : News("trade", c) \in facts => c \in Intents \union engine.seen
        /\ \A x \in Unshown :
              x.kind \notin Kinds =>
                  /\ x \in facts /\ orders[x.id].state = "terminal"
                  /\ x.kind = "trade" => orders[x.id].booked
        /\ \A c \in Intents : orders[c].booked => News("trade", c) \in Unshown
        /\ position = IF \E c \in Intents : orders[c].booked THEN 1 - strategy.position
                      ELSE strategy.position

BookedAs(o) == {c \in Commands : offset[c] = o /\ orders[c].booked}

\* At the broker, or filled there and not booked.
Unsettled == {c \in Commands : \/ broker[c] \in {"received", "working"}
                               \/ broker[c] = "filled" /\ ~orders[c].booked}

\* The account holds one lot or none; one command at most is not settled, and it
\* opens from a flat position or closes the lot.
LotInv ==
    /\ position \in 0..1
    /\ position = Cardinality(BookedAs("open")) - Cardinality(BookedAs("close"))
    /\ \A c, d \in Unsettled : c = d
    /\ \A c \in Unsettled : position = IF offset[c] = "open" THEN 0 ELSE 1

\* What reconciliation has found still holds when the engine starts.
StartInv ==
    pc = "startup" =>
        /\ \A c \in Commands : News("trade", c) \in facts => ~orders[c].booked
        /\ ready => /\ \A c \in Commands : broker[c] # "none" => orders[c].linked
                    /\ AnyActive \/ position = BrokerPosition

RuntimeInv == OrdersInv /\ CallbackInv /\ IntentInv /\ ToldInv /\ LotInv /\ StartInv

-------------------------------------------------------------------------------
(* The queue of committed events *)

LEMMA WaitingTyped ==
    ASSUME TypeOK
    PROVE  Unshown \subseteq Items
BY DEF TypeOK, Unshown

\* An event joins what is waiting.
LEMMA EventQueued ==
    ASSUME TypeOK, NEW x \in Items, observed' = Append(observed, x)
    PROVE  Unshown' = Unshown \union {x}
<1>1. observed \in Seq(Items)
  BY DEF TypeOK
<1>2. /\ DOMAIN observed' = 1..Len(observed) + 1 /\ DOMAIN observed = 1..Len(observed)
      /\ Len(observed) \in Nat
      /\ \A i \in 1..Len(observed) : observed'[i] = observed[i]
      /\ observed'[Len(observed) + 1] = x
  BY <1>1
<1>3. ASSUME NEW y \in Unshown'
      PROVE  y \in Unshown \union {x}
  BY <1>2, <1>3 DEF Unshown
<1>4. ASSUME NEW y \in Unshown \union {x}
      PROVE  y \in Unshown'
  BY <1>2, <1>4 DEF Unshown
<1>. QED
  BY <1>3, <1>4

\* The first one is shown and leaves.
LEMMA EventShown ==
    ASSUME TypeOK, observed # <<>>, observed' = Tail(observed)
    PROVE  /\ Shown \in Unshown /\ Shown \in Items /\ Unshown' \subseteq Unshown
           /\ Unshown \subseteq Unshown' \union {Shown}
           /\ observed' \in Seq(Items) /\ Len(observed') <= QueueBound
<1>1. observed \in Seq(Items) /\ Len(observed) <= QueueBound
  BY DEF TypeOK
<1>2. /\ DOMAIN observed' = 1..Len(observed) - 1 /\ DOMAIN observed = 1..Len(observed)
      /\ Len(observed) \in Nat \ {0} /\ Shown = observed[1]
      /\ \A i \in 1..Len(observed) - 1 : observed'[i] = observed[i + 1]
      /\ observed' \in Seq(Items) /\ Len(observed') = Len(observed) - 1
  BY <1>1 DEF Shown
<1>3. ASSUME NEW i \in DOMAIN observed
      PROVE  observed[i] \in Unshown' \union {Shown}
  <2>1. CASE i = 1
    BY <1>2, <2>1
  <2>2. CASE i # 1
    <3>1. i - 1 \in DOMAIN observed' /\ observed'[i - 1] = observed[i]
      BY <1>2, <2>2
    <3>. QED
      BY <3>1 DEF Unshown
  <2>. QED
    BY <2>1, <2>2
<1>4. Unshown' \subseteq Unshown /\ Shown \in Unshown /\ Shown \in Items
  BY <1>1, <1>2 DEF Unshown
<1>5. Len(observed') <= QueueBound
  BY <1>1, <1>2, RuntimeAssumption DEF RuntimeAssumption
<1>. QED
  BY <1>2, <1>3, <1>4, <1>5 DEF Unshown

-------------------------------------------------------------------------------
(* What the steps do to the records *)

LEMMA ShowOrderEffect ==
    ASSUME TypeOK, ShowOrder
    PROVE  /\ pc = "deliver" /\ observed # <<>> /\ observed' = Tail(observed)
           /\ Shown.kind \in Final
           /\ UNCHANGED <<pc, durable, engine, ready, outside>>
           /\ strategy' \in Strategies
           /\ strategy'.position = strategy.position /\ strategy'.planned = strategy.planned
           /\ strategy'.opening = IF Shown.kind # "filled" /\ strategy.opening = Shown.id
                                  THEN None ELSE strategy.opening
           /\ strategy'.closing = IF Shown.kind # "filled" /\ strategy.closing = Shown.id
                                  THEN None ELSE strategy.closing
<1>1. strategy \in Strategies /\ None \in Numbers
  BY RuntimeAssumption DEF TypeOK, Strategies, Numbers, None, RuntimeAssumption
<1>2. CASE Shown.id = None \/ Shown.kind = "filled"
  <2>1. strategy' = strategy
    BY <1>2 DEF ShowOrder, OnOrder
  <2>. QED
    BY <1>1, <1>2, <2>1 DEF ShowOrder, Delivering, Final
<1>3. CASE Shown.id # None /\ Shown.kind # "filled"
  <2>1. strategy' = GivenUp(strategy, Shown.id)
    BY <1>3 DEF ShowOrder, OnOrder
  <2>. QED
    BY <1>1, <1>3, <2>1 DEF ShowOrder, Delivering, Final, GivenUp, Strategies
<1>. QED
  BY <1>2, <1>3

LEMMA ShowTradeEffect ==
    ASSUME TypeOK, ShowTrade
    PROVE  /\ pc = "deliver" /\ observed # <<>> /\ observed' = Tail(observed)
           /\ Shown.kind = "trade" /\ UNCHANGED <<pc, durable, ready, outside>>
           /\ engine' \in Engines /\ strategy' \in Strategies
           /\ \/ ~ToTell /\ UNCHANGED <<engine, strategy>>
              \/ /\ ToTell /\ Shown.id \in Commands /\ Shown.id \notin engine.seen
                 /\ engine' = [engine EXCEPT !.seen = @ \union {Shown.id}]
                 /\ strategy'.planned = strategy.planned
                 /\ \/ /\ offset[Shown.id] = "open" /\ strategy.position = 0
                       /\ strategy'.position = 1 /\ strategy'.opening = None
                       /\ strategy'.closing = strategy.closing
                    \/ /\ offset[Shown.id] = "close" /\ strategy.position = 1
                       /\ strategy'.position = 0 /\ strategy'.closing = None
                       /\ strategy'.opening = strategy.opening
<1>1. /\ strategy \in Strategies /\ engine \in Engines /\ None \in Numbers
      /\ offset \in [Commands -> {"open", "close"}]
  BY RuntimeAssumption DEF TypeOK, Strategies, Engines, Numbers, None, RuntimeAssumption
<1>2. /\ pc = "deliver" /\ observed # <<>> /\ observed' = Tail(observed) /\ Shown.kind = "trade"
      /\ UNCHANGED <<pc, durable, ready, outside>>
  BY DEF ShowTrade, Delivering
<1>3. CASE ~ToTell
  BY <1>1, <1>2, <1>3 DEF ShowTrade
<1>4. CASE ToTell
  <2>1. Shown.id \in Commands /\ Shown.id \notin engine.seen
    <3>1. Shown \in Items
      BY <1>2, EventShown
    <3>. QED
      BY <1>4, <3>1 DEF ToTell, HasSeen, Items, Numbers, Commands, None
  <2>2. /\ engine' = [engine EXCEPT !.seen = @ \union {Shown.id}]
        /\ strategy' = OnTrade(strategy, Shown.id) /\ TradeFits(strategy, Shown.id)
    BY <1>4 DEF ShowTrade
  <2>3. engine' \in Engines
    BY <1>1, <2>1, <2>2 DEF Engines
  <2>4. CASE offset[Shown.id] = "open"
    <3>1. strategy' = [strategy EXCEPT !.position = @ + 1, !.opening = None]
      BY <2>2, <2>4 DEF OnTrade
    <3>2. strategy.position = 0
      BY <1>1, <2>2, <2>4 DEF TradeFits, Strategies
    <3>2a. strategy' = [strategy EXCEPT !.position = 1, !.opening = None]
      BY <3>1, <3>2
    <3>2b. 1 \in 0..1
      OBVIOUS
    <3>3. /\ strategy' \in Strategies /\ strategy'.planned = strategy.planned
          /\ strategy'.position = 1 /\ strategy'.opening = None
          /\ strategy'.closing = strategy.closing
      BY <1>1, <3>2, <3>2a, <3>2b DEF Strategies
    <3>. QED
      BY <1>2, <1>4, <2>1, <2>2, <2>3, <2>4, <3>2, <3>3
  <2>5. CASE offset[Shown.id] = "close"
    <3>1. strategy' = [strategy EXCEPT !.position = @ - 1, !.closing = None]
      BY <2>2, <2>5 DEF OnTrade
    <3>2. strategy.position = 1
      BY <1>1, <2>2, <2>5 DEF TradeFits, Strategies
    <3>2a. strategy' = [strategy EXCEPT !.position = 0, !.closing = None]
      BY <3>1, <3>2
    <3>2b. 0 \in 0..1
      OBVIOUS
    <3>3. /\ strategy' \in Strategies /\ strategy'.planned = strategy.planned
          /\ strategy'.position = 0 /\ strategy'.closing = None
          /\ strategy'.opening = strategy.opening
      BY <1>1, <3>2, <3>2a, <3>2b DEF Strategies
    <3>. QED
      BY <1>2, <1>4, <2>1, <2>2, <2>3, <2>5, <3>2, <3>3
  <2>. QED
    BY <1>1, <2>1, <2>4, <2>5
<1>. QED
  BY <1>3, <1>4

LEMMA DrainFactEffect ==
    ASSUME TypeOK, NEW f \in facts, DrainFact(f)
    PROVE  /\ pc = "step" /\ f \in Facts /\ f.id \in Commands /\ orders[f.id].linked
           /\ UNCHANGED <<pc, status, offset, checkpoint, engine, strategy, ready, outside>>
           /\ orders' \in [Commands -> [state : {"none", "active", "terminal"},
                                        linked : BOOLEAN, booked : BOOLEAN]]
           /\ orders'[f.id].state = "terminal" /\ orders'[f.id].linked
           /\ orders'[f.id].booked <=> orders[f.id].booked \/ f.kind = "trade"
           /\ \A c \in Commands \ {f.id} : orders'[c] = orders[c]
           /\ position' = IF f.kind # "trade" \/ orders[f.id].booked THEN position
                          ELSE IF offset[f.id] = "open" THEN position + 1 ELSE position - 1
           /\ News(f.kind, Named(f)) \in Items
           /\ observed' = Append(observed, News(f.kind, Named(f)))
           /\ observed' \in Seq(Items) /\ Len(observed') <= QueueBound
<1>1. f \in Facts
  BY DEF TypeOK
<1>2. /\ pc = "step" /\ orders[f.id].linked /\ Booked(f) /\ Len(observed) < QueueBound
      /\ observed' = Append(observed, News(f.kind, Named(f)))
      /\ UNCHANGED <<pc, status, offset, checkpoint, engine, strategy, ready, outside>>
  BY DEF DrainFact, News
<1>3. News(f.kind, Named(f)) \in Items
  BY <1>1, RuntimeAssumption DEF News, Named, Facts, Items, Commands, Numbers, None, RuntimeAssumption
<1>4. observed' \in Seq(Items) /\ Len(observed') <= QueueBound
  BY <1>2, <1>3, RuntimeAssumption DEF TypeOK, RuntimeAssumption
<1>5. f.id \in Commands
  BY <1>1 DEF Facts
<1>6. /\ orders' \in [Commands -> [state : {"none", "active", "terminal"},
                                   linked : BOOLEAN, booked : BOOLEAN]]
      /\ orders'[f.id].state = "terminal" /\ orders'[f.id].linked = orders[f.id].linked
      /\ orders'[f.id].booked <=> orders[f.id].booked \/ f.kind = "trade"
      /\ \A c \in Commands \ {f.id} : orders'[c] = orders[c]
  <2>. DEFINE OrderRecords == [state : {"none", "active", "terminal"},
                               linked : BOOLEAN, booked : BOOLEAN]
  <2>1. orders \in [Commands -> OrderRecords]
    BY DEF TypeOK
  <2>. DEFINE told == [orders[f.id] EXCEPT !.state = "terminal", !.booked = @ \/ f.kind = "trade"]
  <2>2. orders' = [orders EXCEPT ![f.id] = told]
    BY <1>2 DEF Booked
  <2>3. \A c \in Commands \ {f.id} : orders'[c] = orders[c]
    <3>. HIDE DEF OrderRecords
    <3>. QED
      BY <2>1, <2>2
  <2>4. /\ orders' \in [Commands -> OrderRecords]
        /\ orders'[f.id].state = "terminal" /\ orders'[f.id].linked = orders[f.id].linked
    BY <1>5, <2>1, <2>2
  <2>5. orders'[f.id].booked <=> orders[f.id].booked \/ f.kind = "trade"
    <3>1. PICK o \in OrderRecords : o = orders[f.id]
      BY <1>5, <2>1
    <3>2. orders'[f.id] = told
      <4>. HIDE DEF told, OrderRecords
      <4>. QED
        BY <1>5, <2>1, <2>2
    <3>3. told.booked <=> o.booked \/ f.kind = "trade"
      BY <3>1
    <3>. HIDE DEF told
    <3>. QED
      BY <3>1, <3>2, <3>3
  <2>. QED
    BY <2>3, <2>4, <2>5
<1>. QED
  BY <1>1, <1>2, <1>3, <1>4, <1>5, <1>6 DEF Booked

LEMMA MarketEventEffect ==
    ASSUME TypeOK, NEW kind \in Kinds, NEW n \in Commands, MarketEvent(kind, n)
    PROVE  /\ pc = "step" /\ events' = n /\ News(kind, n) \in Items
           /\ observed' = Append(observed, News(kind, n))
           /\ observed' \in Seq(Items) /\ Len(observed') <= QueueBound
           /\ UNCHANGED <<pc, durable, engine, strategy, ready, broker, facts, crashes>>
<1>1. News(kind, n) \in Items
  BY DEF News, Items, Commands, Numbers
<1>2. observed' = Append(observed, News(kind, n)) /\ Len(observed) < QueueBound
  BY DEF MarketEvent, News
<1>. QED
  BY <1>1, <1>2, RuntimeAssumption DEF MarketEvent, TypeOK, RuntimeAssumption

LEMMA BeginCallbackEffect ==
    ASSUME TypeOK, NEW fresh \in BOOLEAN, BeginCallback(fresh)
    PROVE  /\ pc = "deliver" /\ pc' = "callback" /\ observed # <<>>
           /\ observed' = Tail(observed) /\ Shown.kind \in Kinds /\ Shown.id \in Commands
           /\ UNCHANGED <<status, offset, orders, position, ready, outside>>
           /\ engine' \in Engines /\ checkpoint' \in Checkpoints /\ strategy' \in Strategies
           /\ engine'.running = engine.running /\ engine'.seen = engine.seen
           /\ engine'.pending = IF fresh THEN Retained(engine.pending) ELSE engine.pending
           /\ engine'.event.id = Shown.id
           /\ engine'.gate # "blocked" => fresh /\ ~PendingOrders(engine.pending)
           /\ checkpoint'.processing
           /\ strategy'.position = strategy.position /\ strategy'.planned = strategy.planned
           /\ strategy'.opening = IF /\ fresh /\ strategy.opening \in engine.pending
                                     /\ status[strategy.opening] \in Refused
                                  THEN None ELSE strategy.opening
           /\ strategy'.closing = IF /\ fresh /\ strategy.closing \in engine.pending
                                     /\ status[strategy.closing] \in Refused
                                  THEN None ELSE strategy.closing
<1>. DEFINE judged == IF fresh THEN Retained(engine.pending) ELSE engine.pending
            blocked == ~fresh \/ PendingOrders(engine.pending)
<1>1. /\ strategy \in Strategies /\ engine \in Engines /\ checkpoint \in Checkpoints
      /\ None \in Numbers
  BY RuntimeAssumption DEF TypeOK, Strategies, Engines, Checkpoints, Numbers, None, RuntimeAssumption
<1>2. /\ pc = "deliver" /\ pc' = "callback" /\ observed # <<>> /\ observed' = Tail(observed)
      /\ Shown.kind \in Kinds /\ IsNew(Shown)
      /\ UNCHANGED <<status, offset, orders, position, ready, outside>>
      /\ engine' = [engine EXCEPT !.pending = judged, !.event = Shown,
                                  !.gate = IF blocked THEN "blocked" ELSE "processed"]
      /\ checkpoint' = Saved(Shown, judged, TRUE)
      /\ strategy' = IF fresh THEN AfterRefusals(strategy, engine.pending) ELSE strategy
  BY DEF BeginCallback, Delivering
<1>3. Shown \in Items
  BY <1>2, EventShown
<1>4. Shown.id \in Commands /\ Shown \in [kind : Kinds, id : Numbers]
  <2>1. Shown.id \in Numbers /\ Shown \in [kind : Kinds, id : Numbers]
    BY <1>2, <1>3 DEF Items
  <2>2. Shown.id > 0
    BY <1>1, <1>2, <2>1, RuntimeAssumption DEF IsNew, Checkpoints, Numbers, RuntimeAssumption
  <2>. QED
    BY <2>1, <2>2, RuntimeAssumption DEF Numbers, Commands, RuntimeAssumption
<1>5. judged \in SUBSET Commands
  BY <1>1 DEF Engines, Retained
<1>6. checkpoint' \in Checkpoints /\ checkpoint'.processing
  <2>. HIDE DEF judged
  <2>. QED
    BY <1>1, <1>2, <1>4, <1>5 DEF Saved, SavedAsDone, Checkpoints
<1>7. /\ engine' \in Engines /\ engine'.running = engine.running /\ engine'.seen = engine.seen
      /\ engine'.pending = judged /\ engine'.event.id = Shown.id
      /\ engine'.gate # "blocked" => fresh /\ ~PendingOrders(engine.pending)
  <2>. HIDE DEF judged
  <2>. QED
    BY <1>1, <1>2, <1>4, <1>5 DEF Engines
<1>8. /\ strategy' \in Strategies
      /\ strategy'.position = strategy.position /\ strategy'.planned = strategy.planned
      /\ strategy'.opening = IF /\ fresh /\ strategy.opening \in engine.pending
                                /\ status[strategy.opening] \in Refused
                             THEN None ELSE strategy.opening
      /\ strategy'.closing = IF /\ fresh /\ strategy.closing \in engine.pending
                                /\ status[strategy.closing] \in Refused
                             THEN None ELSE strategy.closing
  <2>1. CASE fresh
    BY <1>1, <1>2, <2>1 DEF AfterRefusals, Strategies
  <2>2. CASE ~fresh
    BY <1>1, <1>2, <2>2 DEF Strategies
  <2>. QED
    BY <2>1, <2>2
<1>. QED
  BY <1>2, <1>4, <1>6, <1>7, <1>8

LEMMA TradeEffect ==
    ASSUME TypeOK, CallbackInv, NEW want \in {"open", "close"}, NEW s \in Strategies, Trade(want, s)
    PROVE  /\ pc = "callback" /\ pc' = "called"
           /\ UNCHANGED <<orders, position, checkpoint, observed, ready, outside>>
           /\ \/ UNCHANGED <<status, offset, engine, strategy>>
              \/ \E c \in Commands :
                    /\ c = engine.event.id /\ engine.gate # "blocked"
                    /\ status[c] = "none" /\ strategy' = s
                    /\ status' = [status EXCEPT ![c] = "pending"]
                    /\ offset' = [offset EXCEPT ![c] = want]
                    /\ engine' = [engine EXCEPT !.pending = @ \union {c}]
                    /\ engine' \in Engines
<1>1. pc = "callback" /\ pc' = "called" /\ UNCHANGED <<orders, position, checkpoint, observed, ready, outside>>
  BY DEF Trade
<1>2. CASE engine.gate = "blocked"
  BY <1>1, <1>2 DEF Trade, Suppressed
<1>3. CASE engine.gate # "blocked"
  <2>. DEFINE c == engine.event.id
  <2>1. /\ status[c] = "none" /\ strategy' = s
        /\ status' = [status EXCEPT ![c] = "pending"]
        /\ offset' = [offset EXCEPT ![c] = want]
        /\ engine' = [engine EXCEPT !.pending = @ \union {c}]
    BY <1>3 DEF Trade
  <2>2. c \in Commands
    BY <1>1 DEF CallbackInv
  <2>4. engine' \in Engines
    BY <2>1, <2>2 DEF TypeOK, Engines
  <2>. QED
    BY <1>1, <1>3, <2>1, <2>2, <2>4
<1>. QED
  BY <1>2, <1>3

LEMMA EndCallbackEffect ==
    ASSUME TypeOK, EndCallback
    PROVE  /\ pc = "called" /\ pc' = "deliver"
           /\ UNCHANGED <<status, offset, orders, position, strategy, observed, ready, outside>>
           /\ engine' \in Engines /\ checkpoint' \in Checkpoints
           /\ engine'.running = engine.running /\ engine'.seen = engine.seen
           /\ engine'.pending = engine.pending
           /\ checkpoint'.pending = engine.pending /\ ~checkpoint'.processing
<1>1. engine \in Engines /\ checkpoint \in Checkpoints /\ NoEvent \in [kind : Kinds, id : Numbers]
  BY RuntimeAssumption DEF TypeOK, Engines, Checkpoints, NoEvent, None, Numbers, Kinds, RuntimeAssumption
<1>2. /\ checkpoint' = Saved(engine.event, engine.pending, FALSE)
      /\ engine' = [engine EXCEPT !.gate = "outside", !.event = NoEvent]
  BY DEF EndCallback
<1>3. /\ engine' \in Engines /\ engine'.running = engine.running /\ engine'.seen = engine.seen
      /\ engine'.pending = engine.pending
  BY <1>1, <1>2 DEF Engines
<1>4. /\ checkpoint' \in Checkpoints /\ checkpoint'.pending = engine.pending
      /\ checkpoint'.processing = FALSE
  BY <1>1, <1>2 DEF Saved, SavedAsDone, Checkpoints, Engines
<1>. QED
  BY <1>3, <1>4 DEF EndCallback

LEMMA EnterTyped ==
    ASSUME TypeOK, CallbackInv, pc = "callback"
    PROVE  /\ engine.event.id \in Commands /\ engine.event.id # None
           /\ Enter(strategy, engine.event.id) \in Strategies
           /\ Exit(strategy, engine.event.id) \in Strategies
<1>1. engine.event.id \in Commands /\ strategy \in Strategies
  BY DEF TypeOK, CallbackInv, Strategies
<1>2. engine.event.id \in Numbers /\ engine.event.id # None
  BY <1>1, RuntimeAssumption DEF Commands, Numbers, None, RuntimeAssumption
<1>. QED
  BY <1>1, <1>2 DEF Enter, Exit, Strategies

LEMMA SendCommandEffect ==
    ASSUME TypeOK, NEW c \in Commands, SendCommand(c)
    PROVE  /\ pc = "command" /\ pc' = "step" /\ ready /\ status[c] = "pending"
           /\ status' = [status EXCEPT ![c] = "unknown"]
           /\ orders' \in [Commands -> [state : {"none", "active", "terminal"},
                                        linked : BOOLEAN, booked : BOOLEAN]]
           /\ orders'[c].state = "active" /\ orders'[c].linked
           /\ orders'[c].booked = orders[c].booked
           /\ \A d \in Commands \ {c} : orders'[d] = orders[d]
           /\ broker' = [broker EXCEPT ![c] = "received"]
           /\ UNCHANGED <<offset, position, checkpoint, process, events, facts, crashes>>
<1>1. /\ status[c] = "pending" /\ c \in DOMAIN orders
      /\ orders' = [orders EXCEPT ![c].state = "active", ![c].linked = TRUE]
      /\ orders \in [Commands -> [state : {"none", "active", "terminal"},
                                 linked : BOOLEAN, booked : BOOLEAN]]
  BY DEF SendCommand, First, TypeOK
<1>2. \A d \in Commands \ {c} : orders'[d] = orders[d]
  BY <1>1
<1>3. /\ orders' \in [Commands -> [state : {"none", "active", "terminal"},
                                  linked : BOOLEAN, booked : BOOLEAN]]
      /\ orders'[c].state = "active" /\ orders'[c].linked
      /\ orders'[c].booked = orders[c].booked
  BY <1>1
<1>. QED
  BY <1>1, <1>2, <1>3 DEF SendCommand

LEMMA RefuseCommandEffect ==
    ASSUME TypeOK, NEW c \in Commands, NEW result \in Refused, RefuseCommand(c, result)
    PROVE  /\ pc = "command" /\ pc' = "step" /\ ready /\ status[c] = "pending"
           /\ status' = [status EXCEPT ![c] = result]
           /\ orders' \in [Commands -> [state : {"none", "active", "terminal"},
                                        linked : BOOLEAN, booked : BOOLEAN]]
           /\ orders'[c].state = IF result = "not_sent" THEN "terminal" ELSE orders[c].state
           /\ orders'[c].linked = orders[c].linked /\ orders'[c].booked = orders[c].booked
           /\ \A d \in Commands \ {c} : orders'[d] = orders[d]
           /\ UNCHANGED <<offset, position, checkpoint, process, outside>>
BY SMTT(40) DEF RefuseCommand, First, TypeOK

LEMMA CrashInDispatchEffect ==
    ASSUME TypeOK, NEW c \in Commands, NEW received \in BOOLEAN, CrashInDispatch(c, received)
    PROVE  /\ pc = "command" /\ status[c] = "pending" /\ GoesDown
           /\ status' = [status EXCEPT ![c] = "dispatching"]
           /\ orders' \in [Commands -> [state : {"none", "active", "terminal"},
                                        linked : BOOLEAN, booked : BOOLEAN]]
           /\ orders'[c].state = "active" /\ orders'[c].linked = orders[c].linked
           /\ orders'[c].booked = orders[c].booked
           /\ \A d \in Commands \ {c} : orders'[d] = orders[d]
           /\ broker' = broker \/ broker' = [broker EXCEPT ![c] = "received"]
           /\ UNCHANGED <<offset, position, checkpoint, events, facts>>
<1>1. broker' = broker \/ broker' = [broker EXCEPT ![c] = "received"]
  BY DEF CrashInDispatch, TypeOK
<1>2. /\ status[c] = "pending" /\ c \in DOMAIN orders
      /\ orders' = [orders EXCEPT ![c].state = "active"]
      /\ orders \in [Commands -> [state : {"none", "active", "terminal"},
                                 linked : BOOLEAN, booked : BOOLEAN]]
  BY DEF CrashInDispatch, First, TypeOK
<1>3. \A d \in Commands \ {c} : orders'[d] = orders[d]
  BY <1>2
<1>4. /\ orders' \in [Commands -> [state : {"none", "active", "terminal"},
                                  linked : BOOLEAN, booked : BOOLEAN]]
      /\ orders'[c].state = "active" /\ orders'[c].linked = orders[c].linked
      /\ orders'[c].booked = orders[c].booked
  BY <1>2
<1>. QED
  BY <1>1, <1>2, <1>3, <1>4 DEF CrashInDispatch

LEMMA GoesDownEffect ==
    ASSUME TypeOK, GoesDown
    PROVE  /\ pc' = "down" /\ engine' \in Engines /\ ~engine'.running
           /\ engine'.pending = {} /\ engine'.seen = {}
           /\ strategy' \in Strategies /\ strategy' = Fresh
           /\ observed' \in Seq(Items) /\ observed' = <<>> /\ Len(observed') <= QueueBound
           /\ ready' = FALSE /\ crashes' \in 0..MaxCrashes
<1>1. /\ pc' = "down" /\ engine' = Unstarted /\ strategy' = Fresh /\ observed' = <<>>
      /\ ready' = FALSE /\ crashes < MaxCrashes /\ crashes' = crashes + 1
  BY DEF GoesDown, Down
<1>2. None \in Numbers /\ 0 \in 0..1 /\ MaxCrashes \in Nat /\ QueueBound >= 0
  BY RuntimeAssumption DEF None, Numbers, RuntimeAssumption
<1>3. strategy' \in Strategies
  BY <1>1, <1>2 DEF Fresh, Strategies
<1>4. NoEvent \in [kind : Kinds, id : Numbers]
  BY <1>2 DEF NoEvent, Kinds
<1>5. engine' \in Engines /\ ~engine'.running /\ engine'.pending = {} /\ engine'.seen = {}
  BY <1>1, <1>4 DEF Unstarted, Engines
<1>6. crashes' \in 0..MaxCrashes
  BY <1>1, <1>2 DEF TypeOK
<1>. QED
  BY <1>1, <1>2, <1>3, <1>5, <1>6

\* The broker moves one order on, and reports what it says then.
LEMMA BrokerEffect ==
    ASSUME TypeOK, NEW c \in Commands, Broker(c)
    PROVE  /\ UNCHANGED <<pc, durable, process, events, crashes>>
           /\ \/ /\ broker[c] = "received" /\ broker' = [broker EXCEPT ![c] = "working"]
                 /\ facts' = facts
              \/ \E kind \in {"rejected", "cancelled"} :
                    /\ broker[c] \in {"received", "working"}
                    /\ broker' = [broker EXCEPT ![c] = kind]
                    /\ facts' = facts \union {News(kind, c)}
              \/ /\ broker[c] = "working" /\ broker' = [broker EXCEPT ![c] = "filled"]
                 /\ facts' = facts \union {News("filled", c), News("trade", c)}
                 /\ offset[c] = "close" => BrokerPosition > 0
<1>1. \A kind : {[kind |-> k, id |-> c] : k \in {kind}} = {News(kind, c)}
  BY DEF News
<1>2. {[kind |-> k, id |-> c] : k \in {"filled", "trade"}} = {News("filled", c), News("trade", c)}
  BY DEF News
<1>3. CASE BrokerAct(c, "received", "working", {})
  BY <1>3 DEF BrokerAct
<1>4. CASE BrokerAct(c, "received", "rejected", {"rejected"})
  BY <1>1, <1>4 DEF BrokerAct
<1>5. CASE BrokerAct(c, "working", "cancelled", {"cancelled"})
  BY <1>1, <1>5 DEF BrokerAct
<1>6. CASE /\ offset[c] = "close" => BrokerPosition > 0
           /\ BrokerAct(c, "working", "filled", {"filled", "trade"})
  BY <1>2, <1>6 DEF BrokerAct
<1>. QED
  BY <1>3, <1>4, <1>5, <1>6 DEF Broker

LEMMA StartEffect ==
    ASSUME TypeOK, Start
    PROVE  /\ pc = "startup" /\ pc' = "step" /\ ready /\ ~checkpoint.processing
           /\ position = 0 /\ ~PendingOrders(checkpoint.pending)
           /\ engine' \in Engines /\ engine'.running /\ engine'.seen = engine.seen
           /\ engine'.pending = Retained(checkpoint.pending)
           /\ UNCHANGED <<durable, strategy, observed, ready, outside>>
<1>1. engine \in Engines /\ Retained(checkpoint.pending) \in SUBSET Commands
  BY DEF TypeOK, Engines, Retained
<1>. QED
  BY <1>1 DEF Start, Engines, Restored
-------------------------------------------------------------------------------
LEMMA RuntimeTypeStep ==
    ASSUME TypeOK, CallbackInv, position' \in 0..1, [Next]_vars
    PROVE  TypeOK'
<1>. USE DEF durable, process, outside
<1>1. ASSUME Pause
      PROVE  TypeOK'
  BY <1>1
  DEF Pause, TypeOK
<1>2. ASSUME Deliver
      PROVE  TypeOK'
  BY <1>2
  DEF Deliver, TypeOK
<1>3. ASSUME ShowOrder
      PROVE  TypeOK'
  BY <1>3, ShowOrderEffect, EventShown DEF TypeOK, Strategies
<1>4. ASSUME ShowTrade
      PROVE  TypeOK'
  BY <1>4, ShowTradeEffect, EventShown DEF TypeOK, Strategies, Engines
<1>5. ASSUME DropMarket
      PROVE  TypeOK'
  BY <1>5, EventShown DEF TypeOK, DropMarket, Delivering
<1>6. ASSUME NEW f \in facts, DrainFact(f)
      PROVE  TypeOK'
  BY <1>6, DrainFactEffect, RuntimeAssumption DEF TypeOK, RuntimeAssumption
<1>7. ASSUME NEW kind \in Kinds, NEW n \in Commands, MarketEvent(kind, n)
      PROVE  TypeOK'
  <2>1. n \in Numbers
    BY RuntimeAssumption DEF Commands, Numbers, RuntimeAssumption
  <2>. QED
    BY <1>7, <2>1, MarketEventEffect DEF TypeOK
<1>8. ASSUME NEW fresh \in BOOLEAN, BeginCallback(fresh)
      PROVE  TypeOK'
  BY <1>8, BeginCallbackEffect, EventShown DEF TypeOK, Strategies, Engines, Checkpoints
<1>9. ASSUME Quiet
      PROVE  TypeOK'
  BY <1>9
  DEF Quiet, TypeOK
<1>10. ASSUME WantEntry
       PROVE  TypeOK'
  <2>. DEFINE s == Enter(strategy, engine.event.id)
  <2>1. pc = "callback" /\ Trade("open", s)
    BY <1>10 DEF WantEntry, Trade
  <2>2. s \in Strategies
    BY <2>1, EnterTyped
  <2>. HIDE DEF s
  <2>3. pc' = "called" /\ UNCHANGED <<orders, position, checkpoint, observed, ready, outside>>
    BY <2>1 DEF Trade
  <2>4. CASE UNCHANGED <<status, offset, engine, strategy>>
    BY <2>3, <2>4 DEF TypeOK
  <2>5. CASE ~UNCHANGED <<status, offset, engine, strategy>>
    <3>1. PICK c \in Commands :
             /\ strategy' = s /\ status' = [status EXCEPT ![c] = "pending"]
             /\ offset' = [offset EXCEPT ![c] = "open"] /\ engine' \in Engines
      BY <2>1, <2>2, <2>5, TradeEffect
    <3>. QED
      BY <2>2, <2>3, <3>1 DEF TypeOK, Strategies, Engines
  <2>. QED
    BY <2>4, <2>5
<1>11. ASSUME WantExit
       PROVE  TypeOK'
  <2>. DEFINE s == Exit(strategy, engine.event.id)
  <2>1. pc = "callback" /\ Trade("close", s)
    BY <1>11 DEF WantExit, Trade
  <2>2. s \in Strategies
    BY <2>1, EnterTyped
  <2>. HIDE DEF s
  <2>3. pc' = "called" /\ UNCHANGED <<orders, position, checkpoint, observed, ready, outside>>
    BY <2>1 DEF Trade
  <2>4. CASE UNCHANGED <<status, offset, engine, strategy>>
    BY <2>3, <2>4 DEF TypeOK
  <2>5. CASE ~UNCHANGED <<status, offset, engine, strategy>>
    <3>1. PICK c \in Commands :
             /\ strategy' = s /\ status' = [status EXCEPT ![c] = "pending"]
             /\ offset' = [offset EXCEPT ![c] = "close"] /\ engine' \in Engines
      BY <2>1, <2>2, <2>5, TradeEffect
    <3>. QED
      BY <2>2, <2>3, <3>1 DEF TypeOK, Strategies, Engines
  <2>. QED
    BY <2>4, <2>5
<1>12. ASSUME EndCallback
       PROVE  TypeOK'
  BY <1>12, EndCallbackEffect DEF TypeOK, Engines, Checkpoints
<1>13. ASSUME EndDelivery
       PROVE  TypeOK'
  BY <1>13
  DEF EndDelivery, TypeOK
<1>14. ASSUME NoCommand
       PROVE  TypeOK'
  BY <1>14
  DEF NoCommand, TypeOK
<1>15. ASSUME NEW c \in Commands, SendCommand(c)
       PROVE  TypeOK'
  BY <1>15, SendCommandEffect, SMTT(40) DEF TypeOK
<1>16. ASSUME NEW c \in Commands, NEW result \in Refused, RefuseCommand(c, result)
       PROVE  TypeOK'
  BY <1>16, RefuseCommandEffect DEF TypeOK
<1>17. ASSUME Crash
       PROVE  TypeOK'
  BY <1>17, GoesDownEffect DEF Crash, TypeOK, Strategies, Engines
<1>18. ASSUME Restart
       PROVE  TypeOK'
  BY <1>18
  DEF Restart, TypeOK
<1>19. ASSUME Reconcile
       PROVE  TypeOK'
  BY <1>19
  DEF Reconcile, TypeOK
<1>20. ASSUME Start
       PROVE  TypeOK'
  BY <1>20, StartEffect DEF TypeOK, Engines
<1>21. ASSUME NEW c \in Commands, Broker(c)
       PROVE  TypeOK'
  <2>1. /\ UNCHANGED <<pc, durable, process, events, crashes>>
        /\ broker' \in [Commands -> {"none", "received", "working", "filled", "cancelled", "rejected"}]
    BY <1>21, BrokerEffect DEF TypeOK
  <2>2. facts' \subseteq Facts
    <3>1. \A kind \in {"trade", "filled", "cancelled", "rejected"} : News(kind, c) \in Facts
      BY DEF News, Facts
    <3>2. \/ facts' = facts
          \/ \E kind \in {"rejected", "cancelled"} : facts' = facts \union {News(kind, c)}
          \/ facts' = facts \union {News("filled", c), News("trade", c)}
      BY <1>21, BrokerEffect
    <3>. QED
      BY <3>1, <3>2 DEF TypeOK
  <2>. QED
    BY <2>1, <2>2 DEF TypeOK
<1>22. ASSUME NEW c \in Commands, NEW received \in BOOLEAN, CrashInDispatch(c, received)
       PROVE  TypeOK'
  <2>1. GoesDown
    BY <1>22, CrashInDispatchEffect
  <2>2. /\ status' \in [Commands -> {"none", "pending", "dispatching", "unknown"} \union Refused]
        /\ broker' \in [Commands -> {"none", "received", "working", "filled", "cancelled", "rejected"}]
    <3>1. /\ status' = [status EXCEPT ![c] = "dispatching"]
          /\ broker' = broker \/ broker' = [broker EXCEPT ![c] = "received"]
      BY <1>22, CrashInDispatchEffect
    <3>. QED
      BY <3>1 DEF TypeOK
  <2>3. /\ UNCHANGED <<offset, position, checkpoint, events, facts>>
        /\ orders' \in [Commands -> [state : {"none", "active", "terminal"},
                                     linked : BOOLEAN, booked : BOOLEAN]]
    BY <1>22, CrashInDispatchEffect
  <2>. QED
    BY <2>1, <2>2, <2>3, GoesDownEffect DEF TypeOK, Strategies, Engines
<1>23. CASE UNCHANGED vars
  BY <1>23 DEF vars, TypeOK
<1>. QED
  BY <1>1, <1>2, <1>3, <1>4, <1>5, <1>6, <1>7, <1>8, <1>9, <1>10, <1>11, <1>12, <1>13,
     <1>14, <1>15, <1>16, <1>17, <1>18, <1>19, <1>20, <1>21, <1>22, <1>23
  DEF Next, Loop

-------------------------------------------------------------------------------
LEMMA OrdersStep ==
    ASSUME TypeOK, CallbackInv, OrdersInv, [Next]_vars
    PROVE  OrdersInv'
<1>. USE DEF durable, process, outside
<1>1. ASSUME Pause
      PROVE  OrdersInv'
  BY <1>1
  DEF Pause, OrdersInv, OrderInv
<1>2. ASSUME Deliver
      PROVE  OrdersInv'
  BY <1>2
  DEF Deliver, OrdersInv, OrderInv
<1>3. ASSUME ShowOrder
      PROVE  OrdersInv'
  BY <1>3
  DEF ShowOrder, OrdersInv, OrderInv
<1>4. ASSUME ShowTrade
      PROVE  OrdersInv'
  BY <1>4
  DEF ShowTrade, OrdersInv, OrderInv
<1>5. ASSUME DropMarket
      PROVE  OrdersInv'
  BY <1>5
  DEF DropMarket, OrdersInv, OrderInv
<1>6. ASSUME NEW f \in facts, DrainFact(f)
      PROVE  OrdersInv'
  BY <1>6, DrainFactEffect DEF OrdersInv, OrderInv, Facts, Final
<1>7. ASSUME NEW kind \in Kinds, NEW n \in Commands, MarketEvent(kind, n)
      PROVE  OrdersInv'
  BY <1>7
  DEF MarketEvent, OrdersInv, OrderInv
<1>8. ASSUME NEW fresh \in BOOLEAN, BeginCallback(fresh)
      PROVE  OrdersInv'
  BY <1>8
  DEF BeginCallback, OrdersInv, OrderInv
<1>9. ASSUME Quiet
      PROVE  OrdersInv'
  BY <1>9
  DEF Quiet, OrdersInv, OrderInv
<1>10. ASSUME WantEntry
       PROVE  OrdersInv'
  <2>1. pc = "callback" /\ Trade("open", Enter(strategy, engine.event.id))
    BY <1>10 DEF WantEntry, Trade
  <2>2. Enter(strategy, engine.event.id) \in Strategies
    BY <2>1, EnterTyped
  <2>3. CASE UNCHANGED <<status, offset, engine, strategy>>
    BY <2>1, <2>3 DEF Trade, OrdersInv, OrderInv
  <2>4. CASE ~UNCHANGED <<status, offset, engine, strategy>>
    <3>1. PICK c \in Commands :
             /\ c = engine.event.id /\ engine.gate # "blocked"
             /\ status[c] = "none" /\ strategy' = Enter(strategy, engine.event.id)
             /\ status' = [status EXCEPT ![c] = "pending"]
             /\ offset' = [offset EXCEPT ![c] = "open"]
             /\ engine' = [engine EXCEPT !.pending = @ \union {c}]
      BY <2>1, <2>2, <2>4, TradeEffect
    <3>. QED
      BY <2>1, <3>1 DEF Trade, TypeOK, OrdersInv, OrderInv
  <2>. QED
    BY <2>3, <2>4
<1>11. ASSUME WantExit
       PROVE  OrdersInv'
  <2>1. pc = "callback" /\ Trade("close", Exit(strategy, engine.event.id))
    BY <1>11 DEF WantExit, Trade
  <2>2. Exit(strategy, engine.event.id) \in Strategies
    BY <2>1, EnterTyped
  <2>3. CASE UNCHANGED <<status, offset, engine, strategy>>
    BY <2>1, <2>3 DEF Trade, OrdersInv, OrderInv
  <2>4. CASE ~UNCHANGED <<status, offset, engine, strategy>>
    <3>1. PICK c \in Commands :
             /\ c = engine.event.id /\ engine.gate # "blocked"
             /\ status[c] = "none" /\ strategy' = Exit(strategy, engine.event.id)
             /\ status' = [status EXCEPT ![c] = "pending"]
             /\ offset' = [offset EXCEPT ![c] = "close"]
             /\ engine' = [engine EXCEPT !.pending = @ \union {c}]
      BY <2>1, <2>2, <2>4, TradeEffect
    <3>. QED
      BY <2>1, <3>1 DEF Trade, TypeOK, OrdersInv, OrderInv
  <2>. QED
    BY <2>3, <2>4
<1>12. ASSUME EndCallback
       PROVE  OrdersInv'
  BY <1>12
  DEF EndCallback, OrdersInv, OrderInv
<1>13. ASSUME EndDelivery
       PROVE  OrdersInv'
  BY <1>13
  DEF EndDelivery, OrdersInv, OrderInv
<1>14. ASSUME NoCommand
       PROVE  OrdersInv'
  BY <1>14
  DEF NoCommand, OrdersInv, OrderInv
<1>15. ASSUME NEW c \in Commands, SendCommand(c)
       PROVE  OrdersInv'
  <2>1. OrderInv(c)'
    <3>1. OrderInv(c)
      BY DEF OrdersInv
    <3>. QED
      BY <1>15, <3>1, SendCommandEffect DEF OrderInv, TypeOK, Refused, Final
  <2>2. ASSUME NEW d \in Commands, d # c
        PROVE  OrderInv(d)'
    <3>1. status'[d] = status[d] /\ broker'[d] = broker[d] /\ orders'[d] = orders[d]
      BY <1>15, <2>2, SendCommandEffect DEF TypeOK
    <3>2. OrderInv(d)
      BY DEF OrdersInv
    <3>. QED
      BY <3>1, <3>2 DEF OrderInv
  <2>3. ASSUME NEW f \in facts'
        PROVE  broker'[f.id] = IF f.kind = "trade" THEN "filled" ELSE f.kind
    <3>0. f \in facts /\ f.id \in Commands
      BY <1>15, <2>3, SendCommandEffect DEF TypeOK, Facts
    <3>1. f.id # c
      <4>1. status[c] = "pending"
        BY <1>15, SendCommandEffect
      <4>2. broker[c] = "none"
        BY <4>1 DEF OrdersInv, OrderInv
      <4>. QED
        BY <3>0, <4>2 DEF OrdersInv, TypeOK, Facts
    <3>. QED
      BY <1>15, <3>0, <3>1, SendCommandEffect DEF OrdersInv, TypeOK
  <2>. QED
    BY <2>1, <2>2, <2>3 DEF OrdersInv
<1>16. ASSUME NEW c \in Commands, NEW result \in Refused, RefuseCommand(c, result)
       PROVE  OrdersInv'
  <2>1. OrderInv(c)'
    <3>1. OrderInv(c)
      BY DEF OrdersInv
    <3>2. /\ status'[c] = result /\ UNCHANGED broker /\ result \in {"rejected", "not_sent"}
          /\ orders'[c].state = IF result = "not_sent" THEN "terminal" ELSE orders[c].state
          /\ orders'[c].linked = orders[c].linked /\ orders'[c].booked = orders[c].booked
          /\ status[c] = "pending"
      BY <1>16, RefuseCommandEffect DEF TypeOK, Refused
    <3>3. ~orders[c].linked /\ broker[c] = "none" /\ ~orders[c].booked
          /\ orders[c].state = "none"
      BY <3>1, <3>2 DEF OrderInv, TypeOK
    <3>4. orders'[c].state \in {"none", "terminal"} /\ (orders'[c].state = "terminal" => result = "not_sent")
      BY <3>2, <3>3
    <3>. QED
      BY <3>2, <3>3, <3>4 DEF OrderInv
  <2>2. ASSUME NEW d \in Commands, d # c
        PROVE  OrderInv(d)'
    <3>1. status'[d] = status[d] /\ broker'[d] = broker[d] /\ orders'[d] = orders[d]
      BY <1>16, <2>2, RefuseCommandEffect DEF TypeOK
    <3>2. OrderInv(d)
      BY DEF OrdersInv
    <3>. QED
      BY <3>1, <3>2 DEF OrderInv
  <2>3. ASSUME NEW f \in facts'
        PROVE  broker'[f.id] = IF f.kind = "trade" THEN "filled" ELSE f.kind
    <3>0. f \in facts /\ f.id \in Commands
      BY <1>16, <2>3, RefuseCommandEffect DEF TypeOK, Facts
    <3>1. f.id # c
      <4>1. status[c] = "pending"
        BY <1>16, RefuseCommandEffect
      <4>2. broker[c] = "none"
        BY <4>1 DEF OrdersInv, OrderInv
      <4>. QED
        BY <3>0, <4>2 DEF OrdersInv, TypeOK, Facts
    <3>. QED
      BY <1>16, <3>0, <3>1, RefuseCommandEffect DEF OrdersInv, TypeOK
  <2>. QED
    BY <2>1, <2>2, <2>3 DEF OrdersInv
<1>17. ASSUME Crash
       PROVE  OrdersInv'
  BY <1>17
  DEF Crash, GoesDown, Down, OrdersInv, OrderInv
<1>18. ASSUME Restart
       PROVE  OrdersInv'
  BY <1>18
  DEF Restart, OrdersInv, OrderInv
<1>19. ASSUME Reconcile
       PROVE  OrdersInv'
  BY <1>19
  DEF Reconcile, OrdersInv, OrderInv
<1>20. ASSUME Start
       PROVE  OrdersInv'
  BY <1>20
  DEF Start, OrdersInv, OrderInv
<1>21. ASSUME NEW c \in Commands, Broker(c)
       PROVE  OrdersInv'
  <2>1. OrderInv(c)'
    <3>1. OrderInv(c)
      BY DEF OrdersInv
    <3>. QED
      BY <1>21, <3>1, BrokerEffect DEF OrderInv, TypeOK, Refused, Final
  <2>2. ASSUME NEW d \in Commands, d # c
        PROVE  OrderInv(d)'
    <3>1. status'[d] = status[d] /\ broker'[d] = broker[d] /\ orders'[d] = orders[d]
      BY <1>21, <2>2, BrokerEffect DEF TypeOK
    <3>2. OrderInv(d)
      BY DEF OrdersInv
    <3>. QED
      BY <3>1, <3>2 DEF OrderInv
  <2>3. ASSUME NEW f \in facts'
        PROVE  broker'[f.id] = IF f.kind = "trade" THEN "filled" ELSE f.kind
    <3>1. CASE f \in facts
      <4>1. f \in Facts /\ f.id \in Commands
        BY <3>1 DEF TypeOK, Facts
      <4>2. f.id # c
        BY <1>21, <3>1, <4>1, BrokerEffect DEF OrdersInv, Facts
      <4>. QED
        BY <1>21, <3>1, <4>1, <4>2, BrokerEffect DEF OrdersInv, TypeOK
    <3>2. CASE f \notin facts
      BY <1>21, <2>3, <3>2, BrokerEffect DEF TypeOK, News
    <3>. QED
      BY <3>1, <3>2
  <2>. QED
    BY <2>1, <2>2, <2>3 DEF OrdersInv
<1>22. ASSUME NEW c \in Commands, NEW received \in BOOLEAN, CrashInDispatch(c, received)
       PROVE  OrdersInv'
  <2>1. OrderInv(c)'
    <3>1. OrderInv(c)
      BY DEF OrdersInv
    <3>. QED
      BY <1>22, <3>1, CrashInDispatchEffect DEF OrderInv, TypeOK, Refused, Final
  <2>2. ASSUME NEW d \in Commands, d # c
        PROVE  OrderInv(d)'
    <3>1. status'[d] = status[d] /\ broker'[d] = broker[d] /\ orders'[d] = orders[d]
      BY <1>22, <2>2, CrashInDispatchEffect DEF TypeOK
    <3>2. OrderInv(d)
      BY DEF OrdersInv
    <3>. QED
      BY <3>1, <3>2 DEF OrderInv
  <2>3. ASSUME NEW f \in facts'
        PROVE  broker'[f.id] = IF f.kind = "trade" THEN "filled" ELSE f.kind
    <3>0. f \in facts /\ f.id \in Commands
      BY <1>22, <2>3, CrashInDispatchEffect DEF TypeOK, Facts
    <3>1. f.id # c
      <4>1. status[c] = "pending"
        BY <1>22, CrashInDispatchEffect
      <4>2. broker[c] = "none"
        BY <4>1 DEF OrdersInv, OrderInv
      <4>. QED
        BY <3>0, <4>2 DEF OrdersInv, TypeOK, Facts
    <3>. QED
      BY <1>22, <3>0, <3>1, CrashInDispatchEffect DEF OrdersInv, TypeOK
  <2>. QED
    BY <2>1, <2>2, <2>3 DEF OrdersInv
<1>23. CASE UNCHANGED vars
  BY <1>23 DEF vars, OrdersInv, OrderInv
<1>. QED
  BY <1>1, <1>2, <1>3, <1>4, <1>5, <1>6, <1>7, <1>8, <1>9, <1>10, <1>11, <1>12, <1>13,
     <1>14, <1>15, <1>16, <1>17, <1>18, <1>19, <1>20, <1>21, <1>22, <1>23
  DEF Next, Loop

-------------------------------------------------------------------------------
\* A command that a callback makes.
Made(c) ==
    /\ pc = "callback" /\ pc' = "called" /\ c = engine.event.id /\ engine.gate # "blocked"
    /\ status[c] = "none" /\ c \in engine'.pending /\ engine'.running = engine.running

\* Commands may trade from the callback that makes them on, and never again when
\* they are once through.
LEMMA LiveStep ==
    ASSUME TypeOK, OrdersInv, CallbackInv, NEW d \in Commands, [Next]_vars
    PROVE  Live(d)' => Live(d) \/ Made(d)
<1>. USE DEF durable, process, outside
<1>1. ASSUME Pause
      PROVE  Live(d)' => Live(d) \/ Made(d)
  BY <1>1
  DEF Pause, Live, StillOut
<1>2. ASSUME Deliver
      PROVE  Live(d)' => Live(d) \/ Made(d)
  BY <1>2
  DEF Deliver, Live, StillOut
<1>3. ASSUME ShowOrder
      PROVE  Live(d)' => Live(d) \/ Made(d)
  BY <1>3
  DEF ShowOrder, Live, StillOut
<1>4. ASSUME ShowTrade
      PROVE  Live(d)' => Live(d) \/ Made(d)
  BY <1>4
  DEF ShowTrade, Live, StillOut
<1>5. ASSUME DropMarket
      PROVE  Live(d)' => Live(d) \/ Made(d)
  BY <1>5
  DEF DropMarket, Live, StillOut
<1>6. ASSUME NEW f \in facts, DrainFact(f)
      PROVE  Live(d)' => Live(d) \/ Made(d)
  BY <1>6, DrainFactEffect DEF Live, StillOut, OrdersInv, OrderInv
<1>7. ASSUME NEW kind \in Kinds, NEW n \in Commands, MarketEvent(kind, n)
      PROVE  Live(d)' => Live(d) \/ Made(d)
  BY <1>7
  DEF MarketEvent, Live, StillOut
<1>8. ASSUME NEW fresh \in BOOLEAN, BeginCallback(fresh)
      PROVE  Live(d)' => Live(d) \/ Made(d)
  BY <1>8
  DEF BeginCallback, Live, StillOut
<1>9. ASSUME Quiet
      PROVE  Live(d)' => Live(d) \/ Made(d)
  BY <1>9
  DEF Quiet, Live, StillOut
<1>10. ASSUME WantEntry
       PROVE  Live(d)' => Live(d) \/ Made(d)
  <2>1. pc = "callback" /\ Trade("open", Enter(strategy, engine.event.id))
    BY <1>10 DEF WantEntry, Trade
  <2>2. Enter(strategy, engine.event.id) \in Strategies
    BY <2>1, EnterTyped
  <2>3. CASE UNCHANGED <<status, offset, engine, strategy>>
    BY <2>1, <2>3 DEF Trade, Live, StillOut
  <2>4. CASE ~UNCHANGED <<status, offset, engine, strategy>>
    <3>1. PICK c \in Commands :
             /\ c = engine.event.id /\ engine.gate # "blocked"
             /\ status[c] = "none" /\ strategy' = Enter(strategy, engine.event.id)
             /\ status' = [status EXCEPT ![c] = "pending"]
             /\ offset' = [offset EXCEPT ![c] = "open"]
             /\ engine' = [engine EXCEPT !.pending = @ \union {c}]
      BY <2>1, <2>2, <2>4, TradeEffect
    <3>0. c \in engine'.pending /\ engine'.running = engine.running
      BY <3>1 DEF TypeOK
    <3>2. d = c => Made(d)
      BY <2>1, <3>0, <3>1 DEF Made, Trade
    <3>3. d # c => status'[d] = status[d] /\ UNCHANGED orders
      BY <2>1, <3>1 DEF Trade, TypeOK
    <3>. QED
      BY <3>2, <3>3 DEF Live, StillOut
  <2>. QED
    BY <2>3, <2>4
<1>11. ASSUME WantExit
       PROVE  Live(d)' => Live(d) \/ Made(d)
  <2>1. pc = "callback" /\ Trade("close", Exit(strategy, engine.event.id))
    BY <1>11 DEF WantExit, Trade
  <2>2. Exit(strategy, engine.event.id) \in Strategies
    BY <2>1, EnterTyped
  <2>3. CASE UNCHANGED <<status, offset, engine, strategy>>
    BY <2>1, <2>3 DEF Trade, Live, StillOut
  <2>4. CASE ~UNCHANGED <<status, offset, engine, strategy>>
    <3>1. PICK c \in Commands :
             /\ c = engine.event.id /\ engine.gate # "blocked"
             /\ status[c] = "none" /\ strategy' = Exit(strategy, engine.event.id)
             /\ status' = [status EXCEPT ![c] = "pending"]
             /\ offset' = [offset EXCEPT ![c] = "close"]
             /\ engine' = [engine EXCEPT !.pending = @ \union {c}]
      BY <2>1, <2>2, <2>4, TradeEffect
    <3>0. c \in engine'.pending /\ engine'.running = engine.running
      BY <3>1 DEF TypeOK
    <3>2. d = c => Made(d)
      BY <2>1, <3>0, <3>1 DEF Made, Trade
    <3>3. d # c => status'[d] = status[d] /\ UNCHANGED orders
      BY <2>1, <3>1 DEF Trade, TypeOK
    <3>. QED
      BY <3>2, <3>3 DEF Live, StillOut
  <2>. QED
    BY <2>3, <2>4
<1>12. ASSUME EndCallback
       PROVE  Live(d)' => Live(d) \/ Made(d)
  BY <1>12
  DEF EndCallback, Live, StillOut
<1>13. ASSUME EndDelivery
       PROVE  Live(d)' => Live(d) \/ Made(d)
  BY <1>13
  DEF EndDelivery, Live, StillOut
<1>14. ASSUME NoCommand
       PROVE  Live(d)' => Live(d) \/ Made(d)
  BY <1>14
  DEF NoCommand, Live, StillOut
<1>15. ASSUME NEW c \in Commands, SendCommand(c)
       PROVE  Live(d)' => Live(d) \/ Made(d)
  <2>1. \A e \in Commands \ {c} : status'[e] = status[e] /\ orders'[e] = orders[e]
    BY <1>15, SendCommandEffect DEF TypeOK
  <2>2. Live(c)
    BY <1>15, SendCommandEffect DEF Live, StillOut, Outstanding
  <2>. QED
    BY <2>1, <2>2 DEF Live, StillOut
<1>16. ASSUME NEW c \in Commands, NEW result \in Refused, RefuseCommand(c, result)
       PROVE  Live(d)' => Live(d) \/ Made(d)
  <2>1. \A e \in Commands \ {c} : status'[e] = status[e] /\ orders'[e] = orders[e]
    BY <1>16, RefuseCommandEffect DEF TypeOK
  <2>2. Live(c)
    BY <1>16, RefuseCommandEffect DEF Live, StillOut, Outstanding
  <2>. QED
    BY <2>1, <2>2 DEF Live, StillOut
<1>17. ASSUME Crash
       PROVE  Live(d)' => Live(d) \/ Made(d)
  BY <1>17
  DEF Crash, GoesDown, Down, Live, StillOut
<1>18. ASSUME Restart
       PROVE  Live(d)' => Live(d) \/ Made(d)
  <2>1. status'[d] = IF status[d] = "dispatching" THEN "unknown" ELSE status[d]
    BY <1>18 DEF Restart
  <2>2. UNCHANGED orders
    BY <1>18 DEF Restart
  <2>. QED
    BY <2>1, <2>2 DEF Live, StillOut, Outstanding
<1>19. ASSUME Reconcile
       PROVE  Live(d)' => Live(d) \/ Made(d)
  BY <1>19
  DEF Reconcile, Live, StillOut
<1>20. ASSUME Start
       PROVE  Live(d)' => Live(d) \/ Made(d)
  BY <1>20, StartEffect DEF Live, StillOut
<1>21. ASSUME NEW c \in Commands, Broker(c)
       PROVE  Live(d)' => Live(d) \/ Made(d)
  BY <1>21
  DEF Broker, BrokerAct, Live, StillOut
<1>22. ASSUME NEW c \in Commands, NEW received \in BOOLEAN, CrashInDispatch(c, received)
       PROVE  Live(d)' => Live(d) \/ Made(d)
  <2>1. \A e \in Commands \ {c} : status'[e] = status[e] /\ orders'[e] = orders[e]
    BY <1>22, CrashInDispatchEffect DEF TypeOK
  <2>2. Live(c)
    BY <1>22, CrashInDispatchEffect DEF Live, StillOut, Outstanding
  <2>. QED
    BY <2>1, <2>2 DEF Live, StillOut
<1>23. CASE UNCHANGED vars
  BY <1>23 DEF vars, Live, StillOut
<1>. QED
  BY <1>1, <1>2, <1>3, <1>4, <1>5, <1>6, <1>7, <1>8, <1>9, <1>10, <1>11, <1>12, <1>13,
     <1>14, <1>15, <1>16, <1>17, <1>18, <1>19, <1>20, <1>21, <1>22, <1>23
  DEF Next, Loop

-------------------------------------------------------------------------------
LEMMA CallbackStep ==
    ASSUME TypeOK, OrdersInv, CallbackInv, [Next]_vars
    PROVE  CallbackInv'
<1>. USE DEF durable, process, outside
<1>0. \A d \in Commands : Live(d)' => Live(d) \/ Made(d)
  BY LiveStep
<1>1. ASSUME Pause
      PROVE  CallbackInv'
  BY <1>1, <1>0
  DEF Pause, CallbackInv, Running, Made
<1>2. ASSUME Deliver
      PROVE  CallbackInv'
  BY <1>2, <1>0
  DEF Deliver, CallbackInv, Running, Made
<1>3. ASSUME ShowOrder
      PROVE  CallbackInv'
  <2>1. pc = "deliver" /\ UNCHANGED <<pc, durable, engine>>
    BY <1>3, ShowOrderEffect
  <2>. QED
    BY <1>0, <2>1 DEF CallbackInv, Running, Made
<1>4. ASSUME ShowTrade
      PROVE  CallbackInv'
  <2>1. pc = "deliver" /\ UNCHANGED <<pc, durable>>
    BY <1>4, ShowTradeEffect
  <2>2. engine'.running = engine.running /\ engine'.pending = engine.pending
    BY <1>4, ShowTradeEffect DEF TypeOK
  <2>. QED
    BY <1>0, <2>1, <2>2 DEF CallbackInv, Running, Made
<1>5. ASSUME DropMarket
      PROVE  CallbackInv'
  BY <1>5, <1>0
  DEF DropMarket, CallbackInv, Running, Made
<1>6. ASSUME NEW f \in facts, DrainFact(f)
      PROVE  CallbackInv'
  <2>1. pc = "step" /\ UNCHANGED <<pc, checkpoint, engine, strategy>>
    BY <1>6, DrainFactEffect
  <2>. QED
    BY <1>0, <2>1 DEF CallbackInv, Running, Made
<1>7. ASSUME NEW kind \in Kinds, NEW n \in Commands, MarketEvent(kind, n)
      PROVE  CallbackInv'
  BY <1>7, <1>0
  DEF MarketEvent, CallbackInv, Running, Made
<1>8. ASSUME NEW fresh \in BOOLEAN, BeginCallback(fresh)
      PROVE  CallbackInv'
  <2>1. /\ pc = "deliver" /\ pc' = "callback" /\ Shown.id \in Commands
        /\ UNCHANGED <<status, orders>>
        /\ engine'.running = engine.running /\ engine'.event.id = Shown.id
        /\ engine'.pending = IF fresh THEN Retained(engine.pending) ELSE engine.pending
        /\ engine'.gate # "blocked" => fresh /\ ~PendingOrders(engine.pending)
        /\ checkpoint'.processing
    BY <1>8, BeginCallbackEffect
  <2>2. Running /\ \A d \in Commands : Live(d)' => Live(d) /\ d \in engine.pending /\ StillOut(d)
    BY <1>0, <2>1 DEF CallbackInv, Made, Live
  <2>3. \A d \in Commands : Live(d)' => d \in engine'.pending
    BY <2>1, <2>2 DEF Retained
  <2>4. engine'.gate # "blocked" => \A d \in Commands : ~Live(d)'
    BY <2>1, <2>2 DEF PendingOrders, Retained
  <2>. QED
    BY <2>1, <2>2, <2>3, <2>4 DEF CallbackInv, Running
<1>9. ASSUME Quiet
      PROVE  CallbackInv'
  BY <1>9, <1>0
  DEF Quiet, CallbackInv, Running, Made
<1>10. ASSUME WantEntry
       PROVE  CallbackInv'
  <2>1. pc = "callback" /\ Trade("open", Enter(strategy, engine.event.id))
    BY <1>10 DEF WantEntry, Trade
  <2>2. Enter(strategy, engine.event.id) \in Strategies
    BY <2>1, EnterTyped
  <2>3. CASE UNCHANGED <<status, offset, engine, strategy>>
    BY <1>0, <2>1, <2>3 DEF Trade, CallbackInv, Running, Made
  <2>4. CASE ~UNCHANGED <<status, offset, engine, strategy>>
    <3>1. PICK c \in Commands :
             /\ c = engine.event.id /\ engine.gate # "blocked"
             /\ status[c] = "none" /\ strategy' = Enter(strategy, engine.event.id)
             /\ status' = [status EXCEPT ![c] = "pending"]
             /\ offset' = [offset EXCEPT ![c] = "open"]
             /\ engine' = [engine EXCEPT !.pending = @ \union {c}]
      BY <2>1, <2>2, <2>4, TradeEffect
    <3>0. c \in engine'.pending /\ engine'.running = engine.running
          /\ engine.pending \subseteq engine'.pending
      BY <3>1 DEF TypeOK
    <3>. QED
      BY <1>0, <2>1, <3>0, <3>1 DEF Trade, CallbackInv, Running, Made
  <2>. QED
    BY <2>3, <2>4
<1>11. ASSUME WantExit
       PROVE  CallbackInv'
  <2>1. pc = "callback" /\ Trade("close", Exit(strategy, engine.event.id))
    BY <1>11 DEF WantExit, Trade
  <2>2. Exit(strategy, engine.event.id) \in Strategies
    BY <2>1, EnterTyped
  <2>3. CASE UNCHANGED <<status, offset, engine, strategy>>
    BY <1>0, <2>1, <2>3 DEF Trade, CallbackInv, Running, Made
  <2>4. CASE ~UNCHANGED <<status, offset, engine, strategy>>
    <3>1. PICK c \in Commands :
             /\ c = engine.event.id /\ engine.gate # "blocked"
             /\ status[c] = "none" /\ strategy' = Exit(strategy, engine.event.id)
             /\ status' = [status EXCEPT ![c] = "pending"]
             /\ offset' = [offset EXCEPT ![c] = "close"]
             /\ engine' = [engine EXCEPT !.pending = @ \union {c}]
      BY <2>1, <2>2, <2>4, TradeEffect
    <3>0. c \in engine'.pending /\ engine'.running = engine.running
          /\ engine.pending \subseteq engine'.pending
      BY <3>1 DEF TypeOK
    <3>. QED
      BY <1>0, <2>1, <3>0, <3>1 DEF Trade, CallbackInv, Running, Made
  <2>. QED
    BY <2>3, <2>4
<1>12. ASSUME EndCallback
       PROVE  CallbackInv'
  <2>1. /\ pc = "called" /\ pc' = "deliver" /\ engine'.running = engine.running
        /\ engine'.pending = engine.pending /\ checkpoint'.pending = engine.pending
    BY <1>12, EndCallbackEffect
  <2>. QED
    BY <1>0, <2>1 DEF CallbackInv, Running, Made
<1>13. ASSUME EndDelivery
       PROVE  CallbackInv'
  BY <1>13, <1>0
  DEF EndDelivery, CallbackInv, Running, Made
<1>14. ASSUME NoCommand
       PROVE  CallbackInv'
  BY <1>14, <1>0
  DEF NoCommand, CallbackInv, Running, Made
<1>15. ASSUME NEW c \in Commands, SendCommand(c)
       PROVE  CallbackInv'
  <2>1. /\ pc = "command" /\ pc' = "step"
        /\ UNCHANGED <<offset, position, checkpoint, process>>
    BY <1>15, SendCommandEffect
  <2>. QED
    BY <1>0, <2>1 DEF CallbackInv, Running, Made
<1>16. ASSUME NEW c \in Commands, NEW result \in Refused, RefuseCommand(c, result)
       PROVE  CallbackInv'
  <2>1. /\ pc = "command" /\ pc' = "step"
        /\ UNCHANGED <<offset, position, checkpoint, process>>
    BY <1>16, RefuseCommandEffect
  <2>. QED
    BY <1>0, <2>1 DEF CallbackInv, Running, Made
<1>17. ASSUME Crash
       PROVE  CallbackInv'
  <2>1. /\ pc' = "down" /\ ~engine'.running /\ strategy' = Fresh /\ observed' = <<>>
        /\ engine'.seen = {} /\ ~ready'
        /\ UNCHANGED durable
    BY <1>17, GoesDownEffect DEF Crash
  <2>. QED
    BY <1>0, <2>1 DEF CallbackInv, Running, Made
<1>18. ASSUME Restart
       PROVE  CallbackInv'
  BY <1>18, <1>0
  DEF Restart, CallbackInv, Running, Made
<1>19. ASSUME Reconcile
       PROVE  CallbackInv'
  BY <1>19, <1>0
  DEF Reconcile, CallbackInv, Running, Made
<1>20. ASSUME Start
       PROVE  CallbackInv'
  <2>1. /\ pc = "startup" /\ pc' = "step" /\ ~checkpoint.processing /\ engine'.running
        /\ engine'.pending = Retained(checkpoint.pending) /\ UNCHANGED durable
    BY <1>20, StartEffect
  <2>2. \A d \in Commands : Live(d)' => d \in engine'.pending
    BY <1>0, <2>1 DEF CallbackInv, Made, Live, Retained
  <2>. QED
    BY <1>0, <2>1, <2>2 DEF CallbackInv, Running, Made
<1>21. ASSUME NEW c \in Commands, Broker(c)
       PROVE  CallbackInv'
  <2>1. UNCHANGED <<pc, durable, process>>
    BY <1>21, BrokerEffect
  <2>. QED
    BY <1>0, <2>1 DEF CallbackInv, Running, Made
<1>22. ASSUME NEW c \in Commands, NEW received \in BOOLEAN, CrashInDispatch(c, received)
       PROVE  CallbackInv'
  <2>1. /\ pc' = "down" /\ ~engine'.running /\ strategy' = Fresh /\ observed' = <<>>
        /\ engine'.seen = {} /\ ~ready'
        /\ UNCHANGED checkpoint
    BY <1>22, CrashInDispatchEffect, GoesDownEffect
  <2>. QED
    BY <1>0, <2>1 DEF CallbackInv, Running, Made
<1>23. CASE UNCHANGED vars
  BY <1>23 DEF vars, CallbackInv, Running, Live, StillOut
<1>. QED
  BY <1>1, <1>2, <1>3, <1>4, <1>5, <1>6, <1>7, <1>8, <1>9, <1>10, <1>11, <1>12, <1>13,
     <1>14, <1>15, <1>16, <1>17, <1>18, <1>19, <1>20, <1>21, <1>22, <1>23
  DEF Next, Loop

-------------------------------------------------------------------------------
(* What the strategy waits for *)

LEMMA IntentsTyped ==
    ASSUME TypeOK
    PROVE  Intents \subseteq Commands /\ \A c \in Commands : c # None
BY RuntimeAssumption DEF TypeOK, Intents, Numbers, Commands, None, RuntimeAssumption

LEMMA OneIntent ==
    ASSUME TypeOK, IntentInv, Running, NEW c \in Intents
    PROVE  /\ c # None /\ \A d \in Intents : d = c
           /\ offset[c] = "open" => /\ c = strategy.opening /\ strategy.closing = None
                                    /\ strategy.position = 0 /\ strategy.planned
           /\ offset[c] # "open" => /\ c = strategy.closing /\ strategy.opening = None
                                    /\ strategy.position = 1
BY DEF IntentInv, Intents

LEMMA Through ==
    ASSUME OrdersInv, NEW c \in Commands, orders[c].state = "terminal" \/ status[c] \in Refused
    PROVE  ~Live(c)
BY DEF OrdersInv, OrderInv, Live, StillOut, Outstanding, Refused

LEMMA AtBrokerIsLive ==
    ASSUME TypeOK, OrdersInv, NEW c \in Commands, broker[c] \in {"received", "working"}
    PROVE  Live(c) /\ orders[c].state = "active" /\ ~orders[c].booked
<1>1. OrderInv(c)
  BY DEF OrdersInv
<1>2. orders[c].state \in {"none", "active", "terminal"}
  BY DEF TypeOK
<1>. QED
  BY <1>1, <1>2 DEF OrderInv, Live, StillOut, Final

LEMMA LiveSame ==
    ASSUME UNCHANGED <<status, orders>>
    PROVE  \A c \in Commands : Live(c)' <=> Live(c)
BY DEF Live, StillOut

LEMMA WaitingSame ==
    ASSUME UNCHANGED observed
    PROVE  Unshown' = Unshown
BY DEF Unshown

\* Nothing new is waited for, and what may still trade or was given up is clear.
LEMMA IntentsFewer ==
    ASSUME TypeOK, IntentInv, UNCHANGED offset,
           engine'.running = engine.running, engine'.seen = engine.seen,
           strategy'.position = strategy.position, strategy'.planned = strategy.planned,
           strategy'.opening \in {None, strategy.opening},
           strategy'.closing \in {None, strategy.closing},
           \A c \in Commands : /\ status'[c] = "none" => status[c] = "none"
                               /\ Live(c)' => Live(c)
                               /\ Live(c)' /\ c \in Intents => c \in Intents'
                               /\ broker[c] = "filled" => broker'[c] = "filled"
                               /\ c \in Intents' /\ FateComes(c) => FateComes(c)'
    PROVE  IntentInv'
<1>. SUFFICES ASSUME Running'
              PROVE  IntentInv'
  BY DEF IntentInv
<1>1. Running
  BY DEF Running
<1>2. Intents' \subseteq Intents /\ Intents \subseteq Commands
  BY IntentsTyped DEF Intents
<1>3. ASSUME NEW c \in Intents'
      PROVE  /\ status'[c] # "none" /\ c \notin engine'.seen /\ FateComes(c)'
             /\ offset'[c] = IF c = strategy'.opening THEN "open" ELSE "close"
  <2>1. c \in Intents /\ c \in Commands /\ c # None
    BY <1>2, IntentsTyped
  <2>2. c = strategy'.opening <=> c = strategy.opening
    BY <1>1, <2>1 DEF IntentInv, Intents
  <2>. QED
    BY <1>1, <2>1, <2>2 DEF IntentInv
<1>4. \A c \in Commands : Live(c)' => c \in Intents'
  BY <1>1 DEF IntentInv
<1>5. \A c \in engine'.seen : broker'[c] = "filled"
  BY <1>1 DEF IntentInv, TypeOK
<1>6. /\ strategy'.opening # None =>
            strategy'.position = 0 /\ strategy'.closing = None /\ strategy'.planned
      /\ strategy'.closing # None => strategy'.position = 1
  BY <1>1 DEF IntentInv
<1>. QED
  BY <1>3, <1>4, <1>5, <1>6 DEF IntentInv

LEMMA IntentsSame ==
    ASSUME TypeOK, IntentInv,
           UNCHANGED <<status, offset, orders, broker, engine, strategy>>,
           \A c \in Commands, kind \in {"cancelled", "rejected"} :
              News(kind, c) \in Unshown => News(kind, c) \in Unshown'
    PROVE  IntentInv'
<1>1. \A c \in Commands : (Live(c)' <=> Live(c)) /\ (FateComes(c) => FateComes(c)')
  BY LiveSame DEF FateComes
<1>2. Intents' = Intents
  BY DEF Intents
<1>. QED
  BY <1>1, <1>2, IntentsFewer

LEMMA RuntimeIntentStep ==
    ASSUME ReportsNameOrder, TypeOK, OrdersInv, CallbackInv, IntentInv, ToldInv, LotInv, StartInv,
           [Next]_vars
    PROVE  IntentInv'
<1>. USE DEF durable, process, outside
<1>1. ASSUME Pause
      PROVE  IntentInv'
  BY <1>1, IntentsSame, WaitingSame DEF Pause
<1>2. ASSUME Deliver
      PROVE  IntentInv'
  BY <1>2, IntentsSame, WaitingSame DEF Deliver
<1>3. ASSUME ShowOrder
      PROVE  IntentInv'
  <2>1. /\ Running /\ Shown \in Unshown /\ Shown.kind \in Final
        /\ Unshown' \subseteq Unshown /\ Unshown \subseteq Unshown' \union {Shown}
        /\ UNCHANGED <<durable, engine, outside>>
    BY <1>3, ShowOrderEffect, EventShown DEF CallbackInv
  <2>2. Shown \in facts /\ Shown.id \in Commands /\ ~Live(Shown.id)
    <3>1. Shown \in facts /\ orders[Shown.id].state = "terminal"
      BY <2>1 DEF ToldInv, Kinds, Final
    <3>2. Shown.id \in Commands
      BY <3>1 DEF TypeOK, Facts
    <3>. QED
      BY <3>1, <3>2, Through
  <2>3. /\ strategy'.position = strategy.position /\ strategy'.planned = strategy.planned
        /\ strategy'.opening = IF Shown.kind # "filled" /\ strategy.opening = Shown.id
                               THEN None ELSE strategy.opening
        /\ strategy'.closing = IF Shown.kind # "filled" /\ strategy.closing = Shown.id
                               THEN None ELSE strategy.closing
    BY <1>3, ShowOrderEffect
  <2>4. /\ \A c \in Intents : c \notin Intents' => c = Shown.id
        /\ \A c \in Intents' : c = Shown.id => Shown.kind = "filled"
        /\ strategy'.opening \in {None, strategy.opening}
        /\ strategy'.closing \in {None, strategy.closing}
    BY <2>3 DEF Intents
  <2>5. \A c \in Commands : Live(c)' <=> Live(c)
    BY <2>1, LiveSame
  <2>6. \A c \in Intents', kind \in {"cancelled", "rejected"} :
           News(kind, c) \in Unshown => News(kind, c) \in Unshown'
    BY <2>1, <2>4 DEF News
  <2>7. \A c \in Commands : c \in Intents' /\ FateComes(c) => FateComes(c)'
    BY <2>1, <2>5, <2>6 DEF FateComes
  <2>8. \A c \in Commands : Live(c)' /\ c \in Intents => c \in Intents'
    BY <2>2, <2>4, <2>5
  <2>. QED
    BY <2>1, <2>3, <2>4, <2>5, <2>7, <2>8, IntentsFewer
<1>4. ASSUME ShowTrade
      PROVE  IntentInv'
  <2>1. /\ Running /\ Shown \in Unshown /\ Shown.kind = "trade"
        /\ Unshown' \subseteq Unshown /\ Unshown \subseteq Unshown' \union {Shown}
        /\ UNCHANGED <<durable, outside>>
    BY <1>4, ShowTradeEffect, EventShown DEF CallbackInv
  <2>2. /\ Shown \in facts /\ Shown.id \in Commands /\ orders[Shown.id].state = "terminal"
        /\ broker[Shown.id] = "filled" /\ News("trade", Shown.id) \in facts
    <3>1. Shown \in facts /\ orders[Shown.id].state = "terminal"
      BY <2>1 DEF ToldInv, Kinds
    <3>2. Shown.id \in Commands /\ Shown = News("trade", Shown.id)
      BY <2>1, <3>1 DEF TypeOK, Facts, News
    <3>. QED
      BY <2>1, <3>1, <3>2 DEF OrdersInv
  <2>3. CASE ~ToTell
    <3>1. UNCHANGED <<engine, strategy>>
      BY <1>4, <2>3 DEF ShowTrade
    <3>2. \A c \in Commands, kind \in {"cancelled", "rejected"} :
             News(kind, c) \in Unshown => News(kind, c) \in Unshown'
      BY <2>1 DEF News
    <3>. QED
      BY <2>1, <3>1, <3>2, IntentsSame
  <2>4. CASE ToTell
    <3>. DEFINE c == Shown.id
    <3>1. c \in Commands /\ c \notin engine.seen /\ c \in Intents
      BY <1>4, <2>1, <2>2, <2>4, ShowTradeEffect DEF ToldInv
    <3>2. \A d \in Intents : d = c
      BY <2>1, <3>1, OneIntent
    <3>3. strategy'.opening = None /\ strategy'.closing = None
      BY <1>4, <2>1, <2>4, <3>1, OneIntent, ShowTradeEffect DEF TypeOK
    <3>4. \A d \in Commands : ~Live(d)'
      BY <2>1, <2>2, <3>1, <3>2, Through, LiveSame DEF IntentInv
    <3>5. engine'.seen = engine.seen \union {c}
      BY <1>4, <2>4, ShowTradeEffect DEF TypeOK
    <3>6. \A d \in engine'.seen : broker'[d] = "filled"
      BY <2>1, <2>2, <3>5 DEF IntentInv
    <3>7. Intents' = {}
      BY <3>3 DEF Intents
    <3>. QED
      BY <3>3, <3>4, <3>6, <3>7 DEF IntentInv
  <2>. QED
    BY <2>3, <2>4
<1>5. ASSUME DropMarket
      PROVE  IntentInv'
  <2>1. /\ UNCHANGED <<durable, engine, strategy, broker>>
        /\ Unshown \subseteq Unshown' \union {Shown} /\ Shown.kind \in Kinds
    BY <1>5, EventShown DEF DropMarket, Delivering
  <2>2. \A c \in Commands, kind \in {"cancelled", "rejected"} :
           News(kind, c) \in Unshown => News(kind, c) \in Unshown'
    BY <2>1 DEF News, Kinds
  <2>. QED
    BY <2>1, <2>2, IntentsSame
<1>6. ASSUME NEW f \in facts, DrainFact(f)
      PROVE  IntentInv'
  <2>1. /\ pc = "step" /\ Running /\ f \in Facts /\ f.id \in Commands
        /\ UNCHANGED <<status, offset, engine, strategy, broker>>
        /\ orders'[f.id].state = "terminal"
        /\ \A c \in Commands \ {f.id} : orders'[c] = orders[c]
    BY <1>6, DrainFactEffect DEF CallbackInv
  <2>2. Unshown' = Unshown \union {f}
    <3>1. News(f.kind, Named(f)) = f
      BY <2>1 DEF News, Named, Facts
    <3>. QED
      BY <1>6, <3>1, DrainFactEffect, EventQueued
  <2>3. broker[f.id] = IF f.kind = "trade" THEN "filled" ELSE f.kind
    BY DEF OrdersInv
  <2>4. \A c \in Commands : /\ Live(c)' => Live(c)
                            /\ Live(c) => Live(c)' \/ c = f.id
    BY <2>1, LiveStep, OrdersStep, Through DEF Live, StillOut, Made
  <2>5. FateComes(f.id)'
    <3>1. CASE f.kind \in {"filled", "trade"}
      BY <2>1, <2>3, <3>1 DEF FateComes
    <3>2. CASE f.kind \in {"cancelled", "rejected"}
      <4>1. f = News(f.kind, f.id)
        BY <2>1 DEF News, Facts
      <4>. QED
        BY <2>2, <3>2, <4>1 DEF FateComes
    <3>. QED
      BY <2>1, <3>1, <3>2 DEF Facts
  <2>6. \A c \in Commands : FateComes(c) => FateComes(c)'
    BY <2>1, <2>2, <2>4, <2>5 DEF FateComes
  <2>. QED
    BY <2>1, <2>4, <2>6, IntentsFewer DEF Intents
<1>7. ASSUME NEW kind \in Kinds, NEW n \in Commands, MarketEvent(kind, n)
      PROVE  IntentInv'
  <2>1. /\ UNCHANGED <<durable, engine, strategy, broker>> /\ Unshown \subseteq Unshown'
    BY <1>7, MarketEventEffect, EventQueued
  <2>. QED
    BY <2>1, IntentsSame
<1>8. ASSUME NEW fresh \in BOOLEAN, BeginCallback(fresh)
      PROVE  IntentInv'
  <2>1. /\ pc = "deliver" /\ Running /\ Shown.kind \in Kinds
        /\ Unshown' \subseteq Unshown /\ Unshown \subseteq Unshown' \union {Shown}
        /\ UNCHANGED <<status, offset, orders, position, ready, outside>>
    BY <1>8, BeginCallbackEffect, EventShown DEF CallbackInv
  <2>2. /\ engine'.running = engine.running /\ engine'.seen = engine.seen
        /\ engine'.pending = IF fresh THEN Retained(engine.pending) ELSE engine.pending
        /\ strategy'.position = strategy.position /\ strategy'.planned = strategy.planned
        /\ strategy'.opening = IF /\ fresh /\ strategy.opening \in engine.pending
                                  /\ status[strategy.opening] \in Refused
                               THEN None ELSE strategy.opening
        /\ strategy'.closing = IF /\ fresh /\ strategy.closing \in engine.pending
                                  /\ status[strategy.closing] \in Refused
                               THEN None ELSE strategy.closing
    BY <1>8, BeginCallbackEffect
  <2>3. \A c \in Commands : Live(c)' <=> Live(c)
    BY <2>1, LiveSame
  <2>4. /\ strategy'.opening \in {None, strategy.opening}
        /\ strategy'.closing \in {None, strategy.closing}
    BY <2>2
  <2>5. \A c \in Commands : Live(c)' /\ c \in Intents => c \in Intents'
    BY <2>2, <2>3, Through DEF Intents
  <2>6. \A c \in Intents' : status[c] \in Refused /\ c \in engine.pending => c \in engine'.pending
    BY <2>2 DEF Intents
  <2>7. \A c \in Commands, kind \in {"cancelled", "rejected"} :
           News(kind, c) \in Unshown => News(kind, c) \in Unshown'
    BY <2>1 DEF News, Kinds
  <2>8. \A c \in Commands : c \in Intents' /\ FateComes(c) => FateComes(c)'
    BY <2>1, <2>3, <2>6, <2>7 DEF FateComes
  <2>. QED
    BY <2>1, <2>2, <2>3, <2>4, <2>5, <2>8, IntentsFewer
<1>9. ASSUME Quiet
      PROVE  IntentInv'
  BY <1>9, IntentsSame, WaitingSame DEF Quiet
<1>10. ASSUME WantEntry
       PROVE  IntentInv'
  <2>1. pc = "callback" /\ Trade("open", Enter(strategy, engine.event.id))
    BY <1>10 DEF WantEntry, Trade
  <2>2. Enter(strategy, engine.event.id) \in Strategies
    BY <2>1, EnterTyped
  <2>3. CASE UNCHANGED <<status, offset, engine, strategy>>
    BY <2>1, <2>3, IntentsSame, WaitingSame DEF Trade
  <2>4. CASE ~UNCHANGED <<status, offset, engine, strategy>>
    <3>1. PICK c \in Commands :
             /\ c = engine.event.id /\ engine.gate # "blocked"
             /\ status[c] = "none" /\ strategy' = Enter(strategy, engine.event.id)
             /\ status' = [status EXCEPT ![c] = "pending"]
             /\ offset' = [offset EXCEPT ![c] = "open"]
             /\ engine' = [engine EXCEPT !.pending = @ \union {c}]
      BY <2>1, <2>2, <2>4, TradeEffect
    <3>0. /\ c \in engine'.pending /\ engine'.running = engine.running
          /\ engine'.seen = engine.seen /\ c # None
      BY <2>1, <3>1, EnterTyped DEF TypeOK
    <3>2. Running /\ \A d \in Commands : ~Live(d)
      BY <2>1, <3>1 DEF CallbackInv
    <3>3. strategy.opening = None /\ strategy.closing = None /\ strategy.position = 0
      BY <1>10, <3>2 DEF WantEntry, IntentInv, TypeOK, MayEnter, MayExit
    <3>4. /\ strategy'.opening = c /\ strategy'.closing = None /\ strategy'.position = strategy.position
          /\ strategy'.planned
      BY <3>1, <3>3 DEF TypeOK, Enter, Exit
    <3>5. Intents' = {c}
      BY <3>0, <3>4 DEF Intents
    <3>6. /\ status'[c] = "pending" /\ offset'[c] = "open" /\ UNCHANGED <<orders, broker>>
          /\ \A d \in Commands \ {c} : status'[d] = status[d]
      BY <2>1, <3>1 DEF Trade, TypeOK
    <3>7. Live(c)' /\ FateComes(c)' /\ \A d \in Commands \ {c} : ~Live(d)'
      BY <3>2, <3>6 DEF Live, StillOut, Outstanding, FateComes
    <3>8. c \notin engine.seen
      BY <3>1, <3>2 DEF IntentInv, OrdersInv, OrderInv
    <3>9. Running' /\ \A d \in engine'.seen : broker'[d] = "filled"
      BY <3>0, <3>2, <3>6 DEF IntentInv, Running
    <3>. QED
      BY <3>0, <3>3, <3>4, <3>5, <3>6, <3>7, <3>8, <3>9 DEF IntentInv
  <2>. QED
    BY <2>3, <2>4
<1>11. ASSUME WantExit
       PROVE  IntentInv'
  <2>1. pc = "callback" /\ Trade("close", Exit(strategy, engine.event.id))
    BY <1>11 DEF WantExit, Trade
  <2>2. Exit(strategy, engine.event.id) \in Strategies
    BY <2>1, EnterTyped
  <2>3. CASE UNCHANGED <<status, offset, engine, strategy>>
    BY <2>1, <2>3, IntentsSame, WaitingSame DEF Trade
  <2>4. CASE ~UNCHANGED <<status, offset, engine, strategy>>
    <3>1. PICK c \in Commands :
             /\ c = engine.event.id /\ engine.gate # "blocked"
             /\ status[c] = "none" /\ strategy' = Exit(strategy, engine.event.id)
             /\ status' = [status EXCEPT ![c] = "pending"]
             /\ offset' = [offset EXCEPT ![c] = "close"]
             /\ engine' = [engine EXCEPT !.pending = @ \union {c}]
      BY <2>1, <2>2, <2>4, TradeEffect
    <3>0. /\ c \in engine'.pending /\ engine'.running = engine.running
          /\ engine'.seen = engine.seen /\ c # None
      BY <2>1, <3>1, EnterTyped DEF TypeOK
    <3>2. Running /\ \A d \in Commands : ~Live(d)
      BY <2>1, <3>1 DEF CallbackInv
    <3>3. strategy.opening = None /\ strategy.closing = None /\ strategy.position = 1
      BY <1>11, <3>2 DEF WantExit, IntentInv, TypeOK, MayEnter, MayExit
    <3>4. /\ strategy'.closing = c /\ strategy'.opening = None /\ strategy'.position = strategy.position
          /\ strategy'.planned = strategy.planned
      BY <3>1, <3>3 DEF TypeOK, Enter, Exit
    <3>5. Intents' = {c}
      BY <3>0, <3>4 DEF Intents
    <3>6. /\ status'[c] = "pending" /\ offset'[c] = "close" /\ UNCHANGED <<orders, broker>>
          /\ \A d \in Commands \ {c} : status'[d] = status[d]
      BY <2>1, <3>1 DEF Trade, TypeOK
    <3>7. Live(c)' /\ FateComes(c)' /\ \A d \in Commands \ {c} : ~Live(d)'
      BY <3>2, <3>6 DEF Live, StillOut, Outstanding, FateComes
    <3>8. c \notin engine.seen
      BY <3>1, <3>2 DEF IntentInv, OrdersInv, OrderInv
    <3>9. Running' /\ \A d \in engine'.seen : broker'[d] = "filled"
      BY <3>0, <3>2, <3>6 DEF IntentInv, Running
    <3>. QED
      BY <3>0, <3>3, <3>4, <3>5, <3>6, <3>7, <3>8, <3>9 DEF IntentInv
  <2>. QED
    BY <2>3, <2>4
<1>12. ASSUME EndCallback
       PROVE  IntentInv'
  <2>1. /\ UNCHANGED <<status, offset, orders, position, strategy, observed, outside>>
        /\ engine'.running = engine.running /\ engine'.seen = engine.seen
        /\ engine'.pending = engine.pending
    BY <1>12, EndCallbackEffect DEF EndCallback
  <2>2. \A c \in Commands : (Live(c)' <=> Live(c)) /\ (FateComes(c) => FateComes(c)')
    BY <2>1, LiveSame, WaitingSame DEF FateComes
  <2>. QED
    BY <2>1, <2>2, IntentsFewer DEF Intents
<1>13. ASSUME EndDelivery
       PROVE  IntentInv'
  BY <1>13, IntentsSame, WaitingSame DEF EndDelivery
<1>14. ASSUME NoCommand
       PROVE  IntentInv'
  BY <1>14, IntentsSame, WaitingSame DEF NoCommand
<1>15. ASSUME NEW c \in Commands, SendCommand(c)
       PROVE  IntentInv'
  <2>1. /\ UNCHANGED <<offset, engine, strategy, observed>> /\ status[c] = "pending"
        /\ status'[c] = "unknown" /\ \A d \in Commands \ {c} : status'[d] = status[d]
        /\ orders'[c].state = "active" /\ \A d \in Commands \ {c} : orders'[d] = orders[d]
        /\ broker'[c] = "received" /\ \A d \in Commands \ {c} : broker'[d] = broker[d]
    BY <1>15, SendCommandEffect DEF TypeOK
  <2>2. broker[c] = "none" /\ Live(c) /\ Live(c)'
    BY <2>1 DEF OrdersInv, OrderInv, Live, StillOut, Outstanding
  <2>3. \A d \in Commands : Live(d)' <=> Live(d)
    BY <2>1, <2>2 DEF Live, StillOut
  <2>4. \A d \in Commands : FateComes(d) => FateComes(d)'
    BY <2>1, <2>2, <2>3, WaitingSame DEF FateComes
  <2>. QED
    BY <2>1, <2>2, <2>3, <2>4, IntentsFewer DEF Intents
<1>16. ASSUME NEW c \in Commands, NEW result \in Refused, RefuseCommand(c, result)
       PROVE  IntentInv'
  <2>1. /\ pc = "command" /\ UNCHANGED <<offset, engine, strategy, observed, broker>>
        /\ status[c] = "pending" /\ status'[c] = result
        /\ \A d \in Commands \ {c} : status'[d] = status[d]
        /\ \A d \in Commands \ {c} : orders'[d] = orders[d]
    BY <1>16, RefuseCommandEffect DEF TypeOK
  <2>2. Running /\ Live(c) /\ c \in engine.pending
    BY <2>1 DEF CallbackInv, Live, StillOut, Outstanding
  <2>3. \A d \in Commands : (Live(d)' => Live(d)) /\ (Live(d) => Live(d)' \/ d = c)
    BY <2>1, <2>2 DEF Live, StillOut
  <2>4. FateComes(c)' /\ \A d \in Commands \ {c} : FateComes(d) => FateComes(d)'
    BY <2>1, <2>2, <2>3, WaitingSame DEF FateComes
  <2>5. status'[c] # "none"
    BY <2>1 DEF Refused
  <2>. QED
    BY <2>1, <2>3, <2>4, <2>5, IntentsFewer DEF Intents
<1>17. ASSUME Crash
       PROVE  IntentInv'
  BY <1>17, GoesDownEffect DEF Crash, IntentInv, Running
<1>18. ASSUME Restart
       PROVE  IntentInv'
  <2>1. ~engine'.running
    BY <1>18 DEF Restart, CallbackInv, Running
  <2>. QED
    BY <2>1 DEF IntentInv, Running
<1>19. ASSUME Reconcile
       PROVE  IntentInv'
  BY <1>19, IntentsSame, WaitingSame DEF Reconcile
<1>20. ASSUME Start
       PROVE  IntentInv'
  <2>1. /\ pc = "startup" /\ ~checkpoint.processing /\ ~PendingOrders(checkpoint.pending)
        /\ engine'.running /\ engine'.seen = engine.seen
        /\ UNCHANGED <<durable, strategy, observed, outside>>
    BY <1>20, StartEffect
  <2>2. /\ ~Running /\ strategy' = Fresh /\ engine'.seen = {}
    BY <2>1 DEF CallbackInv
  <2>3. \A d \in Commands : ~Live(d)'
    BY <2>1, LiveSame DEF CallbackInv, PendingOrders, Retained, Live
  <2>4. strategy'.opening = None /\ strategy'.closing = None /\ Intents' = {}
    BY <2>2 DEF Fresh, Intents
  <2>. QED
    BY <2>2, <2>3, <2>4 DEF IntentInv
<1>21. ASSUME NEW c \in Commands, Broker(c)
       PROVE  IntentInv'
  <2>1. /\ UNCHANGED <<durable, process>> /\ broker[c] \in {"received", "working"}
        /\ \A d \in Commands \ {c} : broker'[d] = broker[d]
    BY <1>21, BrokerEffect DEF TypeOK
  <2>2. \A d \in Commands : (Live(d)' <=> Live(d)) /\ (FateComes(d) => FateComes(d)')
    BY <2>1, LiveSame, WaitingSame DEF FateComes
  <2>. QED
    BY <2>1, <2>2, IntentsFewer DEF Intents
<1>22. ASSUME NEW c \in Commands, NEW received \in BOOLEAN, CrashInDispatch(c, received)
       PROVE  IntentInv'
  <2>1. ~engine'.running
    BY <1>22, CrashInDispatchEffect, GoesDownEffect
  <2>. QED
    BY <2>1 DEF IntentInv, Running
<1>23. CASE UNCHANGED vars
  BY <1>23, IntentsSame, WaitingSame DEF vars
<1>. QED
  BY <1>1, <1>2, <1>3, <1>4, <1>5, <1>6, <1>7, <1>8, <1>9, <1>10, <1>11, <1>12, <1>13,
     <1>14, <1>15, <1>16, <1>17, <1>18, <1>19, <1>20, <1>21, <1>22, <1>23
  DEF Next, Loop

-------------------------------------------------------------------------------
(* What the strategy has been told *)

\* Nothing is filled or booked, and what is given up was not filled.
LEMMA ToldKept ==
    ASSUME TypeOK, OrdersInv, ToldInv, UNCHANGED <<facts, position>>,
           engine'.running = engine.running, engine'.seen = engine.seen,
           strategy'.position = strategy.position,
           \A c \in Commands :
              /\ orders'[c].booked <=> orders[c].booked
              /\ orders[c].state = "terminal" => orders'[c].state = "terminal"
              /\ broker'[c] = "filled" => broker[c] = "filled"
              /\ c \in Intents' => c \in Intents
              /\ c \in Intents /\ broker[c] = "filled" => c \in Intents'
              /\ c \in Intents' /\ News("trade", c) \in Unshown => News("trade", c) \in Unshown',
           \A x \in Unshown' : x.kind \notin Kinds => x \in Unshown,
           Intents' \subseteq Commands
    PROVE  ToldInv'
<1>. SUFFICES ASSUME Running'
              PROVE  ToldInv'
  BY DEF ToldInv
<1>1. Running
  BY DEF Running
<1>2. \A c \in Commands : /\ News("trade", c) \in facts => broker[c] = "filled"
                          /\ orders[c].booked => broker[c] = "filled"
  BY DEF OrdersInv, OrderInv, News
<1>3. Intents \subseteq Commands
  BY IntentsTyped
<1>4. \A c \in Commands : broker'[c] = "filled" /\ ~orders'[c].booked => c \in Intents'
  BY <1>1 DEF ToldInv
<1>5. \A c \in Commands : News("trade", c) \in facts' => c \in Intents' \union engine'.seen
  BY <1>1, <1>2 DEF ToldInv
<1>6. ASSUME NEW x \in Unshown', x.kind \notin Kinds
      PROVE  /\ x \in facts' /\ orders'[x.id].state = "terminal"
             /\ x.kind = "trade" => orders'[x.id].booked
  <2>1. x \in Unshown /\ x \in facts /\ x.id \in Commands
    BY <1>1, <1>6 DEF ToldInv, TypeOK, Facts
  <2>. QED
    BY <1>1, <1>6, <2>1 DEF ToldInv
<1>7. \A c \in Intents' : orders'[c].booked => News("trade", c) \in Unshown'
  BY <1>1 DEF ToldInv
<1>8. (\E c \in Intents' : orders'[c].booked) <=> (\E c \in Intents : orders[c].booked)
  BY <1>2, <1>3
<1>9. position' = IF \E c \in Intents' : orders'[c].booked THEN 1 - strategy'.position
                  ELSE strategy'.position
  BY <1>1, <1>8 DEF ToldInv
<1>. QED
  BY <1>4, <1>5, <1>6, <1>7, <1>9 DEF ToldInv

LEMMA ToldSame ==
    ASSUME TypeOK, OrdersInv, ToldInv,
           UNCHANGED <<orders, position, broker, facts, engine, strategy>>,
           \A c \in Commands : News("trade", c) \in Unshown => News("trade", c) \in Unshown',
           \A x \in Unshown' : x.kind \notin Kinds => x \in Unshown
    PROVE  ToldInv'
<1>1. Intents' = Intents
  BY DEF Intents
<1>. QED
  BY <1>1, IntentsTyped, ToldKept

-------------------------------------------------------------------------------
(* What is booked, and what is not settled *)

LEMMA CommandsFinite ==
    ASSUME NEW S \in SUBSET Commands
    PROVE  IsFiniteSet(S) /\ Cardinality(S) \in Nat
<1>1. IsFiniteSet(Commands)
  BY FS_Interval, RuntimeAssumption DEF Commands, RuntimeAssumption
<1>. QED
  BY <1>1, FS_Subset, FS_CardinalityType

LEMMA OneMore ==
    ASSUME NEW S \in SUBSET Commands, NEW c \in Commands, c \notin S
    PROVE  Cardinality(S \union {c}) = Cardinality(S) + 1
BY CommandsFinite, FS_AddElement

\* What the broker holds is what is booked but for the one order not settled.
LEMMA FilledAreBooked ==
    ASSUME TypeOK, OrdersInv, LotInv
    PROVE  /\ BookedAs("open") \subseteq {c \in Commands : Opened(c)}
           /\ BookedAs("close") \subseteq {c \in Commands : Closed(c)}
           /\ {c \in Commands : Opened(c)} \subseteq BookedAs("open") \union Unsettled
           /\ {c \in Commands : Closed(c)} \subseteq BookedAs("close") \union Unsettled
BY DEF OrdersInv, OrderInv, Opened, Closed, BookedAs, Unsettled

\* When the account's position is the broker's, every fill is booked.
LEMMA AllBooked ==
    ASSUME TypeOK, OrdersInv, LotInv, position = BrokerPosition
    PROVE  \A c \in Commands : broker[c] = "filled" => orders[c].booked
<1>. SUFFICES ASSUME NEW c \in Commands, broker[c] = "filled", ~orders[c].booked
              PROVE  FALSE
  OBVIOUS
<1>. DEFINE O == BookedAs("open")
            C == BookedAs("close")
<1>1. c \in Unsettled /\ \A d \in Unsettled : d = c
  BY DEF Unsettled, LotInv
<1>2. /\ O \in SUBSET Commands /\ C \in SUBSET Commands /\ c \notin O /\ c \notin C
  BY DEF BookedAs
<1>3. /\ Cardinality(O \union {c}) = Cardinality(O) + 1
      /\ Cardinality(C \union {c}) = Cardinality(C) + 1
      /\ Cardinality(O) \in Nat /\ Cardinality(C) \in Nat
  BY <1>2, OneMore, CommandsFinite
<1>4. CASE offset[c] = "open"
  <2>1. {d \in Commands : Opened(d)} = O \union {c} /\ {d \in Commands : Closed(d)} = C
    BY <1>1, <1>4, FilledAreBooked DEF Opened, Closed
  <2>2. BrokerPosition = Cardinality(O \union {c}) - Cardinality(C)
    BY <2>1, Zenon DEF BrokerPosition
  <2>3. BrokerPosition = Cardinality(O) - Cardinality(C)
    BY DEF LotInv
  <2>. QED
    BY <1>3, <2>2, <2>3
<1>5. CASE offset[c] = "close"
  <2>1. {d \in Commands : Opened(d)} = O /\ {d \in Commands : Closed(d)} = C \union {c}
    BY <1>1, <1>5, FilledAreBooked DEF Opened, Closed
  <2>2. BrokerPosition = Cardinality(O) - Cardinality(C \union {c})
    BY <2>1, Zenon DEF BrokerPosition
  <2>3. BrokerPosition = Cardinality(O) - Cardinality(C)
    BY DEF LotInv
  <2>. QED
    BY <1>3, <2>2, <2>3
<1>. QED
  BY <1>4, <1>5 DEF TypeOK

LEMMA ToldStep ==
    ASSUME ReportsNameOrder, TypeOK, OrdersInv, CallbackInv, IntentInv, ToldInv, LotInv, StartInv,
           [Next]_vars
    PROVE  ToldInv'
<1>. USE DEF durable, process, outside
<1>1. ASSUME Pause
      PROVE  ToldInv'
  BY <1>1, ToldSame, WaitingSame DEF Pause
<1>2. ASSUME Deliver
      PROVE  ToldInv'
  BY <1>2, ToldSame, WaitingSame DEF Deliver
<1>3. ASSUME ShowOrder
      PROVE  ToldInv'
  <2>1. /\ Running /\ Shown \in Unshown /\ Shown.kind \in Final
        /\ Unshown' \subseteq Unshown /\ Unshown \subseteq Unshown' \union {Shown}
        /\ UNCHANGED <<durable, engine, outside>>
    BY <1>3, ShowOrderEffect, EventShown DEF CallbackInv
  <2>2. broker[Shown.id] = Shown.kind
    BY <2>1 DEF ToldInv, OrdersInv, Final, Kinds
  <2>3. /\ strategy'.position = strategy.position
        /\ strategy'.opening = IF Shown.kind # "filled" /\ strategy.opening = Shown.id
                               THEN None ELSE strategy.opening
        /\ strategy'.closing = IF Shown.kind # "filled" /\ strategy.closing = Shown.id
                               THEN None ELSE strategy.closing
    BY <1>3, ShowOrderEffect
  <2>4. /\ Intents' \subseteq Intents
        /\ \A c \in Intents : broker[c] = "filled" => c \in Intents'
    BY <2>2, <2>3 DEF Intents
  <2>5. \A c \in Commands : News("trade", c) \in Unshown => News("trade", c) \in Unshown'
    BY <2>1 DEF News, Final
  <2>. QED
    BY <2>1, <2>3, <2>4, <2>5, IntentsTyped, ToldKept
<1>4. ASSUME ShowTrade
      PROVE  ToldInv'
  <2>1. /\ Running /\ Shown \in Unshown /\ Shown.kind = "trade"
        /\ Unshown' \subseteq Unshown /\ Unshown \subseteq Unshown' \union {Shown}
        /\ UNCHANGED <<durable, outside>>
    BY <1>4, ShowTradeEffect, EventShown DEF CallbackInv
  <2>2. /\ Shown \in facts /\ Shown.id \in Commands /\ Shown = News("trade", Shown.id)
        /\ orders[Shown.id].booked
    <3>1. Shown \in facts /\ orders[Shown.id].booked
      BY <2>1 DEF ToldInv, Kinds
    <3>. QED
      BY <2>1, <3>1 DEF TypeOK, Facts, News
  <2>3. CASE ~ToTell
    <3>1. UNCHANGED <<engine, strategy>> /\ Intents' = Intents
      BY <1>4, <2>3 DEF ShowTrade, Intents
    <3>2. Shown.id \in engine.seen
      BY <2>2, <2>3, IntentsTyped DEF ToTell, HasSeen
    <3>3. \A c \in Intents : News("trade", c) \in Unshown => News("trade", c) \in Unshown'
      BY <2>1, <3>2 DEF News, IntentInv
    <3>. QED
      BY <2>1, <3>1, <3>3, IntentsTyped, ToldKept
  <2>4. CASE ToTell
    <3>. DEFINE c == Shown.id
    <3>1. c \in Commands /\ c \notin engine.seen /\ c \in Intents
      BY <1>4, <2>1, <2>2, <2>4, ShowTradeEffect DEF ToldInv
    <3>2. \A d \in Intents : d = c
      BY <2>1, <3>1, OneIntent
    <3>3. /\ strategy'.opening = None /\ strategy'.closing = None
          /\ strategy.position \in {0, 1} /\ strategy'.position = 1 - strategy.position
      BY <1>4, <2>1, <2>4, <3>1, OneIntent, ShowTradeEffect DEF TypeOK
    <3>4. Intents' = {}
      BY <3>3 DEF Intents
    <3>5. engine'.seen = engine.seen \union {c} /\ engine'.running = engine.running
      BY <1>4, <2>4, ShowTradeEffect DEF TypeOK
    <3>6. position' = strategy'.position
      BY <2>1, <2>2, <3>1, <3>3 DEF ToldInv
    <3>7. \A d \in Commands : broker'[d] = "filled" => orders'[d].booked
      BY <2>1, <2>2, <3>2 DEF ToldInv
    <3>8. \A d \in Commands : News("trade", d) \in facts' => d \in engine'.seen
      BY <2>1, <3>2, <3>5 DEF ToldInv
    <3>. QED
      BY <2>1, <3>4, <3>6, <3>7, <3>8 DEF ToldInv
  <2>. QED
    BY <2>3, <2>4
<1>5. ASSUME DropMarket
      PROVE  ToldInv'
  <2>1. /\ UNCHANGED <<durable, engine, strategy, outside>> /\ Unshown' \subseteq Unshown
        /\ Unshown \subseteq Unshown' \union {Shown} /\ Shown.kind \in Kinds
    BY <1>5, EventShown DEF DropMarket, Delivering
  <2>2. \A c \in Commands : News("trade", c) \in Unshown => News("trade", c) \in Unshown'
    BY <2>1 DEF News, Kinds
  <2>. QED
    BY <2>1, <2>2, ToldSame
<1>6. ASSUME NEW f \in facts, DrainFact(f)
      PROVE  ToldInv'
  <2>1. /\ pc = "step" /\ Running /\ f \in Facts /\ f.id \in Commands
        /\ UNCHANGED <<status, offset, engine, strategy, broker, facts>>
        /\ orders'[f.id].state = "terminal"
        /\ orders'[f.id].booked <=> orders[f.id].booked \/ f.kind = "trade"
        /\ \A c \in Commands \ {f.id} : orders'[c] = orders[c]
        /\ position' = IF f.kind # "trade" \/ orders[f.id].booked THEN position
                       ELSE IF offset[f.id] = "open" THEN position + 1 ELSE position - 1
    BY <1>6, DrainFactEffect DEF CallbackInv
  <2>2. f = News(f.kind, f.id) /\ Unshown' = Unshown \union {f}
    <3>1. News(f.kind, Named(f)) = f /\ f = News(f.kind, f.id)
      BY <2>1 DEF News, Named, Facts
    <3>. QED
      BY <1>6, <3>1, DrainFactEffect, EventQueued
  <2>3. Intents' = Intents /\ Intents \subseteq Commands /\ Running'
    BY <2>1, IntentsTyped DEF Intents, Running
  <2>4. \A c \in Commands : orders[c].booked => orders'[c].booked
    BY <2>1
  <2>5. \A c \in Commands : broker'[c] = "filled" /\ ~orders'[c].booked => c \in Intents'
    BY <2>1, <2>3, <2>4 DEF ToldInv
  <2>6. \A c \in Commands : News("trade", c) \in facts' => c \in Intents' \union engine'.seen
    BY <2>1, <2>3 DEF ToldInv
  <2>7. ASSUME NEW x \in Unshown', x.kind \notin Kinds
        PROVE  /\ x \in facts' /\ orders'[x.id].state = "terminal"
               /\ x.kind = "trade" => orders'[x.id].booked
    <3>1. CASE x = f
      BY <2>1, <3>1
    <3>2. CASE x # f
      <4>1. x \in Unshown /\ x \in facts /\ x.id \in Commands
        BY <2>1, <2>2, <2>7, <3>2 DEF ToldInv, TypeOK, Facts
      <4>. QED
        BY <2>1, <2>4, <2>7, <4>1 DEF ToldInv
    <3>. QED
      BY <3>1, <3>2
  <2>8. \A c \in Intents' : orders'[c].booked => News("trade", c) \in Unshown'
    BY <2>1, <2>2, <2>3 DEF ToldInv
  <2>9. CASE f.kind # "trade" \/ orders[f.id].booked
    <3>1. \A c \in Commands : orders'[c].booked <=> orders[c].booked
      BY <2>1, <2>9
    <3>2. position' = IF \E c \in Intents' : orders'[c].booked THEN 1 - strategy'.position
                      ELSE strategy'.position
      BY <2>1, <2>3, <2>9, <3>1 DEF ToldInv
    <3>. QED
      BY <2>5, <2>6, <2>7, <2>8, <3>2 DEF ToldInv
  <2>10. CASE f.kind = "trade" /\ ~orders[f.id].booked
    <3>1. f.id \in Intents
      BY <2>1, <2>2, <2>10 DEF ToldInv, OrdersInv
    <3>2. position = strategy.position
      BY <2>1, <2>10, <3>1, OneIntent DEF ToldInv
    <3>3. position' = 1 - strategy'.position
      BY <2>1, <2>10, <3>1, <3>2, OneIntent
    <3>4. orders'[f.id].booked
      BY <2>1, <2>10
    <3>. QED
      BY <2>3, <2>5, <2>6, <2>7, <2>8, <3>1, <3>3, <3>4 DEF ToldInv
  <2>. QED
    BY <2>9, <2>10
<1>7. ASSUME NEW kind \in Kinds, NEW n \in Commands, MarketEvent(kind, n)
      PROVE  ToldInv'
  <2>1. /\ UNCHANGED <<durable, engine, strategy, broker, facts>>
        /\ Unshown' = Unshown \union {News(kind, n)}
    BY <1>7, MarketEventEffect, EventQueued
  <2>. QED
    BY <2>1, ToldSame DEF News
<1>8. ASSUME NEW fresh \in BOOLEAN, BeginCallback(fresh)
      PROVE  ToldInv'
  <2>1. /\ pc = "deliver" /\ Running /\ Shown.kind \in Kinds
        /\ Unshown' \subseteq Unshown /\ Unshown \subseteq Unshown' \union {Shown}
        /\ UNCHANGED <<status, offset, orders, position, ready, outside>>
    BY <1>8, BeginCallbackEffect, EventShown DEF CallbackInv
  <2>2. /\ engine'.running = engine.running /\ engine'.seen = engine.seen
        /\ strategy'.position = strategy.position
        /\ strategy'.opening = IF /\ fresh /\ strategy.opening \in engine.pending
                                  /\ status[strategy.opening] \in Refused
                               THEN None ELSE strategy.opening
        /\ strategy'.closing = IF /\ fresh /\ strategy.closing \in engine.pending
                                  /\ status[strategy.closing] \in Refused
                               THEN None ELSE strategy.closing
    BY <1>8, BeginCallbackEffect
  <2>3. Intents' \subseteq Intents
    BY <2>2 DEF Intents
  <2>4. \A c \in Commands : status[c] \in Refused => broker[c] # "filled"
    BY DEF OrdersInv, OrderInv, Refused
  <2>5. \A c \in Commands : c \in Intents /\ broker[c] = "filled" => c \in Intents'
    BY <2>2, <2>4 DEF Intents
  <2>6. \A c \in Commands : News("trade", c) \in Unshown => News("trade", c) \in Unshown'
    BY <2>1 DEF News, Kinds
  <2>. QED
    BY <2>1, <2>2, <2>3, <2>5, <2>6, IntentsTyped, ToldKept
<1>9. ASSUME Quiet
      PROVE  ToldInv'
  BY <1>9, ToldSame, WaitingSame DEF Quiet
<1>10. ASSUME WantEntry
       PROVE  ToldInv'
  <2>1. pc = "callback" /\ Trade("open", Enter(strategy, engine.event.id))
    BY <1>10 DEF WantEntry, Trade
  <2>2. Enter(strategy, engine.event.id) \in Strategies
    BY <2>1, EnterTyped
  <2>3. CASE UNCHANGED <<status, offset, engine, strategy>>
    BY <2>1, <2>3, ToldSame, WaitingSame DEF Trade
  <2>4. CASE ~UNCHANGED <<status, offset, engine, strategy>>
    <3>1. PICK c \in Commands :
             /\ c = engine.event.id /\ engine.gate # "blocked"
             /\ status[c] = "none" /\ strategy' = Enter(strategy, engine.event.id)
             /\ status' = [status EXCEPT ![c] = "pending"]
             /\ offset' = [offset EXCEPT ![c] = "open"]
             /\ engine' = [engine EXCEPT !.pending = @ \union {c}]
      BY <2>1, <2>2, <2>4, TradeEffect
    <3>0. engine'.running = engine.running /\ engine'.seen = engine.seen /\ c # None
      BY <2>1, <3>1, EnterTyped DEF TypeOK
    <3>2. Running /\ \A d \in Commands : ~Live(d)
      BY <2>1, <3>1 DEF CallbackInv
    <3>3. strategy.opening = None /\ strategy.closing = None /\ Intents = {}
      BY <1>10, <3>2 DEF WantEntry, IntentInv, TypeOK, MayEnter, MayExit, Intents
    <3>4. strategy'.opening = c /\ strategy'.closing = None /\ strategy'.position = strategy.position
      BY <3>1, <3>3 DEF TypeOK, Enter, Exit
    <3>5. Intents' = {c}
      BY <3>0, <3>4 DEF Intents
    <3>6. UNCHANGED <<orders, broker, facts, position, observed>>
      BY <2>1, <3>1 DEF Trade
    <3>7. ~orders[c].booked /\ Unshown' = Unshown
      BY <3>1, <3>6, WaitingSame DEF OrdersInv, OrderInv
    <3>8. position = strategy.position
      BY <3>2, <3>3 DEF ToldInv
    <3>. QED
      BY <3>0, <3>2, <3>3, <3>4, <3>5, <3>6, <3>7, <3>8 DEF ToldInv, Running
  <2>. QED
    BY <2>3, <2>4
<1>11. ASSUME WantExit
       PROVE  ToldInv'
  <2>1. pc = "callback" /\ Trade("close", Exit(strategy, engine.event.id))
    BY <1>11 DEF WantExit, Trade
  <2>2. Exit(strategy, engine.event.id) \in Strategies
    BY <2>1, EnterTyped
  <2>3. CASE UNCHANGED <<status, offset, engine, strategy>>
    BY <2>1, <2>3, ToldSame, WaitingSame DEF Trade
  <2>4. CASE ~UNCHANGED <<status, offset, engine, strategy>>
    <3>1. PICK c \in Commands :
             /\ c = engine.event.id /\ engine.gate # "blocked"
             /\ status[c] = "none" /\ strategy' = Exit(strategy, engine.event.id)
             /\ status' = [status EXCEPT ![c] = "pending"]
             /\ offset' = [offset EXCEPT ![c] = "close"]
             /\ engine' = [engine EXCEPT !.pending = @ \union {c}]
      BY <2>1, <2>2, <2>4, TradeEffect
    <3>0. engine'.running = engine.running /\ engine'.seen = engine.seen /\ c # None
      BY <2>1, <3>1, EnterTyped DEF TypeOK
    <3>2. Running /\ \A d \in Commands : ~Live(d)
      BY <2>1, <3>1 DEF CallbackInv
    <3>3. strategy.opening = None /\ strategy.closing = None /\ Intents = {}
      BY <1>11, <3>2 DEF WantExit, IntentInv, TypeOK, MayEnter, MayExit, Intents
    <3>4. strategy'.closing = c /\ strategy'.opening = None /\ strategy'.position = strategy.position
      BY <3>1, <3>3 DEF TypeOK, Enter, Exit
    <3>5. Intents' = {c}
      BY <3>0, <3>4 DEF Intents
    <3>6. UNCHANGED <<orders, broker, facts, position, observed>>
      BY <2>1, <3>1 DEF Trade
    <3>7. ~orders[c].booked /\ Unshown' = Unshown
      BY <3>1, <3>6, WaitingSame DEF OrdersInv, OrderInv
    <3>8. position = strategy.position
      BY <3>2, <3>3 DEF ToldInv
    <3>. QED
      BY <3>0, <3>2, <3>3, <3>4, <3>5, <3>6, <3>7, <3>8 DEF ToldInv, Running
  <2>. QED
    BY <2>3, <2>4
<1>12. ASSUME EndCallback
       PROVE  ToldInv'
  <2>1. /\ UNCHANGED <<orders, position, strategy, observed, outside>>
        /\ engine'.running = engine.running /\ engine'.seen = engine.seen
    BY <1>12, EndCallbackEffect DEF EndCallback
  <2>. QED
    BY <2>1, WaitingSame, IntentsTyped, ToldKept DEF Intents
<1>13. ASSUME EndDelivery
       PROVE  ToldInv'
  BY <1>13, ToldSame, WaitingSame DEF EndDelivery
<1>14. ASSUME NoCommand
       PROVE  ToldInv'
  BY <1>14, ToldSame, WaitingSame DEF NoCommand
<1>15. ASSUME NEW c \in Commands, SendCommand(c)
       PROVE  ToldInv'
  <2>1. /\ UNCHANGED <<position, facts, engine, strategy, observed>> /\ status[c] = "pending"
        /\ orders'[c].booked = orders[c].booked /\ \A d \in Commands \ {c} : orders'[d] = orders[d]
        /\ broker'[c] = "received" /\ \A d \in Commands \ {c} : broker'[d] = broker[d]
    BY <1>15, SendCommandEffect DEF TypeOK
  <2>2. orders[c].state # "terminal"
    BY <2>1 DEF OrdersInv, OrderInv
  <2>3. Intents' = Intents /\ Intents \subseteq Commands
    BY <2>1, IntentsTyped DEF Intents
  <2>. QED
    BY <2>1, <2>2, <2>3, WaitingSame, ToldKept
<1>16. ASSUME NEW c \in Commands, NEW result \in Refused, RefuseCommand(c, result)
       PROVE  ToldInv'
  <2>1. /\ UNCHANGED <<position, facts, engine, strategy, observed, broker>>
        /\ status[c] = "pending"
        /\ orders'[c].booked = orders[c].booked /\ \A d \in Commands \ {c} : orders'[d] = orders[d]
    BY <1>16, RefuseCommandEffect DEF TypeOK
  <2>2. orders[c].state # "terminal"
    BY <2>1 DEF OrdersInv, OrderInv
  <2>3. Intents' = Intents /\ Intents \subseteq Commands
    BY <2>1, IntentsTyped DEF Intents
  <2>. QED
    BY <2>1, <2>2, <2>3, WaitingSame, ToldKept
<1>17. ASSUME Crash
       PROVE  ToldInv'
  BY <1>17, GoesDownEffect DEF Crash, ToldInv, Running
<1>18. ASSUME Restart
       PROVE  ToldInv'
  <2>1. ~engine'.running
    BY <1>18 DEF Restart, CallbackInv, Running
  <2>. QED
    BY <2>1 DEF ToldInv, Running
<1>19. ASSUME Reconcile
       PROVE  ToldInv'
  BY <1>19, ToldSame, WaitingSame DEF Reconcile
<1>20. ASSUME Start
       PROVE  ToldInv'
  <2>1. /\ pc = "startup" /\ ready /\ ~PendingOrders(checkpoint.pending) /\ position = 0
        /\ engine'.running /\ engine'.seen = engine.seen
        /\ UNCHANGED <<durable, strategy, observed, outside>>
    BY <1>20, StartEffect
  <2>2. /\ ~Running /\ strategy' = Fresh /\ engine'.seen = {} /\ observed' = <<>>
    BY <2>1 DEF CallbackInv
  <2>3. strategy'.opening = None /\ strategy'.closing = None /\ strategy'.position = 0
    BY <2>2 DEF Fresh
  <2>4. Intents' = {} /\ Unshown' = {}
    BY <2>2, <2>3 DEF Intents, Unshown
  <2>5. \A c \in Commands : broker[c] = "filled" => orders[c].booked
    BY <2>1, AllBooked DEF StartInv, PendingOrders
  <2>6. \A c \in Commands : News("trade", c) \notin facts
    BY <2>1, <2>5 DEF StartInv, OrdersInv, News
  <2>. QED
    BY <2>1, <2>3, <2>4, <2>5, <2>6 DEF ToldInv
<1>21. ASSUME NEW c \in Commands, Broker(c)
       PROVE  ToldInv'
  <2>. SUFFICES ASSUME Running
                PROVE  ToldInv'
    BY <1>21, BrokerEffect DEF ToldInv, Running
  <2>1. /\ UNCHANGED <<durable, process>> /\ broker[c] \in {"received", "working"}
        /\ \A d \in Commands \ {c} : broker'[d] = broker[d]
        /\ facts \subseteq facts'
    BY <1>21, BrokerEffect DEF TypeOK
  <2>2. Intents' = Intents /\ Unshown' = Unshown /\ c \in Intents
    BY <2>1, AtBrokerIsLive, WaitingSame DEF Intents, IntentInv
  <2>3. \A d \in Commands : News("trade", d) \in facts' => News("trade", d) \in facts \/ d = c
    BY <1>21, BrokerEffect DEF News
  <2>. QED
    BY <2>1, <2>2, <2>3 DEF ToldInv
<1>22. ASSUME NEW c \in Commands, NEW received \in BOOLEAN, CrashInDispatch(c, received)
       PROVE  ToldInv'
  <2>1. ~engine'.running
    BY <1>22, CrashInDispatchEffect, GoesDownEffect
  <2>. QED
    BY <2>1 DEF ToldInv, Running
<1>23. CASE UNCHANGED vars
  BY <1>23, ToldSame, WaitingSame DEF vars
<1>. QED
  BY <1>1, <1>2, <1>3, <1>4, <1>5, <1>6, <1>7, <1>8, <1>9, <1>10, <1>11, <1>12, <1>13,
     <1>14, <1>15, <1>16, <1>17, <1>18, <1>19, <1>20, <1>21, <1>22, <1>23
  DEF Next, Loop

-------------------------------------------------------------------------------
\* Nothing is booked, and what is not settled gets no more.
LEMMA LotKept ==
    ASSUME TypeOK, LotInv, UNCHANGED position,
           \A c \in Commands : /\ orders'[c].booked <=> orders[c].booked
                               /\ orders[c].booked => offset'[c] = offset[c]
                               /\ c \in Unsettled' => c \in Unsettled /\ offset'[c] = offset[c]
    PROVE  LotInv'
<1>1. BookedAs("open")' = BookedAs("open") /\ BookedAs("close")' = BookedAs("close")
  BY DEF BookedAs
<1>2. Unsettled' \subseteq Commands
  BY DEF Unsettled
<1>. QED
  BY <1>1, <1>2 DEF LotInv

\* Before an order goes out nothing else is not settled.
LEMMA FirstToSettle ==
    ASSUME TypeOK, OrdersInv, CallbackInv, IntentInv, ToldInv, NEW c \in Commands, Running,
           status[c] = "pending"
    PROVE  /\ Unsettled = {} /\ broker[c] = "none" /\ ~orders[c].booked
           /\ position = IF offset[c] = "open" THEN 0 ELSE 1
<1>1. broker[c] = "none" /\ ~orders[c].booked /\ Live(c)
  BY DEF OrdersInv, OrderInv, Live, StillOut, Outstanding
<1>2. c \in Intents /\ \A d \in Intents : d = c
  BY <1>1, OneIntent DEF IntentInv
<1>3. ASSUME NEW d \in Unsettled
      PROVE  FALSE
  <2>1. d \in Intents
    BY <1>3, AtBrokerIsLive DEF Unsettled, IntentInv, ToldInv
  <2>. QED
    BY <1>1, <1>2, <2>1 DEF Unsettled
<1>4. position = strategy.position
  BY <1>1, <1>2 DEF ToldInv
<1>. QED
  BY <1>1, <1>2, <1>3, <1>4, OneIntent

\* The order that goes out is the one not settled.
LEMMA LotSent ==
    ASSUME TypeOK, OrdersInv, CallbackInv, IntentInv, ToldInv, LotInv, NEW c \in Commands,
           Running, status[c] = "pending", UNCHANGED <<offset, position>>,
           \A d \in Commands : orders'[d].booked <=> orders[d].booked,
           \A d \in Commands \ {c} : broker'[d] = broker[d]
    PROVE  LotInv'
<1>1. /\ Unsettled = {} /\ broker[c] = "none" /\ ~orders[c].booked
      /\ position = IF offset[c] = "open" THEN 0 ELSE 1
  BY FirstToSettle
<1>2. \A d \in Unsettled' : d = c
  BY <1>1 DEF Unsettled
<1>3. BookedAs("open")' = BookedAs("open") /\ BookedAs("close")' = BookedAs("close")
  BY DEF BookedAs
<1>. QED
  BY <1>1, <1>2, <1>3 DEF LotInv

LEMMA LotStep ==
    ASSUME TypeOK, OrdersInv, CallbackInv, IntentInv, ToldInv, LotInv, [Next]_vars
    PROVE  LotInv'
<1>. USE DEF durable, process, outside
<1>1. ASSUME Pause
      PROVE  LotInv'
  BY <1>1, LotKept DEF Pause, Unsettled
<1>2. ASSUME Deliver
      PROVE  LotInv'
  BY <1>2, LotKept DEF Deliver, Unsettled
<1>3. ASSUME ShowOrder
      PROVE  LotInv'
  BY <1>3, ShowOrderEffect, LotKept DEF Unsettled
<1>4. ASSUME ShowTrade
      PROVE  LotInv'
  BY <1>4, ShowTradeEffect, LotKept DEF Unsettled
<1>5. ASSUME DropMarket
      PROVE  LotInv'
  BY <1>5, LotKept DEF DropMarket, Unsettled
<1>6. ASSUME NEW f \in facts, DrainFact(f)
      PROVE  LotInv'
  <2>1. /\ f \in Facts /\ f.id \in Commands /\ f \in facts
        /\ UNCHANGED <<offset, broker>>
        /\ orders'[f.id].booked <=> orders[f.id].booked \/ f.kind = "trade"
        /\ \A c \in Commands \ {f.id} : orders'[c] = orders[c]
        /\ position' = IF f.kind # "trade" \/ orders[f.id].booked THEN position
                       ELSE IF offset[f.id] = "open" THEN position + 1 ELSE position - 1
    BY <1>6, DrainFactEffect
  <2>2. CASE f.kind # "trade" \/ orders[f.id].booked
    <3>1. \A c \in Commands : orders'[c].booked <=> orders[c].booked
      BY <2>1, <2>2
    <3>. QED
      BY <2>1, <2>2, <3>1, LotKept DEF Unsettled
  <2>3. CASE f.kind = "trade" /\ ~orders[f.id].booked
    <3>1. broker[f.id] = "filled" /\ f.id \in Unsettled /\ orders'[f.id].booked
      BY <2>1, <2>3 DEF OrdersInv, Unsettled
    <3>2. Unsettled' = {}
      BY <2>1, <2>3, <3>1 DEF LotInv, Unsettled
    <3>3. \A o : BookedAs(o) \in SUBSET Commands /\ f.id \notin BookedAs(o)
      BY <2>3 DEF BookedAs
    <3>4. /\ Cardinality(BookedAs("open")) \in Nat /\ Cardinality(BookedAs("close")) \in Nat
          /\ Cardinality(BookedAs("open") \union {f.id}) = Cardinality(BookedAs("open")) + 1
          /\ Cardinality(BookedAs("close") \union {f.id}) = Cardinality(BookedAs("close")) + 1
      BY <2>1, <3>3, OneMore, CommandsFinite
    <3>5. CASE offset[f.id] = "open"
      <4>1. /\ BookedAs("open")' = BookedAs("open") \union {f.id}
            /\ BookedAs("close")' = BookedAs("close")
        BY <2>1, <3>1, <3>5 DEF BookedAs
      <4>2. position = 0 /\ position' = 1
        BY <2>1, <2>3, <3>1, <3>5 DEF LotInv
      <4>3. /\ Cardinality(BookedAs("open"))' = Cardinality(BookedAs("open")) + 1
            /\ Cardinality(BookedAs("close"))' = Cardinality(BookedAs("close"))
        BY <3>4, <4>1
      <4>. QED
        BY <3>2, <3>4, <4>2, <4>3 DEF LotInv
    <3>6. CASE offset[f.id] = "close"
      <4>1. /\ BookedAs("close")' = BookedAs("close") \union {f.id}
            /\ BookedAs("open")' = BookedAs("open")
        BY <2>1, <3>1, <3>6 DEF BookedAs
      <4>2. position = 1 /\ position' = 0
        BY <2>1, <2>3, <3>1, <3>6 DEF LotInv
      <4>3. /\ Cardinality(BookedAs("close"))' = Cardinality(BookedAs("close")) + 1
            /\ Cardinality(BookedAs("open"))' = Cardinality(BookedAs("open"))
        BY <3>4, <4>1
      <4>. QED
        BY <3>2, <3>4, <4>2, <4>3 DEF LotInv
    <3>. QED
      BY <2>1, <3>5, <3>6 DEF TypeOK
  <2>. QED
    BY <2>1, <2>2, <2>3
<1>7. ASSUME NEW kind \in Kinds, NEW n \in Commands, MarketEvent(kind, n)
      PROVE  LotInv'
  BY <1>7, MarketEventEffect, LotKept DEF Unsettled
<1>8. ASSUME NEW fresh \in BOOLEAN, BeginCallback(fresh)
      PROVE  LotInv'
  BY <1>8, BeginCallbackEffect, LotKept DEF Unsettled
<1>9. ASSUME Quiet
      PROVE  LotInv'
  BY <1>9, LotKept DEF Quiet, Unsettled
<1>10. ASSUME WantEntry
       PROVE  LotInv'
  <2>1. pc = "callback" /\ Trade("open", Enter(strategy, engine.event.id))
    BY <1>10 DEF WantEntry, Trade
  <2>2. Enter(strategy, engine.event.id) \in Strategies
    BY <2>1, EnterTyped
  <2>3. CASE UNCHANGED <<status, offset, engine, strategy>>
    BY <2>1, <2>3, LotKept DEF Trade, Unsettled
  <2>4. CASE ~UNCHANGED <<status, offset, engine, strategy>>
    <3>1. PICK c \in Commands :
             /\ c = engine.event.id /\ engine.gate # "blocked"
             /\ status[c] = "none" /\ strategy' = Enter(strategy, engine.event.id)
             /\ status' = [status EXCEPT ![c] = "pending"]
             /\ offset' = [offset EXCEPT ![c] = "open"]
             /\ engine' = [engine EXCEPT !.pending = @ \union {c}]
      BY <2>1, <2>2, <2>4, TradeEffect
    <3>2. /\ UNCHANGED <<orders, broker, position>>
          /\ \A d \in Commands \ {c} : offset'[d] = offset[d]
      BY <2>1, <3>1 DEF Trade, TypeOK
    <3>3. ~orders[c].booked /\ broker[c] = "none"
      BY <3>1 DEF OrdersInv, OrderInv
    <3>. QED
      BY <3>2, <3>3, LotKept DEF Unsettled
  <2>. QED
    BY <2>3, <2>4
<1>11. ASSUME WantExit
       PROVE  LotInv'
  <2>1. pc = "callback" /\ Trade("close", Exit(strategy, engine.event.id))
    BY <1>11 DEF WantExit, Trade
  <2>2. Exit(strategy, engine.event.id) \in Strategies
    BY <2>1, EnterTyped
  <2>3. CASE UNCHANGED <<status, offset, engine, strategy>>
    BY <2>1, <2>3, LotKept DEF Trade, Unsettled
  <2>4. CASE ~UNCHANGED <<status, offset, engine, strategy>>
    <3>1. PICK c \in Commands :
             /\ c = engine.event.id /\ engine.gate # "blocked"
             /\ status[c] = "none" /\ strategy' = Exit(strategy, engine.event.id)
             /\ status' = [status EXCEPT ![c] = "pending"]
             /\ offset' = [offset EXCEPT ![c] = "close"]
             /\ engine' = [engine EXCEPT !.pending = @ \union {c}]
      BY <2>1, <2>2, <2>4, TradeEffect
    <3>2. /\ UNCHANGED <<orders, broker, position>>
          /\ \A d \in Commands \ {c} : offset'[d] = offset[d]
      BY <2>1, <3>1 DEF Trade, TypeOK
    <3>3. ~orders[c].booked /\ broker[c] = "none"
      BY <3>1 DEF OrdersInv, OrderInv
    <3>. QED
      BY <3>2, <3>3, LotKept DEF Unsettled
  <2>. QED
    BY <2>3, <2>4
<1>12. ASSUME EndCallback
       PROVE  LotInv'
  BY <1>12, LotKept DEF EndCallback, Unsettled
<1>13. ASSUME EndDelivery
       PROVE  LotInv'
  BY <1>13, LotKept DEF EndDelivery, Unsettled
<1>14. ASSUME NoCommand
       PROVE  LotInv'
  BY <1>14, LotKept DEF NoCommand, Unsettled
<1>15. ASSUME NEW c \in Commands, SendCommand(c)
       PROVE  LotInv'
  <2>1. /\ pc = "command" /\ UNCHANGED <<offset, position>> /\ status[c] = "pending"
        /\ orders'[c].booked = orders[c].booked /\ \A d \in Commands \ {c} : orders'[d] = orders[d]
        /\ \A d \in Commands \ {c} : broker'[d] = broker[d]
    BY <1>15, SendCommandEffect DEF TypeOK
  <2>. QED
    BY <2>1, LotSent DEF CallbackInv
<1>16. ASSUME NEW c \in Commands, NEW result \in Refused, RefuseCommand(c, result)
       PROVE  LotInv'
  <2>1. /\ UNCHANGED <<offset, position, broker>>
        /\ orders'[c].booked = orders[c].booked /\ \A d \in Commands \ {c} : orders'[d] = orders[d]
    BY <1>16, RefuseCommandEffect
  <2>. QED
    BY <2>1, LotKept DEF Unsettled
<1>17. ASSUME Crash
       PROVE  LotInv'
  BY <1>17, LotKept DEF Crash, Unsettled
<1>18. ASSUME Restart
       PROVE  LotInv'
  BY <1>18, LotKept DEF Restart, Unsettled
<1>19. ASSUME Reconcile
       PROVE  LotInv'
  BY <1>19, LotKept DEF Reconcile, Unsettled
<1>20. ASSUME Start
       PROVE  LotInv'
  BY <1>20, StartEffect, LotKept DEF Unsettled
<1>21. ASSUME NEW c \in Commands, Broker(c)
       PROVE  LotInv'
  <2>1. /\ UNCHANGED durable /\ broker[c] \in {"received", "working"}
        /\ \A d \in Commands \ {c} : broker'[d] = broker[d]
    BY <1>21, BrokerEffect DEF TypeOK
  <2>. QED
    BY <2>1, LotKept DEF Unsettled
<1>22. ASSUME NEW c \in Commands, NEW received \in BOOLEAN, CrashInDispatch(c, received)
       PROVE  LotInv'
  <2>1. /\ pc = "command" /\ UNCHANGED <<offset, position>> /\ status[c] = "pending"
        /\ orders'[c].booked = orders[c].booked /\ \A d \in Commands \ {c} : orders'[d] = orders[d]
        /\ broker' = broker \/ broker' = [broker EXCEPT ![c] = "received"]
    BY <1>22, CrashInDispatchEffect
  <2>2. \A d \in Commands \ {c} : broker'[d] = broker[d]
    BY <2>1 DEF TypeOK
  <2>. QED
    BY <2>1, <2>2, LotSent DEF CallbackInv
<1>23. CASE UNCHANGED vars
  BY <1>23, LotKept DEF vars, Unsettled
<1>. QED
  BY <1>1, <1>2, <1>3, <1>4, <1>5, <1>6, <1>7, <1>8, <1>9, <1>10, <1>11, <1>12, <1>13,
     <1>14, <1>15, <1>16, <1>17, <1>18, <1>19, <1>20, <1>21, <1>22, <1>23
  DEF Next, Loop

-------------------------------------------------------------------------------
(* From reconciliation to the start of the engine *)

LEMMA StartStep ==
    ASSUME TypeOK, OrdersInv, CallbackInv, StartInv, [Next]_vars
    PROVE  StartInv'
<1>. USE DEF durable, process, outside
<1>1. ASSUME Pause
      PROVE  StartInv'
  BY <1>1 DEF Pause, StartInv
<1>2. ASSUME Deliver
      PROVE  StartInv'
  BY <1>2 DEF Deliver, StartInv
<1>3. ASSUME ShowOrder
      PROVE  StartInv'
  <2>1. pc' # "startup"
    BY <1>3, ShowOrderEffect
  <2>. QED
    BY <2>1 DEF StartInv
<1>4. ASSUME ShowTrade
      PROVE  StartInv'
  <2>1. pc' # "startup"
    BY <1>4, ShowTradeEffect
  <2>. QED
    BY <2>1 DEF StartInv
<1>5. ASSUME DropMarket
      PROVE  StartInv'
  BY <1>5 DEF DropMarket, StartInv, Delivering
<1>6. ASSUME NEW f \in facts, DrainFact(f)
      PROVE  StartInv'
  <2>1. pc' # "startup"
    BY <1>6, DrainFactEffect
  <2>. QED
    BY <2>1 DEF StartInv
<1>7. ASSUME NEW kind \in Kinds, NEW n \in Commands, MarketEvent(kind, n)
      PROVE  StartInv'
  <2>1. pc' # "startup"
    BY <1>7, MarketEventEffect
  <2>. QED
    BY <2>1 DEF StartInv
<1>8. ASSUME NEW fresh \in BOOLEAN, BeginCallback(fresh)
      PROVE  StartInv'
  <2>1. pc' # "startup"
    BY <1>8, BeginCallbackEffect
  <2>. QED
    BY <2>1 DEF StartInv
<1>9. ASSUME Quiet
      PROVE  StartInv'
  BY <1>9 DEF Quiet, StartInv
<1>10. ASSUME WantEntry
       PROVE  StartInv'
  BY <1>10 DEF WantEntry, StartInv, Trade
<1>11. ASSUME WantExit
       PROVE  StartInv'
  BY <1>11 DEF WantExit, StartInv, Trade
<1>12. ASSUME EndCallback
       PROVE  StartInv'
  <2>1. pc' # "startup"
    BY <1>12, EndCallbackEffect
  <2>. QED
    BY <2>1 DEF StartInv
<1>13. ASSUME EndDelivery
       PROVE  StartInv'
  BY <1>13 DEF EndDelivery, StartInv
<1>14. ASSUME NoCommand
       PROVE  StartInv'
  BY <1>14 DEF NoCommand, StartInv
<1>15. ASSUME NEW c \in Commands, SendCommand(c)
       PROVE  StartInv'
  <2>1. pc' # "startup"
    BY <1>15, SendCommandEffect
  <2>. QED
    BY <2>1 DEF StartInv
<1>16. ASSUME NEW c \in Commands, NEW result \in Refused, RefuseCommand(c, result)
       PROVE  StartInv'
  <2>1. pc' # "startup"
    BY <1>16, RefuseCommandEffect
  <2>. QED
    BY <2>1 DEF StartInv
<1>17. ASSUME Crash
       PROVE  StartInv'
  BY <1>17, GoesDownEffect DEF Crash, StartInv
<1>18. ASSUME Restart
       PROVE  StartInv'
  <2>1. ~ready' /\ UNCHANGED orders
    BY <1>18 DEF Restart, CallbackInv
  <2>2. \A f \in facts' : f.kind = "trade" => ~orders[f.id].booked
    BY <1>18 DEF Restart
  <2>. QED
    BY <2>1, <2>2 DEF StartInv, News
<1>19. ASSUME Reconcile
       PROVE  StartInv'
  <2>1. UNCHANGED <<pc, orders, position, offset, broker, facts>> /\ Consistent
    BY <1>19 DEF Reconcile
  <2>2. BrokerPosition' = BrokerPosition
    BY <2>1 DEF BrokerPosition, Opened, Closed
  <2>. QED
    BY <1>19, <2>1, <2>2 DEF StartInv, Consistent, Reconcile
<1>20. ASSUME Start
       PROVE  StartInv'
  <2>1. pc' # "startup"
    BY <1>20, StartEffect
  <2>. QED
    BY <2>1 DEF StartInv
<1>21. ASSUME NEW c \in Commands, Broker(c)
       PROVE  StartInv'
  <2>1. /\ UNCHANGED <<pc, durable, process>> /\ broker[c] \in {"received", "working"}
        /\ \A d \in Commands \ {c} : broker'[d] = broker[d]
    BY <1>21, BrokerEffect DEF TypeOK
  <2>2. orders[c].state = "active" /\ ~orders[c].booked
    BY <2>1, AtBrokerIsLive
  <2>3. \A d \in Commands : News("trade", d) \in facts' => News("trade", d) \in facts \/ d = c
    BY <1>21, BrokerEffect DEF News
  <2>4. AnyActive'
    BY <2>1, <2>2 DEF AnyActive
  <2>. QED
    BY <2>1, <2>2, <2>3, <2>4 DEF StartInv
<1>22. ASSUME NEW c \in Commands, NEW received \in BOOLEAN, CrashInDispatch(c, received)
       PROVE  StartInv'
  BY <1>22, CrashInDispatchEffect, GoesDownEffect DEF StartInv
<1>23. CASE UNCHANGED vars
  BY <1>23 DEF vars, StartInv, AnyActive, BrokerPosition, Opened, Closed
<1>. QED
  BY <1>1, <1>2, <1>3, <1>4, <1>5, <1>6, <1>7, <1>8, <1>9, <1>10, <1>11, <1>12, <1>13,
     <1>14, <1>15, <1>16, <1>17, <1>18, <1>19, <1>20, <1>21, <1>22, <1>23
  DEF Next, Loop

-------------------------------------------------------------------------------
(* The theorems *)

LEMMA RuntimeInit ==
    ASSUME Init
    PROVE  TypeOK /\ RuntimeInv
<1>1. 1 \in Nat /\ 0 \in Numbers /\ None \in Numbers /\ 0 \in 0..MaxEvents /\ 0 \in 0..MaxCrashes
  BY RuntimeAssumption DEF RuntimeAssumption, Numbers, None
<1>2. engine \in Engines /\ ~Running /\ engine.seen = {} /\ engine.pending = {}
  BY <1>1 DEF Init, Engines, Unstarted, NoEvent, Kinds, Running
<1>3. strategy \in Strategies /\ strategy.opening = None /\ strategy.closing = None
  BY <1>1 DEF Init, Strategies, Fresh
<1>4. observed = <<>> /\ observed \in Seq(Items) /\ Len(observed) <= QueueBound
  BY RuntimeAssumption DEF Init, RuntimeAssumption
<1>5. TypeOK
  BY <1>1, <1>2, <1>3, <1>4 DEF Init, TypeOK, Engines, Strategies
<1>6. \A c \in Commands : ~Live(c) /\ broker[c] = "none" /\ ~orders[c].booked /\ ~orders[c].linked
                          /\ orders[c].state = "none" /\ status[c] = "none"
  BY DEF Init, Live
<1>7. BookedAs("open") = {} /\ BookedAs("close") = {} /\ Unsettled = {}
  BY <1>6 DEF BookedAs, Unsettled
<1>8. LotInv
  <2>1. position = 0 /\ Cardinality(BookedAs("open")) = 0 /\ Cardinality(BookedAs("close")) = 0
    BY <1>7, FS_EmptySet DEF Init
  <2>. QED
    BY <1>7, <2>1 DEF LotInv
<1>9. OrdersInv
  BY <1>6 DEF OrdersInv, OrderInv, Init
<1>10. CallbackInv /\ IntentInv /\ ToldInv /\ StartInv
  BY <1>2, <1>6 DEF CallbackInv, IntentInv, ToldInv, StartInv, Init, Running
<1>. QED
  BY <1>5, <1>8, <1>9, <1>10 DEF RuntimeInv

LEMMA RuntimeStep ==
    ASSUME ReportsNameOrder, TypeOK, RuntimeInv, [Next]_vars
    PROVE  TypeOK' /\ RuntimeInv'
<1>1. LotInv'
  BY LotStep DEF RuntimeInv
<1>2. TypeOK'
  BY <1>1, RuntimeTypeStep DEF RuntimeInv, LotInv
<1>. QED
  BY <1>1, <1>2, OrdersStep, CallbackStep, RuntimeIntentStep, ToldStep, StartStep DEF RuntimeInv

\* The runtime's variables have their types, and queue, account, broker, checkpoint
\* and strategy agree about every command, whatever crashes and in whatever order
\* the facts and the market events arrive.
THEOREM RuntimeCorrect ==
    ASSUME ReportsNameOrder
    PROVE  Spec => [](TypeOK /\ RuntimeInv)
<1>1. Init => TypeOK /\ RuntimeInv
  BY RuntimeInit
<1>2. TypeOK /\ RuntimeInv /\ [Next]_vars => TypeOK' /\ RuntimeInv'
  BY RuntimeStep
<1>. QED
  BY <1>1, <1>2, PTL DEF Spec

\* No restart forgets a command that may still trade, and the strategy waits for
\* none in vain: StrategyCheckpoint is saved before and after every callback with the
\* commands of open fate, and every fate reaches the strategy.
THEOREM FatesKept ==
    ASSUME ReportsNameOrder
    PROVE  Spec => []FatesAreKept
<1>1. ASSUME TypeOK, RuntimeInv
      PROVE  FatesAreKept
  <2>1. NothingForgotten
    BY <1>1 DEF NothingForgotten, RuntimeInv, CallbackInv, Live
  <2>2. ASSUME Running, NEW c \in Intents
        PROVE  ToBeTold(c)
    <3>1. FateComes(c) /\ c \in Commands /\ c \notin engine.seen
      BY <1>1, <2>2, IntentsTyped DEF RuntimeInv, IntentInv
    <3>2. CASE Live(c) \/ (status[c] \in Refused /\ c \in engine.pending)
      BY <1>1, <2>2, <3>1, <3>2 DEF RuntimeInv, CallbackInv, ToBeTold
    <3>3. CASE broker[c] = "filled"
      BY <3>1, <3>3 DEF ToBeTold
    <3>4. ASSUME NEW kind \in {"cancelled", "rejected"}, News(kind, c) \in Unshown
          PROVE  ToBeTold(c)
      <4>1. PICK i \in DOMAIN observed : observed[i] = News(kind, c)
        BY <3>4 DEF Unshown
      <4>2. i \in 1..Len(observed)
        BY <1>1, <4>1 DEF TypeOK
      <4>3. observed[i].id = c /\ observed[i].kind \in {"cancelled", "rejected"}
        BY <4>1 DEF News
      <4>. QED
        BY <4>2, <4>3 DEF ToBeTold
    <3>. QED
      BY <3>1, <3>2, <3>3, <3>4 DEF FateComes
  <2>. QED
    BY <2>1, <2>2 DEF FatesAreKept, IntentsAreToldOf, Intents
<1>. QED
  BY <1>1, RuntimeCorrect, PTL

LEMMA LotsAtRisk ==
    ASSUME TypeOK, OrdersInv, LotInv
    PROVE  AtMostOneLot
<1>. DEFINE AtRisk(o) == {c \in Commands : offset[c] = o
                                           /\ broker[c] \in {"received", "working", "filled"}}
            O == BookedAs("open")
            C == BookedAs("close")
            Opens == {c \in Commands : Opened(c)}
            Closes == {c \in Commands : Closed(c)}
<1>1. /\ O \in SUBSET Commands /\ C \in SUBSET Commands /\ Opens \in SUBSET Commands
      /\ Closes \in SUBSET Commands /\ AtRisk("open") \in SUBSET Commands
      /\ AtRisk("close") \in SUBSET Commands
  BY DEF BookedAs
<1>2. /\ O \subseteq Opens /\ C \subseteq Closes
      /\ \A o \in {"open", "close"} : AtRisk(o) \subseteq BookedAs(o) \union Unsettled
  BY FilledAreBooked DEF BookedAs, Unsettled
<1>3. /\ Cardinality(O) \in Nat /\ Cardinality(C) \in Nat
      /\ Cardinality(Opens) \in Nat /\ Cardinality(Closes) \in Nat
      /\ Cardinality(O) <= Cardinality(Opens) /\ Cardinality(C) <= Cardinality(Closes)
      /\ Cardinality(AtRisk("open")) \in Nat /\ Cardinality(AtRisk("close")) \in Nat
  <2>. HIDE DEF O, C, Opens, Closes, AtRisk
  <2>. QED
    BY <1>1, <1>2, CommandsFinite, FS_Subset
<1>4. position = Cardinality(O) - Cardinality(C) /\ position \in 0..1
  BY DEF LotInv
<1>5. SUFFICES /\ Cardinality(AtRisk("open")) <= Cardinality(C) + 1
               /\ Cardinality(AtRisk("close")) <= Cardinality(O)
  BY <1>3 DEF AtMostOneLot
<1>6. CASE Unsettled = {}
  <2>1. AtRisk("open") \subseteq O /\ AtRisk("close") \subseteq C
    BY <1>2, <1>6
  <2>. HIDE DEF O, C, Opens, Closes, AtRisk
  <2>2. /\ Cardinality(AtRisk("open")) <= Cardinality(O)
        /\ Cardinality(AtRisk("close")) <= Cardinality(C)
    BY <1>1, <2>1, CommandsFinite, FS_Subset
  <2>. QED
    BY <1>3, <1>4, <2>2
<1>7. ASSUME NEW u \in Unsettled
      PROVE  /\ Cardinality(AtRisk("open")) <= Cardinality(C) + 1
             /\ Cardinality(AtRisk("close")) <= Cardinality(O)
  <2>1. Unsettled = {u} /\ u \in Commands /\ u \notin O /\ u \notin C
    BY AtBrokerIsLive DEF LotInv, Unsettled, BookedAs
  <2>2. /\ Cardinality(O \union {u}) = Cardinality(O) + 1
        /\ Cardinality(C \union {u}) = Cardinality(C) + 1
    BY <1>1, <2>1, OneMore
  <2>3. CASE offset[u] = "open"
    <3>1. AtRisk("open") \subseteq O \union {u} /\ AtRisk("close") \subseteq C /\ position = 0
      BY <1>2, <2>1, <2>3 DEF LotInv
    <3>. HIDE DEF O, C, Opens, Closes, AtRisk
    <3>2. O \union {u} \in SUBSET Commands
      BY <1>1, <2>1
    <3>3. /\ Cardinality(AtRisk("open")) <= Cardinality(O \union {u})
          /\ Cardinality(AtRisk("close")) <= Cardinality(C)
      BY <1>1, <3>1, <3>2, CommandsFinite, FS_Subset
    <3>. QED
      BY <1>3, <1>4, <2>2, <3>1, <3>3
  <2>4. CASE offset[u] = "close"
    <3>1. AtRisk("open") \subseteq O /\ AtRisk("close") \subseteq C \union {u} /\ position = 1
      BY <1>2, <2>1, <2>4 DEF LotInv
    <3>. HIDE DEF O, C, Opens, Closes, AtRisk
    <3>2. C \union {u} \in SUBSET Commands
      BY <1>1, <2>1
    <3>3. /\ Cardinality(AtRisk("open")) <= Cardinality(O)
          /\ Cardinality(AtRisk("close")) <= Cardinality(C \union {u})
      BY <1>1, <3>1, <3>2, CommandsFinite, FS_Subset
    <3>. QED
      BY <1>3, <1>4, <2>2, <3>1, <3>3
  <2>. QED
    BY <2>1, <2>3, <2>4 DEF TypeOK
<1>. QED
  BY <1>6, <1>7

\* The strategy never has more than one lot at risk and never goes short, every
\* fill finds its place in it (on_trade does not raise), and when all is shown its
\* position is the account's.
THEOREM StrategySound ==
    ASSUME ReportsNameOrder
    PROVE  Spec => []StrategyIsSound
<1>1. ASSUME TypeOK, RuntimeInv
      PROVE  StrategyIsSound
  <2>1. AtMostOneLot
    BY <1>1, LotsAtRisk DEF RuntimeInv
  <2>2. FillsFit
    <3>. SUFFICES ASSUME pc = "deliver", observed # <<>>, Shown.kind = "trade", ToTell
                  PROVE  TradeFits(strategy, Shown.id)
      BY DEF FillsFit, Delivering
    <3>1. Running /\ Shown \in Unshown
      <4>1. Len(observed) >= 1 /\ 1 \in DOMAIN observed /\ Shown = observed[1]
        BY <1>1 DEF TypeOK, Shown
      <4>. QED
        BY <1>1, <4>1 DEF RuntimeInv, CallbackInv, Unshown
    <3>2. Shown \in facts /\ Shown.id \in Commands /\ Shown = News("trade", Shown.id)
      <4>1. Shown \in facts
        BY <1>1, <3>1 DEF RuntimeInv, ToldInv, Kinds
      <4>. QED
        BY <1>1, <4>1 DEF TypeOK, Facts, News
    <3>3. Shown.id \in Intents
      BY <1>1, <3>1, <3>2 DEF RuntimeInv, ToldInv, ToTell, HasSeen
    <3>. QED
      BY <1>1, <3>1, <3>3, OneIntent DEF TradeFits, RuntimeInv
  <2>3. StrategyInStep
    <3>1. observed = <<>> => Unshown = {}
      BY DEF Unshown
    <3>. QED
      BY <1>1, <3>1 DEF StrategyInStep, RuntimeInv, ToldInv
  <2>. QED
    BY <1>1, <2>1, <2>2, <2>3 DEF StrategyIsSound, PositionIsSound
<1>. QED
  BY <1>1, RuntimeCorrect, PTL

===============================================================================
