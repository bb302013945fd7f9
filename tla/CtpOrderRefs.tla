----------------------------- MODULE CtpOrderRefs -----------------------------
(***************************************************************************)
(* Whose callback is it?  CtpOrderRefBook numbers the orders of a session, *)
(* CtpIdentityResolver completes callbacks that carry only the number, and *)
(* OrderManager's two indices (session triple, exchange order id) find the *)
(* order of the account they belong to.                                    *)
(*                                                                         *)
(* The account thread allocates a reference, calls the counter and records *)
(* the result; the callback thread converts what the counter says at any   *)
(* time; the process dies and rebuilds the book from recorded results.     *)
(* The counter is external.  Its callbacks may come in any order, again    *)
(* and again, or never.  An order is its own exchange order id.            *)
(* Orders are dispatched again after a re-login, as the design allows (the *)
(* shipped loop does not).                                                 *)
(***************************************************************************)
EXTENDS Naturals, FiniteSets, FiniteSetsExt

CONSTANTS
    Orders,         \* client_order_id
    None,           \* no order
    MaxSessions,    \* model bound: logins
    MaxCrashes      \* model bound: process deaths

VARIABLES
    (* the process *)
    pc, current, session, nextRef,
    book,          \* CtpOrderRefBook._owned
    ingress,       \* facts converted and not yet booked
    (* trading.db *)
    intended,      \* orders with an intent fact
    evidence,      \* triples in the recorded results
    identity,      \* Order.identity
    bySession, byExchange,   \* OrderManager's indices
    held,          \* unlinked_trades
    applied,       \* history: whose callback was applied to which order
    (* the counter *)
    refsPerUser,   \* MaxOrderRef of a login counts all sessions of the user, and no
                   \* request is lost on its way: which of the two it is, is not known
    logins, placed, news, unresolved, crashes

process == <<pc, current, session, nextRef, book, ingress>>
account == <<identity, bySession, byExchange, held, applied>>
counter == <<refsPerUser, placed, news>>
vars == <<process, intended, evidence, account, logins, counter, unresolved, crashes>>

Sessions == 0..MaxSessions
Refs == 0..(Cardinality(Orders) + 1)
Triple == [session : Sessions, ref : Refs]
Owned == [session : Sessions, ref : Refs, order : Orders]
Nobody == [session |-> 0, ref |-> 0]
Names == [session : Sessions, ref : Refs, sys : Orders \union {None}]
NoName == [session |-> 0, ref |-> 0, sys |-> None]
\* OnRtnOrder once the exchange has it, OnRtnTrade, OnRspOrderInsert.
Kinds == {"working", "trade", "error"}
Steps == {"idle", "allocated", "sent", "fenced"}

TypeOK ==
    /\ pc \in Steps /\ current \in Orders \union {None}
    /\ session \in Sessions /\ nextRef \in Refs \ {0}
    /\ book \subseteq Owned /\ evidence \subseteq Owned /\ bySession \subseteq Owned
    /\ ingress \subseteq [kind : Kinds, order : Orders, name : Names]
    /\ intended \subseteq Orders /\ identity \in [Orders -> Names]
    /\ byExchange \in [Orders -> Orders \union {None}]
    /\ held \subseteq [order : Orders, name : Names]
    /\ applied \subseteq [kind : Kinds, order : Orders, to : Orders]
    /\ refsPerUser \in BOOLEAN /\ logins \in Sessions /\ placed \in [Orders -> Triple]
    /\ news \subseteq Kinds \X Orders /\ unresolved \subseteq Orders /\ crashes \in Nat

Init ==
    /\ pc = "idle" /\ current = None /\ session = 0 /\ nextRef = 1
    /\ book = {} /\ ingress = {} /\ intended = {} /\ evidence = {}
    /\ identity = [o \in Orders |-> NoName]
    /\ bySession = {} /\ byExchange = [o \in Orders |-> None]
    /\ held = {} /\ applied = {}
    /\ logins = 0 /\ placed = [o \in Orders |-> Nobody] /\ news = {}
    /\ refsPerUser \in BOOLEAN /\ unresolved = {} /\ crashes = 0

-------------------------------------------------------------------------------
(* The book *)

Larger(a, b) == IF a >= b THEN a ELSE b

\* What the counter says of references used so far.
MaxOrderRef == IF refsPerUser THEN Max({placed[o].ref : o \in Orders}) ELSE 0

\* Mutant of StartOf: the counter's number is not read.
StartIgnored(max) == nextRef
StartOf(max) == Larger(max + 1, nextRef)

\* on rsp_user_login: open_session.  Nobody dispatches while a login is awaited.
Login ==
    /\ pc = "idle" /\ logins < MaxSessions
    /\ logins' = logins + 1 /\ session' = logins + 1
    /\ nextRef' = StartOf(MaxOrderRef)
    /\ UNCHANGED <<pc, current, book, ingress, intended, evidence, account, counter, unresolved, crashes>>

OfOrder(S, o) == {t \in S : t.order = o}

\* The triple allocated last: the one the dispatch in progress works with.
Allocated == [session |-> session, ref |-> nextRef - 1]
Owns(t, o) == [session |-> t.session, ref |-> t.ref, order |-> o]

Allocate(o) ==
    /\ pc = "idle" /\ session # 0 /\ o \notin intended
    /\ intended' = intended \union {o}
    /\ book' = book \union {[session |-> session, ref |-> nextRef, order |-> o]}
    /\ nextRef' = nextRef + 1
    /\ pc' = "allocated" /\ current' = o
    /\ UNCHANGED <<session, ingress, evidence, account, logins, counter, unresolved, crashes>>

\* The last fence before the call closes: the reference is never used.
FinalFence ==
    /\ pc = "allocated" /\ pc' = "fenced"
    /\ UNCHANGED <<current, session, nextRef, book, ingress, intended, evidence, account, logins,
                   counter, unresolved, crashes>>

\* ReqOrderInsert; whether the counter gets it, nobody here knows.
Insert(reaches) ==
    /\ pc = "allocated" /\ pc' = "sent"
    /\ refsPerUser => reaches
    /\ placed' = IF reaches THEN [placed EXCEPT ![current] = Allocated] ELSE placed
    /\ UNCHANGED <<current, session, nextRef, book, ingress, intended, evidence, account, logins,
                   refsPerUser, news, unresolved, crashes>>

-------------------------------------------------------------------------------
(* The account's indices: OrderManager *)

HasTriple(name) == name.session # 0
OwnerBySession(name) == {t.order : t \in {u \in bySession : u.session = name.session /\ u.ref = name.ref}}

\* find_matching_order: the exchange's number first, then the full triple.
Find(name) ==
    IF name.sys # None /\ byExchange[name.sys] # None THEN byExchange[name.sys]
    ELSE IF HasTriple(name) /\ OwnerBySession(name) # {} THEN CHOOSE o \in OwnerBySession(name) : TRUE
    ELSE None

\* _index_identity: an index entry is never given to a second order.
ExchangeTaken(o, name) == name.sys # None /\ byExchange[name.sys] \notin {None, o}
IndexedExchange(o, name) ==
    IF name.sys # None /\ ~ExchangeTaken(o, name) THEN [byExchange EXCEPT ![name.sys] = o] ELSE byExchange
IndexedSession(o, name) ==
    IF ExchangeTaken(o, name) \/ ~HasTriple(name) \/ OwnerBySession(name) \notin {{}, {o}} THEN bySession
    ELSE bySession \union {Owns(name, o)}

Merged(old, new) ==
    [session |-> IF new.session # 0 THEN new.session ELSE old.session,
     ref |-> IF new.ref # 0 THEN new.ref ELSE old.ref,
     sys |-> IF new.sys # None THEN new.sys ELSE old.sys]

\* The commit of the send result: a fenced one proves nothing but the name.
Record ==
    LET name == [session |-> Allocated.session, ref |-> Allocated.ref, sys |-> None] IN
    /\ pc \in {"sent", "fenced"} /\ pc' = "idle" /\ current' = None
    /\ evidence' = IF pc = "sent" THEN evidence \union {Owns(Allocated, current)} ELSE evidence
    /\ identity' = [identity EXCEPT ![current] = IF @ = NoName THEN name ELSE @]
    /\ bySession' = IndexedSession(current, name)
    /\ UNCHANGED <<session, nextRef, book, ingress, intended, byExchange, held, applied, logins,
                   counter, unresolved, crashes>>

Restored == evidence

\* The process dies and is started again: restore_order_refs.
Restart ==
    /\ crashes < MaxCrashes /\ crashes' = crashes + 1
    /\ pc' = "idle" /\ current' = None /\ session' = 0 /\ nextRef' = 1
    /\ book' = Restored /\ ingress' = {}
    /\ UNCHANGED <<intended, evidence, account, logins, counter, unresolved>>

-------------------------------------------------------------------------------
(* Callbacks *)

\* CtpIdentityResolver.session_for_ref: one session or none.
SessionsOf(ref) == {t.session : t \in {u \in book : u.ref = ref}}
SessionForRef(ref) == IF Cardinality(SessionsOf(ref)) = 1 THEN CHOOSE s \in SessionsOf(ref) : TRUE ELSE 0

\* normalize_*: order reports carry the triple, trades and errors the reference.
NameOf(kind, o) ==
    LET sys == IF kind = "error" THEN None ELSE o
        s == IF kind = "working" THEN placed[o].session ELSE SessionForRef(placed[o].ref)
    IN  IF s = 0 THEN [NoName EXCEPT !.sys = sys]
        ELSE [session |-> s, ref |-> placed[o].ref, sys |-> sys]

\* A callback without any name is dropped, but for trades.
Convert(kind, o) ==
    LET name == NameOf(kind, o) IN
    /\ <<kind, o>> \in news /\ session # 0
    /\ IF name = NoName
       THEN ingress' = ingress /\ unresolved' = unresolved \union {o}
       ELSE /\ ingress' = ingress \union {[kind |-> kind, order |-> o, name |-> name]}
            /\ UNCHANGED unresolved
    /\ UNCHANGED <<pc, current, session, nextRef, book, intended, evidence, account, logins, counter,
                   crashes>>

\* process_order_update: unknown orders are kept as external ones.
BookReport(f) ==
    LET o == Find(f.name) IN
    /\ f.kind # "trade"
    /\ IF o = None THEN UNCHANGED account
       ELSE /\ byExchange' = IndexedExchange(o, f.name)
            /\ bySession' = IndexedSession(o, f.name)
            /\ identity' = [identity EXCEPT ![o] = Merged(@, f.name)]
            /\ LET linked == {h \in held : Find(h.name)' = o} IN
               /\ held' = held \ linked
               /\ applied' = applied \union {[kind |-> f.kind, order |-> f.order, to |-> o]}
                     \union {[kind |-> "trade", order |-> h.order, to |-> o] : h \in linked}

\* TradeDeduplicator: a trade is booked once, whatever it was named before.
Seen(o) == (\E h \in held : h.order = o) \/ (\E a \in applied : a.kind = "trade" /\ a.order = o)

\* process_trade: a trade nobody is known for is held until a report links it.
BookTrade(f) ==
    LET o == Find(f.name) IN
    /\ f.kind = "trade"
    /\ IF Seen(f.order) THEN UNCHANGED <<held, byExchange, bySession, applied>>
       ELSE IF o = None
       THEN held' = held \union {[order |-> f.order, name |-> f.name]} /\ UNCHANGED <<byExchange, bySession, applied>>
       ELSE /\ byExchange' = IndexedExchange(o, f.name)
            /\ bySession' = IndexedSession(o, f.name)
            /\ applied' = applied \union {[kind |-> "trade", order |-> f.order, to |-> o]}
            /\ UNCHANGED held
    /\ UNCHANGED identity

Book(f) ==
    /\ pc = "idle" /\ f \in ingress
    /\ ingress' = ingress \ {f}
    /\ BookReport(f) \/ BookTrade(f)
    /\ UNCHANGED <<pc, current, session, nextRef, book, intended, evidence, logins, counter, unresolved, crashes>>

-------------------------------------------------------------------------------
(* Cancels *)

SameSession(o) == identity[o].session = session
MayCancel(o) == identity[o] # NoName /\ (SameSession(o) \/ identity[o].sys # None)

\* The orders the counter finds by what a cancel request carries: triples of
\* the session that asks, or the exchange's number.
CancelTarget(o) ==
    {p \in Orders : placed[p].session # 0 /\
        IF SameSession(o) THEN placed[p] = [session |-> session, ref |-> identity[o].ref]
                          ELSE identity[o].sys = p}

\* The evidence of a cancel names the triple of the order, whatever located it.
Cancel(o) ==
    /\ pc = "idle" /\ session # 0 /\ MayCancel(o) /\ OfOrder(evidence, o) # {}
    /\ evidence' = evidence \union {Owns(identity[o], o)}
    /\ UNCHANGED <<process, intended, account, logins, counter, unresolved, crashes>>

-------------------------------------------------------------------------------
(* The counter (external) *)

Emit(kinds, o) ==
    /\ placed[o] # Nobody /\ \A kind \in Kinds : <<kind, o>> \notin news
    /\ news' = news \union (kinds \X {o})
    /\ UNCHANGED <<process, intended, evidence, account, logins, refsPerUser, placed, unresolved, crashes>>

CounterTrades(o) == Emit({"working", "trade"}, o)
CounterRejects(o) == Emit({"error"}, o)

Next ==
    \/ Login \/ FinalFence \/ Record \/ Restart
    \/ \E reaches \in BOOLEAN : Insert(reaches)
    \/ \E o \in Orders : Allocate(o) \/ Cancel(o) \/ CounterTrades(o) \/ CounterRejects(o)
    \/ \E o \in Orders, kind \in Kinds : Convert(kind, o)
    \/ \E f \in ingress : Book(f)

Spec == Init /\ [][Next]_vars

-------------------------------------------------------------------------------
(* Properties *)

\* Over a counter that counts the references of all sessions, a callback is
\* applied to the order it speaks of or to none, over re-logins, restarts and
\* lost results.  (FR-ORD-05: attribution is never guessed.)
NeverMisattributed == refsPerUser => \A a \in applied : a.to = a.order

\* A trade is not left unlinked once a report has told the account the
\* exchange's number of its order, whichever of the two came first, also where
\* references are ambiguous.
ToldTradesAreLinked ==
    \A h \in held : [kind |-> "working", order |-> h.order, to |-> h.order] \notin applied

\* Over such a counter a callback that carries only the reference, of an order
\* in the book, is named: no rejection of an order the process knows is dropped.
KnownOrdersAreNamed == refsPerUser => \A o \in unresolved : OfOrder(book, o) = {}

\* Over such a counter a cancel the gateway sends finds its order, and no other,
\* if the counter ever got it: also in a later session, also after a restart.
CancelFindsItsOrder ==
    refsPerUser =>
        \A o \in Orders : session # 0 /\ MayCancel(o) /\ placed[o] # Nobody => CancelTarget(o) = {o}

\* The book, the two indices and a cancel find whatever they have been told of,
\* whichever of a trade, a report, a re-login and a restart came first.
NothingIsLost == TypeOK /\ ToldTradesAreLinked /\ KnownOrdersAreNamed /\ CancelFindsItsOrder
===============================================================================
