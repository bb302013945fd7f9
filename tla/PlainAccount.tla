----------------------------- MODULE PlainAccount -----------------------------
(* What the history of an account promises to its readers, whatever is stored, *)
(* compacted, retired and read back: a name is used for one order, a trade     *)
(* counts once, and an order that has ended stays ended.                       *)
EXTENDS Naturals

CONSTANT Orders
VARIABLES used, active, lots, seen

plainVars == <<used, active, lots, seen>>

PlainInit == used = {} /\ active = {} /\ lots = 0 /\ seen = {}

\* An order that was never there before.
Use(o) ==
    /\ o \notin used /\ used' = used \union {o} /\ active' = active \union {o}
    /\ UNCHANGED <<lots, seen>>

\* The trade of an order; it may be all there was to trade.
Book(o) ==
    /\ o \in used \ seen /\ seen' = seen \union {o} /\ lots' = lots + 1
    /\ active' \in {active, active \ {o}}
    /\ UNCHANGED used

End(o) == o \in active /\ active' = active \ {o} /\ UNCHANGED <<used, lots, seen>>

PlainNext == \E o \in Orders : Use(o) \/ Book(o) \/ End(o)

PlainSpec == PlainInit /\ [][PlainNext]_plainVars
===============================================================================
