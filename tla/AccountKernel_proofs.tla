-------------------------- MODULE AccountKernel_proofs --------------------------
(***************************************************************************)
(* The account's kernel, for any orders, offsets, lots, quantities, days:  *)
(* freezes and reservations, buckets and lots, position and trades agree   *)
(* after every fact, in whatever order and however often facts come; and   *)
(* what an order has reserved is what is left of it.                       *)
(*                                                                         *)
(* The books: first, fact by fact, what operators of the kernel change,    *)
(* then that the broker never gives away what it has not (FreezeGood,      *)
(* TradesGood), which bounds the freezes by the buckets.                   *)
(*                                                                         *)
(* The reservations: an order's word is compared with what the broker has  *)
(* traded of it (OrderFits), whatever report or trade is on its way; the   *)
(* trades that were seen are the broker's own, and a report says no more   *)
(* than the broker has done.                                               *)
(***************************************************************************)
EXTENDS MCAccount, Sums_proofs

-------------------------------------------------------------------------------
(* The kernel: what its operators leave as it is and what they change *)

\* Nothing of position, lots, reservations and trades is touched.
SameBooks(k, k2) ==
    /\ k2 \in Kernel
    /\ k2.day = k.day /\ k2.advancing = k.advancing /\ k2.priced = k.priced
    /\ k2.reserved = k.reserved /\ k2.pos = k.pos /\ k2.lots = k.lots /\ k2.seen = k.seen

\* What Index, OrderUpdate and OrderFill write.
PutOrder(k, o, x) == [k EXCEPT !.orders = [k.orders EXCEPT ![o] = x]]
PutLinks(k, o, a, b) == [k EXCEPT !.orders[o].linked = a, !.orders[o].sysLinked = b]
PutStatus(k, o, a, b, c) == [k EXCEPT !.orders[o].cum = a, !.orders[o].status = b, !.orders[o].cancelPending = c]
PutFill(k, o, a, b, c, d) ==
    [k EXCEPT !.orders[o].accounted = d, !.orders[o].cum = a, !.orders[o].status = b, !.orders[o].cancelPending = c]

LEMMA OrderReplaced ==
  ASSUME NEW k \in Kernel, NEW o \in Orders, NEW x \in Order
  PROVE  LET k2 == PutOrder(k, o, x) IN
         /\ SameBooks(k, k2) /\ k2.funds = k.funds /\ k2.unlinked = k.unlinked
         /\ \A p \in Orders : p # o => k2.orders[p] = k.orders[p]
         /\ k2.orders[o] = x
BY DEF SameBooks, Kernel, PutOrder

WithLinks(x, a, b) == [x EXCEPT !.linked = a, !.sysLinked = b]
WithStatus(x, a, b, c) == [x EXCEPT !.cum = a, !.status = b, !.cancelPending = c]
WithFill(x, a, b, c, d) == [x EXCEPT !.accounted = d, !.cum = a, !.status = b, !.cancelPending = c]

LEMMA LinksPut ==
  ASSUME NEW k \in Kernel, NEW o \in Orders, NEW a, NEW b
  PROVE  PutLinks(k, o, a, b) = PutOrder(k, o, WithLinks(k.orders[o], a, b))
BY Zenon DEF Kernel, Order, PutLinks, PutOrder, WithLinks

LEMMA StatusPut ==
  ASSUME NEW k \in Kernel, NEW o \in Orders, NEW a, NEW b, NEW c
  PROVE  PutStatus(k, o, a, b, c)
         = PutOrder(k, o, WithStatus(k.orders[o], a, b, c))
BY Zenon DEF Kernel, Order, PutStatus, PutOrder, WithStatus

LEMMA FillPut ==
  ASSUME NEW k \in Kernel, NEW o \in Orders, NEW a, NEW b, NEW c, NEW d
  PROVE  PutFill(k, o, a, b, c, d)
         = PutOrder(k, o, WithFill(k.orders[o], a, b, c, d))
BY ZenonT(40) DEF Kernel, Order, PutFill, PutOrder, WithFill

LEMMA Indexed ==
  ASSUME NEW k \in Kernel, NEW o \in Orders, NEW triple \in BOOLEAN, NEW sys \in BOOLEAN
  PROVE  LET k2 == Index(k, o, triple, sys) IN
         /\ SameBooks(k, k2) /\ k2.funds = k.funds /\ k2.unlinked = k.unlinked
         /\ \A p \in Orders : p # o => k2.orders[p] = k.orders[p]
         /\ k2.orders[o].status = k.orders[o].status
         /\ k2.orders[o].cum = k.orders[o].cum /\ k2.orders[o].accounted = k.orders[o].accounted
         /\ k2.orders[o].linked = (k.orders[o].linked \/ triple)
         /\ k2.orders[o].sysLinked = (k.orders[o].sysLinked \/ sys)
<1> DEFINE order == k.orders[o]
           a == order.linked \/ triple
           b == order.sysLinked \/ sys
           x == WithLinks(order, a, b)
<1>1. Index(k, o, triple, sys) = PutLinks(k, o, a, b)
  BY DEF Index, PutLinks, Kernel, Order
<1>2. order \in Order
  BY DEF Kernel
<1>3. a \in BOOLEAN /\ b \in BOOLEAN
  BY <1>2 DEF Order
<1>4. PutLinks(k, o, a, b) = PutOrder(k, o, x)
  <2> HIDE DEF a, b
  <2> QED BY LinksPut
<1>5. x \in Order /\ x.status = order.status /\ x.cum = order.cum /\ x.accounted = order.accounted
      /\ x.linked = a /\ x.sysLinked = b
  <2> HIDE DEF order, a, b
  <2> QED BY <1>2, <1>3 DEF Order, WithLinks
<1> HIDE DEF x
<1> QED BY <1>1, <1>4, <1>5, OrderReplaced, SMTT(40)

LEMMA Updated ==
  ASSUME KernelAssumption, NEW k \in Kernel, NEW o \in Orders, NEW status \in Statuses, NEW filled \in Nat
  PROVE  LET k2 == OrderUpdate(k, o, status, filled) IN
         /\ SameBooks(k, k2) /\ k2.funds = k.funds /\ k2.unlinked = k.unlinked
         /\ \A p \in Orders : p # o => k2.orders[p] = k.orders[p]
         /\ k2.orders[o].status = IF IsTerminal(k, o) THEN k.orders[o].status ELSE status
         /\ k2.orders[o].cum = AtLeast(k.orders[o].cum, AtMost(filled, Qty[o]))
         /\ k2.orders[o].accounted = k.orders[o].accounted
         /\ k2.orders[o].linked = k.orders[o].linked
         /\ k2.orders[o].sysLinked = k.orders[o].sysLinked
<1> DEFINE order == k.orders[o]
           closed == IsTerminal(k, o)
           cum == AtLeast(order.cum, AtMost(filled, Qty[o]))
           st == IF closed THEN order.status ELSE status
           pending == order.cancelPending /\ (closed \/ status \notin Terminal)
           x == WithStatus(order, cum, st, pending)
<1>1. OrderUpdate(k, o, status, filled)
      = PutStatus(k, o, cum, st, pending)
  BY DEF OrderUpdate, PutStatus, Kernel, Order
<1>2. order \in Order
  BY DEF Kernel
<1>3. cum \in Nat /\ st \in Statuses /\ pending \in BOOLEAN
  BY <1>2 DEF Order, AtLeast, AtMost, KernelAssumption
<1>4. x \in Order /\ x.status = st /\ x.cum = cum
      /\ x.accounted = order.accounted /\ x.linked = order.linked /\ x.sysLinked = order.sysLinked
  <2> HIDE DEF order, cum, st, pending
  <2> QED BY <1>2, <1>3 DEF Order, WithStatus
<1>5. OrderUpdate(k, o, status, filled) = PutOrder(k, o, x)
  <2> HIDE DEF cum, st, pending
  <2> QED BY <1>1, StatusPut
<1> HIDE DEF x
<1>6. LET k2 == OrderUpdate(k, o, status, filled) IN
        /\ SameBooks(k, k2) /\ k2.funds = k.funds /\ k2.unlinked = k.unlinked
        /\ \A p \in Orders : p # o => k2.orders[p] = k.orders[p]
        /\ k2.orders[o] = x
  BY <1>4, <1>5, OrderReplaced
<1> QED BY <1>4, <1>6

LEMMA Filled ==
  ASSUME KernelAssumption, NEW k \in Kernel, NEW o \in Orders, NEW n \in Nat
  PROVE  LET k2 == OrderFill(k, o, n)
             cum == AtLeast(k.orders[o].cum, k.orders[o].accounted + n) IN
         /\ SameBooks(k, k2) /\ k2.funds = k.funds /\ k2.unlinked = k.unlinked
         /\ \A p \in Orders : p # o => k2.orders[p] = k.orders[p]
         /\ k2.orders[o].status = IF ~IsTerminal(k, o) /\ cum >= Qty[o] THEN "FILLED" ELSE k.orders[o].status
         /\ k2.orders[o].cum = cum
         /\ k2.orders[o].accounted = k.orders[o].accounted + n
         /\ k2.orders[o].linked = k.orders[o].linked
         /\ k2.orders[o].sysLinked = k.orders[o].sysLinked
<1> DEFINE order == k.orders[o]
           sum == order.accounted + n
           most == AtLeast(order.cum, sum)
           fills == ~IsTerminal(k, o) /\ most >= Qty[o]
           st == IF fills THEN "FILLED" ELSE order.status
           pending == order.cancelPending /\ ~fills
           x == WithFill(order, most, st, pending, sum)
<1>1. OrderFill(k, o, n)
      = PutFill(k, o, most, st, pending, sum)
  BY DEF OrderFill, PutFill, Kernel, Order
<1>2. order \in Order
  BY DEF Kernel
<1>3. sum \in Nat /\ most \in Nat /\ st \in Statuses /\ pending \in BOOLEAN
  BY <1>2 DEF Order, AtLeast, Statuses
<1>4. x \in Order /\ x.status = st /\ x.cum = most
      /\ x.accounted = sum /\ x.linked = order.linked /\ x.sysLinked = order.sysLinked
  <2> HIDE DEF order, sum, most, st, pending
  <2> QED BY <1>2, <1>3 DEF Order, WithFill
<1>5. OrderFill(k, o, n) = PutOrder(k, o, x)
  <2> HIDE DEF sum, most, st, pending
  <2> QED BY <1>1, FillPut
<1> HIDE DEF x
<1>6. LET k2 == OrderFill(k, o, n) IN
        /\ SameBooks(k, k2) /\ k2.funds = k.funds /\ k2.unlinked = k.unlinked
        /\ \A p \in Orders : p # o => k2.orders[p] = k.orders[p]
        /\ k2.orders[o] = x
  BY <1>4, <1>5, OrderReplaced
<1> QED BY <1>4, <1>6

LEMMA FundsKept ==
  ASSUME KernelAssumption, NEW k \in Kernel, NEW o \in Orders, NEW share \in Nat
  PROVE  LET k2 == KeepFunds(k, o, share) IN
         /\ SameBooks(k, k2) /\ k2.orders = k.orders /\ k2.unlinked = k.unlinked
         /\ \A p \in Orders : p # o => k2.funds[p] = k.funds[p]
         /\ share = 0 \/ k.funds[o] = 0 => k2.funds[o] = 0
BY DEF KeepFunds, SameBooks, Kernel, AtLeast, KernelAssumption

\* The trades that waited for an order, once the order is found.
Waiters(k, o) == {t \in k.unlinked : t[1] = o /\ Finds(k, o, o \in Resolved, TRUE)}

LEMMA TradesFinite == ASSUME KernelAssumption PROVE IsFiniteSet(Trades) /\ Trades \subseteq Orders \X (1..MaxQty)
<1>1. Trades \subseteq Orders \X (1..MaxQty)
  BY DEF Trades
<1>2. IsFiniteSet(Orders) /\ MaxQty \in Nat /\ MaxQty \in Int /\ 1 \in Int
  BY DEF KernelAssumption
<1>3. IsFiniteSet(1..MaxQty)
  BY <1>2, FS_Interval
<1>4. IsFiniteSet(Orders \X (1..MaxQty))
  BY <1>2, <1>3, FS_Product
<1> QED BY <1>1, <1>4, FS_Subset

LEMMA Linked ==
  ASSUME KernelAssumption, NEW k \in Kernel, NEW o \in Orders
  PROVE  LET k2 == LinkTrades(k, o)
             mine == Waiters(k, o)
             cum == AtLeast(k.orders[o].cum, k.orders[o].accounted + Cardinality(mine)) IN
         /\ Cardinality(mine) \in Nat
         /\ SameBooks(k, k2) /\ k2.funds = k.funds /\ k2.unlinked = k.unlinked \ mine
         /\ \A p \in Orders : p # o => k2.orders[p] = k.orders[p]
         /\ mine = {} => k2 = k
         /\ k2.orders[o].status = IF mine # {} /\ ~IsTerminal(k, o) /\ cum >= Qty[o] THEN "FILLED" ELSE k.orders[o].status
         /\ mine # {} => k2.orders[o].cum = cum
         /\ k2.orders[o].accounted = k.orders[o].accounted + Cardinality(mine)
         /\ k2.orders[o].linked = k.orders[o].linked
         /\ k2.orders[o].sysLinked = k.orders[o].sysLinked
<1> DEFINE mine == Waiters(k, o)
           n == Cardinality(mine)
           filled == OrderFill(k, o, n)
           k2 == LinkTrades(k, o)
<1>1. mine \in SUBSET Trades
  BY DEF Waiters, Kernel
<1>2. n \in Nat
  BY <1>1, TradesFinite, FS_Subset, FS_CardinalityType
<1>3. k2 = IF mine = {} THEN k ELSE [filled EXCEPT !.unlinked = @ \ mine]
  BY DEF LinkTrades, Waiters
<1>4. CASE mine = {}
  <2>1. n = 0
    BY <1>4, FS_EmptySet
  <2>2. k2 = k /\ SameBooks(k, k) /\ k.unlinked = k.unlinked \ mine
    BY <1>3, <1>4 DEF SameBooks
  <2>3. k.orders[o].accounted + n = k.orders[o].accounted
    BY <2>1 DEF Kernel, Order
  <2> HIDE DEF mine, n, k2
  <2> QED BY <1>2, <1>4, <2>2, <2>3 DEF mine, n, k2
<1>5. CASE mine # {}
  <2> DEFINE cum == AtLeast(k.orders[o].cum, k.orders[o].accounted + n)
  <2>1. /\ SameBooks(k, filled) /\ filled.funds = k.funds /\ filled.unlinked = k.unlinked
        /\ \A p \in Orders : p # o => filled.orders[p] = k.orders[p]
        /\ filled.orders[o].status = IF ~IsTerminal(k, o) /\ cum >= Qty[o] THEN "FILLED" ELSE k.orders[o].status
        /\ filled.orders[o].cum = cum
        /\ filled.orders[o].accounted = k.orders[o].accounted + n
        /\ filled.orders[o].linked = k.orders[o].linked
        /\ filled.orders[o].sysLinked = k.orders[o].sysLinked
    BY <1>2, Filled
  <2> HIDE DEF filled, n, mine, cum
  <2>2. k2 = [filled EXCEPT !.unlinked = @ \ mine]
    BY <1>3, <1>5
  <2>3. k2 \in Kernel
    BY <1>1, <2>1, <2>2 DEF Kernel, SameBooks
  <2>4. /\ k2.day = filled.day /\ k2.advancing = filled.advancing /\ k2.priced = filled.priced
        /\ k2.reserved = filled.reserved /\ k2.pos = filled.pos /\ k2.lots = filled.lots /\ k2.seen = filled.seen
        /\ k2.funds = filled.funds /\ k2.orders = filled.orders /\ k2.unlinked = filled.unlinked \ mine
    BY <2>1, <2>2 DEF Kernel, SameBooks
  <2>5. SameBooks(k, k2)
    BY <2>1, <2>3, <2>4 DEF SameBooks
  <2> HIDE DEF k2
  <2> QED BY <1>2, <1>5, <2>1, <2>4, <2>5 DEF cum, mine, n, k2
<1> QED BY <1>4, <1>5

\* What the release of a reservation writes.
PutFrozen(k, o, n, a, b) == [k EXCEPT !.reserved[o] = n, !.pos.frozenYd = a, !.pos.frozenTd = b]
PutReserved(k, o, n, p) == [k EXCEPT !.reserved = [k.reserved EXCEPT ![o] = n], !.pos = p]

WithFrozen(p, a, b) == [p EXCEPT !.frozenYd = a, !.frozenTd = b]

LEMMA FrozenPut ==
  ASSUME NEW k \in Kernel, NEW o \in Orders, NEW n, NEW a, NEW b
  PROVE  PutFrozen(k, o, n, a, b) = PutReserved(k, o, n, WithFrozen(k.pos, a, b))
BY Zenon DEF Kernel, Position, PutFrozen, PutReserved, WithFrozen

LEMMA ReservedReplaced ==
  ASSUME NEW k \in Kernel, NEW o \in Orders, NEW n \in Reservation, NEW p \in Position
  PROVE  LET k2 == PutReserved(k, o, n, p) IN
         /\ k2 \in Kernel
         /\ k2.day = k.day /\ k2.advancing = k.advancing /\ k2.priced = k.priced /\ k2.lots = k.lots /\ k2.seen = k.seen
         /\ k2.orders = k.orders /\ k2.funds = k.funds /\ k2.unlinked = k.unlinked
         /\ k2.pos = p /\ \A q \in Orders : q # o => k2.reserved[q] = k.reserved[q]
         /\ k2.reserved[o] = n
BY DEF Kernel, PutReserved

LEMMA Released ==
  ASSUME KernelAssumption, NEW k \in Kernel, NEW o \in Orders, NEW cum \in Nat,
         k.reserved[o].yd <= k.pos.frozenYd, k.reserved[o].td <= k.pos.frozenTd
  PROVE  LET k2 == ReleaseUnfilled(k, o, cum)
             res == k.reserved[o]
             confirmed == AtMost(Qty[o], AtLeast(res.accounted, cum))
             keep == confirmed - res.accounted
             new == k2.reserved[o] IN
         /\ k2 \in Kernel
         /\ k2.day = k.day /\ k2.advancing = k.advancing /\ k2.priced = k.priced /\ k2.lots = k.lots /\ k2.seen = k.seen
         /\ k2.orders = k.orders /\ k2.funds = k.funds /\ k2.unlinked = k.unlinked
         /\ k2.pos.yd = k.pos.yd /\ k2.pos.td = k.pos.td
         /\ \A p \in Orders : p # o => k2.reserved[p] = k.reserved[p]
         /\ new.yd <= res.yd /\ new.td <= res.td
         /\ k2.pos.frozenYd = k.pos.frozenYd - res.yd + new.yd
         /\ k2.pos.frozenTd = k.pos.frozenTd - res.td + new.td
         /\ ~res.held => k2 = k
         /\ res.held /\ keep <= 0 => new = Unheld(o)
         /\ res.held /\ keep > 0 => /\ new.held /\ new.offset = res.offset /\ new.accounted = res.accounted
                                    /\ new.yd + new.td = AtMost(res.yd + res.td, keep)
<1> DEFINE res == k.reserved[o]
           confirmed == AtMost(Qty[o], AtLeast(res.accounted, cum))
           keep == confirmed - res.accounted
           release == IF res.yd + res.td > keep THEN res.yd + res.td - keep ELSE 0
           td == AtMost(res.td, release)
           yd == AtMost(res.yd, release - td)
           gone == res.accounted >= confirmed /\ res.yd = yd /\ res.td = td
           part0 == [res EXCEPT !.yd = res.yd - yd, !.td = res.td - td]
           new == IF gone THEN Unheld(o) ELSE part0
           pos2 == WithFrozen(k.pos, k.pos.frozenYd - yd, k.pos.frozenTd - td)
           k2 == ReleaseUnfilled(k, o, cum)
<1>1. res \in Reservation /\ k.pos \in Position /\ Qty[o] \in Nat /\ Qty[o] >= 1
  BY DEF Kernel, KernelAssumption
<1>2. CASE ~res.held
  <2>1. k2 = k
    BY <1>2 DEF ReleaseUnfilled
  <2>2. res.yd \in Nat /\ res.td \in Nat /\ k.pos.frozenYd \in Nat /\ k.pos.frozenTd \in Nat
    BY <1>1 DEF Reservation, Position
  <2> QED BY <1>2, <2>1, <2>2
<1>3. CASE res.held
  <2>1. /\ res.yd \in Nat /\ res.td \in Nat /\ res.accounted \in Nat
        /\ confirmed \in Nat
    BY <1>1 DEF Reservation, AtMost, AtLeast
  <2>2. keep \in Int
    BY <2>1
  <2> HIDE DEF confirmed
  <2>3. release \in Nat
    BY <2>1, <2>2
  <2>4. td \in Nat /\ td <= res.td /\ td <= release /\ yd \in Nat /\ yd <= res.yd
    <3> HIDE DEF res, release
    <3> QED BY <2>1, <2>3 DEF AtMost
  <2>5. keep <= 0 => yd = res.yd /\ td = res.td
    <3> HIDE DEF res
    <3> QED BY <2>1, <2>2 DEF AtMost
  <2>6. keep > 0 => (res.yd - yd) + (res.td - td) = AtMost(res.yd + res.td, keep)
    <3> HIDE DEF res
    <3> QED BY <2>1, <2>2 DEF AtMost
  <2>7. gone <=> keep <= 0
    <3> HIDE DEF res, release, td, yd
    <3> QED BY <2>1, <2>5
  <2> HIDE DEF keep, release, td, yd
  <2>8. part0 \in Reservation /\ part0.held = res.held /\ part0.offset = res.offset /\ part0.accounted = res.accounted
        /\ part0.yd = res.yd - yd /\ part0.td = res.td - td
    <3>1. res.yd - yd \in Nat /\ res.td - td \in Nat
      BY <2>1, <2>4
    <3> HIDE DEF res
    <3> QED BY <1>1, <3>1 DEF Reservation
  <2>9. Unheld(o) \in Reservation /\ Unheld(o).yd = 0 /\ Unheld(o).td = 0
    BY DEF Unheld, Reservation, KernelAssumption
  <2> HIDE DEF part0
  <2>10. new \in Reservation /\ new.yd = res.yd - yd /\ new.td = res.td - td
    BY <2>1, <2>4, <2>5, <2>7, <2>8, <2>9
  <2>11. /\ pos2 \in Position /\ pos2.yd = k.pos.yd /\ pos2.td = k.pos.td
         /\ pos2.frozenYd = k.pos.frozenYd - yd /\ pos2.frozenTd = k.pos.frozenTd - td
    <3>1. k.pos.frozenYd - yd \in Nat /\ k.pos.frozenTd - td \in Nat
      BY <1>1, <2>1, <2>4 DEF Position
    <3> QED BY <1>1, <3>1 DEF Position, WithFrozen
  <2>12. k2 = PutReserved(k, o, new, pos2)
    <3> DEFINE a == k.pos.frozenYd - yd
               b == k.pos.frozenTd - td
    <3>1. k2 = PutFrozen(k, o, new, a, b)
      BY <1>3, Zenon DEF ReleaseUnfilled, PutFrozen, confirmed, keep, release, td, yd, part0
    <3> HIDE DEF k2, new, a, b
    <3>2. pos2 = WithFrozen(k.pos, a, b)
      BY DEF a, b
    <3> QED BY <3>1, <3>2, FrozenPut
  <2>13. res.held /\ keep <= 0 => new = Unheld(o)
    BY <2>7
  <2>14. res.held /\ keep > 0 => /\ new.held /\ new.offset = res.offset /\ new.accounted = res.accounted
                                 /\ new.yd + new.td = AtMost(res.yd + res.td, keep)
    <3> HIDE DEF res, gone
    <3>1. ~(keep <= 0) => new = part0
      BY <2>7
    <3>2. keep > 0 => ~(keep <= 0)
      BY <2>2
    <3> HIDE DEF new
    <3> QED BY <2>6, <2>8, <3>1, <3>2
  <2> HIDE DEF new, pos2, gone
  <2>15. /\ k2 \in Kernel
         /\ k2.day = k.day /\ k2.advancing = k.advancing /\ k2.priced = k.priced /\ k2.lots = k.lots /\ k2.seen = k.seen
         /\ k2.orders = k.orders /\ k2.funds = k.funds /\ k2.unlinked = k.unlinked
         /\ k2.pos = pos2 /\ \A p \in Orders : p # o => k2.reserved[p] = k.reserved[p]
         /\ k2.reserved[o] = new
    BY <2>10, <2>11, <2>12, ReservedReplaced
  <2>16. /\ new.yd <= res.yd /\ new.td <= res.td
         /\ pos2.frozenYd = k.pos.frozenYd - res.yd + new.yd
         /\ pos2.frozenTd = k.pos.frozenTd - res.td + new.td
    <3>1. k.pos.frozenYd \in Nat /\ k.pos.frozenTd \in Nat
      BY <1>1 DEF Position
    <3> HIDE DEF res
    <3> QED BY <2>1, <2>4, <2>10, <2>11, <3>1
  <2> HIDE DEF k2
  <2>17. /\ k2.pos.yd = k.pos.yd /\ k2.pos.td = k.pos.td
         /\ k2.pos.frozenYd = k.pos.frozenYd - res.yd + k2.reserved[o].yd
         /\ k2.pos.frozenTd = k.pos.frozenTd - res.td + k2.reserved[o].td
    BY <2>11, <2>15, <2>16
  <2> QED BY <1>3, <2>13, <2>14, <2>15, <2>16, <2>17 DEF k2, keep, confirmed
<1> QED BY <1>2, <1>3
-------------------------------------------------------------------------------
(* The books of one kernel: freezes are reservations, buckets are lots *)

YdOf(k) == [o \in Orders |-> k.reserved[o].yd]
TdOf(k) == [o \in Orders |-> k.reserved[o].td]

Sums(k) ==
    /\ k.pos.frozenYd = Total(YdOf(k), Orders) /\ k.pos.frozenTd = Total(TdOf(k), Orders)
    /\ k.pos.frozenYd <= k.pos.yd /\ k.pos.frozenTd <= k.pos.td
    /\ k.pos.yd = Total(k.lots, FormerDays(k)) /\ k.pos.td = Total(k.lots, TodaysDays(k))
    /\ \A d \in Days : d > k.day => k.lots[d] = 0

\* Only the reservation of one order moves, and the freezes with it.
OneMoved(k, k2, o) ==
    /\ k2 \in Kernel
    /\ k2.day = k.day /\ k2.lots = k.lots
    /\ k2.pos.yd = k.pos.yd /\ k2.pos.td = k.pos.td
    /\ \A p \in Orders : p # o => k2.reserved[p] = k.reserved[p]
    /\ k2.pos.frozenYd = k.pos.frozenYd - k.reserved[o].yd + k2.reserved[o].yd
    /\ k2.pos.frozenTd = k.pos.frozenTd - k.reserved[o].td + k2.reserved[o].td

LEMMA Numbers ==
  ASSUME NEW k \in Kernel, NEW o \in Orders
  PROVE  /\ k.pos.yd \in Nat /\ k.pos.td \in Nat /\ k.pos.frozenYd \in Nat /\ k.pos.frozenTd \in Nat
         /\ k.reserved[o].yd \in Nat /\ k.reserved[o].td \in Nat /\ k.reserved[o].accounted \in Nat
         /\ k.reserved[o].held \in BOOLEAN /\ k.reserved[o].offset \in Offsets
         /\ YdOf(k)[o] = k.reserved[o].yd /\ TdOf(k)[o] = k.reserved[o].td
         /\ k.day \in Days /\ k.lots \in [Days -> Nat] /\ k.reserved[o] \in Reservation /\ k.pos \in Position
         /\ k.orders[o].cum \in Nat /\ k.orders[o].accounted \in Nat
BY DEF Kernel, Position, Reservation, YdOf, TdOf, Order

LEMMA WithinFreeze ==
  ASSUME KernelAssumption, NEW k \in Kernel, Sums(k), NEW o \in Orders
  PROVE  k.reserved[o].yd <= k.pos.frozenYd /\ k.reserved[o].td <= k.pos.frozenTd
<1>1. IsFiniteSet(Orders)
  BY DEF KernelAssumption
<1>2. \A p \in Orders : YdOf(k)[p] \in Nat /\ TdOf(k)[p] \in Nat
  BY Numbers
<1>3. YdOf(k)[o] <= Total(YdOf(k), Orders)
  BY <1>1, <1>2, TotalNat
<1>4. TdOf(k)[o] <= Total(TdOf(k), Orders)
  BY <1>1, <1>2, TotalNat
<1> QED BY <1>3, <1>4, Numbers DEF Sums

LEMMA FreezesMove ==
  ASSUME KernelAssumption, NEW k \in Kernel, NEW k2 \in Kernel, NEW o \in Orders, Sums(k),
         \A p \in Orders : p # o => k2.reserved[p] = k.reserved[p],
         k2.pos.frozenYd = k.pos.frozenYd - k.reserved[o].yd + k2.reserved[o].yd,
         k2.pos.frozenTd = k.pos.frozenTd - k.reserved[o].td + k2.reserved[o].td
  PROVE  k2.pos.frozenYd = Total(YdOf(k2), Orders) /\ k2.pos.frozenTd = Total(TdOf(k2), Orders)
<1>1. IsFiniteSet(Orders)
  BY DEF KernelAssumption
<1>2. \A p \in Orders : /\ YdOf(k)[p] \in Int /\ TdOf(k)[p] \in Int /\ YdOf(k2)[p] \in Int /\ TdOf(k2)[p] \in Int
                        /\ p # o => YdOf(k2)[p] = YdOf(k)[p] /\ TdOf(k2)[p] = TdOf(k)[p]
  BY Numbers DEF YdOf, TdOf
<1>3. Total(YdOf(k2), Orders) = Total(YdOf(k), Orders) + YdOf(k2)[o] - YdOf(k)[o]
  BY <1>1, <1>2, TotalChanged
<1>4. Total(TdOf(k2), Orders) = Total(TdOf(k), Orders) + TdOf(k2)[o] - TdOf(k)[o]
  BY <1>1, <1>2, TotalChanged
<1>5. Total(YdOf(k), Orders) = k.pos.frozenYd /\ Total(TdOf(k), Orders) = k.pos.frozenTd
  BY DEF Sums
<1>6. /\ YdOf(k)[o] = k.reserved[o].yd /\ TdOf(k)[o] = k.reserved[o].td
      /\ YdOf(k2)[o] = k2.reserved[o].yd /\ TdOf(k2)[o] = k2.reserved[o].td
      /\ k.reserved[o].yd \in Nat /\ k.reserved[o].td \in Nat /\ k2.reserved[o].yd \in Nat /\ k2.reserved[o].td \in Nat
      /\ k.pos.frozenYd \in Nat /\ k.pos.frozenTd \in Nat
  BY Numbers
<1> QED BY <1>3, <1>4, <1>5, <1>6

LEMMA SumsMove ==
  ASSUME KernelAssumption, NEW k \in Kernel, NEW k2, NEW o \in Orders, Sums(k), OneMoved(k, k2, o),
         k2.pos.frozenYd <= k2.pos.yd, k2.pos.frozenTd <= k2.pos.td
  PROVE  Sums(k2)
<1>1. k2.pos.frozenYd = Total(YdOf(k2), Orders) /\ k2.pos.frozenTd = Total(TdOf(k2), Orders)
  BY FreezesMove DEF OneMoved
<1>2. FormerDays(k2) = FormerDays(k) /\ TodaysDays(k2) = TodaysDays(k)
  BY DEF OneMoved, FormerDays, TodaysDays
<1> QED BY <1>1, <1>2 DEF Sums, OneMoved

LEMMA SumsKept ==
  ASSUME NEW k, NEW k2, Sums(k),
         k2.day = k.day, k2.lots = k.lots, k2.pos = k.pos, k2.reserved = k.reserved
  PROVE  Sums(k2)
BY DEF Sums, YdOf, TdOf, FormerDays, TodaysDays

LEMMA ReservedFor ==
  ASSUME KernelAssumption, NEW k \in Kernel, NEW o \in Orders
  PROVE  LET k2 == Reserve(k, o) IN
         /\ k2 \in Kernel
         /\ k2.day = k.day /\ k2.advancing = k.advancing /\ k2.priced = k.priced /\ k2.lots = k.lots /\ k2.seen = k.seen
         /\ k2.orders = k.orders /\ k2.funds = k.funds /\ k2.unlinked = k.unlinked
         /\ k2.pos.yd = k.pos.yd /\ k2.pos.td = k.pos.td
         /\ \A p \in Orders : p # o => k2.reserved[p] = k.reserved[p]
         /\ k2.reserved[o].held /\ k2.reserved[o].offset = OffsetOf[o] /\ k2.reserved[o].accounted = 0
         /\ k2.reserved[o].yd = IF OffsetOf[o] = "CLOSE_YESTERDAY" THEN Qty[o] ELSE 0
         /\ k2.reserved[o].td = IF OffsetOf[o] = "CLOSE_TODAY" THEN Qty[o] ELSE 0
         /\ k2.pos.frozenYd = k.pos.frozenYd + k2.reserved[o].yd
         /\ k2.pos.frozenTd = k.pos.frozenTd + k2.reserved[o].td
<1> DEFINE yd == IF OffsetOf[o] = "CLOSE_YESTERDAY" THEN Qty[o] ELSE 0
           td == IF OffsetOf[o] = "CLOSE_TODAY" THEN Qty[o] ELSE 0
           new == [held |-> TRUE, offset |-> OffsetOf[o], yd |-> yd, td |-> td, accounted |-> 0]
           a == k.pos.frozenYd + yd
           b == k.pos.frozenTd + td
           pos2 == WithFrozen(k.pos, a, b)
<1>1. yd \in Nat /\ td \in Nat /\ OffsetOf[o] \in Offsets
  BY DEF KernelAssumption
<1>2. k.pos \in Position /\ k.pos.frozenYd \in Nat /\ k.pos.frozenTd \in Nat
  BY Numbers
<1>3. Reserve(k, o) = PutFrozen(k, o, new, a, b)
  BY Zenon DEF Reserve, PutFrozen
<1> HIDE DEF yd, td
<1>4. new \in Reservation
  BY <1>1 DEF Reservation
<1>5. a \in Nat /\ b \in Nat
  BY <1>1, <1>2
<1>6. pos2 \in Position /\ pos2.yd = k.pos.yd /\ pos2.td = k.pos.td /\ pos2.frozenYd = a /\ pos2.frozenTd = b
  <2> HIDE DEF a, b
  <2> QED BY <1>2, <1>5 DEF Position, WithFrozen
<1>7. Reserve(k, o) = PutReserved(k, o, new, pos2)
  <2> HIDE DEF a, b, new
  <2> QED BY <1>3, FrozenPut
<1>8. new.held /\ new.offset = OffsetOf[o] /\ new.accounted = 0 /\ new.yd = yd /\ new.td = td
  OBVIOUS
<1> HIDE DEF new, pos2
<1>9. LET k2 == Reserve(k, o) IN
         /\ k2 \in Kernel
         /\ k2.day = k.day /\ k2.advancing = k.advancing /\ k2.priced = k.priced /\ k2.lots = k.lots /\ k2.seen = k.seen
         /\ k2.orders = k.orders /\ k2.funds = k.funds /\ k2.unlinked = k.unlinked
         /\ k2.pos = pos2 /\ \A q \in Orders : q # o => k2.reserved[q] = k.reserved[q]
         /\ k2.reserved[o] = new
  BY <1>4, <1>6, <1>7, ReservedReplaced
<1> QED BY <1>6, <1>8, <1>9 DEF a, b, yd, td
-------------------------------------------------------------------------------
(* One trade in the position, the reservation of its order and the lots *)

PutOpen(h, a, b, d, c) == [h EXCEPT !.pos.yd = a, !.pos.td = b, !.lots[d] = c]
PutToday(h, a, b, d, c) == [h EXCEPT !.pos.td = a, !.pos.frozenTd = b, !.lots[d] = c]
PutYesterday(h, a, b, d, c) == [h EXCEPT !.pos.yd = a, !.pos.frozenYd = b, !.lots[d] = c]
WithOpen(p, a, b) == [p EXCEPT !.yd = a, !.td = b]
WithToday(p, a, b) == [p EXCEPT !.td = a, !.frozenTd = b]
WithYesterday(p, a, b) == [p EXCEPT !.yd = a, !.frozenYd = b]
PutBooked(h, p, d, c) == [h EXCEPT !.pos = p, !.lots = [h.lots EXCEPT ![d] = c]]

LEMMA OpenPut ==
  ASSUME NEW h \in Kernel, NEW a, NEW b, NEW d \in Days, NEW c
  PROVE  PutOpen(h, a, b, d, c) = PutBooked(h, WithOpen(h.pos, a, b), d, c)
BY Zenon DEF Kernel, Position, PutOpen, PutBooked, WithOpen

LEMMA TodayPut ==
  ASSUME NEW h \in Kernel, NEW a, NEW b, NEW d \in Days, NEW c
  PROVE  PutToday(h, a, b, d, c) = PutBooked(h, WithToday(h.pos, a, b), d, c)
BY Zenon DEF Kernel, Position, PutToday, PutBooked, WithToday

LEMMA YesterdayPut ==
  ASSUME NEW h \in Kernel, NEW a, NEW b, NEW d \in Days, NEW c
  PROVE  PutYesterday(h, a, b, d, c) = PutBooked(h, WithYesterday(h.pos, a, b), d, c)
BY Zenon DEF Kernel, Position, PutYesterday, PutBooked, WithYesterday

LEMMA BookedReplaced ==
  ASSUME NEW h \in Kernel, NEW p \in Position, NEW d \in Days, NEW c \in Nat
  PROVE  LET k2 == PutBooked(h, p, d, c) IN
         /\ k2 \in Kernel
         /\ k2.day = h.day /\ k2.advancing = h.advancing /\ k2.priced = h.priced /\ k2.seen = h.seen
         /\ k2.orders = h.orders /\ k2.funds = h.funds /\ k2.unlinked = h.unlinked /\ k2.reserved = h.reserved
         /\ k2.pos = p /\ \A e \in Days : e # d => k2.lots[e] = h.lots[e]
         /\ k2.lots[d] = c
BY DEF Kernel, PutBooked

LEMMA DaysFinite ==
  ASSUME KernelAssumption, NEW k \in Kernel
  PROVE  /\ IsFiniteSet(FormerDays(k)) /\ IsFiniteSet(TodaysDays(k)) /\ LastDay \in Nat
         /\ FormerDays(k) \subseteq Days /\ TodaysDays(k) \subseteq Days /\ FormerDays(k) \intersect TodaysDays(k) = {}
<1>1. k.day \in Nat /\ k.day <= LastDay /\ LastDay \in Nat
  BY DEF Kernel, Days, KernelAssumption
<1>2. IsFiniteSet(0..(k.day - 1)) /\ IsFiniteSet(k.day..LastDay)
  <2>1. 0 \in Int /\ k.day - 1 \in Int /\ k.day \in Int /\ LastDay \in Int
    BY <1>1
  <2> QED BY <2>1, FS_Interval
<1> QED BY <1>1, <1>2 DEF FormerDays, TodaysDays, Days

\* The lots of one day change by one, and the bucket of that day with them.
LEMMA LotsMove ==
  ASSUME KernelAssumption, NEW k \in Kernel, NEW k2 \in Kernel, Sums(k), NEW e \in Days, NEW n \in Int,
         k2.day = k.day, e <= k.day, k2.lots[e] = k.lots[e] + n,
         \A d \in Days : d # e => k2.lots[d] = k.lots[d],
         e < k.day => k2.pos.yd = k.pos.yd + n /\ k2.pos.td = k.pos.td,
         e >= k.day => k2.pos.yd = k.pos.yd /\ k2.pos.td = k.pos.td + n
  PROVE  /\ k2.pos.yd = Total(k2.lots, FormerDays(k2)) /\ k2.pos.td = Total(k2.lots, TodaysDays(k2))
         /\ \A d \in Days : d > k2.day => k2.lots[d] = 0
<1> DEFINE F == FormerDays(k)
           T == TodaysDays(k)
<1>1. FormerDays(k2) = F /\ TodaysDays(k2) = T
  BY DEF FormerDays, TodaysDays
<1>2. IsFiniteSet(F) /\ IsFiniteSet(T) /\ F \subseteq Days /\ T \subseteq Days
  BY DaysFinite
<1>3. k.day \in Nat /\ LastDay \in Nat /\ e \in Nat /\ e <= LastDay
  BY DaysFinite DEF Kernel, Days
<1>4. e \in F <=> e < k.day
  BY <1>3 DEF FormerDays
<1>5. e \in T <=> e >= k.day
  BY <1>3 DEF TodaysDays
<1>6. \A d \in Days : k.lots[d] \in Int /\ k2.lots[d] \in Int
  BY DEF Kernel
<1>7. \A d \in F : k.lots[d] \in Int /\ k2.lots[d] \in Int
  BY <1>2, <1>6
<1>8. \A d \in T : k.lots[d] \in Int /\ k2.lots[d] \in Int
  BY <1>2, <1>6
<1>9. (\A d \in F : d # e => k2.lots[d] = k.lots[d]) /\ (\A d \in T : d # e => k2.lots[d] = k.lots[d])
  BY <1>2
<1>10. k.pos.yd = Total(k.lots, F) /\ k.pos.td = Total(k.lots, T) /\ \A d \in Days : d > k.day => k.lots[d] = 0
  BY DEF Sums
<1> HIDE DEF F, T
<1>11. CASE e < k.day
  <2>1. e \in F /\ ~(e >= k.day)
    BY <1>3, <1>4, <1>11
  <2>2. e \notin T
    BY <1>5, <2>1
  <2>3. Total(k2.lots, F) = Total(k.lots, F) + k2.lots[e] - k.lots[e]
    <3> DEFINE f == k.lots
               g == k2.lots
    <3>1. /\ IsFiniteSet(F) /\ e \in F /\ \A y \in F : f[y] \in Int /\ g[y] \in Int
          /\ \A y \in F : y # e => g[y] = f[y]
      BY <1>2, <1>9, <1>7, <2>1
    <3> HIDE DEF f, g
    <3>2. Total(g, F) = Total(f, F) + g[e] - f[e]
      BY <3>1, TotalChanged
    <3> QED BY <3>2 DEF f, g
  <2>4. Total(k.lots, T) = Total(k2.lots, T)
    BY <1>2, <2>2, TotalSame
  <2>5. k.pos.yd \in Int /\ k.lots[e] \in Int
    BY Numbers, <1>6 DEF Kernel, Position
  <2> QED BY <1>1, <1>3, <1>10, <1>11, <2>3, <2>4, <2>5 DEF Days
<1>12. CASE e >= k.day
  <2>1. e \in T /\ ~(e < k.day)
    BY <1>3, <1>5, <1>12
  <2>2. e \notin F
    BY <1>4, <2>1
  <2>3. Total(k2.lots, T) = Total(k.lots, T) + k2.lots[e] - k.lots[e]
    <3> DEFINE f == k.lots
               g == k2.lots
    <3>1. /\ IsFiniteSet(T) /\ e \in T /\ \A y \in T : f[y] \in Int /\ g[y] \in Int
          /\ \A y \in T : y # e => g[y] = f[y]
      BY <1>2, <1>9, <1>8, <2>1
    <3> HIDE DEF f, g
    <3>2. Total(g, T) = Total(f, T) + g[e] - f[e]
      BY <3>1, TotalChanged
    <3> QED BY <3>2 DEF f, g
  <2>4. Total(k.lots, F) = Total(k2.lots, F)
    BY <1>2, <2>2, TotalSame
  <2>5. k.pos.td \in Int /\ k.lots[e] \in Int
    BY Numbers, <1>6 DEF Kernel, Position
  <2> QED BY <1>1, <1>3, <1>10, <1>12, <2>3, <2>4, <2>5 DEF Days
<1> QED BY <1>3, <1>11, <1>12

LEMMA Offsetting ==
  ASSUME KernelAssumption, NEW k \in Kernel, NEW o \in Orders, NEW linked, NEW d
  PROVE  LET offset == EffectiveOffset(k, o, linked, d) IN
         /\ offset \in Offsets /\ (offset = "OPEN" <=> OffsetOf[o] = "OPEN")
         /\ offset = "CLOSE_TODAY" => OffsetOf[o] = "CLOSE_TODAY" /\ ~IsLate(k, d)
BY DEF EffectiveOffset, Offsets, KernelAssumption

\* The oldest of the lots that may be taken is one of them.
LEMMA OldestIsCandidate ==
  ASSUME KernelAssumption, NEW k \in Kernel, NEW offset, Candidates(k, offset) # {}
  PROVE  LET e == Min(Candidates(k, offset)) IN
         /\ e \in Days /\ k.lots[e] > 0
         /\ offset = "CLOSE_TODAY" => e \in TodaysDays(k)
         /\ offset # "CLOSE_TODAY" => e \in FormerDays(k)
<1> DEFINE C == Candidates(k, offset)
<1>1. C \subseteq Days /\ C \subseteq Nat
  BY DaysFinite DEF Candidates, Days
<1>2. PICK x \in C : \A y \in C : x <= y
  <2>1. PICK z \in C : TRUE
    OBVIOUS
  <2>2. C \in SUBSET Nat /\ C # {}
    BY <1>1
  <2> HIDE DEF C
  <2>3. PICK x \in C : \A y \in C : ~(<<y, x>> \in OpToRel(<, Nat))
    BY <2>2, NatLessThanWellFounded, WFMin
  <2>4. \A y \in C : ~(y < x)
    BY <2>2, <2>3 DEF OpToRel
  <2> QED BY <2>2, <2>4
<1>3. Min(C) \in C
  BY <1>2 DEF Min
<1>4. \A e \in C : /\ e \in Days /\ k.lots[e] > 0
                   /\ offset = "CLOSE_TODAY" => e \in TodaysDays(k)
                   /\ offset # "CLOSE_TODAY" => e \in FormerDays(k)
  BY DaysFinite DEF Candidates
<1> QED BY <1>3, <1>4
LEMMA PositionBooked ==
  ASSUME KernelAssumption, NEW k \in Kernel, Sums(k), NEW o \in Orders, NEW linked \in BOOLEAN,
         NEW d \in Days, d <= k.day, Bookable(k, o, linked, d)
  PROVE  LET k2 == BookPosition(k, o, linked, d)
             offset == EffectiveOffset(k, o, linked, d)
             used == Consumed(k, o, linked, offset)
             res == k.reserved[o]
             new == k2.reserved[o] IN
         /\ k2 \in Kernel /\ Sums(k2)
         /\ k2.day = k.day /\ k2.advancing = k.advancing /\ k2.priced = k.priced /\ k2.seen = k.seen
         /\ k2.orders = k.orders /\ k2.funds = k.funds /\ k2.unlinked = k.unlinked
         /\ \A p \in Orders : p # o => k2.reserved[p] = k.reserved[p]
         /\ k2.pos.yd + k2.pos.td = k.pos.yd + k.pos.td + (IF OffsetOf[o] = "OPEN" THEN 1 ELSE 0)
                                                        - (IF OffsetOf[o] = "OPEN" THEN 0 ELSE 1)
         /\ used.yd \in Nat /\ used.td \in Nat /\ used.yd <= res.yd /\ used.td <= res.td
         /\ new.yd = res.yd - used.yd /\ new.td = res.td - used.td
         /\ ~(linked /\ res.held) => new = res
         /\ linked /\ res.held =>
               IF res.accounted + 1 >= Qty[o] /\ res.yd = used.yd /\ res.td = used.td THEN new = Unheld(o)
               ELSE new.held /\ new.offset = res.offset /\ new.accounted = res.accounted + 1
<1> DEFINE k2 == BookPosition(k, o, linked, d)
           offset == EffectiveOffset(k, o, linked, d)
           used == Consumed(k, o, linked, offset)
           res == k.reserved[o]
           booked == [res EXCEPT !.accounted = @ + 1, !.yd = @ - used.yd, !.td = @ - used.td]
           done == booked.accounted >= Qty[o] /\ booked.yd = 0 /\ booked.td = 0
           new == IF ~(linked /\ res.held) THEN res ELSE IF done THEN Unheld(o) ELSE booked
           h == [k EXCEPT !.reserved[o] = new]
           e == Min(Candidates(k, offset))
           pos2 == CASE offset = "OPEN" -> WithOpen(k.pos, k.pos.yd + (IF IsLate(k, d) THEN 1 ELSE 0),
                                                           k.pos.td + (IF IsLate(k, d) THEN 0 ELSE 1))
                     [] offset = "CLOSE_TODAY" -> WithToday(k.pos, k.pos.td - 1, k.pos.frozenTd - used.td)
                     [] offset = "CLOSE_YESTERDAY" -> WithYesterday(k.pos, k.pos.yd - 1, k.pos.frozenYd - used.yd)
           day == IF offset = "OPEN" THEN d ELSE e
           n == IF offset = "OPEN" THEN 1 ELSE -1
           c == k.lots[day] + n
<1>1. /\ res \in Reservation /\ res.yd \in Nat /\ res.td \in Nat /\ res.accounted \in Nat /\ res.held \in BOOLEAN
      /\ k.pos \in Position /\ k.pos.yd \in Nat /\ k.pos.td \in Nat /\ k.pos.frozenYd \in Nat /\ k.pos.frozenTd \in Nat
      /\ Qty[o] \in Nat /\ Qty[o] >= 1 /\ k.day \in Nat /\ d \in Nat
  BY Numbers DEF KernelAssumption, Days
<1>2. res.yd <= k.pos.frozenYd /\ res.td <= k.pos.frozenTd /\ k.pos.frozenYd <= k.pos.yd /\ k.pos.frozenTd <= k.pos.td
  BY WithinFreeze DEF Sums
<1>3. /\ offset \in Offsets /\ (offset = "OPEN" <=> OffsetOf[o] = "OPEN")
  BY Offsetting
<1>4. /\ used.yd \in {0, 1} /\ used.td \in {0, 1} /\ used.yd <= res.yd /\ used.td <= res.td
      /\ offset # "CLOSE_YESTERDAY" => used.yd = 0
      /\ offset # "CLOSE_TODAY" => used.td = 0
      /\ ~(linked /\ res.held) => used.yd = 0 /\ used.td = 0
  <2> HIDE DEF offset, res
  <2>1. /\ used.yd = IF linked /\ res.held /\ offset = "CLOSE_YESTERDAY" THEN AtMost(res.yd, 1) ELSE 0
        /\ used.td = IF linked /\ res.held /\ offset = "CLOSE_TODAY" THEN AtMost(res.td, 1) ELSE 0
    BY DEF Consumed, res
  <2> HIDE DEF used
  <2> QED BY <1>1, <2>1 DEF AtMost
<1>5. /\ offset = "CLOSE_TODAY" => /\ k.pos.td >= 1 /\ 1 - used.td <= k.pos.td - k.pos.frozenTd
                                   /\ Candidates(k, offset) # {}
      /\ offset = "CLOSE_YESTERDAY" => /\ k.pos.yd >= 1 /\ 1 - used.yd <= k.pos.yd - k.pos.frozenYd
                                       /\ Candidates(k, offset) # {}
  <2>1. CASE offset = "CLOSE_TODAY"
    BY <2>1 DEF Bookable, FreeTd
  <2>2. CASE offset = "CLOSE_YESTERDAY"
    BY <2>2 DEF Bookable, FreeYd
  <2> QED BY <2>1, <2>2
<1>6. offset # "OPEN" => /\ e \in Days /\ k.lots[e] > 0
                         /\ offset = "CLOSE_TODAY" => e \in TodaysDays(k)
                         /\ offset = "CLOSE_YESTERDAY" => e \in FormerDays(k)
  <2>1. offset # "OPEN" => Candidates(k, offset) # {}
    BY <1>3, <1>5 DEF Offsets
  <2> HIDE DEF offset
  <2> QED BY <2>1, OldestIsCandidate
<1>7. /\ day \in Days /\ day <= k.day /\ c \in Nat /\ k.lots[day] \in Nat
      /\ offset = "CLOSE_TODAY" => day >= k.day
      /\ offset = "CLOSE_YESTERDAY" => day < k.day
  <2> HIDE DEF offset, e
  <2>1. \A x \in Days : x \in Nat /\ k.lots[x] \in Nat /\ (x > k.day => k.lots[x] = 0)
    BY Numbers, SMTT(40) DEF Sums, Days
  <2>2. CASE offset = "OPEN"
    BY <2>1, <2>2
  <2>3. CASE offset = "CLOSE_TODAY"
    <3>1. e >= k.day /\ e \in Days /\ k.lots[e] > 0
      BY <1>6, <2>3 DEF TodaysDays
    <3>2. e \in Nat /\ k.lots[e] \in Nat /\ ~(e > k.day)
      BY <2>1, <3>1
    <3> QED BY <1>1, <2>3, <3>1, <3>2
  <2>4. CASE offset = "CLOSE_YESTERDAY"
    <3>1. e < k.day /\ e \in Days /\ k.lots[e] > 0
      BY <1>6, <2>4, <1>1 DEF FormerDays
    <3>2. e \in Nat /\ k.lots[e] \in Nat
      BY <2>1, <3>1
    <3> QED BY <1>1, <2>4, <3>1, <3>2
  <2> QED BY <1>3, <2>2, <2>3, <2>4 DEF Offsets
<1>8. booked \in Reservation /\ booked.held = res.held /\ booked.offset = res.offset
      /\ booked.accounted = res.accounted + 1 /\ booked.yd = res.yd - used.yd /\ booked.td = res.td - used.td
  <2>1. res.accounted + 1 \in Nat /\ res.yd - used.yd \in Nat /\ res.td - used.td \in Nat
    <3> HIDE DEF res, used
    <3> QED BY <1>1, <1>4
  <2> HIDE DEF res, used
  <2> QED BY <1>1, <2>1 DEF Reservation
<1>9. Unheld(o) \in Reservation /\ Unheld(o).yd = 0 /\ Unheld(o).td = 0
  BY DEF Unheld, Reservation, KernelAssumption
<1>10. new \in Reservation /\ new.yd = res.yd - used.yd /\ new.td = res.td - used.td
  <2> HIDE DEF res, used, booked
  <2>1. CASE ~(linked /\ res.held)
    BY <1>1, <1>4, <2>1
  <2>2. CASE linked /\ res.held
    BY <1>1, <1>8, <1>9, <2>2
  <2> QED BY <2>1, <2>2
<1>11. /\ ~(linked /\ res.held) => new = res
       /\ linked /\ res.held =>
               IF res.accounted + 1 >= Qty[o] /\ res.yd = used.yd /\ res.td = used.td THEN new = Unheld(o)
               ELSE new.held /\ new.offset = res.offset /\ new.accounted = res.accounted + 1
  <2> HIDE DEF res, used, booked
  <2>1. (res.yd - used.yd = 0 <=> res.yd = used.yd) /\ (res.td - used.td = 0 <=> res.td = used.td)
    BY <1>1, <1>4
  <2>2. done <=> res.accounted + 1 >= Qty[o] /\ res.yd = used.yd /\ res.td = used.td
    BY <1>8, <2>1
  <2> HIDE DEF done
  <2> QED BY <1>8, <2>2
<1> HIDE DEF new
<1>12. /\ h \in Kernel
       /\ h.day = k.day /\ h.advancing = k.advancing /\ h.priced = k.priced /\ h.seen = k.seen
       /\ h.orders = k.orders /\ h.funds = k.funds /\ h.unlinked = k.unlinked /\ h.pos = k.pos /\ h.lots = k.lots
       /\ \A p \in Orders : p # o => h.reserved[p] = k.reserved[p]
       /\ h.reserved[o] = new
  BY <1>10 DEF Kernel
<1>13. k2 = PutBooked(h, pos2, day, c)
  <2>1. CASE offset = "OPEN"
    <3> DEFINE a == k.pos.yd + (IF IsLate(k, d) THEN 1 ELSE 0)
               b == k.pos.td + (IF IsLate(k, d) THEN 0 ELSE 1)
    <3>1. k2 = [h EXCEPT !.pos.yd = @ + (IF IsLate(k, d) THEN 1 ELSE 0),
                         !.pos.td = @ + (IF IsLate(k, d) THEN 0 ELSE 1), !.lots[d] = @ + 1]
      BY <2>1, ZenonT(150) DEF BookPosition, new, h
    <3> HIDE DEF h, k2
    <3>2. k2 = PutOpen(h, a, b, d, k.lots[d] + 1)
      BY <3>1, <1>12, Zenon DEF PutOpen
    <3>3. pos2 = WithOpen(h.pos, a, b) /\ day = d /\ c = k.lots[d] + 1
      BY <2>1, <1>12
    <3> HIDE DEF pos2, day, c, a, b
    <3> QED BY <1>12, <3>2, <3>3, OpenPut, SMTT(40)
  <2>2. CASE offset = "CLOSE_TODAY"
    <3> DEFINE a == k.pos.td - 1
               b == k.pos.frozenTd - used.td
    <3>1. k2 = [h EXCEPT !.pos.td = @ - 1, !.pos.frozenTd = @ - used.td, !.lots[e] = @ - 1]
      BY <2>2, ZenonT(150) DEF BookPosition, new, h
    <3> HIDE DEF h, k2
    <3>2. k2 = PutToday(h, a, b, e, k.lots[e] - 1)
      BY <3>1, <1>12, Zenon DEF PutToday
    <3>3. pos2 = WithToday(h.pos, a, b) /\ day = e /\ c = k.lots[e] + (-1)
      BY <2>2, <1>12
    <3>4. k.lots[e] + (-1) = k.lots[e] - 1 /\ e \in Days
      BY <1>7, <2>2
    <3> HIDE DEF pos2, day, c, a, b
    <3> QED BY <1>12, <3>2, <3>3, <3>4, TodayPut, SMTT(40)
  <2>3. CASE offset = "CLOSE_YESTERDAY"
    <3> DEFINE a == k.pos.yd - 1
               b == k.pos.frozenYd - used.yd
    <3>1. k2 = [h EXCEPT !.pos.yd = @ - 1, !.pos.frozenYd = @ - used.yd, !.lots[e] = @ - 1]
      BY <2>3, ZenonT(150) DEF BookPosition, new, h
    <3> HIDE DEF h, k2
    <3>2. k2 = PutYesterday(h, a, b, e, k.lots[e] - 1)
      BY <3>1, <1>12, Zenon DEF PutYesterday
    <3>3. pos2 = WithYesterday(h.pos, a, b) /\ day = e /\ c = k.lots[e] + (-1)
      BY <2>3, <1>12
    <3>4. k.lots[e] + (-1) = k.lots[e] - 1 /\ e \in Days
      BY <1>7, <2>3, SMTT(40)
    <3> HIDE DEF pos2, day, c, a, b
    <3> QED BY <1>12, <3>2, <3>3, <3>4, YesterdayPut, SMTT(40)
  <2> QED BY <1>3, <2>1, <2>2, <2>3 DEF Offsets
<1>14. /\ pos2 \in Position
       /\ pos2.frozenYd = k.pos.frozenYd - used.yd /\ pos2.frozenTd = k.pos.frozenTd - used.td
       /\ pos2.frozenYd <= pos2.yd /\ pos2.frozenTd <= pos2.td
       /\ day < k.day => pos2.yd = k.pos.yd + n /\ pos2.td = k.pos.td
       /\ day >= k.day => pos2.yd = k.pos.yd /\ pos2.td = k.pos.td + n
  <2> HIDE DEF used, offset
  <2>1. CASE offset = "OPEN"
    <3> DEFINE a == k.pos.yd + (IF IsLate(k, d) THEN 1 ELSE 0)
               b == k.pos.td + (IF IsLate(k, d) THEN 0 ELSE 1)
    <3>1. a \in Nat /\ b \in Nat /\ a >= k.pos.yd /\ b >= k.pos.td /\ day = d /\ n = 1
          /\ (d < k.day => a = k.pos.yd + 1 /\ b = k.pos.td) /\ (d >= k.day => a = k.pos.yd /\ b = k.pos.td + 1)
      BY <1>1, <2>1 DEF IsLate
    <3>2. pos2 = WithOpen(k.pos, a, b)
      BY <2>1
    <3> HIDE DEF a, b, pos2
    <3>3. pos2 \in Position /\ pos2.yd = a /\ pos2.td = b /\ pos2.frozenYd = k.pos.frozenYd /\ pos2.frozenTd = k.pos.frozenTd
      BY <1>1, <3>1, <3>2 DEF WithOpen, Position
    <3> HIDE DEF day, n
    <3> QED BY <1>1, <1>2, <1>4, <2>1, <3>1, <3>3
  <2>2. CASE offset = "CLOSE_TODAY"
    <3> DEFINE a == k.pos.td - 1
               b == k.pos.frozenTd - used.td
    <3>1. a \in Nat /\ b \in Nat /\ b <= a /\ n = -1
      BY <1>1, <1>2, <1>4, <1>5, <2>2
    <3>2. pos2 = WithToday(k.pos, a, b)
      BY <2>2
    <3> HIDE DEF a, b, pos2
    <3>3. pos2 \in Position /\ pos2.td = a /\ pos2.frozenTd = b /\ pos2.yd = k.pos.yd /\ pos2.frozenYd = k.pos.frozenYd
      BY <1>1, <3>1, <3>2 DEF WithToday, Position
    <3>4. day >= k.day /\ day \in Nat
      BY <1>7, <2>2 DEF Days
    <3> HIDE DEF day, n
    <3> QED BY <1>1, <1>2, <1>4, <2>2, <3>1, <3>3, <3>4 DEF a, b
  <2>3. CASE offset = "CLOSE_YESTERDAY"
    <3> DEFINE a == k.pos.yd - 1
               b == k.pos.frozenYd - used.yd
    <3>1. a \in Nat /\ b \in Nat /\ b <= a /\ n = -1
      BY <1>1, <1>2, <1>4, <1>5, <2>3
    <3>2. pos2 = WithYesterday(k.pos, a, b)
      BY <2>3
    <3> HIDE DEF a, b, pos2
    <3>3. pos2 \in Position /\ pos2.yd = a /\ pos2.frozenYd = b /\ pos2.td = k.pos.td /\ pos2.frozenTd = k.pos.frozenTd
      BY <1>1, <3>1, <3>2 DEF WithYesterday, Position
    <3>4. day < k.day /\ day \in Nat
      BY <1>7, <2>3 DEF Days
    <3> HIDE DEF day, n
    <3> QED BY <1>1, <1>2, <1>4, <2>3, <3>1, <3>3, <3>4 DEF a, b
  <2> QED BY <1>3, <2>1, <2>2, <2>3, SMTT(90) DEF Offsets
<1>15. n \in Int /\ n = (IF OffsetOf[o] = "OPEN" THEN 1 ELSE 0) - (IF OffsetOf[o] = "OPEN" THEN 0 ELSE 1)
  BY <1>3
<1>16. c = k.lots[day] + n
  OBVIOUS
<1> HIDE DEF h, pos2, day, c, n, k2
<1>17. /\ k2 \in Kernel
       /\ k2.day = h.day /\ k2.advancing = h.advancing /\ k2.priced = h.priced /\ k2.seen = h.seen
       /\ k2.orders = h.orders /\ k2.funds = h.funds /\ k2.unlinked = h.unlinked /\ k2.reserved = h.reserved
       /\ k2.pos = pos2 /\ \A x \in Days : x # day => k2.lots[x] = h.lots[x]
       /\ k2.lots[day] = c
  <2>1. h \in Kernel /\ pos2 \in Position /\ day \in Days /\ c \in Nat
    BY <1>7, <1>12, <1>14
  <2>2. LET b == PutBooked(h, pos2, day, c) IN
        /\ b \in Kernel
        /\ b.day = h.day /\ b.advancing = h.advancing /\ b.priced = h.priced /\ b.seen = h.seen
        /\ b.orders = h.orders /\ b.funds = h.funds /\ b.unlinked = h.unlinked /\ b.reserved = h.reserved
        /\ b.pos = pos2 /\ \A x \in Days : x # day => b.lots[x] = h.lots[x]
        /\ b.lots[day] = c
    BY <2>1, BookedReplaced
  <2> QED BY <1>13, <2>2
<1>18. /\ \A p \in Orders : p # o => k2.reserved[p] = k.reserved[p]
       /\ k2.reserved[o] = new /\ k2.day = k.day
       /\ \A x \in Days : x # day => k2.lots[x] = k.lots[x]
  BY <1>12, <1>17
<1>19. /\ k2.pos.frozenYd = k.pos.frozenYd - k.reserved[o].yd + k2.reserved[o].yd
       /\ k2.pos.frozenTd = k.pos.frozenTd - k.reserved[o].td + k2.reserved[o].td
  <2>1. used.yd \in Nat /\ used.td \in Nat
    BY <1>4
  <2>2. new.yd = res.yd - used.yd /\ new.td = res.td - used.td /\ res.yd \in Nat /\ res.td \in Nat
        /\ k.pos.frozenYd \in Nat /\ k.pos.frozenTd \in Nat
    BY <1>1, <1>10
  <2>3. k2.pos.frozenYd = k.pos.frozenYd - used.yd /\ k2.pos.frozenTd = k.pos.frozenTd - used.td
    BY <1>14, <1>17
  <2> HIDE DEF used
  <2> QED BY <1>18, <2>1, <2>2, <2>3
<1>20. k2.pos.frozenYd = Total(YdOf(k2), Orders) /\ k2.pos.frozenTd = Total(TdOf(k2), Orders)
  BY <1>17, <1>18, <1>19, FreezesMove
<1>21. /\ k2.pos.yd = Total(k2.lots, FormerDays(k2)) /\ k2.pos.td = Total(k2.lots, TodaysDays(k2))
       /\ \A x \in Days : x > k2.day => k2.lots[x] = 0
  BY <1>7, <1>14, <1>15, <1>16, <1>17, <1>18, LotsMove
<1>22. Sums(k2)
  BY <1>14, <1>17, <1>20, <1>21 DEF Sums
<1>23. k2.pos.yd + k2.pos.td = k.pos.yd + k.pos.td + (IF OffsetOf[o] = "OPEN" THEN 1 ELSE 0)
                                                   - (IF OffsetOf[o] = "OPEN" THEN 0 ELSE 1)
  <2>1. day \in Nat
    BY <1>7 DEF Days
  <2> QED BY <1>1, <1>14, <1>15, <1>17, <2>1
<1>24. used.yd \in Nat /\ used.td \in Nat /\ used.yd <= res.yd /\ used.td <= res.td
  BY <1>4
<1>25. /\ k2.advancing = k.advancing /\ k2.priced = k.priced /\ k2.seen = k.seen
       /\ k2.orders = k.orders /\ k2.funds = k.funds /\ k2.unlinked = k.unlinked
  BY <1>12, <1>17
<1> HIDE DEF used, offset, res
<1> QED BY <1>10, <1>11, <1>17, <1>18, <1>22, <1>23, <1>24, <1>25 DEF used, offset, res, k2
-------------------------------------------------------------------------------
(* The facts: what each of them does to the kernel *)

\* A fact about an order touches no other order.
Apart(k, k2, o) ==
    /\ k2.day = k.day /\ k2.advancing = k.advancing /\ k2.priced = k.priced
    /\ \A p \in Orders : p # o => /\ k2.orders[p] = k.orders[p] /\ k2.reserved[p] = k.reserved[p]
                                  /\ k2.funds[p] = k.funds[p]

LEMMA Intended ==
  ASSUME KernelAssumption, NEW k \in Kernel, Sums(k), NEW o \in Orders, CanReserve(k, o),
         k.reserved[o].yd = 0, k.reserved[o].td = 0
  PROVE  LET k2 == Intend(k, o) IN
         /\ k2 \in Kernel /\ Sums(k2) /\ Apart(k, k2, o) /\ k2.seen = k.seen /\ k2.unlinked = k.unlinked
         /\ k2.pos.yd = k.pos.yd /\ k2.pos.td = k.pos.td
         /\ k2.orders[o] = [k.orders[o] EXCEPT !.status = "SUBMITTING"]
         /\ k2.reserved[o].held /\ k2.reserved[o].offset = OffsetOf[o] /\ k2.reserved[o].accounted = 0
         /\ k2.reserved[o].yd = IF OffsetOf[o] = "CLOSE_YESTERDAY" THEN Qty[o] ELSE 0
         /\ k2.reserved[o].td = IF OffsetOf[o] = "CLOSE_TODAY" THEN Qty[o] ELSE 0
<1> DEFINE r == Reserve(k, o)
           k2 == Intend(k, o)
<1>1. /\ r \in Kernel
      /\ r.day = k.day /\ r.advancing = k.advancing /\ r.priced = k.priced /\ r.lots = k.lots /\ r.seen = k.seen
      /\ r.orders = k.orders /\ r.funds = k.funds /\ r.unlinked = k.unlinked
      /\ r.pos.yd = k.pos.yd /\ r.pos.td = k.pos.td
      /\ \A p \in Orders : p # o => r.reserved[p] = k.reserved[p]
      /\ r.reserved[o].held /\ r.reserved[o].offset = OffsetOf[o] /\ r.reserved[o].accounted = 0
      /\ r.reserved[o].yd = IF OffsetOf[o] = "CLOSE_YESTERDAY" THEN Qty[o] ELSE 0
      /\ r.reserved[o].td = IF OffsetOf[o] = "CLOSE_TODAY" THEN Qty[o] ELSE 0
      /\ r.pos.frozenYd = k.pos.frozenYd + r.reserved[o].yd
      /\ r.pos.frozenTd = k.pos.frozenTd + r.reserved[o].td
  BY ReservedFor
<1>2. r.pos.frozenYd <= r.pos.yd /\ r.pos.frozenTd <= r.pos.td
  <2>1. k.pos.frozenYd <= k.pos.yd /\ k.pos.frozenTd <= k.pos.td
    BY DEF Sums
  <2>2. /\ k.pos.frozenYd \in Nat /\ k.pos.frozenTd \in Nat /\ k.pos.yd \in Nat /\ k.pos.td \in Nat /\ Qty[o] \in Nat
    BY Numbers DEF KernelAssumption
  <2>3. OffsetOf[o] = "CLOSE_YESTERDAY" => k.pos.yd - k.pos.frozenYd >= Qty[o]
    BY DEF CanReserve, FreeYd
  <2>4. OffsetOf[o] = "CLOSE_TODAY" => k.pos.td - k.pos.frozenTd >= Qty[o]
    BY DEF CanReserve, FreeTd
  <2> HIDE DEF r
  <2>5. CASE OffsetOf[o] = "CLOSE_YESTERDAY"
    BY <1>1, <2>1, <2>2, <2>3, <2>5
  <2>6. CASE OffsetOf[o] = "CLOSE_TODAY"
    BY <1>1, <2>1, <2>2, <2>4, <2>6
  <2>7. CASE OffsetOf[o] # "CLOSE_TODAY" /\ OffsetOf[o] # "CLOSE_YESTERDAY"
    BY <1>1, <2>1, <2>2, <2>7
  <2> QED BY <2>5, <2>6, <2>7
<1>3. OneMoved(k, r, o)
  <2>1. k.pos.frozenYd \in Nat /\ k.pos.frozenTd \in Nat /\ r.reserved[o].yd \in Nat /\ r.reserved[o].td \in Nat
    BY <1>1, Numbers
  <2> HIDE DEF r
  <2> QED BY <1>1, <2>1 DEF OneMoved
<1>4. Sums(r)
  BY <1>2, <1>3, SumsMove
<1> HIDE DEF r
<1>5. k2 = [r EXCEPT !.orders[o].status = "SUBMITTING", !.funds[o] = Qty[o] * LotFunds]
  BY DEF Intend, r
<1>6. /\ k2 \in Kernel
      /\ k2.day = r.day /\ k2.advancing = r.advancing /\ k2.priced = r.priced /\ k2.lots = r.lots /\ k2.seen = r.seen
      /\ k2.reserved = r.reserved /\ k2.unlinked = r.unlinked /\ k2.pos = r.pos
      /\ \A p \in Orders : p # o => k2.orders[p] = r.orders[p] /\ k2.funds[p] = r.funds[p]
      /\ k2.orders[o] = [r.orders[o] EXCEPT !.status = "SUBMITTING"]
  <2>1. Qty[o] * LotFunds \in Nat
    BY DEF KernelAssumption
  <2> DEFINE f == Qty[o] * LotFunds
             y == [r.orders[o] EXCEPT !.status = "SUBMITTING"]
  <2>2. y \in Order
    BY <1>1 DEF Kernel, Order, Statuses
  <2>3. k2 = [r EXCEPT !.orders = [r.orders EXCEPT ![o] = y], !.funds = [r.funds EXCEPT ![o] = f]]
    <3> HIDE DEF f
    <3> QED BY <1>1, <1>5 DEF Kernel, f
  <2> HIDE DEF f, y, k2
  <2>4. f \in Nat
    BY <2>1 DEF f
  <2> QED BY <1>1, <2>2, <2>3, <2>4 DEF Kernel, y
<1> HIDE DEF k2
<1>7. Sums(k2)
  BY <1>4, <1>6, SumsKept
<1> QED BY <1>1, <1>6, <1>7 DEF Apart, k2
\* The broker's freeze ends with the reservation: what Released says of an account whose sums hold.
LEMMA SumsReleased ==
  ASSUME KernelAssumption, NEW k \in Kernel, Sums(k), NEW o \in Orders, NEW cum \in Nat
  PROVE  LET k2 == ReleaseUnfilled(k, o, cum)
             res == k.reserved[o]
             keep == AtMost(Qty[o], AtLeast(res.accounted, cum)) - res.accounted
             new == k2.reserved[o] IN
         /\ k2 \in Kernel /\ Sums(k2) /\ Apart(k, k2, o)
         /\ k2.seen = k.seen /\ k2.orders = k.orders /\ k2.funds = k.funds /\ k2.unlinked = k.unlinked
         /\ k2.pos.yd = k.pos.yd /\ k2.pos.td = k.pos.td
         /\ new.yd <= res.yd /\ new.td <= res.td
         /\ ~res.held => k2 = k
         /\ res.held /\ keep <= 0 => new = Unheld(o)
         /\ res.held /\ keep > 0 => /\ new.held /\ new.offset = res.offset /\ new.accounted = res.accounted
                                    /\ new.yd + new.td = AtMost(res.yd + res.td, keep)
<1> DEFINE k2 == ReleaseUnfilled(k, o, cum)
           res == k.reserved[o]
           keep == AtMost(Qty[o], AtLeast(res.accounted, cum)) - res.accounted
           new == k2.reserved[o]
<1>1. res.yd <= k.pos.frozenYd /\ res.td <= k.pos.frozenTd
  BY WithinFreeze
<1>2. /\ k2 \in Kernel
      /\ k2.day = k.day /\ k2.advancing = k.advancing /\ k2.priced = k.priced /\ k2.lots = k.lots /\ k2.seen = k.seen
      /\ k2.orders = k.orders /\ k2.funds = k.funds /\ k2.unlinked = k.unlinked
      /\ k2.pos.yd = k.pos.yd /\ k2.pos.td = k.pos.td
      /\ \A p \in Orders : p # o => k2.reserved[p] = k.reserved[p]
      /\ new.yd <= res.yd /\ new.td <= res.td
      /\ k2.pos.frozenYd = k.pos.frozenYd - res.yd + new.yd
      /\ k2.pos.frozenTd = k.pos.frozenTd - res.td + new.td
      /\ ~res.held => k2 = k
      /\ res.held /\ keep <= 0 => new = Unheld(o)
      /\ res.held /\ keep > 0 => /\ new.held /\ new.offset = res.offset /\ new.accounted = res.accounted
                                 /\ new.yd + new.td = AtMost(res.yd + res.td, keep)
  BY <1>1, Released
<1> HIDE DEF k2, keep
<1>3. OneMoved(k, k2, o)
  BY <1>2 DEF OneMoved
<1>4. k2.pos.frozenYd <= k2.pos.yd /\ k2.pos.frozenTd <= k2.pos.td
  <2>1. /\ k.pos.frozenYd \in Nat /\ k.pos.frozenTd \in Nat /\ k.pos.yd \in Nat /\ k.pos.td \in Nat
        /\ res.yd \in Nat /\ res.td \in Nat /\ new.yd \in Nat /\ new.td \in Nat
    BY <1>2, Numbers
  <2>2. k.pos.frozenYd <= k.pos.yd /\ k.pos.frozenTd <= k.pos.td
    BY DEF Sums
  <2> HIDE DEF res, new
  <2> QED BY <1>2, <2>1, <2>2
<1>5. Sums(k2)
  BY <1>3, <1>4, SumsMove
<1> HIDE DEF res, new
<1> QED BY <1>2, <1>5 DEF Apart, k2, keep, res, new

\* The local end of an order that was never sent.
Abandon(k, o) == [ReleaseUnfilled(k, o, 0) EXCEPT !.orders[o].status = "REJECTED", !.funds[o] = 0]

LEMMA Abandoned ==
  ASSUME KernelAssumption, NEW k \in Kernel, Sums(k), NEW o \in Orders, k.reserved[o].held, k.reserved[o].accounted = 0
  PROVE  LET k2 == Abandon(k, o) IN
         /\ k2 \in Kernel /\ Sums(k2) /\ Apart(k, k2, o) /\ k2.seen = k.seen /\ k2.unlinked = k.unlinked
         /\ k2.pos.yd = k.pos.yd /\ k2.pos.td = k.pos.td
         /\ k2.orders[o] = [k.orders[o] EXCEPT !.status = "REJECTED"]
         /\ k2.reserved[o] = Unheld(o) /\ k2.funds[o] = 0
<1> DEFINE r == ReleaseUnfilled(k, o, 0)
           k2 == Abandon(k, o)
           y == [r.orders[o] EXCEPT !.status = "REJECTED"]
<1>1. AtMost(Qty[o], AtLeast(k.reserved[o].accounted, 0)) - k.reserved[o].accounted <= 0
  BY DEF AtMost, AtLeast, KernelAssumption
<1>2. 0 \in Nat
  OBVIOUS
<1>3. /\ r \in Kernel /\ Sums(r) /\ Apart(k, r, o)
      /\ r.seen = k.seen /\ r.orders = k.orders /\ r.funds = k.funds /\ r.unlinked = k.unlinked
      /\ r.pos.yd = k.pos.yd /\ r.pos.td = k.pos.td
      /\ r.reserved[o] = Unheld(o)
  BY <1>1, <1>2, SumsReleased
<1> HIDE DEF r
<1>4. k2 = [r EXCEPT !.orders[o].status = "REJECTED", !.funds[o] = 0]
  BY DEF Abandon, r
<1>5. y \in Order
  BY <1>3 DEF Kernel, Order, Statuses
<1>6. k2 = [r EXCEPT !.orders = [r.orders EXCEPT ![o] = y], !.funds = [r.funds EXCEPT ![o] = 0]]
  BY <1>3, <1>4 DEF Kernel
<1> HIDE DEF y, k2
<1>7. /\ k2 \in Kernel
      /\ k2.day = r.day /\ k2.advancing = r.advancing /\ k2.priced = r.priced /\ k2.lots = r.lots /\ k2.seen = r.seen
      /\ k2.reserved = r.reserved /\ k2.unlinked = r.unlinked /\ k2.pos = r.pos
      /\ \A p \in Orders : p # o => k2.orders[p] = r.orders[p] /\ k2.funds[p] = r.funds[p]
      /\ k2.orders[o] = y /\ k2.funds[o] = 0
  BY <1>3, <1>5, <1>6 DEF Kernel
<1>8. Sums(k2)
  BY <1>3, <1>7, SumsKept
<1> QED BY <1>3, <1>7, <1>8 DEF Apart, k2, y

\* A command, with what is known of its call.
LEMMA Sent ==
  ASSUME KernelAssumption, NEW k \in Kernel, Sums(k), NEW o \in Orders, CanReserve(k, o),
         k.reserved[o].yd = 0, k.reserved[o].td = 0, NEW outcome \in {"sent", "not_sent", "crashed"}
  PROVE  LET k2 == SendResult(Intend(k, o), o, outcome) IN
         /\ k2 \in Kernel /\ Sums(k2) /\ Apart(k, k2, o) /\ k2.seen = k.seen /\ k2.unlinked = k.unlinked
         /\ k2.pos.yd = k.pos.yd /\ k2.pos.td = k.pos.td
         /\ k2.orders[o].cum = k.orders[o].cum /\ k2.orders[o].accounted = k.orders[o].accounted
         /\ k2.orders[o].sysLinked = k.orders[o].sysLinked
         /\ outcome = "not_sent" => /\ k2.orders[o].status = "REJECTED" /\ k2.orders[o].linked = k.orders[o].linked
                                    /\ k2.reserved[o] = Unheld(o) /\ k2.funds[o] = 0
         /\ outcome # "not_sent" => /\ k2.orders[o].status = "SUBMITTING" /\ k2.orders[o].linked = (outcome = "sent")
                                    /\ k2.reserved[o].held /\ k2.reserved[o].offset = OffsetOf[o] /\ k2.reserved[o].accounted = 0
                                    /\ k2.reserved[o].yd = IF OffsetOf[o] = "CLOSE_YESTERDAY" THEN Qty[o] ELSE 0
                                    /\ k2.reserved[o].td = IF OffsetOf[o] = "CLOSE_TODAY" THEN Qty[o] ELSE 0
<1> DEFINE i == Intend(k, o)
           k2 == SendResult(i, o, outcome)
<1>1. /\ i \in Kernel /\ Sums(i) /\ Apart(k, i, o) /\ i.seen = k.seen /\ i.unlinked = k.unlinked
      /\ i.pos.yd = k.pos.yd /\ i.pos.td = k.pos.td
      /\ i.orders[o] = [k.orders[o] EXCEPT !.status = "SUBMITTING"]
      /\ i.reserved[o].held /\ i.reserved[o].offset = OffsetOf[o] /\ i.reserved[o].accounted = 0
      /\ i.reserved[o].yd = IF OffsetOf[o] = "CLOSE_YESTERDAY" THEN Qty[o] ELSE 0
      /\ i.reserved[o].td = IF OffsetOf[o] = "CLOSE_TODAY" THEN Qty[o] ELSE 0
  BY Intended
<1>2. k.orders[o] \in Order
  BY DEF Kernel
<1>3. /\ i.orders[o].status = "SUBMITTING" /\ i.orders[o].cum = k.orders[o].cum
      /\ i.orders[o].accounted = k.orders[o].accounted
      /\ i.orders[o].sysLinked = k.orders[o].sysLinked /\ i.orders[o].linked = k.orders[o].linked
  BY <1>1, <1>2 DEF Order
<1> HIDE DEF i
<1>4. CASE outcome = "not_sent"
  <2>1. k2 = Abandon(i, o)
    BY <1>4 DEF SendResult, Abandon
  <2>2. LET a == Abandon(i, o) IN
        /\ a \in Kernel /\ Sums(a) /\ Apart(i, a, o) /\ a.seen = i.seen /\ a.unlinked = i.unlinked
        /\ a.pos.yd = i.pos.yd /\ a.pos.td = i.pos.td
        /\ a.orders[o] = [i.orders[o] EXCEPT !.status = "REJECTED"]
        /\ a.reserved[o] = Unheld(o) /\ a.funds[o] = 0
    BY <1>1, Abandoned
  <2> HIDE DEF k2
  <2>3. i.orders[o] \in Order
    BY <1>1 DEF Kernel
  <2>4. /\ k2.orders[o].status = "REJECTED" /\ k2.orders[o].cum = i.orders[o].cum
        /\ k2.orders[o].accounted = i.orders[o].accounted
        /\ k2.orders[o].sysLinked = i.orders[o].sysLinked /\ k2.orders[o].linked = i.orders[o].linked
    BY <2>1, <2>2, <2>3 DEF Order
  <2> QED BY <1>1, <1>3, <1>4, <2>1, <2>2, <2>4 DEF Apart, k2, i
<1>5. CASE outcome # "not_sent"
  <2> DEFINE y == [i.orders[o] EXCEPT !.linked = (outcome = "sent")]
  <2>1. k2 = [i EXCEPT !.orders[o].linked = (outcome = "sent")]
    BY <1>5 DEF SendResult
  <2>2. y \in Order /\ y.status = i.orders[o].status /\ y.cum = i.orders[o].cum /\ y.accounted = i.orders[o].accounted
        /\ y.sysLinked = i.orders[o].sysLinked /\ y.linked = (outcome = "sent")
    <3>1. i.orders[o] \in Order
      BY <1>1 DEF Kernel
    <3> QED BY <3>1 DEF Order
  <2>3. k2 = PutOrder(i, o, y)
    BY <1>1, <2>1 DEF Kernel, PutOrder
  <2> HIDE DEF y, k2
  <2>4. /\ SameBooks(i, k2) /\ k2.funds = i.funds /\ k2.unlinked = i.unlinked
        /\ \A p \in Orders : p # o => k2.orders[p] = i.orders[p]
        /\ k2.orders[o] = y
    BY <1>1, <2>2, <2>3, OrderReplaced
  <2>5. Sums(k2)
    BY <1>1, <2>4, SumsKept DEF SameBooks
  <2> QED BY <1>1, <1>3, <1>5, <2>2, <2>4, <2>5 DEF Apart, SameBooks, k2, i
<1> QED BY <1>4, <1>5
\* What a report makes known: the order is found by both its names from now on,
\* and the trades that waited for it are told to it.
Told(k, r) ==
    LinkTrades(OrderUpdate(Index(k, r.order, TRUE, r.sys), r.order, r.status, r.filled), r.order)

\* The trades a report sets free.
Freed(k, r) ==
    {t \in k.unlinked : t[1] = r.order /\ (r.order \in Resolved \/ k.orders[r.order].sysLinked \/ r.sys)}

LEMMA ReportTold ==
  ASSUME KernelAssumption, NEW k \in Kernel, Sums(k), NEW r \in Report
  PROVE  LET l == Told(k, r)
             o == r.order
             mine == Freed(k, r)
             word == AtLeast(k.orders[o].cum, AtMost(r.filled, Qty[o]))
             accounted == k.orders[o].accounted + Cardinality(mine)
             first == IF IsTerminal(k, o) THEN k.orders[o].status ELSE r.status IN
         /\ l \in Kernel /\ Sums(l) /\ Apart(k, l, o) /\ l.seen = k.seen /\ l.unlinked = k.unlinked \ mine
         /\ l.pos = k.pos /\ l.reserved = k.reserved /\ l.funds = k.funds
         /\ Cardinality(mine) \in Nat
         /\ l.orders[o].linked /\ l.orders[o].sysLinked = (k.orders[o].sysLinked \/ r.sys)
         /\ l.orders[o].accounted = accounted
         /\ l.orders[o].cum = IF mine = {} THEN word ELSE AtLeast(word, accounted)
         /\ l.orders[o].status = IF mine # {} /\ first \notin Terminal /\ l.orders[o].cum >= Qty[o] THEN "FILLED" ELSE first
<1> DEFINE l == Told(k, r)
           o == r.order
           mine == Freed(k, r)
           word == AtLeast(k.orders[o].cum, AtMost(r.filled, Qty[o]))
           accounted == k.orders[o].accounted + Cardinality(mine)
           first == IF IsTerminal(k, o) THEN k.orders[o].status ELSE r.status
           i == Index(k, o, TRUE, r.sys)
           u == OrderUpdate(i, o, r.status, r.filled)
<1>1. o \in Orders /\ r.status \in Statuses /\ r.filled \in Nat /\ r.sys \in BOOLEAN
  BY DEF Report
<1> HIDE DEF o
<1>2. /\ SameBooks(k, i) /\ i.funds = k.funds /\ i.unlinked = k.unlinked
      /\ \A p \in Orders : p # o => i.orders[p] = k.orders[p]
      /\ i.orders[o].status = k.orders[o].status
      /\ i.orders[o].cum = k.orders[o].cum /\ i.orders[o].accounted = k.orders[o].accounted
      /\ i.orders[o].linked = TRUE
      /\ i.orders[o].sysLinked = (k.orders[o].sysLinked \/ r.sys)
  <2>1. \A triple \in BOOLEAN, sys \in BOOLEAN :
           LET k2 == Index(k, o, triple, sys) IN
           /\ SameBooks(k, k2) /\ k2.funds = k.funds /\ k2.unlinked = k.unlinked
           /\ \A p \in Orders : p # o => k2.orders[p] = k.orders[p]
           /\ k2.orders[o].status = k.orders[o].status
           /\ k2.orders[o].cum = k.orders[o].cum /\ k2.orders[o].accounted = k.orders[o].accounted
           /\ k2.orders[o].linked = (k.orders[o].linked \/ triple)
           /\ k2.orders[o].sysLinked = (k.orders[o].sysLinked \/ sys)
    BY <1>1, Indexed
  <2>2. TRUE \in BOOLEAN
    OBVIOUS
  <2> QED BY <1>1, <2>1, <2>2
<1>3. i \in Kernel
  BY <1>2 DEF SameBooks
<1> HIDE DEF i
<1>4. /\ SameBooks(i, u) /\ u.funds = i.funds /\ u.unlinked = i.unlinked
      /\ \A p \in Orders : p # o => u.orders[p] = i.orders[p]
      /\ u.orders[o].status = IF IsTerminal(i, o) THEN i.orders[o].status ELSE r.status
      /\ u.orders[o].cum = AtLeast(i.orders[o].cum, AtMost(r.filled, Qty[o]))
      /\ u.orders[o].accounted = i.orders[o].accounted
      /\ u.orders[o].linked = i.orders[o].linked
      /\ u.orders[o].sysLinked = i.orders[o].sysLinked
  BY <1>1, <1>3, Updated
<1>5. /\ u \in Kernel /\ SameBooks(k, u) /\ u.funds = k.funds /\ u.unlinked = k.unlinked
      /\ \A p \in Orders : p # o => u.orders[p] = k.orders[p]
      /\ u.orders[o].status = first /\ u.orders[o].cum = word /\ u.orders[o].accounted = k.orders[o].accounted
      /\ u.orders[o].linked /\ u.orders[o].sysLinked = (k.orders[o].sysLinked \/ r.sys)
  BY <1>2, <1>4 DEF SameBooks, IsTerminal
<1> HIDE DEF u
<1>6. Waiters(u, o) = mine
  BY <1>5 DEF Waiters, Freed, Finds, o
<1>7. l = LinkTrades(u, o)
  BY DEF Told, u, i, o
<1> HIDE DEF mine, word, first, l
<1>8. LET k2 == LinkTrades(u, o)
          cum == AtLeast(u.orders[o].cum, u.orders[o].accounted + Cardinality(Waiters(u, o))) IN
      /\ Cardinality(Waiters(u, o)) \in Nat
      /\ SameBooks(u, k2) /\ k2.funds = u.funds /\ k2.unlinked = u.unlinked \ Waiters(u, o)
      /\ \A p \in Orders : p # o => k2.orders[p] = u.orders[p]
      /\ Waiters(u, o) = {} => k2 = u
      /\ k2.orders[o].status = IF Waiters(u, o) # {} /\ ~IsTerminal(u, o) /\ cum >= Qty[o] THEN "FILLED" ELSE u.orders[o].status
      /\ Waiters(u, o) # {} => k2.orders[o].cum = cum
      /\ k2.orders[o].accounted = u.orders[o].accounted + Cardinality(Waiters(u, o))
      /\ k2.orders[o].linked = u.orders[o].linked
      /\ k2.orders[o].sysLinked = u.orders[o].sysLinked
  BY <1>1, <1>5, Linked
<1>9. /\ Cardinality(mine) \in Nat
      /\ SameBooks(u, l) /\ l.funds = k.funds /\ l.unlinked = k.unlinked \ mine
      /\ \A p \in Orders : p # o => l.orders[p] = k.orders[p]
      /\ mine = {} => l = u
      /\ l.orders[o].status = IF mine # {} /\ first \notin Terminal /\ AtLeast(word, accounted) >= Qty[o] THEN "FILLED" ELSE first
      /\ mine # {} => l.orders[o].cum = AtLeast(word, accounted)
      /\ l.orders[o].accounted = accounted
      /\ l.orders[o].linked
      /\ l.orders[o].sysLinked = (k.orders[o].sysLinked \/ r.sys)
  BY <1>5, <1>6, <1>7, <1>8 DEF IsTerminal
<1>10. l.orders[o].cum = IF mine = {} THEN word ELSE AtLeast(word, accounted)
  BY <1>5, <1>9
<1>11. SameBooks(k, l)
  BY <1>5, <1>9 DEF SameBooks
<1>12. Sums(l)
  BY <1>11, SumsKept DEF SameBooks
<1> HIDE DEF accounted
<1> QED BY <1>9, <1>10, <1>11, <1>12 DEF SameBooks, Apart, l, o, mine, word, first, accounted

\* A report of an order that is found: told, and released if it is the last word.
LEMMA ReportApplied ==
  ASSUME KernelAssumption, NEW k \in Kernel, Sums(k), NEW r \in Report, Finds(k, r.order, TRUE, r.sys)
  PROVE  LET k2 == ApplyReport(k, r)
             l == Told(k, r)
             o == r.order
             res == k.reserved[o]
             keep == AtMost(Qty[o], AtLeast(res.accounted, l.orders[o].cum)) - res.accounted
             new == k2.reserved[o] IN
         /\ k2 \in Kernel /\ Sums(k2) /\ Apart(k, k2, o)
         /\ k2.seen = k.seen /\ k2.unlinked = l.unlinked /\ k2.orders = l.orders
         /\ k2.pos.yd = k.pos.yd /\ k2.pos.td = k.pos.td
         /\ r.status \notin {"CANCELLED", "REJECTED"} => new = res /\ k2.funds = k.funds
         /\ r.status \in {"CANCELLED", "REJECTED"} =>
               /\ ~res.held => new = res
               /\ res.held /\ keep <= 0 => new = Unheld(o)
               /\ res.held /\ keep > 0 => /\ new.held /\ new.offset = res.offset /\ new.accounted = res.accounted
                                          /\ new.yd + new.td = AtMost(res.yd + res.td, keep)
                                          /\ new.yd <= res.yd /\ new.td <= res.td
               /\ l.orders[o].cum <= l.orders[o].accounted \/ k.funds[o] = 0 => k2.funds[o] = 0
<1> DEFINE k2 == ApplyReport(k, r)
           l == Told(k, r)
           o == r.order
           res == k.reserved[o]
           cum == l.orders[o].cum
           keep == AtMost(Qty[o], AtLeast(res.accounted, cum)) - res.accounted
           new == k2.reserved[o]
           f == ReleaseUnfilled(l, o, cum)
           part1 == Unaccounted(l, o)
<1>1. o \in Orders
  BY DEF Report
<1>2. /\ l \in Kernel /\ Sums(l) /\ Apart(k, l, o) /\ l.seen = k.seen
      /\ l.pos = k.pos /\ l.reserved = k.reserved /\ l.funds = k.funds
  BY ReportTold
<1>3. k2 = IF r.status \notin {"CANCELLED", "REJECTED"} THEN l ELSE KeepFunds(f, o, part1)
  BY DEF ApplyReport, Told
<1> HIDE DEF o, l, k2
<1>4. CASE r.status \notin {"CANCELLED", "REJECTED"}
  BY <1>2, <1>3, <1>4 DEF o, l, k2
<1>5. CASE r.status \in {"CANCELLED", "REJECTED"}
  <2>1. cum \in Nat /\ l.orders[o].accounted \in Nat
    BY <1>1, <1>2, Numbers
  <2>2. part1 \in Nat /\ (cum <= l.orders[o].accounted => part1 = 0)
    BY <2>1 DEF Unaccounted
  <2>3. l \in Kernel /\ Sums(l) /\ o \in Orders /\ cum \in Nat
    BY <1>1, <1>2, <2>1
  <2> HIDE DEF cum
  <2>4. LET keep2 == AtMost(Qty[o], AtLeast(l.reserved[o].accounted, cum)) - l.reserved[o].accounted IN
        /\ f \in Kernel /\ Sums(f) /\ Apart(l, f, o)
        /\ f.seen = l.seen /\ f.orders = l.orders /\ f.funds = l.funds /\ f.unlinked = l.unlinked
        /\ f.pos.yd = l.pos.yd /\ f.pos.td = l.pos.td
        /\ f.reserved[o].yd <= l.reserved[o].yd /\ f.reserved[o].td <= l.reserved[o].td
        /\ ~l.reserved[o].held => f = l
        /\ l.reserved[o].held /\ keep2 <= 0 => f.reserved[o] = Unheld(o)
        /\ l.reserved[o].held /\ keep2 > 0 => /\ f.reserved[o].held /\ f.reserved[o].offset = l.reserved[o].offset
                                              /\ f.reserved[o].accounted = l.reserved[o].accounted
                                              /\ f.reserved[o].yd + f.reserved[o].td
                                                   = AtMost(l.reserved[o].yd + l.reserved[o].td, keep2)
    BY <2>3, SumsReleased
  <2>5. l.reserved[o] = res
    BY <1>2
  <2> HIDE DEF f, part1
  <2>6. LET m == KeepFunds(f, o, part1) IN
        /\ SameBooks(f, m) /\ m.orders = f.orders /\ m.unlinked = f.unlinked
        /\ \A p \in Orders : p # o => m.funds[p] = f.funds[p]
        /\ part1 = 0 \/ f.funds[o] = 0 => m.funds[o] = 0
    BY <1>1, <2>2, <2>4, FundsKept
  <2>7. k2 = KeepFunds(f, o, part1)
    BY <1>3, <1>5
  <2>8. /\ SameBooks(f, k2) /\ k2.orders = f.orders /\ k2.unlinked = f.unlinked
        /\ \A p \in Orders : p # o => k2.funds[p] = f.funds[p]
        /\ part1 = 0 \/ f.funds[o] = 0 => k2.funds[o] = 0
    BY <2>6, <2>7
  <2>9. Sums(k2)
    BY <2>4, <2>8, SumsKept DEF SameBooks
  <2>10. new = f.reserved[o] /\ k2 \in Kernel /\ k2.pos = f.pos /\ k2.seen = f.seen /\ Apart(f, k2, o)
    BY <2>8 DEF SameBooks, Apart
  <2>11. Apart(k, k2, o)
    BY <1>2, <2>4, <2>10 DEF Apart
  <2>12. /\ ~res.held => new = res
         /\ res.held /\ keep <= 0 => new = Unheld(o)
         /\ res.held /\ keep > 0 => /\ new.held /\ new.offset = res.offset /\ new.accounted = res.accounted
                                    /\ new.yd + new.td = AtMost(res.yd + res.td, keep)
                                    /\ new.yd <= res.yd /\ new.td <= res.td
    <3> HIDE DEF new, res
    <3> QED BY <2>4, <2>5, <2>10
  <2>13. cum <= l.orders[o].accounted \/ k.funds[o] = 0 => k2.funds[o] = 0
    BY <1>2, <2>2, <2>4, <2>8
  <2>14. k2.seen = k.seen /\ k2.unlinked = l.unlinked /\ k2.orders = l.orders
         /\ k2.pos.yd = k.pos.yd /\ k2.pos.td = k.pos.td
    BY <1>2, <2>4, <2>8, <2>10
  <2> HIDE DEF new, res, keep
  <2> QED BY <1>5, <2>9, <2>10, <2>11, <2>12, <2>13, <2>14 DEF new, res, keep, k2, l, o, cum
<1> QED BY <1>4, <1>5
\* The trade is told to its order, or waits for it.
ToldTrade(k, t) ==
    LET o == t[1] IN
    IF Finds(k, o, o \in Resolved, TRUE) THEN OrderFill(Index(k, o, o \in Resolved, TRUE), o, 1)
    ELSE [k EXCEPT !.unlinked = @ \union {t}]

LEMMA TradeTold ==
  ASSUME KernelAssumption, NEW k \in Kernel, Sums(k), NEW t \in Trades
  PROVE  LET l == ToldTrade(k, t)
             o == t[1]
             linked == Finds(k, o, o \in Resolved, TRUE)
             accounted == k.orders[o].accounted + 1
             cum == AtLeast(k.orders[o].cum, accounted) IN
         /\ l \in Kernel /\ Sums(l) /\ Apart(k, l, o) /\ l.seen = k.seen
         /\ l.pos = k.pos /\ l.lots = k.lots /\ l.reserved = k.reserved /\ l.funds = k.funds
         /\ ~linked => l.orders = k.orders /\ l.unlinked = k.unlinked \union {t}
         /\ linked => /\ l.unlinked = k.unlinked
                      /\ l.orders[o].accounted = accounted /\ l.orders[o].cum = cum
                      /\ l.orders[o].linked = (k.orders[o].linked \/ o \in Resolved) /\ l.orders[o].sysLinked
                      /\ l.orders[o].status = IF ~IsTerminal(k, o) /\ cum >= Qty[o] THEN "FILLED" ELSE k.orders[o].status
<1> DEFINE l == ToldTrade(k, t)
           o == t[1]
           linked == Finds(k, o, o \in Resolved, TRUE)
           accounted == k.orders[o].accounted + 1
           cum == AtLeast(k.orders[o].cum, accounted)
           triple == o \in Resolved
           i == Index(k, o, triple, TRUE)
<1>1. o \in Orders /\ triple \in BOOLEAN /\ 1 \in Nat
  BY DEF Trades
<1> HIDE DEF o, triple
<1>2. CASE ~linked
  <2>1. l = [k EXCEPT !.unlinked = @ \union {t}]
    BY <1>2 DEF ToldTrade, o, triple
  <2> HIDE DEF l
  <2>2. /\ l \in Kernel /\ l.day = k.day /\ l.advancing = k.advancing /\ l.priced = k.priced /\ l.seen = k.seen
        /\ l.pos = k.pos /\ l.lots = k.lots /\ l.reserved = k.reserved /\ l.funds = k.funds /\ l.orders = k.orders
        /\ l.unlinked = k.unlinked \union {t}
    BY <2>1 DEF Kernel
  <2>3. Sums(l)
    BY <2>2, SumsKept
  <2> QED BY <1>2, <2>2, <2>3 DEF Apart, l, o, triple
<1>3. CASE linked
  <2>1. \A a \in BOOLEAN, b \in BOOLEAN :
           LET k2 == Index(k, o, a, b) IN
           /\ SameBooks(k, k2) /\ k2.funds = k.funds /\ k2.unlinked = k.unlinked
           /\ \A p \in Orders : p # o => k2.orders[p] = k.orders[p]
           /\ k2.orders[o].status = k.orders[o].status
           /\ k2.orders[o].cum = k.orders[o].cum /\ k2.orders[o].accounted = k.orders[o].accounted
           /\ k2.orders[o].linked = (k.orders[o].linked \/ a)
           /\ k2.orders[o].sysLinked = (k.orders[o].sysLinked \/ b)
    BY <1>1, Indexed
  <2>2. /\ SameBooks(k, i) /\ i.funds = k.funds /\ i.unlinked = k.unlinked
        /\ \A p \in Orders : p # o => i.orders[p] = k.orders[p]
        /\ i.orders[o].status = k.orders[o].status
        /\ i.orders[o].cum = k.orders[o].cum /\ i.orders[o].accounted = k.orders[o].accounted
        /\ i.orders[o].linked = (k.orders[o].linked \/ triple)
        /\ i.orders[o].sysLinked = TRUE
    <3>1. TRUE \in BOOLEAN
      OBVIOUS
    <3> QED BY <1>1, <2>1, <3>1
  <2>3. l = OrderFill(i, o, 1)
    BY <1>3 DEF ToldTrade, o, triple
  <2> HIDE DEF i, l
  <2>4. i \in Kernel
    BY <2>2 DEF SameBooks
  <2>5. LET k2 == OrderFill(i, o, 1)
            most == AtLeast(i.orders[o].cum, i.orders[o].accounted + 1) IN
        /\ SameBooks(i, k2) /\ k2.funds = i.funds /\ k2.unlinked = i.unlinked
        /\ \A p \in Orders : p # o => k2.orders[p] = i.orders[p]
        /\ k2.orders[o].status = IF ~IsTerminal(i, o) /\ most >= Qty[o] THEN "FILLED" ELSE i.orders[o].status
        /\ k2.orders[o].cum = most
        /\ k2.orders[o].accounted = i.orders[o].accounted + 1
        /\ k2.orders[o].linked = i.orders[o].linked
        /\ k2.orders[o].sysLinked = i.orders[o].sysLinked
    BY <1>1, <2>4, Filled
  <2>6. /\ SameBooks(k, l) /\ l.funds = k.funds /\ l.unlinked = k.unlinked
        /\ \A p \in Orders : p # o => l.orders[p] = k.orders[p]
        /\ l.orders[o].accounted = accounted /\ l.orders[o].cum = cum
        /\ l.orders[o].linked = (k.orders[o].linked \/ triple) /\ l.orders[o].sysLinked = TRUE
        /\ l.orders[o].status = IF ~IsTerminal(k, o) /\ cum >= Qty[o] THEN "FILLED" ELSE k.orders[o].status
    BY <2>2, <2>3, <2>5 DEF SameBooks, IsTerminal
  <2>7. Sums(l)
    BY <2>6, SumsKept DEF SameBooks
  <2> HIDE DEF cum, accounted
  <2> QED BY <1>3, <2>6, <2>7 DEF SameBooks, Apart, l, o, triple, cum, accounted
<1> QED BY <1>2, <1>3

\* The position takes the trade, and a linked order's funds are cut to what is left.
LEMMA TradePosted ==
  ASSUME KernelAssumption, NEW k \in Kernel, Sums(k), NEW o \in Orders, NEW linked \in BOOLEAN,
         NEW d \in Days, d <= k.day, Bookable(k, o, linked, d)
  PROVE  LET posted == BookPosition(k, o, linked, d)
             k2 == IF linked THEN FundsAfterTrade(posted, o) ELSE posted
             offset == EffectiveOffset(k, o, linked, d)
             used == Consumed(k, o, linked, offset)
             res == k.reserved[o]
             new == k2.reserved[o] IN
         /\ k2 \in Kernel /\ Sums(k2) /\ Apart(k, k2, o) /\ k2.seen = k.seen
         /\ k2.orders = k.orders /\ k2.unlinked = k.unlinked
         /\ k2.pos.yd + k2.pos.td = k.pos.yd + k.pos.td + (IF OffsetOf[o] = "OPEN" THEN 1 ELSE 0)
                                                        - (IF OffsetOf[o] = "OPEN" THEN 0 ELSE 1)
         /\ used.yd <= res.yd /\ used.td <= res.td
         /\ new.yd = res.yd - used.yd /\ new.td = res.td - used.td
         /\ ~(linked /\ res.held) => new = res
         /\ linked /\ res.held =>
               IF res.accounted + 1 >= Qty[o] /\ res.yd = used.yd /\ res.td = used.td THEN new = Unheld(o)
               ELSE new.held /\ new.offset = res.offset /\ new.accounted = res.accounted + 1
<1> DEFINE posted == BookPosition(k, o, linked, d)
           k2 == IF linked THEN FundsAfterTrade(posted, o) ELSE posted
           offset == EffectiveOffset(k, o, linked, d)
           used == Consumed(k, o, linked, offset)
           res == k.reserved[o]
<1>1. /\ posted \in Kernel /\ Sums(posted)
      /\ posted.day = k.day /\ posted.advancing = k.advancing /\ posted.priced = k.priced /\ posted.seen = k.seen
      /\ posted.orders = k.orders /\ posted.funds = k.funds /\ posted.unlinked = k.unlinked
      /\ \A p \in Orders : p # o => posted.reserved[p] = k.reserved[p]
      /\ posted.pos.yd + posted.pos.td = k.pos.yd + k.pos.td + (IF OffsetOf[o] = "OPEN" THEN 1 ELSE 0)
                                                             - (IF OffsetOf[o] = "OPEN" THEN 0 ELSE 1)
      /\ used.yd \in Nat /\ used.td \in Nat /\ used.yd <= res.yd /\ used.td <= res.td
      /\ posted.reserved[o].yd = res.yd - used.yd /\ posted.reserved[o].td = res.td - used.td
      /\ ~(linked /\ res.held) => posted.reserved[o] = res
      /\ linked /\ res.held =>
               IF res.accounted + 1 >= Qty[o] /\ res.yd = used.yd /\ res.td = used.td THEN posted.reserved[o] = Unheld(o)
               ELSE posted.reserved[o].held /\ posted.reserved[o].offset = res.offset
                    /\ posted.reserved[o].accounted = res.accounted + 1
  BY PositionBooked
<1> HIDE DEF posted, used, offset
<1> DEFINE share == IF posted.reserved[o].held /\ Qty[o] > posted.reserved[o].accounted
                    THEN Qty[o] - posted.reserved[o].accounted ELSE 0
<1>2. share \in Nat
  <2>1. posted.reserved[o].accounted \in Nat /\ Qty[o] \in Nat
    BY <1>1, Numbers DEF KernelAssumption
  <2> QED BY <2>1
<1>3. FundsAfterTrade(posted, o) = KeepFunds(posted, o, share)
  BY DEF FundsAfterTrade
<1> HIDE DEF share
<1>4. LET m == KeepFunds(posted, o, share) IN
      /\ SameBooks(posted, m) /\ m.orders = posted.orders /\ m.unlinked = posted.unlinked
      /\ \A p \in Orders : p # o => m.funds[p] = posted.funds[p]
  BY <1>1, <1>2, FundsKept
<1>5. /\ SameBooks(posted, k2) /\ k2.orders = posted.orders /\ k2.unlinked = posted.unlinked
      /\ \A p \in Orders : p # o => k2.funds[p] = posted.funds[p]
  BY <1>1, <1>3, <1>4 DEF SameBooks
<1> HIDE DEF k2
<1>6. Sums(k2)
  BY <1>1, <1>5, SumsKept DEF SameBooks
<1> HIDE DEF res
<1> QED BY <1>1, <1>5, <1>6 DEF Apart, SameBooks, k2, posted, used, offset, res
FoundFor(k, t) == Finds(k, t[1], t[1] \in Resolved, TRUE)
OffsetFor(k, t, d) == EffectiveOffset(k, t[1], FoundFor(k, t), d)
UsedFor(k, t, d) == Consumed(k, t[1], FoundFor(k, t), OffsetFor(k, t, d))

PaidTrade(k, t, d) ==
    LET posted == BookPosition(ToldTrade(k, t), t[1], FoundFor(k, t), d)
    IN IF FoundFor(k, t) THEN FundsAfterTrade(posted, t[1]) ELSE posted

LEMMA TradePaid ==
  ASSUME KernelAssumption, NEW k \in Kernel, Sums(k), NEW t \in Trades,
         NEW d \in Days, d <= k.day, Bookable(k, t[1], FoundFor(k, t), d)
  PROVE  LET k2 == PaidTrade(k, t, d)
             l == ToldTrade(k, t)
             o == t[1]
             used == UsedFor(k, t, d)
             res == k.reserved[o]
             new == k2.reserved[o] IN
         /\ k2 \in Kernel /\ Sums(k2) /\ Apart(k, k2, o) /\ k2.seen = k.seen
         /\ k2.orders = l.orders /\ k2.unlinked = l.unlinked
         /\ k2.pos.yd + k2.pos.td = k.pos.yd + k.pos.td + (IF OffsetOf[o] = "OPEN" THEN 1 ELSE 0)
                                                        - (IF OffsetOf[o] = "OPEN" THEN 0 ELSE 1)
         /\ used.yd <= res.yd /\ used.td <= res.td
         /\ new.yd = res.yd - used.yd /\ new.td = res.td - used.td
         /\ ~(FoundFor(k, t) /\ res.held) => new = res
         /\ FoundFor(k, t) /\ res.held =>
               IF res.accounted + 1 >= Qty[o] /\ res.yd = used.yd /\ res.td = used.td THEN new = Unheld(o)
               ELSE new.held /\ new.offset = res.offset /\ new.accounted = res.accounted + 1
<1> DEFINE l == ToldTrade(k, t)
           o == t[1]
           linked == FoundFor(k, t)
           k2 == PaidTrade(k, t, d)
           posted == BookPosition(l, o, linked, d)
           m == IF linked THEN FundsAfterTrade(posted, o) ELSE posted
           offset == EffectiveOffset(l, o, linked, d)
           used == Consumed(l, o, linked, offset)
           res == l.reserved[o]
           new == m.reserved[o]
<1>1. o \in Orders /\ linked \in BOOLEAN
  BY DEF Trades, FoundFor, Finds, Kernel, Order
<1>2. /\ l \in Kernel /\ Sums(l) /\ Apart(k, l, o) /\ l.seen = k.seen
      /\ l.pos = k.pos /\ l.lots = k.lots /\ l.reserved = k.reserved /\ l.funds = k.funds
  BY TradeTold
<1>3. l.day = k.day
  BY <1>2 DEF Apart
<1> HIDE DEF l, o, linked
<1>4. offset = EffectiveOffset(k, o, linked, d)
  BY <1>2, <1>3 DEF EffectiveOffset, IsLate
<1>5. used = Consumed(k, o, linked, offset)
  BY <1>2 DEF Consumed
<1>6. Candidates(l, offset) = Candidates(k, offset)
  BY <1>2, <1>3 DEF Candidates, TodaysDays, FormerDays
<1>7. Bookable(l, o, linked, d)
  <2>1. FreeTd(l) = FreeTd(k) /\ FreeYd(l) = FreeYd(k)
    BY <1>2 DEF FreeTd, FreeYd
  <2>2. Bookable(k, o, linked, d)
    BY DEF o, linked
  <2> HIDE DEF offset, used
  <2>3. Bookable(k, o, linked, d) =
           CASE offset = "OPEN" -> TRUE
             [] offset = "CLOSE_TODAY" -> /\ k.pos.td >= 1 /\ 1 - used.td <= FreeTd(k)
                                          /\ Candidates(k, offset) # {}
             [] offset = "CLOSE_YESTERDAY" -> /\ k.pos.yd >= 1 /\ 1 - used.yd <= FreeYd(k)
                                              /\ Candidates(k, offset) # {}
    BY <1>4, <1>5 DEF Bookable
  <2>4. Bookable(l, o, linked, d) =
           CASE offset = "OPEN" -> TRUE
             [] offset = "CLOSE_TODAY" -> /\ l.pos.td >= 1 /\ 1 - used.td <= FreeTd(l)
                                          /\ Candidates(l, offset) # {}
             [] offset = "CLOSE_YESTERDAY" -> /\ l.pos.yd >= 1 /\ 1 - used.yd <= FreeYd(l)
                                              /\ Candidates(l, offset) # {}
    BY DEF Bookable, offset, used
  <2> QED BY <1>2, <1>6, <2>1, <2>2, <2>3, <2>4
<1>8. d <= l.day
  BY <1>3
<1>9. /\ m \in Kernel /\ Sums(m) /\ Apart(l, m, o) /\ m.seen = l.seen
      /\ m.orders = l.orders /\ m.unlinked = l.unlinked
      /\ m.pos.yd + m.pos.td = l.pos.yd + l.pos.td + (IF OffsetOf[o] = "OPEN" THEN 1 ELSE 0)
                                                   - (IF OffsetOf[o] = "OPEN" THEN 0 ELSE 1)
      /\ used.yd <= res.yd /\ used.td <= res.td
      /\ new.yd = res.yd - used.yd /\ new.td = res.td - used.td
      /\ ~(linked /\ res.held) => new = res
      /\ linked /\ res.held =>
            IF res.accounted + 1 >= Qty[o] /\ res.yd = used.yd /\ res.td = used.td THEN new = Unheld(o)
            ELSE new.held /\ new.offset = res.offset /\ new.accounted = res.accounted + 1
  BY <1>1, <1>2, <1>7, <1>8, TradePosted
<1>10. k2 = m
  BY DEF PaidTrade, linked, o, l
<1>11. used = UsedFor(k, t, d)
  BY <1>4, <1>5 DEF UsedFor, OffsetFor, linked, o
<1> HIDE DEF m, used, k2
<1>12. Apart(k, k2, o)
  BY <1>2, <1>9, <1>10, SMTT(30) DEF Apart
<1> QED BY <1>2, <1>9, <1>10, <1>11, <1>12 DEF o, linked, l, k2

\* A trade that had not been seen: told, posted, and the last of a terminal order releases it.
LEMMA TradeApplied ==
  ASSUME KernelAssumption, NEW k \in Kernel, Sums(k), NEW t \in Trades, t \notin k.seen,
         NEW d \in Days, d <= k.day, CanApplyTrade(k, t, d)
  PROVE  LET k2 == ApplyTrade(k, t, d)
             o == t[1]
             l == ToldTrade(k, t)
             m == PaidTrade(k, t, d)
             last == FoundFor(k, t) /\ l.orders[o].status \in Terminal /\ l.orders[o].cum <= l.orders[o].accounted
             keep == AtMost(Qty[o], AtLeast(m.reserved[o].accounted, l.orders[o].cum)) - m.reserved[o].accounted
             new == k2.reserved[o] IN
         /\ k2 \in Kernel /\ Sums(k2) /\ Apart(k, k2, o)
         /\ k2.seen = k.seen \union {t} /\ k2.orders = l.orders /\ k2.unlinked = l.unlinked
         /\ k2.pos.yd + k2.pos.td = k.pos.yd + k.pos.td + (IF OffsetOf[o] = "OPEN" THEN 1 ELSE 0)
                                                        - (IF OffsetOf[o] = "OPEN" THEN 0 ELSE 1)
         /\ ~last => new = m.reserved[o]
         /\ last => /\ k2.funds[o] = 0
                    /\ ~m.reserved[o].held => new = m.reserved[o]
                    /\ m.reserved[o].held /\ keep <= 0 => new = Unheld(o)
                    /\ m.reserved[o].held /\ keep > 0 =>
                          /\ new.held /\ new.offset = m.reserved[o].offset /\ new.accounted = m.reserved[o].accounted
                          /\ new.yd + new.td = AtMost(m.reserved[o].yd + m.reserved[o].td, keep)
                          /\ new.yd <= m.reserved[o].yd /\ new.td <= m.reserved[o].td
<1> DEFINE k2 == ApplyTrade(k, t, d)
           o == t[1]
           l == ToldTrade(k, t)
           m == PaidTrade(k, t, d)
           cum == m.orders[o].cum
           last == FoundFor(k, t) /\ IsTerminal(m, o) /\ Unaccounted(m, o) = 0
           f == ReleaseUnfilled(m, o, cum)
<1>1. o \in Orders
  BY DEF Trades
<1>2. Bookable(k, t[1], FoundFor(k, t), d)
  BY DEF CanApplyTrade, Seen, FoundFor
<1>3. /\ m \in Kernel /\ Sums(m) /\ Apart(k, m, o) /\ m.seen = k.seen
      /\ m.orders = l.orders /\ m.unlinked = l.unlinked
      /\ m.pos.yd + m.pos.td = k.pos.yd + k.pos.td + (IF OffsetOf[o] = "OPEN" THEN 1 ELSE 0)
                                                   - (IF OffsetOf[o] = "OPEN" THEN 0 ELSE 1)
  BY <1>2, TradePaid
<1>4. k2 = IF last THEN [f EXCEPT !.funds[o] = 0, !.seen = @ \union {t}] ELSE [m EXCEPT !.seen = @ \union {t}]
  BY DEF ApplyTrade, Seen, PaidTrade, ToldTrade, FoundFor
<1> HIDE DEF k2, o, l, m
<1>5. cum \in Nat /\ m.orders[o].accounted \in Nat
  BY <1>1, <1>3, Numbers
<1>6. last <=> FoundFor(k, t) /\ l.orders[o].status \in Terminal /\ l.orders[o].cum <= l.orders[o].accounted
  BY <1>3, <1>5 DEF IsTerminal, Unaccounted
<1> HIDE DEF last
<1>7. CASE ~last
  <2>1. k2 = [m EXCEPT !.seen = @ \union {t}]
    BY <1>4, <1>7
  <2>2. /\ k2 \in Kernel /\ k2.day = m.day /\ k2.advancing = m.advancing /\ k2.priced = m.priced
        /\ k2.pos = m.pos /\ k2.lots = m.lots /\ k2.reserved = m.reserved /\ k2.funds = m.funds /\ k2.orders = m.orders
        /\ k2.unlinked = m.unlinked /\ k2.seen = m.seen \union {t}
    BY <1>3, <2>1 DEF Kernel
  <2>3. Sums(k2)
    BY <1>3, <2>2, SumsKept
  <2> QED BY <1>3, <1>6, <1>7, <2>2, <2>3 DEF Apart, k2, o, l, m
<1>8. CASE last
  <2> HIDE DEF cum
  <2>1. LET res == m.reserved[o]
            keep == AtMost(Qty[o], AtLeast(res.accounted, cum)) - res.accounted
            new == f.reserved[o] IN
        /\ f \in Kernel /\ Sums(f) /\ Apart(m, f, o)
        /\ f.seen = m.seen /\ f.orders = m.orders /\ f.funds = m.funds /\ f.unlinked = m.unlinked
        /\ f.pos.yd = m.pos.yd /\ f.pos.td = m.pos.td
        /\ new.yd <= res.yd /\ new.td <= res.td
        /\ ~res.held => f = m
        /\ res.held /\ keep <= 0 => new = Unheld(o)
        /\ res.held /\ keep > 0 => /\ new.held /\ new.offset = res.offset /\ new.accounted = res.accounted
                                   /\ new.yd + new.td = AtMost(res.yd + res.td, keep)
    BY <1>1, <1>3, <1>5, SumsReleased
  <2> HIDE DEF f
  <2>2. k2 = [f EXCEPT !.funds[o] = 0, !.seen = @ \union {t}]
    BY <1>4, <1>8
  <2>3. k2 = [f EXCEPT !.funds = [f.funds EXCEPT ![o] = 0], !.seen = f.seen \union {t}]
    BY <2>1, <2>2 DEF Kernel
  <2>4. /\ k2 \in Kernel /\ k2.day = f.day /\ k2.advancing = f.advancing /\ k2.priced = f.priced
        /\ k2.pos = f.pos /\ k2.lots = f.lots /\ k2.reserved = f.reserved /\ k2.orders = f.orders
        /\ k2.unlinked = f.unlinked /\ k2.seen = f.seen \union {t} /\ k2.funds[o] = 0
        /\ \A p \in Orders : p # o => k2.funds[p] = f.funds[p]
    BY <1>1, <2>1, <2>3 DEF Kernel
  <2>5. Sums(k2)
    BY <2>1, <2>4, SumsKept
  <2>6. Apart(k, k2, o)
    BY <1>3, <2>1, <2>4 DEF Apart
  <2>7. cum = l.orders[o].cum
    BY <1>3 DEF cum
  <2> QED BY <1>3, <1>6, <1>8, <2>1, <2>4, <2>5, <2>6, <2>7, SMTT(40) DEF k2, o, l, m
<1> QED BY <1>7, <1>8
-------------------------------------------------------------------------------
(* The end of a day *)

LEMMA TotalNothing ==
  ASSUME NEW S, IsFiniteSet(S), NEW f, \A x \in S : f[x] = 0
  PROVE  Total(f, S) = 0
<1>1. {} \in SUBSET S /\ \A x \in {} : f[x] \in Int /\ f[x] = f[x]
  OBVIOUS
<1>2. \A x \in S \ {} : f[x] = 0
  OBVIOUS
<1>3. Total(f, S) = Total(f, {})
  BY <1>1, <1>2, TotalOfPart
<1> QED BY <1>3, TotalEmpty

LEMMA RolledOver ==
  ASSUME KernelAssumption, NEW k \in Kernel, Sums(k), k.day < LastDay
  PROVE  LET k2 == Rollover(k) IN
         /\ k2 \in Kernel /\ Sums(k2)
         /\ k2.day = k.day + 1 /\ k2.lots = k.lots /\ k2.seen = k.seen
         /\ k2.orders = k.orders /\ k2.funds = k.funds /\ k2.unlinked = k.unlinked
         /\ k2.pos.yd + k2.pos.td = k.pos.yd + k.pos.td
         /\ \A o \in Orders : LET res == k.reserved[o] IN LET new == k2.reserved[o] IN
               /\ new.held = res.held /\ new.accounted = res.accounted
               /\ new.yd = res.yd + res.td /\ new.td = 0
               /\ new.offset = IF res.held /\ res.offset = "CLOSE_TODAY" THEN "CLOSE_YESTERDAY" ELSE res.offset
<1> DEFINE k2 == Rollover(k)
           pos2 == [yd |-> k.pos.yd + k.pos.td, td |-> 0, frozenYd |-> k.pos.frozenYd + k.pos.frozenTd, frozenTd |-> 0]
           rolled(o) == [k.reserved[o] EXCEPT !.yd = k.reserved[o].yd + k.reserved[o].td, !.td = 0,
                            !.offset = IF k.reserved[o].held /\ k.reserved[o].offset = "CLOSE_TODAY"
                                       THEN "CLOSE_YESTERDAY" ELSE k.reserved[o].offset]
<1>1. /\ k.pos.yd \in Nat /\ k.pos.td \in Nat /\ k.pos.frozenYd \in Nat /\ k.pos.frozenTd \in Nat
      /\ k.pos.frozenYd <= k.pos.yd /\ k.pos.frozenTd <= k.pos.td
      /\ k.day \in Nat /\ k.day + 1 \in Days /\ LastDay \in Nat
  BY DEF Kernel, Position, Days, Sums, KernelAssumption
<1>2. pos2 \in Position
  BY <1>1 DEF Position
<1>3. ASSUME NEW o \in Orders
      PROVE  LET res == k.reserved[o] IN
             /\ rolled(o) \in Reservation
             /\ rolled(o).held = res.held /\ rolled(o).accounted = res.accounted
             /\ rolled(o).yd = res.yd + res.td /\ rolled(o).td = 0
             /\ rolled(o).offset = IF res.held /\ res.offset = "CLOSE_TODAY" THEN "CLOSE_YESTERDAY" ELSE res.offset
  <2> DEFINE res == k.reserved[o]
             sum == res.yd + res.td
             offset == IF res.held /\ res.offset = "CLOSE_TODAY" THEN "CLOSE_YESTERDAY" ELSE res.offset
  <2>1. res \in Reservation
    BY DEF Kernel
  <2>2. sum \in Nat /\ offset \in Offsets
    BY <2>1 DEF Reservation, Offsets
  <2> HIDE DEF sum, offset, res
  <2>3. LET new == [res EXCEPT !.yd = sum, !.td = 0, !.offset = offset] IN
        new \in Reservation /\ new.held = res.held /\ new.accounted = res.accounted
        /\ new.yd = sum /\ new.td = 0 /\ new.offset = offset
    BY <2>1, <2>2 DEF Reservation
  <2> QED BY <2>3 DEF sum, offset, res
<1>4. k2 = [k EXCEPT !.day = k.day + 1, !.advancing = FALSE, !.priced = FALSE, !.pos = pos2,
                     !.reserved = [o \in Orders |-> rolled(o)]]
  BY DEF Rollover, Kernel
<1> HIDE DEF k2, rolled, pos2
<1>5. /\ k2 \in Kernel /\ k2.day = k.day + 1 /\ k2.lots = k.lots /\ k2.seen = k.seen
      /\ k2.orders = k.orders /\ k2.funds = k.funds /\ k2.unlinked = k.unlinked /\ k2.pos = pos2
      /\ \A o \in Orders : k2.reserved[o] = rolled(o)
  BY <1>1, <1>2, <1>3, <1>4 DEF Kernel
<1>6. k2.pos.yd = k.pos.yd + k.pos.td /\ k2.pos.td = 0 /\ k2.pos.frozenTd = 0
      /\ k2.pos.frozenYd = k.pos.frozenYd + k.pos.frozenTd
  BY <1>5 DEF pos2
<1>7. k2.pos.frozenYd = Total(YdOf(k2), Orders) /\ k2.pos.frozenTd = Total(TdOf(k2), Orders)
  <2>1. IsFiniteSet(Orders)
    BY DEF KernelAssumption
  <2>2. \A o \in Orders : /\ YdOf(k)[o] \in Int /\ TdOf(k)[o] \in Int
                          /\ YdOf(k2)[o] = YdOf(k)[o] + TdOf(k)[o] /\ TdOf(k2)[o] = 0
    <3> TAKE o \in Orders
    <3>1. /\ YdOf(k)[o] = k.reserved[o].yd /\ TdOf(k)[o] = k.reserved[o].td
          /\ k.reserved[o].yd \in Nat /\ k.reserved[o].td \in Nat
      BY Numbers
    <3>2. YdOf(k2)[o] = rolled(o).yd /\ TdOf(k2)[o] = rolled(o).td
      BY <1>5 DEF YdOf, TdOf
    <3> QED BY <1>3, <3>1, <3>2
  <2> DEFINE yd == YdOf(k)
             td == TdOf(k)
             sum == YdOf(k2)
  <2>3. \A x \in Orders : yd[x] \in Int /\ td[x] \in Int /\ sum[x] = yd[x] + td[x]
    BY <2>2
  <2> HIDE DEF yd, td, sum
  <2>4. Total(sum, Orders) = Total(yd, Orders) + Total(td, Orders)
    BY <2>1, <2>3, TotalAdds
  <2>5. Total(TdOf(k2), Orders) = 0
    BY <2>1, <2>2, TotalNothing
  <2>6. Total(yd, Orders) = k.pos.frozenYd /\ Total(td, Orders) = k.pos.frozenTd
    BY DEF Sums, yd, td
  <2> QED BY <1>6, <2>4, <2>5, <2>6 DEF sum
<1>8. /\ k2.pos.yd = Total(k2.lots, FormerDays(k2)) /\ k2.pos.td = Total(k2.lots, TodaysDays(k2))
      /\ \A d \in Days : d > k2.day => k2.lots[d] = 0
  <2> DEFINE F == FormerDays(k)
             T == TodaysDays(k)
             T2 == TodaysDays(k2)
             daily == k.lots
             day == k.day
  <2>1. day \in Days /\ \A d \in Days : d \in Nat /\ daily[d] \in Int /\ (d > day => daily[d] = 0)
    BY <1>1 DEF Kernel, Sums, Days
  <2>2. FormerDays(k2) = F \union {day} /\ day \notin F /\ T = T2 \union {day} /\ day \notin T2
    BY <1>1, <1>5 DEF FormerDays, TodaysDays
  <2>3. IsFiniteSet(F) /\ IsFiniteSet(T2) /\ F \subseteq Days /\ T2 \subseteq Days
    BY <1>5, DaysFinite
  <2>4. \A d \in T2 : d > day
    BY <1>1, <1>5 DEF TodaysDays
  <2>5. k.pos.yd = Total(daily, F) /\ k.pos.td = Total(daily, T)
    BY DEF Sums
  <2> HIDE DEF F, T, T2, daily, day
  <2>6. \A y \in F \union {day} : daily[y] \in Int
    BY <2>1, <2>3
  <2>7. \A y \in T2 \union {day} : daily[y] \in Int
    BY <2>1, <2>3
  <2>8. Total(daily, F \union {day}) = daily[day] + Total(daily, F)
    BY <2>2, <2>3, <2>6, TotalWith
  <2>9. Total(daily, T2 \union {day}) = daily[day] + Total(daily, T2)
    BY <2>2, <2>3, <2>7, TotalWith
  <2>10. Total(daily, T2) = 0
    <3>1. \A x \in T2 : daily[x] = 0
      BY <2>1, <2>3, <2>4
    <3> QED BY <2>3, <3>1, TotalNothing
  <2>11. daily[day] \in Int
    BY <2>1
  <2>12. k2.pos.yd = Total(daily, FormerDays(k2)) /\ k2.pos.td = Total(daily, T2)
    BY <1>1, <1>6, <2>2, <2>5, <2>8, <2>9, <2>10, <2>11
  <2>13. \A d \in Days : d > day + 1 => daily[d] = 0
    BY <2>1
  <2> QED BY <1>5, <2>12, <2>13 DEF T2, daily, day
<1>9. k2.pos.frozenYd <= k2.pos.yd /\ k2.pos.frozenTd <= k2.pos.td
  BY <1>1, <1>6
<1>10. Sums(k2)
  BY <1>7, <1>8, <1>9 DEF Sums
<1>11. k2.pos.yd + k2.pos.td = k.pos.yd + k.pos.td
  BY <1>1, <1>6
<1> QED BY <1>3, <1>5, <1>10, <1>11 DEF k2
-------------------------------------------------------------------------------
(* The invariant of account and broker, and the account's steps *)

\* An order that was not dispatched has no names and no reservation.
Unborn(k) ==
    \A o \in Orders : k.orders[o].status = "ABSENT" =>
        /\ ~k.orders[o].linked /\ ~k.orders[o].sysLinked
        /\ ~k.reserved[o].held /\ k.reserved[o].yd = 0 /\ k.reserved[o].td = 0

\* The position is what was held and what was traded.
Counted(k) == k.pos.yd + k.pos.td + Cardinality(k.seen) = HeldYd + HeldTd + 2 * Opens(k.seen)

KernelGood(k) == k \in Kernel /\ Sums(k) /\ Unborn(k) /\ Counted(k)

\* The account follows the broker's days, and it has reached the day of every trade.
DaysGood ==
    /\ kernel.day >= 1 /\ kernel.day <= brokerDay
    /\ \A o \in Orders : Working(o) => brokerDay = kernel.day
    /\ \A t \in Trades : tradeDay[t] <= kernel.day

\* The trades of an order are numbered, and an order that works has lots left.
Row(o, n) == {o} \X (1..n)
TradesGood ==
    \A o \in Orders :
        /\ \E n \in 0..Qty[o] : TradedOf(o) = Row(o, n) /\ (Working(o) => n < Qty[o])
        /\ brokerState[o] \in {"none", "sent"} => TradedOf(o) = {}
        /\ kernel.orders[o].status = "ABSENT" => brokerState[o] = "none"

\* What works at the broker is covered by the broker's position.
OpenAt(offset) == [o \in Orders |-> IF Working(o) /\ OffsetOf[o] = offset THEN Left(o) ELSE 0]
FreezeGood ==
    /\ Total(OpenAt("CLOSE_TODAY"), Orders) <= brokerPos.td
    /\ Total(OpenAt("CLOSE_YESTERDAY"), Orders) <= brokerPos.yd

ReportsNamed == \A r \in reports : r.status # "ABSENT"

BooksInv ==
    TypeOK /\ KernelGood(kernel) /\ DaysGood /\ TradesGood /\ FreezeGood /\ ReportsNamed

LEMMA GoodMoves ==
  ASSUME NEW k, KernelGood(k), NEW o \in Orders, NEW k2 \in Kernel, Sums(k2), Apart(k, k2, o),
         k2.seen = k.seen, k2.pos.yd = k.pos.yd, k2.pos.td = k.pos.td, k2.orders[o].status # "ABSENT"
  PROVE  KernelGood(k2)
BY DEF KernelGood, Unborn, Counted, Apart

LEMMA TradesOfOrder ==
  ASSUME KernelAssumption, NEW o \in Orders, NEW n \in Nat
  PROVE  IsFiniteSet(Row(o, n)) /\ Cardinality(Row(o, n)) = n
<1>1. 1 \in Int /\ n \in Int
  OBVIOUS
<1>2. IsFiniteSet(1..n) /\ Cardinality(1..n) = IF 1 > n THEN 0 ELSE n - 1 + 1
  BY <1>1, FS_Interval
<1>3. IsFiniteSet({o}) /\ Cardinality({o}) = 1
  BY FS_Singleton
<1> DEFINE S == {o}
           T == 1..n
<1>4. Cardinality(T) = n /\ IsFiniteSet(T) /\ IsFiniteSet(S) /\ Cardinality(S) = 1
  BY <1>2, <1>3
<1> HIDE DEF S, T
<1>5. IsFiniteSet(S \X T) /\ Cardinality(S \X T) = Cardinality(S) * Cardinality(T)
  BY <1>4, FS_Product
<1> QED BY <1>4, <1>5 DEF Row, S, T

LEMMA TradesNumbered ==
  ASSUME KernelAssumption, TradesGood, NEW o \in Orders
  PROVE  /\ IsFiniteSet(TradedOf(o)) /\ Cardinality(TradedOf(o)) \in 0..Qty[o] /\ Qty[o] \in Nat /\ Qty[o] >= 1
         /\ TradedOf(o) = Row(o, Cardinality(TradedOf(o)))
         /\ Working(o) => Cardinality(TradedOf(o)) < Qty[o]
         /\ Left(o) \in Nat /\ (Working(o) => Left(o) >= 1)
         /\ Left(o) = Qty[o] - Cardinality(TradedOf(o))
<1> DEFINE n == CHOOSE n \in 0..Qty[o] : TradedOf(o) = Row(o, n) /\ (Working(o) => n < Qty[o])
<1>1. n \in 0..Qty[o] /\ TradedOf(o) = Row(o, n) /\ (Working(o) => n < Qty[o])
  BY DEF TradesGood
<1> HIDE DEF n
<1>2. Qty[o] \in Nat /\ Qty[o] >= 1 /\ n \in Nat
  BY <1>1 DEF KernelAssumption
<1>3. IsFiniteSet(Row(o, n)) /\ Cardinality(Row(o, n)) = n
  BY <1>2, TradesOfOrder
<1>4. Cardinality(TradedOf(o)) = n /\ IsFiniteSet(TradedOf(o))
  BY <1>1, <1>3
<1>5. Left(o) = Qty[o] - n
  BY <1>4 DEF Left
<1>6. n < Qty[o] => Qty[o] - n >= 1
  BY <1>2
<1>7. Qty[o] - n \in Nat
  BY <1>1, <1>2
<1>8. TradedOf(o) = Row(o, Cardinality(TradedOf(o))) /\ Cardinality(TradedOf(o)) \in 0..Qty[o]
  BY <1>1, <1>4
<1>9. Working(o) => Cardinality(TradedOf(o)) < Qty[o] /\ Left(o) >= 1
  BY <1>1, <1>4, <1>5, <1>6
<1>10. Left(o) \in Nat /\ Left(o) = Qty[o] - Cardinality(TradedOf(o))
  BY <1>4, <1>5, <1>7
<1> QED BY <1>2, <1>4, <1>8, <1>9, <1>10

\* A trade that was made belongs to an order that was dispatched.
LEMMA TradedIsBorn ==
  ASSUME TypeOK, TradesGood, NEW t \in Trades, tradeDay[t] # 0
  PROVE  t[1] \in Orders /\ t \in TradedOf(t[1]) /\ brokerState[t[1]] \notin {"none", "sent"}
         /\ kernel.orders[t[1]].status # "ABSENT"
BY DEF Trades, TradedOf, TradesGood

LEMMA OpensAfter ==
  ASSUME KernelAssumption, NEW S \in SUBSET Trades, NEW t \in Trades, t \notin S
  PROVE  /\ Cardinality(S) \in Nat /\ Opens(S) \in Nat
         /\ Cardinality(S \union {t}) = Cardinality(S) + 1
         /\ Opens(S \union {t}) = Opens(S) + (IF OffsetOf[t[1]] = "OPEN" THEN 1 ELSE 0)
<1> DEFINE opening(X) == {x \in X : OffsetOf[x[1]] = "OPEN"}
<1>1. IsFiniteSet(S) /\ IsFiniteSet(opening(S))
  BY TradesFinite, FS_Subset
<1>2. Cardinality(S) \in Nat /\ Cardinality(opening(S)) \in Nat
  BY <1>1, FS_CardinalityType
<1>3. Cardinality(S \union {t}) = Cardinality(S) + 1
  BY <1>1, FS_AddElement
<1>4. CASE OffsetOf[t[1]] = "OPEN"
  <2>1. opening(S \union {t}) = opening(S) \union {t} /\ t \notin opening(S)
    BY <1>4
  <2> HIDE DEF opening
  <2>2. Cardinality(opening(S) \union {t}) = Cardinality(opening(S)) + 1
    BY <1>1, <2>1, FS_AddElement
  <2> QED BY <1>2, <1>3, <1>4, <2>1, <2>2 DEF Opens, opening
<1>5. CASE OffsetOf[t[1]] # "OPEN"
  <2>1. opening(S \union {t}) = opening(S)
    BY <1>5
  <2>2. Opens(S) = Cardinality(opening(S)) /\ Opens(S \union {t}) = Cardinality(opening(S \union {t}))
    BY DEF Opens
  <2> HIDE DEF opening
  <2>3. Opens(S \union {t}) = Opens(S) + 0
    BY <1>2, <2>1, <2>2
  <2> QED BY <1>2, <1>3, <1>5, <2>2, <2>3
<1> QED BY <1>4, <1>5

\* Broker and trades are as they were, and so is the day.
LEMMA BrokerKept ==
  ASSUME BooksInv, UNCHANGED <<brokerDay, brokerPos, tradeDay>>, kernel'.day = kernel.day,
         \A o \in Orders : /\ kernel'.orders[o].status = "ABSENT" => brokerState'[o] = "none"
                           /\ brokerState'[o] = "working" <=> brokerState[o] = "working"
                           /\ brokerState'[o] \in {"none", "sent"} => TradedOf(o) = {}
  PROVE  DaysGood' /\ TradesGood' /\ FreezeGood'
<1>1. \A o \in Orders : TradedOf(o)' = TradedOf(o) /\ (Working(o)' <=> Working(o)) /\ Left(o)' = Left(o)
  BY DEF TradedOf, Working, Left
<1>2. DaysGood'
  BY <1>1 DEF BooksInv, DaysGood
<1>3. TradesGood'
  BY <1>1 DEF BooksInv, TradesGood
<1>4. \A f : OpenAt(f)' = OpenAt(f)
  BY <1>1 DEF OpenAt
<1>5. FreezeGood'
  <2>1. OpenAt("CLOSE_TODAY")' = OpenAt("CLOSE_TODAY") /\ OpenAt("CLOSE_YESTERDAY")' = OpenAt("CLOSE_YESTERDAY")
    BY <1>4
  <2> QED BY <2>1 DEF BooksInv, FreezeGood
<1> QED BY <1>2, <1>3, <1>5

LEMMA BooksAtDispatch ==
  ASSUME KernelAssumption, BooksInv, NEW o \in Orders, NEW outcome \in {"sent", "not_sent", "crashed"},
         Dispatch(o, outcome)
  PROVE  BooksInv'
<1> DEFINE k2 == SendResult(Intend(kernel, o), o, outcome)
<1>1. KernelGood(kernel) /\ kernel \in Kernel /\ Sums(kernel) /\ CanReserve(kernel, o)
      /\ kernel.orders[o].status = "ABSENT" /\ kernel.reserved[o].yd = 0 /\ kernel.reserved[o].td = 0
  BY DEF BooksInv, KernelGood, Dispatch, Unborn
<1>2. /\ k2 \in Kernel /\ Sums(k2) /\ Apart(kernel, k2, o) /\ k2.seen = kernel.seen
      /\ k2.pos.yd = kernel.pos.yd /\ k2.pos.td = kernel.pos.td
      /\ outcome = "not_sent" => k2.orders[o].status = "REJECTED"
      /\ outcome # "not_sent" => k2.orders[o].status = "SUBMITTING"
  BY <1>1, Sent
<1>3. kernel' = k2
  BY DEF Dispatch
<1> HIDE DEF k2
<1>4. KernelGood(k2)
  BY <1>1, <1>2, GoodMoves
<1>5. TypeOK'
  BY <1>2, <1>3 DEF BooksInv, TypeOK, Dispatch, KernelAssumption
<1>6. DaysGood' /\ TradesGood' /\ FreezeGood'
  <2>1. UNCHANGED <<brokerDay, brokerPos, tradeDay>> /\ kernel'.day = kernel.day
    BY <1>2, <1>3 DEF Dispatch, Apart
  <2>2. brokerState[o] = "none" /\ TradedOf(o) = {} /\ brokerState'[o] \in {"none", "sent"}
        /\ \A p \in Orders : p # o => brokerState'[p] = brokerState[p]
    BY <1>1 DEF BooksInv, TypeOK, TradesGood, Dispatch
  <2>3. \A p \in Orders : /\ kernel'.orders[p].status = "ABSENT" => brokerState'[p] = "none"
                          /\ brokerState'[p] = "working" <=> brokerState[p] = "working"
                          /\ brokerState'[p] \in {"none", "sent"} => TradedOf(p) = {}
    BY <1>2, <1>3, <2>2 DEF BooksInv, TradesGood, Apart
  <2> QED BY <2>1, <2>3, BrokerKept
<1>7. ReportsNamed'
  BY DEF BooksInv, ReportsNamed, Dispatch
<1> QED BY <1>3, <1>4, <1>5, <1>6, <1>7 DEF BooksInv

\* A step of the kernel alone, within the day.
LEMMA BooksWithinDay ==
  ASSUME BooksInv, KernelGood(kernel'), kernel'.day = kernel.day,
         \A o \in Orders : kernel'.orders[o].status = "ABSENT" => kernel.orders[o].status = "ABSENT",
         UNCHANGED <<brokerDay, brokerState, brokerPos, tradeDay, reports, crashes>>,
         fault' \in BOOLEAN, cancelReq' \in [Orders -> {"none", "asked", "refused"}], cancels' \in Nat
  PROVE  BooksInv'
<1>1. TypeOK'
  BY DEF BooksInv, TypeOK, KernelGood
<1>2. DaysGood' /\ TradesGood' /\ FreezeGood'
  <2>1. \A o \in Orders : /\ kernel'.orders[o].status = "ABSENT" => brokerState'[o] = "none"
                          /\ brokerState'[o] = "working" <=> brokerState[o] = "working"
                          /\ brokerState'[o] \in {"none", "sent"} => TradedOf(o) = {}
    BY DEF BooksInv, TradesGood
  <2> QED BY <2>1, BrokerKept
<1> QED BY <1>1, <1>2 DEF BooksInv, ReportsNamed
LEMMA BooksAtCancel ==
  ASSUME KernelAssumption, BooksInv, NEW o \in Orders, NEW made \in BOOLEAN, Cancel(o, made)
  PROVE  BooksInv'
<1> DEFINE y == [kernel.orders[o] EXCEPT !.cancelPending = made]
           k2 == [kernel EXCEPT !.orders[o].cancelPending = made]
<1>1. kernel \in Kernel /\ KernelGood(kernel)
  BY DEF BooksInv, KernelGood
<1>2. y \in Order /\ y.status = kernel.orders[o].status /\ y.linked = kernel.orders[o].linked
      /\ y.sysLinked = kernel.orders[o].sysLinked
  BY <1>1 DEF Kernel, Order
<1>3. k2 = PutOrder(kernel, o, y)
  BY <1>1 DEF Kernel, PutOrder
<1>4. kernel' = k2 /\ kernel.orders[o].status # "ABSENT"
  BY DEF Cancel
<1> HIDE DEF y, k2
<1>5. /\ SameBooks(kernel, k2) /\ k2.funds = kernel.funds /\ k2.unlinked = kernel.unlinked
      /\ \A p \in Orders : p # o => k2.orders[p] = kernel.orders[p]
      /\ k2.orders[o] = y
  BY <1>1, <1>2, <1>3, OrderReplaced
<1>6. Sums(k2) /\ Apart(kernel, k2, o) /\ k2 \in Kernel
  BY <1>1, <1>5, SumsKept DEF SameBooks, KernelGood, Apart
<1>7. KernelGood(k2)
  BY <1>1, <1>2, <1>4, <1>5, <1>6, GoodMoves DEF SameBooks
<1>8. \A p \in Orders : k2.orders[p].status = "ABSENT" => kernel.orders[p].status = "ABSENT"
  BY <1>2, <1>5
<1>9. kernel'.day = kernel.day
  BY <1>4, <1>5 DEF SameBooks
<1>10. /\ UNCHANGED <<brokerDay, brokerState, brokerPos, tradeDay, reports, crashes>>
       /\ fault' \in BOOLEAN /\ cancelReq' \in [Orders -> {"none", "asked", "refused"}] /\ cancels' \in Nat
  BY DEF BooksInv, TypeOK, Cancel
<1> QED BY <1>4, <1>7, <1>8, <1>9, <1>10, BooksWithinDay

LEMMA ReportKeeps ==
  ASSUME KernelAssumption, NEW k, KernelGood(k), NEW r \in Report, r.status # "ABSENT"
  PROVE  LET k2 == ApplyReport(k, r) IN
         /\ KernelGood(k2) /\ k2.day = k.day
         /\ \A o \in Orders : k2.orders[o].status = "ABSENT" => k.orders[o].status = "ABSENT"
<1> DEFINE k2 == ApplyReport(k, r)
           o == r.order
           l == Told(k, r)
<1>1. k \in Kernel /\ Sums(k) /\ o \in Orders
  BY DEF KernelGood, Report
<1>2. CASE ~Finds(k, o, TRUE, r.sys)
  BY <1>2 DEF ApplyReport
<1>3. CASE Finds(k, o, TRUE, r.sys)
  <2>1. /\ k2 \in Kernel /\ Sums(k2) /\ Apart(k, k2, o) /\ k2.seen = k.seen /\ k2.orders = l.orders
        /\ k2.pos.yd = k.pos.yd /\ k2.pos.td = k.pos.td
    BY <1>1, <1>3, ReportApplied
  <2>2. l.orders[o].status \in {"FILLED", k.orders[o].status, r.status}
    BY <1>1, ReportTold
  <2>3. k.orders[o].status # "ABSENT"
    BY <1>1, <1>3 DEF KernelGood, Unborn, Finds
  <2> HIDE DEF k2, l, o
  <2>4. k2.orders[o].status # "ABSENT"
    BY <2>1, <2>2, <2>3
  <2>5. KernelGood(k2)
    BY <1>1, <2>1, <2>4, GoodMoves
  <2> QED BY <1>1, <2>1, <2>4, <2>5 DEF Apart, k2
<1> QED BY <1>2, <1>3

LEMMA BooksAtReport ==
  ASSUME KernelAssumption, BooksInv, NEW r \in reports, ReceiveReport(r)
  PROVE  BooksInv'
<1>1. r \in Report /\ r.status # "ABSENT" /\ KernelGood(kernel)
  BY DEF BooksInv, TypeOK, ReportsNamed
<1>2. kernel' = ApplyReport(kernel, r)
  BY DEF ReceiveReport
<1>3. LET k2 == ApplyReport(kernel, r) IN
      /\ KernelGood(k2) /\ k2.day = kernel.day
      /\ \A o \in Orders : k2.orders[o].status = "ABSENT" => kernel.orders[o].status = "ABSENT"
  BY <1>1, ReportKeeps
<1>4. /\ UNCHANGED <<brokerDay, brokerState, brokerPos, tradeDay, reports, crashes>>
      /\ fault' \in BOOLEAN /\ cancelReq' \in [Orders -> {"none", "asked", "refused"}] /\ cancels' \in Nat
  BY DEF BooksInv, TypeOK, ReceiveReport, brokerVars, boundVars
<1> QED BY <1>2, <1>3, <1>4, BooksWithinDay

LEMMA TradeKeeps ==
  ASSUME KernelAssumption, NEW k, KernelGood(k), NEW t \in Trades, k.orders[t[1]].status # "ABSENT",
         NEW d \in Days, d <= k.day, CanApplyTrade(k, t, d)
  PROVE  LET k2 == ApplyTrade(k, t, d) IN
         /\ KernelGood(k2) /\ k2.day = k.day
         /\ \A o \in Orders : k2.orders[o].status = "ABSENT" => k.orders[o].status = "ABSENT"
<1> DEFINE k2 == ApplyTrade(k, t, d)
           o == t[1]
           l == ToldTrade(k, t)
<1>1. k \in Kernel /\ Sums(k) /\ o \in Orders /\ k.seen \in SUBSET Trades
  BY DEF KernelGood, Trades, Kernel
<1>2. CASE t \in k.seen
  BY <1>2 DEF ApplyTrade, Seen
<1>3. CASE t \notin k.seen
  <2>1. /\ k2 \in Kernel /\ Sums(k2) /\ Apart(k, k2, o)
        /\ k2.seen = k.seen \union {t} /\ k2.orders = l.orders
        /\ k2.pos.yd + k2.pos.td = k.pos.yd + k.pos.td + (IF OffsetOf[o] = "OPEN" THEN 1 ELSE 0)
                                                       - (IF OffsetOf[o] = "OPEN" THEN 0 ELSE 1)
    BY <1>1, <1>3, TradeApplied
  <2>2. l.orders[o].status \in {"FILLED", k.orders[o].status}
    BY <1>1, TradeTold
  <2>3. /\ Cardinality(k.seen) \in Nat /\ Opens(k.seen) \in Nat
        /\ Cardinality(k.seen \union {t}) = Cardinality(k.seen) + 1
        /\ Opens(k.seen \union {t}) = Opens(k.seen) + (IF OffsetOf[o] = "OPEN" THEN 1 ELSE 0)
    BY <1>1, <1>3, OpensAfter
  <2>4. /\ k.pos.yd \in Nat /\ k.pos.td \in Nat /\ HeldYd \in Nat /\ HeldTd \in Nat
        /\ k.pos.yd + k.pos.td + Cardinality(k.seen) = HeldYd + HeldTd + 2 * Opens(k.seen)
    BY <1>1 DEF KernelGood, Counted, Kernel, Position, KernelAssumption
  <2> HIDE DEF k2, l
  <2>5. Counted(k2)
    <3> DEFINE before == k.pos.yd + k.pos.td
               after == k2.pos.yd + k2.pos.td
    <3>1. before \in Nat /\ before + Cardinality(k.seen) = HeldYd + HeldTd + 2 * Opens(k.seen)
      BY <2>4
    <3>2. after = before + (IF OffsetOf[o] = "OPEN" THEN 1 ELSE 0) - (IF OffsetOf[o] = "OPEN" THEN 0 ELSE 1)
      BY <2>1
    <3> HIDE DEF before, after
    <3>3. CASE OffsetOf[o] = "OPEN"
      <4>1. after + Cardinality(k2.seen) = HeldYd + HeldTd + 2 * Opens(k2.seen)
        BY <2>1, <2>3, <2>4, <3>1, <3>2, <3>3
      <4> QED BY <4>1 DEF Counted, after
    <3>4. CASE OffsetOf[o] # "OPEN"
      <4>1. after + Cardinality(k2.seen) = HeldYd + HeldTd + 2 * Opens(k2.seen)
        BY <2>1, <2>3, <2>4, <3>1, <3>2, <3>4
      <4> QED BY <4>1 DEF Counted, after
    <3> QED BY <3>3, <3>4
  <2>6. k2.orders[o].status # "ABSENT"
    BY <2>1, <2>2
  <2>7. Unborn(k2)
    BY <2>1, <2>6 DEF KernelGood, Unborn, Apart
  <2>8. \A p \in Orders : k2.orders[p].status = "ABSENT" => k.orders[p].status = "ABSENT"
    BY <2>1, <2>6 DEF Apart
  <2>9. KernelGood(k2)
    BY <2>1, <2>5, <2>7 DEF KernelGood
  <2> QED BY <2>1, <2>8, <2>9 DEF Apart, k2
<1> QED BY <1>2, <1>3

LEMMA BooksAtTrade ==
  ASSUME KernelAssumption, BooksInv, NEW t \in Trades, ReceiveTrade(t)
  PROVE  BooksInv'
<1> DEFINE d == tradeDay[t]
           k2 == ApplyTrade(kernel, t, d)
<1>1. /\ UNCHANGED <<brokerDay, brokerState, brokerPos, tradeDay, reports, crashes>>
      /\ fault' \in BOOLEAN /\ cancelReq' \in [Orders -> {"none", "asked", "refused"}] /\ cancels' \in Nat
  BY DEF BooksInv, TypeOK, ReceiveTrade, brokerVars, boundVars
<1>2. KernelGood(kernel)
  BY DEF BooksInv
<1>3. CASE ~CanApplyTrade(kernel, t, d)
  <2>1. kernel' = kernel
    BY <1>3 DEF ReceiveTrade
  <2> QED BY <1>1, <1>2, <2>1, BooksWithinDay
<1>4. CASE CanApplyTrade(kernel, t, d)
  <2>1. kernel' = k2 /\ d # 0
    BY <1>4 DEF ReceiveTrade
  <2>2. d \in Days /\ d <= kernel.day
    BY DEF BooksInv, TypeOK, DaysGood
  <2>3. kernel.orders[t[1]].status # "ABSENT"
    BY <2>1, TradedIsBorn DEF BooksInv
  <2> HIDE DEF d
  <2>4. /\ KernelGood(k2) /\ k2.day = kernel.day
        /\ \A o \in Orders : k2.orders[o].status = "ABSENT" => kernel.orders[o].status = "ABSENT"
    BY <1>2, <1>4, <2>2, <2>3, TradeKeeps
  <2> HIDE DEF k2
  <2> QED BY <1>1, <2>1, <2>4, BooksWithinDay
<1> QED BY <1>3, <1>4
\* A day of the account ends only after the broker's: nothing works then.
LEMMA AdvanceBooked ==
  ASSUME KernelAssumption, NEW k, KernelGood(k), k.day < LastDay
  PROVE  LET k2 == TryAdvance(k) IN
         /\ KernelGood(k2) /\ k2.day \in {k.day, k.day + 1} /\ k2.orders = k.orders
<1> DEFINE k2 == TryAdvance(k)
           r == Rollover(k)
<1>1. CASE k2 = k
  BY <1>1
<1>2. CASE k2 = r
  <2>1. k \in Kernel /\ Sums(k)
    BY DEF KernelGood
  <2>2. /\ r \in Kernel /\ Sums(r) /\ r.day = k.day + 1 /\ r.seen = k.seen /\ r.orders = k.orders
        /\ r.pos.yd + r.pos.td = k.pos.yd + k.pos.td
        /\ \A o \in Orders : /\ r.reserved[o].held = k.reserved[o].held
                             /\ r.reserved[o].yd = k.reserved[o].yd + k.reserved[o].td /\ r.reserved[o].td = 0
    BY <2>1, RolledOver
  <2> HIDE DEF r
  <2>3. Counted(r)
    <3>1. r.pos.yd + r.pos.td + Cardinality(r.seen) = HeldYd + HeldTd + 2 * Opens(r.seen)
      BY <2>2 DEF KernelGood, Counted
    <3> QED BY <3>1 DEF Counted
  <2>4. Unborn(r)
    BY <2>2 DEF KernelGood, Unborn
  <2> QED BY <1>2, <2>2, <2>3, <2>4 DEF KernelGood
<1> QED BY <1>1, <1>2 DEF TryAdvance

LEMMA BooksAtAdvance ==
  ASSUME KernelAssumption, BooksInv, brokerDay > kernel.day,
         NEW k, KernelGood(k), k.day = kernel.day, k.orders = kernel.orders, kernel' = TryAdvance(k),
         UNCHANGED <<fault, brokerVars, boundVars>>
  PROVE  BooksInv'
<1>1. k.day < LastDay /\ brokerDay \in Nat /\ k.day \in Nat /\ k.day >= 1 /\ brokerDay <= LastDay /\ LastDay \in Nat
  BY DEF BooksInv, TypeOK, KernelGood, Kernel, Days, DaysGood, KernelAssumption
<1>2. KernelGood(kernel') /\ kernel'.day \in {k.day, k.day + 1} /\ kernel'.orders = k.orders
  BY <1>1, AdvanceBooked
<1>3. TypeOK'
  BY <1>2 DEF BooksInv, TypeOK, KernelGood, brokerVars, boundVars
<1>4. \A o \in Orders : ~Working(o)
  BY <1>1 DEF BooksInv, DaysGood
<1>5. \A o \in Orders : TradedOf(o)' = TradedOf(o) /\ (Working(o)' <=> Working(o)) /\ Left(o)' = Left(o)
  BY DEF TradedOf, Working, Left, brokerVars
<1>6. DaysGood'
  <2>1. kernel'.day >= 1 /\ kernel'.day <= brokerDay /\ kernel'.day >= kernel.day
    BY <1>1, <1>2
  <2>2. \A t \in Trades : tradeDay[t] \in Nat /\ tradeDay[t] <= kernel.day
    BY DEF BooksInv, DaysGood, TypeOK, Days
  <2>3. \A t \in Trades : tradeDay[t] <= kernel'.day
    BY <1>1, <1>2, <2>1, <2>2
  <2> QED BY <1>4, <1>5, <2>1, <2>3 DEF DaysGood, brokerVars
<1>7. TradesGood'
  BY <1>2, <1>5 DEF BooksInv, TradesGood, brokerVars
<1>8. FreezeGood'
  <2>1. OpenAt("CLOSE_TODAY")' = OpenAt("CLOSE_TODAY") /\ OpenAt("CLOSE_YESTERDAY")' = OpenAt("CLOSE_YESTERDAY")
    BY <1>5 DEF OpenAt
  <2> QED BY <2>1 DEF BooksInv, FreezeGood, brokerVars
<1>9. ReportsNamed'
  BY DEF BooksInv, ReportsNamed, brokerVars
<1> QED BY <1>2, <1>3, <1>6, <1>7, <1>8, <1>9 DEF BooksInv

\* The two flags of the day's end are not in the books.
LEMMA FlagsKept ==
  ASSUME NEW k, KernelGood(k), NEW a \in BOOLEAN, NEW b \in BOOLEAN
  PROVE  LET k2 == [k EXCEPT !.advancing = a, !.priced = b] IN
         KernelGood(k2) /\ k2.day = k.day /\ k2.orders = k.orders
<1> DEFINE k2 == [k EXCEPT !.advancing = a, !.priced = b]
<1>1. k \in Kernel /\ Sums(k)
  BY DEF KernelGood
<1>2. /\ k2 \in Kernel /\ k2.day = k.day /\ k2.orders = k.orders /\ k2.reserved = k.reserved
      /\ k2.pos = k.pos /\ k2.lots = k.lots /\ k2.seen = k.seen
  BY <1>1 DEF Kernel
<1> HIDE DEF k2
<1>3. Sums(k2)
  BY <1>1, <1>2, SumsKept
<1>4. KernelGood(k2)
  BY <1>2, <1>3 DEF KernelGood, Unborn, Counted
<1> QED BY <1>2, <1>4 DEF k2

LEMMA BooksAtDayEnd ==
  ASSUME KernelAssumption, BooksInv, SettlementPrice \/ AdvanceTradingDay
  PROVE  BooksInv'
<1>1. KernelGood(kernel) /\ kernel \in Kernel /\ brokerDay > kernel.day /\ UNCHANGED <<fault, brokerVars, boundVars>>
  BY DEF BooksInv, KernelGood, SettlementPrice, AdvanceTradingDay
<1>2. CASE SettlementPrice
  <2> DEFINE k == [kernel EXCEPT !.advancing = kernel.advancing, !.priced = TRUE]
  <2>1. [kernel EXCEPT !.priced = TRUE] = k
    BY <1>1 DEF Kernel
  <2>2. kernel' = TryAdvance(k)
    BY <1>2, <2>1 DEF SettlementPrice
  <2>3. KernelGood(k) /\ k.day = kernel.day /\ k.orders = kernel.orders
    <3>1. kernel.advancing \in BOOLEAN /\ TRUE \in BOOLEAN
      BY <1>1 DEF Kernel
    <3>2. \A a \in BOOLEAN, b \in BOOLEAN : LET k2 == [kernel EXCEPT !.advancing = a, !.priced = b] IN
             KernelGood(k2) /\ k2.day = kernel.day /\ k2.orders = kernel.orders
      BY <1>1, FlagsKept
    <3> QED BY <3>1, <3>2
  <2> HIDE DEF k
  <2> QED BY <1>1, <2>2, <2>3, BooksAtAdvance
<1>3. CASE AdvanceTradingDay
  <2> DEFINE k == [kernel EXCEPT !.advancing = TRUE, !.priced = kernel.priced]
  <2>1. [kernel EXCEPT !.advancing = TRUE] = k
    BY <1>1 DEF Kernel
  <2>2. kernel' = TryAdvance(k)
    BY <1>3, <2>1 DEF AdvanceTradingDay
  <2>3. KernelGood(k) /\ k.day = kernel.day /\ k.orders = kernel.orders
    <3>1. kernel.priced \in BOOLEAN /\ TRUE \in BOOLEAN
      BY <1>1 DEF Kernel
    <3>2. \A a \in BOOLEAN, b \in BOOLEAN : LET k2 == [kernel EXCEPT !.advancing = a, !.priced = b] IN
             KernelGood(k2) /\ k2.day = kernel.day /\ k2.orders = kernel.orders
      BY <1>1, FlagsKept
    <3> QED BY <3>1, <3>2
  <2> HIDE DEF k
  <2> QED BY <1>1, <2>2, <2>3, BooksAtAdvance
<1> QED BY <1>2, <1>3

\* A restart, a refused cancellation at the broker or at the account: the kernel is as it was.
LEMMA BooksUntouched ==
  ASSUME KernelAssumption, BooksInv, UNCHANGED <<kernel, brokerDay, brokerState, brokerPos, tradeDay, reports, crashes>>,
         fault' \in BOOLEAN, cancelReq' \in [Orders -> {"none", "asked", "refused"}], cancels' \in Nat
  PROVE  BooksInv'
<1>1. KernelGood(kernel') /\ kernel'.day = kernel.day
      /\ \A o \in Orders : kernel'.orders[o].status = "ABSENT" => kernel.orders[o].status = "ABSENT"
  BY DEF BooksInv
<1> QED BY <1>1, BooksWithinDay
-------------------------------------------------------------------------------
(* The broker's steps *)

LeftOf == [o \in Orders |-> Left(o)]
WorkingFor(offset) == {o \in Orders : Working(o) /\ OffsetOf[o] = offset}

LEMMA FrozenTotal ==
  ASSUME KernelAssumption, TradesGood, NEW offset
  PROVE  BrokerFrozen(offset) = Total(OpenAt(offset), Orders)
<1> DEFINE S == WorkingFor(offset)
           next(s) == CHOOSE x \in s : TRUE
           Is(t) == t = [s \in SUBSET S |-> IF s = {} THEN 0 ELSE Left(next(s)) + t[s \ {next(s)}]]
           u == CHOOSE t : Is(t)
<1>1. IsFiniteSet(Orders) /\ IsFiniteSet(S) /\ S \in SUBSET Orders
  BY FS_Subset DEF KernelAssumption, WorkingFor
<1> HIDE DEF S
<1>2. PICK t : Totals(t, LeftOf, S)
  BY <1>1, TotalsExist
<1>3. ASSUME NEW s \in SUBSET S, s # {} PROVE Left(next(s)) = LeftOf[next(s)]
  BY <1>1, <1>3 DEF LeftOf
<1>4. Is(t)
  BY <1>2, <1>3 DEF Totals
<1>5. Is(u)
  BY <1>4
<1>6. BrokerFrozen(offset) = u[S]
  BY DEF BrokerFrozen, MapThenSumSet, MapThenFoldSet, WorkingFor, S
<1> HIDE DEF u
<1>7. Totals(u, LeftOf, S)
  <2>1. \A s \in SUBSET S : (IF s = {} THEN 0 ELSE Left(next(s)) + u[s \ {next(s)}])
                             = (IF s = {} THEN 0 ELSE LeftOf[next(s)] + u[s \ {next(s)}])
    BY <1>3
  <2>2. [s \in SUBSET S |-> IF s = {} THEN 0 ELSE Left(next(s)) + u[s \ {next(s)}]]
        = [s \in SUBSET S |-> IF s = {} THEN 0 ELSE LeftOf[next(s)] + u[s \ {next(s)}]]
    BY <2>1
  <2> QED BY <1>5, <2>2 DEF Totals
<1>8. u[S] = Total(LeftOf, S)
  BY <1>1, <1>7, TotalIs
<1>9. \A x \in S : LeftOf[x] \in Int /\ OpenAt(offset)[x] = LeftOf[x]
  BY <1>1, TradesNumbered DEF LeftOf, OpenAt, S, WorkingFor
<1>10. \A x \in Orders \ S : OpenAt(offset)[x] = 0
  BY DEF OpenAt, S, WorkingFor
<1>11. Total(OpenAt(offset), Orders) = Total(LeftOf, S)
  BY <1>1, <1>9, <1>10, TotalOfPart
<1> QED BY <1>6, <1>8, <1>11

LEMMA OpenType ==
  ASSUME KernelAssumption, TradesGood, NEW offset, NEW o \in Orders
  PROVE  /\ OpenAt(offset)[o] \in Nat /\ OpenAt(offset)[o] <= Total(OpenAt(offset), Orders)
         /\ Total(OpenAt(offset), Orders) \in Nat
<1>1. \A p \in Orders : OpenAt(offset)[p] \in Nat
  BY TradesNumbered DEF OpenAt
<1>2. IsFiniteSet(Orders)
  BY DEF KernelAssumption
<1> QED BY <1>1, <1>2, TotalNat

\* One order changes what works at the broker.
LEMMA OpenMoves ==
  ASSUME KernelAssumption, TradesGood, TradesGood', NEW o \in Orders, NEW offset,
         \A p \in Orders : p # o => (Working(p)' <=> Working(p)) /\ Left(p)' = Left(p)
  PROVE  Total(OpenAt(offset)', Orders) = Total(OpenAt(offset), Orders) + OpenAt(offset)'[o] - OpenAt(offset)[o]
<1> DEFINE f == OpenAt(offset)
           g == OpenAt(offset)'
<1>1. IsFiniteSet(Orders)
  BY DEF KernelAssumption
<1>2. \A p \in Orders : f[p] \in Int /\ g[p] \in Int
  <2> TAKE p \in Orders
  <2>1. f[p] \in Nat
    BY OpenType
  <2>2. Working(p)' => Left(p)' \in Nat
    <3>1. TradedOf(p)' = TradedOf(p)' /\ \E n \in 0..Qty[p] : TradedOf(p)' = Row(p, n)
      BY DEF TradesGood
    <3>2. PICK n \in 0..Qty[p] : TradedOf(p)' = Row(p, n)
      BY <3>1
    <3>3. Qty[p] \in Nat /\ n \in Nat
      BY DEF KernelAssumption
    <3>4. Cardinality(TradedOf(p)') = n
      BY <3>2, <3>3, TradesOfOrder
    <3>5. Left(p)' = Qty[p] - n
      BY <3>4 DEF Left
    <3> QED BY <3>3, <3>5
  <2>3. g[p] = IF Working(p)' /\ OffsetOf[p] = offset THEN Left(p)' ELSE 0
    BY DEF OpenAt
  <2> QED BY <2>1, <2>2, <2>3
<1>3. \A p \in Orders : p # o => g[p] = f[p]
  BY DEF OpenAt
<1> HIDE DEF f, g
<1>4. Total(g, Orders) = Total(f, Orders) + g[o] - f[o]
  BY <1>1, <1>2, <1>3, TotalChanged
<1> QED BY <1>4 DEF f, g

\* Nothing of the account moves with the broker.
LEMMA KernelWaits ==
  ASSUME BooksInv, UNCHANGED kernel
  PROVE  KernelGood(kernel')
BY DEF BooksInv

LEMMA BooksAtReceive ==
  ASSUME KernelAssumption, BooksInv, NEW o \in Orders, BrokerReceive(o)
  PROVE  BooksInv'
<1>1. /\ brokerState[o] = "sent" /\ brokerDay = kernel.day
      /\ brokerState' = [brokerState EXCEPT ![o] = IF Covered(o) THEN "working" ELSE "rejected"]
      /\ reports' = reports \union
            IF Covered(o) THEN {Says(o, "UNKNOWN", 0, FALSE), Says(o, "ACCEPTED", 0, TRUE)}
                          ELSE {Says(o, "REJECTED", 0, FALSE)}
      /\ UNCHANGED <<kernel, fault, brokerDay, brokerPos, tradeDay, cancelReq, boundVars>>
  BY DEF BrokerReceive
<1>2. TypeOK /\ TradesGood /\ DaysGood /\ FreezeGood /\ KernelGood(kernel')
  BY <1>1 DEF BooksInv
<1>3. TradedOf(o) = {} /\ \A p \in Orders : TradedOf(p)' = TradedOf(p) /\ Left(p)' = Left(p)
  BY <1>1, <1>2 DEF TradesGood, TradedOf, Left
<1>4. brokerState'[o] = (IF Covered(o) THEN "working" ELSE "rejected")
      /\ \A p \in Orders : p # o => brokerState'[p] = brokerState[p]
  BY <1>1, <1>2 DEF TypeOK
<1>5. Left(o) = Qty[o] /\ Qty[o] \in Nat /\ Qty[o] >= 1
  BY <1>2, <1>3, TradesNumbered, FS_EmptySet
<1>6. TypeOK'
  <2>1. {Says(o, "UNKNOWN", 0, FALSE), Says(o, "ACCEPTED", 0, TRUE), Says(o, "REJECTED", 0, FALSE)} \subseteq Report
    BY DEF Says, Report, Statuses
  <2>2. reports' \subseteq Report
    BY <1>1, <1>2, <2>1 DEF TypeOK
  <2> QED BY <1>1, <1>2, <2>2 DEF TypeOK, boundVars
<1>7. DaysGood'
  BY <1>1, <1>2, <1>4 DEF DaysGood, Working
<1>8. TradesGood'
  <2>1. ASSUME NEW p \in Orders, p # o
        PROVE  /\ \E n \in 0..Qty[p] : TradedOf(p)' = Row(p, n) /\ (Working(p)' => n < Qty[p])
               /\ brokerState'[p] \in {"none", "sent"} => TradedOf(p)' = {}
               /\ kernel'.orders[p].status = "ABSENT" => brokerState'[p] = "none"
    BY <1>1, <1>2, <1>3, <1>4, <2>1 DEF TradesGood, Working
  <2>2. \E n \in 0..Qty[o] : TradedOf(o)' = Row(o, n) /\ n < Qty[o]
    <3>1. 0 \in 0..Qty[o] /\ 0 < Qty[o]
      BY <1>5
    <3>2. TradedOf(o)' = Row(o, 0)
      BY <1>3 DEF Row
    <3> QED BY <3>1, <3>2
  <2>3. kernel'.orders[o].status # "ABSENT"
    BY <1>1, <1>2 DEF TradesGood
  <2> QED BY <1>3, <1>4, <2>1, <2>2, <2>3 DEF TradesGood
<1>9. ASSUME NEW offset
      PROVE  Total(OpenAt(offset)', Orders) = Total(OpenAt(offset), Orders)
                 + (IF Covered(o) /\ OffsetOf[o] = offset THEN Qty[o] ELSE 0)
  <2>1. \A p \in Orders : p # o => (Working(p)' <=> Working(p)) /\ Left(p)' = Left(p)
    BY <1>3, <1>4 DEF Working
  <2>2. Total(OpenAt(offset)', Orders) = Total(OpenAt(offset), Orders) + OpenAt(offset)'[o] - OpenAt(offset)[o]
    BY <1>2, <1>8, <2>1, OpenMoves
  <2>3. OpenAt(offset)[o] = 0
    BY <1>1 DEF OpenAt, Working
  <2>4. OpenAt(offset)'[o] = IF Covered(o) /\ OffsetOf[o] = offset THEN Qty[o] ELSE 0
    BY <1>3, <1>4, <1>5 DEF OpenAt, Working
  <2>5. Total(OpenAt(offset), Orders) \in Nat
    BY <1>2, OpenType
  <2> QED BY <1>5, <2>2, <2>3, <2>4, <2>5
<1>10. FreezeGood'
  <2>1. OffsetOf[o] = "CLOSE_TODAY" /\ Covered(o) => brokerPos.td - Total(OpenAt("CLOSE_TODAY"), Orders) >= Qty[o]
    BY <1>2, FrozenTotal DEF Covered
  <2>2. OffsetOf[o] = "CLOSE_YESTERDAY" /\ Covered(o)
           => brokerPos.yd - Total(OpenAt("CLOSE_YESTERDAY"), Orders) >= Qty[o]
    BY <1>2, FrozenTotal DEF Covered
  <2>3. Total(OpenAt("CLOSE_TODAY"), Orders) \in Nat /\ Total(OpenAt("CLOSE_YESTERDAY"), Orders) \in Nat
    BY <1>2, OpenType
  <2>4. brokerPos.td \in Nat /\ brokerPos.yd \in Nat
    BY <1>2 DEF TypeOK
  <2>5. Total(OpenAt("CLOSE_TODAY")', Orders) = Total(OpenAt("CLOSE_TODAY"), Orders)
           + (IF Covered(o) /\ OffsetOf[o] = "CLOSE_TODAY" THEN Qty[o] ELSE 0)
    BY <1>9
  <2>6. Total(OpenAt("CLOSE_YESTERDAY")', Orders) = Total(OpenAt("CLOSE_YESTERDAY"), Orders)
           + (IF Covered(o) /\ OffsetOf[o] = "CLOSE_YESTERDAY" THEN Qty[o] ELSE 0)
    BY <1>9
  <2>7. Total(OpenAt("CLOSE_TODAY")', Orders) <= brokerPos.td
    BY <1>2, <1>5, <2>1, <2>3, <2>4, <2>5 DEF FreezeGood
  <2>8. Total(OpenAt("CLOSE_YESTERDAY")', Orders) <= brokerPos.yd
    BY <1>2, <1>5, <2>2, <2>3, <2>4, <2>6 DEF FreezeGood
  <2> QED BY <1>1, <2>7, <2>8 DEF FreezeGood
<1>11. ReportsNamed'
  BY <1>1 DEF BooksInv, ReportsNamed, Says
<1> QED BY <1>2, <1>6, <1>7, <1>8, <1>10, <1>11 DEF BooksInv
\* The next trade of a working order.
LEMMA RowGrows ==
  ASSUME KernelAssumption, BooksInv, NEW o \in Orders, BrokerTrade(o)
  PROVE  LET n == Cardinality(TradedOf(o)) + 1 IN
         /\ n \in 1..Qty[o] /\ <<o, n>> \in Trades /\ <<o, n>> \notin TradedOf(o) /\ n \in Nat
         /\ tradeDay' = [tradeDay EXCEPT ![<<o, n>>] = brokerDay] /\ brokerDay \in Days /\ brokerDay # 0
         /\ TradedOf(o)' = TradedOf(o) \union {<<o, n>>} /\ TradedOf(o)' = Row(o, n)
         /\ \A p \in Orders : p # o => TradedOf(p)' = TradedOf(p)
         /\ Left(o)' = Left(o) - 1 /\ Left(o)' = Qty[o] - n /\ Left(o) >= 1 /\ Left(o) \in Nat
<1> DEFINE m == Cardinality(TradedOf(o))
           n == m + 1
           t == <<o, n>>
<1>1. TypeOK /\ TradesGood /\ DaysGood /\ Working(o) /\ brokerDay = kernel.day
      /\ tradeDay' = [tradeDay EXCEPT ![t] = brokerDay]
  BY DEF BooksInv, DaysGood, BrokerTrade
<1>2. /\ m \in 0..Qty[o] /\ m < Qty[o] /\ Qty[o] \in Nat /\ TradedOf(o) = Row(o, m) /\ Qty[o] <= MaxQty
      /\ Left(o) = Qty[o] - m /\ Left(o) >= 1 /\ Left(o) \in Nat
  BY <1>1, TradesNumbered DEF KernelAssumption
<1> HIDE DEF m
<1>3. n \in Nat /\ n \in 1..Qty[o] /\ n \in 1..MaxQty /\ m \in Nat
  BY <1>2 DEF KernelAssumption
<1>4. t \in Trades
  BY <1>3 DEF Trades
<1>5. brokerDay \in Days /\ brokerDay # 0
  BY <1>1 DEF TypeOK, DaysGood, Days
<1>6. tradeDay'[t] = brokerDay /\ \A x \in Trades : x # t => tradeDay'[x] = tradeDay[x]
  BY <1>1, <1>4 DEF TypeOK
<1>7. t \notin Row(o, m) /\ Row(o, n) = Row(o, m) \union {t}
  <2>1. ~(n \in 1..m) /\ 1..n = (1..m) \union {n}
    BY <1>3
  <2> HIDE DEF n
  <2> QED BY <2>1 DEF Row
<1>8. TradedOf(o)' = TradedOf(o) \union {t}
  <2>1. t[1] = o
    OBVIOUS
  <2> HIDE DEF t
  <2> QED BY <1>4, <1>5, <1>6, <2>1 DEF TradedOf
<1>9. \A p \in Orders : p # o => TradedOf(p)' = TradedOf(p)
  <2>1. t[1] = o
    OBVIOUS
  <2> HIDE DEF t
  <2> QED BY <1>6, <2>1 DEF TradedOf
<1>10. TradedOf(o)' = Row(o, n)
  BY <1>2, <1>7, <1>8
<1>11. Cardinality(TradedOf(o)') = n
  BY <1>3, <1>10, TradesOfOrder
<1>12. Left(o)' = Qty[o] - n
  BY <1>11 DEF Left
<1>13. Left(o)' = Left(o) - 1
  BY <1>2, <1>3, <1>12
<1>14. <<o, n>> \notin TradedOf(o)
  BY <1>2, <1>7
<1> HIDE DEF n
<1> QED BY <1>1, <1>2, <1>3, <1>4, <1>5, <1>8, <1>9, <1>10, <1>12, <1>13, <1>14 DEF m, n

LEMMA BooksAtBrokerTrade ==
  ASSUME KernelAssumption, BooksInv, NEW o \in Orders, BrokerTrade(o)
  PROVE  BooksInv'
<1> DEFINE n == Cardinality(TradedOf(o)) + 1
           said == Says(o, IF n = Qty[o] THEN "FILLED" ELSE "PARTIALLY_FILLED", n, TRUE)
<1>1. /\ n \in 1..Qty[o] /\ <<o, n>> \in Trades /\ <<o, n>> \notin TradedOf(o) /\ n \in Nat
      /\ tradeDay' = [tradeDay EXCEPT ![<<o, n>>] = brokerDay] /\ brokerDay \in Days /\ brokerDay # 0
      /\ TradedOf(o)' = Row(o, n)
      /\ \A p \in Orders : p # o => TradedOf(p)' = TradedOf(p)
      /\ Left(o)' = Left(o) - 1 /\ Left(o)' = Qty[o] - n /\ Left(o) >= 1 /\ Left(o) \in Nat
  BY RowGrows
<1>2. /\ Working(o)
      /\ brokerState' = [brokerState EXCEPT ![o] = IF n = Qty[o] THEN "filled" ELSE @]
      /\ reports' = reports \union {said}
      /\ UNCHANGED <<kernel, fault, brokerDay, cancelReq, boundVars>>
      /\ OffsetOf[o] = "OPEN" => brokerPos' = [brokerPos EXCEPT !.td = @ + 1]
      /\ OffsetOf[o] = "CLOSE_TODAY" => brokerPos' = [brokerPos EXCEPT !.td = @ - 1]
      /\ OffsetOf[o] = "CLOSE_YESTERDAY" => brokerPos' = [brokerPos EXCEPT !.yd = @ - 1]
  BY DEF BrokerTrade
<1> HIDE DEF n
<1>3. /\ TypeOK /\ TradesGood /\ DaysGood /\ FreezeGood /\ KernelGood(kernel') /\ brokerDay = kernel.day
      /\ OffsetOf[o] \in Offsets /\ Qty[o] \in Nat
  BY <1>2 DEF BooksInv, DaysGood, KernelAssumption
<1>4. /\ brokerState'[o] = (IF n = Qty[o] THEN "filled" ELSE "working")
      /\ \A p \in Orders : p # o => brokerState'[p] = brokerState[p]
      /\ brokerState' \in [Orders -> {"none", "sent", "working", "filled", "cancelled", "rejected"}]
  BY <1>2, <1>3 DEF TypeOK, Working
<1>5. \A p \in Orders : p # o => (Working(p)' <=> Working(p)) /\ Left(p)' = Left(p)
  BY <1>1, <1>4 DEF Working, Left
<1>6. TradesGood'
  <2>1. ASSUME NEW p \in Orders, p # o
        PROVE  /\ \E i \in 0..Qty[p] : TradedOf(p)' = Row(p, i) /\ (Working(p)' => i < Qty[p])
               /\ brokerState'[p] \in {"none", "sent"} => TradedOf(p)' = {}
               /\ kernel'.orders[p].status = "ABSENT" => brokerState'[p] = "none"
    BY <1>1, <1>2, <1>3, <1>4, <1>5, <2>1 DEF TradesGood
  <2>2. \E i \in 0..Qty[o] : TradedOf(o)' = Row(o, i) /\ (Working(o)' => i < Qty[o])
    <3>1. n \in 0..Qty[o] /\ (n # Qty[o] => n < Qty[o])
      BY <1>1, <1>3
    <3>2. Working(o)' => n # Qty[o]
      BY <1>4 DEF Working
    <3> QED BY <1>1, <3>1, <3>2
  <2>3. kernel'.orders[o].status # "ABSENT"
    BY <1>2, <1>3 DEF TradesGood, Working
  <2> QED BY <1>4, <2>1, <2>2, <2>3 DEF TradesGood
<1>7. ASSUME NEW offset
      PROVE  /\ OffsetOf[o] # offset => Total(OpenAt(offset)', Orders) = Total(OpenAt(offset), Orders)
             /\ OffsetOf[o] = offset => /\ Total(OpenAt(offset)', Orders) = Total(OpenAt(offset), Orders) - 1
                                        /\ Total(OpenAt(offset), Orders) >= 1
             /\ Total(OpenAt(offset), Orders) \in Nat
  <2>1. Total(OpenAt(offset)', Orders) = Total(OpenAt(offset), Orders) + OpenAt(offset)'[o] - OpenAt(offset)[o]
    BY <1>3, <1>5, <1>6, OpenMoves
  <2>2. /\ OpenAt(offset)[o] \in Nat /\ OpenAt(offset)[o] <= Total(OpenAt(offset), Orders)
        /\ Total(OpenAt(offset), Orders) \in Nat
    BY <1>3, OpenType
  <2>3. OpenAt(offset)[o] = IF OffsetOf[o] = offset THEN Left(o) ELSE 0
    BY <1>2 DEF OpenAt
  <2>4. OpenAt(offset)'[o] = IF Working(o)' /\ OffsetOf[o] = offset THEN Left(o)' ELSE 0
    BY DEF OpenAt
  <2>5. Working(o)' \/ Left(o)' = 0
    BY <1>1, <1>3, <1>4 DEF Working
  <2>6. CASE OffsetOf[o] = offset
    <3>1. OpenAt(offset)'[o] = Left(o) - 1
      BY <1>1, <2>4, <2>5, <2>6
    <3> QED BY <1>1, <2>1, <2>2, <2>3, <2>6, <3>1
  <2>7. CASE OffsetOf[o] # offset
    BY <2>1, <2>2, <2>3, <2>4, <2>7
  <2> QED BY <2>6, <2>7
<1>8. brokerPos' \in [yd : Nat, td : Nat] /\ FreezeGood'
  <2> DEFINE today == Total(OpenAt("CLOSE_TODAY"), Orders)
             former == Total(OpenAt("CLOSE_YESTERDAY"), Orders)
             today2 == Total(OpenAt("CLOSE_TODAY")', Orders)
             former2 == Total(OpenAt("CLOSE_YESTERDAY")', Orders)
  <2>1. /\ brokerPos \in [yd : Nat, td : Nat] /\ brokerPos.yd \in Nat /\ brokerPos.td \in Nat
        /\ today <= brokerPos.td /\ former <= brokerPos.yd
    BY <1>3 DEF TypeOK, FreezeGood
  <2>2. /\ today \in Nat /\ former \in Nat
        /\ OffsetOf[o] # "CLOSE_TODAY" => today2 = today
        /\ OffsetOf[o] = "CLOSE_TODAY" => today2 = today - 1 /\ today >= 1
        /\ OffsetOf[o] # "CLOSE_YESTERDAY" => former2 = former
        /\ OffsetOf[o] = "CLOSE_YESTERDAY" => former2 = former - 1 /\ former >= 1
    BY <1>7
  <2> HIDE DEF today, former, today2, former2
  <2>3. brokerPos' \in [yd : Nat, td : Nat] /\ today2 <= brokerPos'.td /\ former2 <= brokerPos'.yd
    <3>1. CASE OffsetOf[o] = "OPEN"
      BY <1>2, <2>1, <2>2, <3>1
    <3>2. CASE OffsetOf[o] = "CLOSE_TODAY"
      BY <1>2, <2>1, <2>2, <3>2
    <3>3. CASE OffsetOf[o] = "CLOSE_YESTERDAY"
      BY <1>2, <2>1, <2>2, <3>3
    <3> QED BY <1>3, <3>1, <3>2, <3>3 DEF Offsets
  <2> QED BY <2>3 DEF FreezeGood, today2, former2
<1>9. TypeOK'
  <2>1. said \in Report
    BY <1>1 DEF Says, Report, Statuses
  <2>2. tradeDay' \in [Trades -> Days]
    BY <1>1, <1>3 DEF TypeOK
  <2> QED BY <1>2, <1>3, <1>4, <1>8, <2>1, <2>2 DEF TypeOK, boundVars
<1>10. DaysGood'
  <2>1. \A t \in Trades : tradeDay'[t] \in {tradeDay[t], brokerDay}
    BY <1>1, <1>3 DEF TypeOK
  <2>2. \A t \in Trades : tradeDay'[t] <= kernel.day
    BY <1>3, <2>1 DEF DaysGood, TypeOK, Kernel, Days
  <2> QED BY <1>2, <1>3, <2>2 DEF DaysGood
<1>11. ReportsNamed'
  BY <1>2 DEF BooksInv, ReportsNamed, Says
<1> QED BY <1>3, <1>6, <1>8, <1>9, <1>10, <1>11 DEF BooksInv

LEMMA BooksAtBrokerCancel ==
  ASSUME KernelAssumption, BooksInv, NEW o \in Orders, BrokerCancel(o)
  PROVE  BooksInv'
<1>1. /\ Working(o)
      /\ brokerState' = [brokerState EXCEPT ![o] = "cancelled"]
      /\ reports' = reports \union {Says(o, "CANCELLED", Cardinality(TradedOf(o)), TRUE)}
      /\ cancelReq' = [cancelReq EXCEPT ![o] = "none"]
      /\ UNCHANGED <<kernel, fault, brokerDay, brokerPos, tradeDay, boundVars>>
  BY DEF BrokerCancel
<1>2. TypeOK /\ TradesGood /\ DaysGood /\ FreezeGood /\ KernelGood(kernel')
  BY <1>1 DEF BooksInv
<1>3. /\ brokerState'[o] = "cancelled" /\ \A p \in Orders : p # o => brokerState'[p] = brokerState[p]
      /\ \A p \in Orders : TradedOf(p)' = TradedOf(p) /\ Left(p)' = Left(p)
  BY <1>1, <1>2 DEF TypeOK, TradedOf, Left
<1>4. \A p \in Orders : p # o => (Working(p)' <=> Working(p)) /\ Left(p)' = Left(p)
  BY <1>3 DEF Working
<1>5. TypeOK'
  <2>1. Cardinality(TradedOf(o)) \in Nat
    BY <1>2, TradesNumbered
  <2>2. Says(o, "CANCELLED", Cardinality(TradedOf(o)), TRUE) \in Report
    BY <2>1 DEF Says, Report, Statuses
  <2> QED BY <1>1, <1>2, <2>2 DEF TypeOK, boundVars
<1>6. DaysGood'
  BY <1>1, <1>2, <1>3 DEF DaysGood, Working
<1>7. TradesGood'
  <2>1. ~Working(o)' /\ kernel'.orders[o].status # "ABSENT"
    BY <1>1, <1>2, <1>3 DEF TradesGood, Working
  <2> QED BY <1>1, <1>2, <1>3, <1>4, <2>1 DEF TradesGood
<1>8. ASSUME NEW offset
      PROVE  Total(OpenAt(offset)', Orders) <= Total(OpenAt(offset), Orders)
             /\ Total(OpenAt(offset)', Orders) \in Int /\ Total(OpenAt(offset), Orders) \in Int
  <2>1. Total(OpenAt(offset)', Orders) = Total(OpenAt(offset), Orders) + OpenAt(offset)'[o] - OpenAt(offset)[o]
    BY <1>2, <1>4, <1>7, OpenMoves
  <2>2. OpenAt(offset)[o] \in Nat /\ Total(OpenAt(offset), Orders) \in Nat
    BY <1>2, OpenType
  <2>3. OpenAt(offset)'[o] = 0
    BY <1>3 DEF OpenAt, Working
  <2> QED BY <2>1, <2>2, <2>3
<1>9. FreezeGood'
  <2>1. brokerPos.td \in Nat /\ brokerPos.yd \in Nat
    BY <1>2 DEF TypeOK
  <2>2. Total(OpenAt("CLOSE_TODAY")', Orders) <= brokerPos.td
    BY <1>2, <1>8, <2>1 DEF FreezeGood
  <2>3. Total(OpenAt("CLOSE_YESTERDAY")', Orders) <= brokerPos.yd
    BY <1>2, <1>8, <2>1 DEF FreezeGood
  <2> QED BY <1>1, <2>2, <2>3 DEF FreezeGood
<1>10. ReportsNamed'
  BY <1>1 DEF BooksInv, ReportsNamed, Says
<1> QED BY <1>2, <1>5, <1>6, <1>7, <1>9, <1>10 DEF BooksInv

LEMMA BooksAtNewDay ==
  ASSUME KernelAssumption, BooksInv, BrokerNewDay
  PROVE  BooksInv'
<1>1. /\ brokerDay < LastDay /\ \A o \in Orders : ~Working(o)
      /\ brokerDay' = brokerDay + 1
      /\ brokerPos' = [yd |-> brokerPos.yd + brokerPos.td, td |-> 0]
      /\ brokerState' = [o \in Orders |-> IF brokerState[o] = "sent" THEN "none" ELSE brokerState[o]]
      /\ UNCHANGED <<kernel, fault, tradeDay, reports, cancelReq, boundVars>>
  BY DEF BrokerNewDay
<1>2. TypeOK /\ TradesGood /\ DaysGood /\ KernelGood(kernel')
  BY <1>1 DEF BooksInv
<1>3. brokerDay \in Nat /\ LastDay \in Nat /\ brokerPos.yd \in Nat /\ brokerPos.td \in Nat
  BY <1>2 DEF TypeOK, Days, KernelAssumption
<1>4. \A o \in Orders : /\ brokerState'[o] = (IF brokerState[o] = "sent" THEN "none" ELSE brokerState[o])
                        /\ ~Working(o)' /\ TradedOf(o)' = TradedOf(o)
  BY <1>1 DEF Working, TradedOf
<1>5. TypeOK'
  BY <1>1, <1>2, <1>3 DEF TypeOK, Days, boundVars
<1>6. DaysGood'
  BY <1>1, <1>2, <1>3, <1>4 DEF DaysGood, KernelGood, Kernel, Days
<1>7. TradesGood'
  BY <1>1, <1>2, <1>4 DEF TradesGood
<1>8. ASSUME NEW offset PROVE Total(OpenAt(offset)', Orders) = 0
  <2>1. \A o \in Orders : OpenAt(offset)'[o] = 0
    BY <1>4 DEF OpenAt
  <2>2. IsFiniteSet(Orders)
    BY DEF KernelAssumption
  <2> QED BY <2>1, <2>2, TotalNothing
<1>9. FreezeGood'
  BY <1>1, <1>3, <1>8 DEF FreezeGood
<1>10. ReportsNamed'
  BY <1>1 DEF BooksInv, ReportsNamed
<1> QED BY <1>2, <1>5, <1>6, <1>7, <1>9, <1>10 DEF BooksInv
-------------------------------------------------------------------------------
(* The books always agree *)

LEMMA BooksStart == KernelAssumption /\ Init => BooksInv
<1> SUFFICES ASSUME KernelAssumption, Init PROVE BooksInv
  OBVIOUS
<1> DEFINE none == [status |-> "ABSENT", cum |-> 0, accounted |-> 0, linked |-> FALSE,
                    sysLinked |-> FALSE, cancelPending |-> FALSE]
           free(o) == [held |-> FALSE, offset |-> OffsetOf[o], yd |-> 0, td |-> 0, accounted |-> 0]
           pos == [yd |-> HeldYd, td |-> HeldTd, frozenYd |-> 0, frozenTd |-> 0]
           byDay == [d \in Days |-> CASE d = 0 -> HeldYd [] d = 1 -> HeldTd [] OTHER -> 0]
<1>1. /\ kernel = [day |-> 1, advancing |-> FALSE, priced |-> FALSE,
                   orders |-> [o \in Orders |-> none], reserved |-> [o \in Orders |-> free(o)],
                   funds |-> [o \in Orders |-> 0], pos |-> pos, lots |-> byDay, seen |-> {}, unlinked |-> {}]
      /\ fault = FALSE /\ brokerDay = 1 /\ brokerState = [o \in Orders |-> "none"]
      /\ brokerPos = [yd |-> HeldYd, td |-> HeldTd] /\ tradeDay = [t \in Trades |-> 0] /\ reports = {}
      /\ cancelReq = [o \in Orders |-> "none"] /\ crashes = 0 /\ cancels = 0
  BY DEF Init
<1>2. /\ IsFiniteSet(Orders) /\ HeldYd \in Nat /\ HeldTd \in Nat /\ LastDay \in Nat /\ LastDay >= 1
      /\ OffsetOf \in [Orders -> Offsets] /\ 0 \in Days /\ 1 \in Days
  BY DEF KernelAssumption, Days
<1>3. none \in Order /\ pos \in Position /\ byDay \in [Days -> Nat] /\ \A o \in Orders : free(o) \in Reservation
  BY <1>2 DEF Order, Position, Reservation, Statuses
<1>4. /\ none.status = "ABSENT" /\ ~none.linked /\ ~none.sysLinked
      /\ pos.yd = HeldYd /\ pos.td = HeldTd /\ pos.frozenYd = 0 /\ pos.frozenTd = 0
      /\ \A o \in Orders : ~free(o).held /\ free(o).yd = 0 /\ free(o).td = 0
      /\ byDay[0] = HeldYd /\ byDay[1] = HeldTd
      /\ \A d \in Days : d \in Nat /\ (d > 1 => byDay[d] = 0)
  BY <1>2 DEF Days
<1> HIDE DEF none, free, pos, byDay
<1>5. /\ kernel \in Kernel /\ kernel.day = 1 /\ kernel.pos = pos /\ kernel.lots = byDay /\ kernel.seen = {}
      /\ \A o \in Orders : kernel.orders[o] = none /\ kernel.reserved[o] = free(o)
  BY <1>1, <1>2, <1>3 DEF Kernel
<1>6. Sums(kernel)
  <2>1. FormerDays(kernel) = {} \union {0} /\ TodaysDays(kernel) = (2..LastDay) \union {1}
    BY <1>2, <1>5 DEF FormerDays, TodaysDays
  <2>2. \A o \in Orders : YdOf(kernel)[o] = 0 /\ TdOf(kernel)[o] = 0
    BY <1>4, <1>5 DEF YdOf, TdOf
  <2>3. Total(YdOf(kernel), Orders) = 0
    BY <1>2, <2>2, TotalNothing
  <2>4. Total(TdOf(kernel), Orders) = 0
    BY <1>2, <2>2, TotalNothing
  <2> DEFINE later == 2..LastDay
  <2>5. IsFiniteSet(later) /\ 1 \notin later /\ \A d \in later : byDay[d] = 0
    <3>1. 2 \in Int /\ LastDay \in Int
      BY <1>2
    <3>2. IsFiniteSet(2..LastDay)
      BY <3>1, FS_Interval
    <3> QED BY <1>2, <1>4, <3>2 DEF Days
  <2> HIDE DEF later
  <2>6. Total(byDay, later) = 0
    BY <2>5, TotalNothing
  <2>7. Total(byDay, later \union {1}) = byDay[1] + Total(byDay, later)
    <3>1. \A y \in later \union {1} : byDay[y] \in Int
      BY <1>2, <1>4, <2>5
    <3> QED BY <2>5, <3>1, TotalWith
  <2>8. Total(byDay, {} \union {0}) = byDay[0] + Total(byDay, {})
    <3>1. IsFiniteSet({}) /\ 0 \notin {} /\ \A y \in {} \union {0} : byDay[y] \in Int
      BY <1>2, <1>4, FS_EmptySet
    <3> QED BY <3>1, TotalWith
  <2>9. Total(byDay, {}) = 0
    BY TotalEmpty
  <2>10. kernel.pos.yd = Total(kernel.lots, FormerDays(kernel)) /\ kernel.pos.td = Total(kernel.lots, TodaysDays(kernel))
    BY <1>2, <1>4, <1>5, <2>1, <2>6, <2>7, <2>8, <2>9 DEF later
  <2> QED BY <1>2, <1>4, <1>5, <2>3, <2>4, <2>10 DEF Sums
<1>7. KernelGood(kernel)
  <2>1. Cardinality({}) = 0 /\ Opens({}) = 0
    <3>1. {t \in {} : OffsetOf[t[1]] = "OPEN"} = {}
      OBVIOUS
    <3> QED BY <3>1, FS_EmptySet DEF Opens
  <2> QED BY <1>2, <1>4, <1>5, <1>6, <2>1 DEF KernelGood, Unborn, Counted
<1>8. TypeOK
  BY <1>1, <1>2, <1>5 DEF TypeOK
<1>9. \A o \in Orders : TradedOf(o) = {} /\ ~Working(o) /\ brokerState[o] = "none"
  BY <1>1 DEF TradedOf, Working
<1>10. DaysGood
  BY <1>1, <1>5, <1>9 DEF DaysGood
<1>11. TradesGood
  <2>1. \A o \in Orders : 0 \in 0..Qty[o] /\ Row(o, 0) = {}
    BY DEF KernelAssumption, Row
  <2> QED BY <1>9, <2>1 DEF TradesGood
<1>12. FreezeGood
  <2>1. ASSUME NEW offset PROVE Total(OpenAt(offset), Orders) = 0
    <3>1. \A o \in Orders : OpenAt(offset)[o] = 0
      BY <1>9 DEF OpenAt
    <3> QED BY <1>2, <3>1, TotalNothing
  <2> QED BY <1>1, <1>2, <2>1 DEF FreezeGood
<1>13. ReportsNamed
  BY <1>1 DEF ReportsNamed
<1> QED BY <1>7, <1>8, <1>10, <1>11, <1>12, <1>13 DEF BooksInv

LEMMA BooksStep ==
  ASSUME KernelAssumption, BooksInv, [Next]_vars
  PROVE  BooksInv'
<1>1. /\ fault \in BOOLEAN /\ cancelReq \in [Orders -> {"none", "asked", "refused"}] /\ cancels \in Nat
  BY DEF BooksInv, TypeOK
<1>2. CASE UNCHANGED vars
  <2>1. /\ UNCHANGED <<kernel, brokerDay, brokerState, brokerPos, tradeDay, reports, crashes>>
        /\ fault' \in BOOLEAN /\ cancelReq' \in [Orders -> {"none", "asked", "refused"}] /\ cancels' \in Nat
    BY <1>1, <1>2 DEF vars, brokerVars, boundVars
  <2> QED BY <2>1, BooksUntouched
<1>3. ASSUME NEW o \in Orders, NEW outcome \in {"sent", "not_sent", "crashed"}, Dispatch(o, outcome) PROVE BooksInv'
  BY <1>3, BooksAtDispatch
<1>4. ASSUME NEW o \in Orders, NEW made \in BOOLEAN, Cancel(o, made) PROVE BooksInv'
  BY <1>4, BooksAtCancel
<1>5. ASSUME NEW o \in Orders, ReceiveCancelRefusal(o) \/ BrokerRefuseCancel(o) PROVE BooksInv'
  <2>1. /\ UNCHANGED <<kernel, brokerDay, brokerState, brokerPos, tradeDay, reports, crashes>>
        /\ fault' \in BOOLEAN /\ cancelReq' \in [Orders -> {"none", "asked", "refused"}] /\ cancels' \in Nat
    BY <1>1, <1>5 DEF ReceiveCancelRefusal, BrokerRefuseCancel, boundVars
  <2> QED BY <2>1, BooksUntouched
<1>6. ASSUME NEW r \in reports, ReceiveReport(r) PROVE BooksInv'
  BY <1>6, BooksAtReport
<1>7. ASSUME NEW t \in Trades, ReceiveTrade(t) PROVE BooksInv'
  BY <1>7, BooksAtTrade
<1>8. CASE SettlementPrice \/ AdvanceTradingDay
  BY <1>8, BooksAtDayEnd
<1>9. CASE Restart
  <2>1. /\ UNCHANGED <<kernel, brokerDay, brokerState, brokerPos, tradeDay, reports, crashes>>
        /\ fault' \in BOOLEAN /\ cancelReq' \in [Orders -> {"none", "asked", "refused"}] /\ cancels' \in Nat
    BY <1>1, <1>9 DEF Restart, brokerVars, boundVars
  <2> QED BY <2>1, BooksUntouched
<1>10. ASSUME NEW o \in Orders, BrokerReceive(o) PROVE BooksInv'
  BY <1>10, BooksAtReceive
<1>11. ASSUME NEW o \in Orders, BrokerTrade(o) PROVE BooksInv'
  BY <1>11, BooksAtBrokerTrade
<1>12. ASSUME NEW o \in Orders, BrokerCancel(o) PROVE BooksInv'
  BY <1>12, BooksAtBrokerCancel
<1>13. CASE BrokerNewDay
  BY <1>13, BooksAtNewDay
<1> QED BY <1>2, <1>3, <1>4, <1>5, <1>6, <1>7, <1>8, <1>9, <1>10, <1>11, <1>12, <1>13 DEF Next, Account, Broker

\* The sums of the model are the totals of the invariant.
LEMMA FrozenYdTotal ==
  ASSUME KernelAssumption
  PROVE  MapThenSumSet(LAMBDA o : kernel.reserved[o].yd, Orders) = Total(YdOf(kernel), Orders)
<1> DEFINE next(s) == CHOOSE x \in s : TRUE
           Is(t) == t = [s \in SUBSET Orders |-> IF s = {} THEN 0 ELSE kernel.reserved[next(s)].yd + t[s \ {next(s)}]]
           u == CHOOSE t : Is(t)
<1>1. IsFiniteSet(Orders)
  BY DEF KernelAssumption
<1>2. PICK t : Totals(t, YdOf(kernel), Orders)
  BY <1>1, TotalsExist
<1>3. ASSUME NEW s \in SUBSET Orders, s # {} PROVE kernel.reserved[next(s)].yd = YdOf(kernel)[next(s)]
  BY <1>3 DEF YdOf
<1>4. Is(t)
  BY <1>2, <1>3, SMTT(40) DEF Totals
<1>5. Is(u)
  BY <1>4, ZenonT(40)
<1>6. MapThenSumSet(LAMBDA o : kernel.reserved[o].yd, Orders) = u[Orders]
  BY DEF MapThenSumSet, MapThenFoldSet
<1> HIDE DEF u
<1>7. Totals(u, YdOf(kernel), Orders)
  <2>1. \A s \in SUBSET Orders : (IF s = {} THEN 0 ELSE kernel.reserved[next(s)].yd + u[s \ {next(s)}])
                                  = (IF s = {} THEN 0 ELSE YdOf(kernel)[next(s)] + u[s \ {next(s)}])
    BY <1>3
  <2>2. [s \in SUBSET Orders |-> IF s = {} THEN 0 ELSE kernel.reserved[next(s)].yd + u[s \ {next(s)}]]
        = [s \in SUBSET Orders |-> IF s = {} THEN 0 ELSE YdOf(kernel)[next(s)] + u[s \ {next(s)}]]
    BY <2>1
  <2> QED BY <1>5, <2>2 DEF Totals
<1> QED BY <1>1, <1>6, <1>7, TotalIs

LEMMA FrozenTdTotal ==
  ASSUME KernelAssumption
  PROVE  MapThenSumSet(LAMBDA o : kernel.reserved[o].td, Orders) = Total(TdOf(kernel), Orders)
<1> DEFINE next(s) == CHOOSE x \in s : TRUE
           Is(t) == t = [s \in SUBSET Orders |-> IF s = {} THEN 0 ELSE kernel.reserved[next(s)].td + t[s \ {next(s)}]]
           u == CHOOSE t : Is(t)
<1>1. IsFiniteSet(Orders)
  BY DEF KernelAssumption
<1>2. PICK t : Totals(t, TdOf(kernel), Orders)
  BY <1>1, TotalsExist
<1>3. ASSUME NEW s \in SUBSET Orders, s # {} PROVE kernel.reserved[next(s)].td = TdOf(kernel)[next(s)]
  BY <1>3 DEF TdOf
<1>4. Is(t)
  BY <1>2, <1>3, SMTT(40) DEF Totals
<1>5. Is(u)
  BY <1>4, ZenonT(40)
<1>6. MapThenSumSet(LAMBDA o : kernel.reserved[o].td, Orders) = u[Orders]
  BY DEF MapThenSumSet, MapThenFoldSet
<1> HIDE DEF u
<1>7. Totals(u, TdOf(kernel), Orders)
  <2>1. \A s \in SUBSET Orders : (IF s = {} THEN 0 ELSE kernel.reserved[next(s)].td + u[s \ {next(s)}])
                                  = (IF s = {} THEN 0 ELSE TdOf(kernel)[next(s)] + u[s \ {next(s)}])
    BY <1>3
  <2>2. [s \in SUBSET Orders |-> IF s = {} THEN 0 ELSE kernel.reserved[next(s)].td + u[s \ {next(s)}]]
        = [s \in SUBSET Orders |-> IF s = {} THEN 0 ELSE TdOf(kernel)[next(s)] + u[s \ {next(s)}]]
    BY <2>1
  <2> QED BY <1>5, <2>2 DEF Totals
<1> QED BY <1>1, <1>6, <1>7, TotalIs

LEMMA LotsTotal ==
  ASSUME KernelAssumption, NEW days \in SUBSET Days
  PROVE  LotsOf(kernel, days) = Total(kernel.lots, days)
<1> DEFINE S == days \intersect Days
           next(s) == CHOOSE x \in s : TRUE
           u == CHOOSE t : t = [s \in SUBSET S |-> IF s = {} THEN 0 ELSE kernel.lots[next(s)] + t[s \ {next(s)}]]
<1>1. S = days
  OBVIOUS
<1>2. IsFiniteSet(days)
  <2>1. IsFiniteSet(0..LastDay)
    BY FS_Interval DEF KernelAssumption
  <2> QED BY <2>1, FS_Subset DEF Days
<1>3. u = CHOOSE t : Totals(t, kernel.lots, S)
  BY DEF Totals
<1>4. LotsOf(kernel, days) = u[S]
  BY DEF LotsOf, MapThenSumSet, MapThenFoldSet
<1> HIDE DEF S, u
<1>5. u = CHOOSE t : Totals(t, kernel.lots, days)
  BY <1>1, <1>3
<1> QED BY <1>1, <1>4, <1>5 DEF Total

LEMMA BooksHold ==
  ASSUME KernelAssumption, BooksInv
  PROVE  BooksAgree
<1>1. TypeOK /\ KernelGood(kernel) /\ Sums(kernel) /\ kernel \in Kernel
  BY DEF BooksInv, KernelGood
<1>2. FrozenIsReserved
  BY <1>1, FrozenYdTotal, FrozenTdTotal DEF Sums, FrozenIsReserved
<1>3. LotsMatchBuckets
  <2>1. kernel.day \in Nat /\ kernel.day <= LastDay /\ LastDay \in Nat
    BY <1>1 DEF Kernel, Days, KernelAssumption
  <2>2. TodaysDays(kernel) \in SUBSET Days /\ FormerDays(kernel) \in SUBSET Days
    BY <2>1 DEF TodaysDays, FormerDays, Days
  <2>3. /\ LotsOf(kernel, TodaysDays(kernel)) = Total(kernel.lots, TodaysDays(kernel))
        /\ LotsOf(kernel, FormerDays(kernel)) = Total(kernel.lots, FormerDays(kernel))
    BY <2>2, LotsTotal
  <2> QED BY <1>1, <2>3 DEF Sums, LotsMatchBuckets
<1>4. PositionIsTrades
  BY <1>1 DEF KernelGood, Counted, PositionIsTrades
<1> QED BY <1>1, <1>2, <1>3, <1>4 DEF BooksAgree

\* After every fact: what is frozen is what the orders have reserved and is there,
\* today's and yesterday's lots are those of the ledger, and every trade seen is in
\* the position once (LiveAccountModel, PositionManager, AccountLedger).
THEOREM BooksAlwaysAgree == AccountSpec => []BooksAgree
<1> USE KernelAssumption
<1>1. AccountInit => BooksInv
  BY BooksStart DEF AccountInit
<1>2. BooksInv /\ [AccountNext]_accountVars => BooksInv'
  <2> SUFFICES ASSUME BooksInv, [AccountNext]_accountVars
               PROVE  BooksInv'
    OBVIOUS
  <2>1. CASE InKernel(Next)
    <3>1. [Next]_vars
      BY <2>1 DEF InKernel
    <3> QED BY <3>1, BooksStep
  <2>2. CASE UNCHANGED vars
    <3>1. [Next]_vars
      BY <2>2
    <3> QED BY <3>1, BooksStep
  <2>3. AccountNext => InKernel(Next) \/ UNCHANGED vars
    BY DEF AccountNext, InGate, InLedger, InDay, InPrograms, InControls
  <2>4. accountVars' = accountVars => UNCHANGED vars
    BY DEF accountVars
  <2> QED BY <2>1, <2>2, <2>3, <2>4
<1>3. BooksInv => BooksAgree
  BY BooksHold
<1> QED BY <1>1, <1>2, <1>3, PTL DEF AccountSpec

-------------------------------------------------------------------------------
(* What every order has: the account's word, its reservation, the broker's truth *)

Dead(b) == b \notin {"sent", "working"}
SeenOf(k, o) == {t \in k.seen : t[1] = o}
WaitersOf(k, o) == {t \in k.unlinked : t[1] = o}

\* x is the order, res its reservation, n its funds, b its state at the broker; it
\* traded T lots, the account has seen S of them, W of these without finding it.
OrderFits(o, x, res, n, b, T, S, W) ==
    /\ T \in Nat /\ S \in Nat /\ W \in Nat /\ S <= T /\ T <= Qty[o]
    /\ x.accounted + W = S /\ x.cum <= T
    /\ x.sysLinked => x.linked
    /\ x.accounted >= Qty[o] => x.status \in Terminal
    /\ x.status \in Terminal => Dead(b) /\ x.cum = T
    /\ x.status \in Terminal /\ ~x.linked => b = "none" /\ ~res.held /\ n = 0
    /\ o \in Resolved /\ x.linked => W = 0 /\ (res.held => res.accounted = S)
    /\ o \in Resolved /\ x.linked /\ x.status \in Terminal /\ T = S => ~res.held /\ n = 0
    /\ res.held => res.accounted <= S
    /\ x.status # "ABSENT" /\ ~res.held => Dead(b) /\ T = S
    /\ res.held /\ OffsetOf[o] # "OPEN" =>
          res.yd + res.td = Qty[o] - res.accounted \/ (Dead(b) /\ res.yd + res.td = T - res.accounted)

\* What is reserved lies in the bucket that the order's trades will take it from.
BucketsFit(o, res, day) ==
    res.held => /\ res.offset = OffsetOf[o] \/ (OffsetOf[o] = "CLOSE_TODAY" /\ res.offset = "CLOSE_YESTERDAY")
                /\ res.offset = "CLOSE_YESTERDAY" => res.td = 0
                /\ res.offset = "CLOSE_TODAY" => res.yd = 0 /\ \A t \in TradedOf(o) : tradeDay[t] >= day

AllFit(k) ==
    \A o \in Orders :
        /\ OrderFits(o, k.orders[o], k.reserved[o], k.funds[o], brokerState[o],
                     Cardinality(TradedOf(o)), Cardinality(SeenOf(k, o)), Cardinality(WaitersOf(k, o)))
        /\ BucketsFit(o, k.reserved[o], k.day)

SeenGood(k) == k.unlinked \subseteq k.seen /\ \A t \in k.seen : tradeDay[t] # 0

\* A report tells what the broker had traded; a final one all that it ever will.
ReportsTrue ==
    \A r \in reports :
        LET T == Cardinality(TradedOf(r.order)) IN
        /\ r.filled <= T
        /\ r.status \in {"CANCELLED", "REJECTED"} => Dead(brokerState[r.order]) /\ r.filled = T
        /\ r.status = "FILLED" => r.filled = T /\ T = Qty[r.order]
        /\ brokerState[r.order] \notin {"none", "sent"}

FitInv == BooksInv /\ AllFit(kernel) /\ SeenGood(kernel) /\ ReportsTrue
-------------------------------------------------------------------------------
(* One order: a report, a trade, and the broker's own steps *)

\* What ends a reservation: the order is told that no more than cum will trade.
Ends(o, res, res2, cum) ==
    LET keep == AtMost(Qty[o], AtLeast(res.accounted, cum)) - res.accounted IN
    /\ ~res.held => res2 = res
    /\ res.held /\ keep <= 0 => res2 = Unheld(o)
    /\ res.held /\ keep > 0 => /\ res2.held /\ res2.offset = res.offset /\ res2.accounted = res.accounted
                               /\ res2.yd + res2.td = AtMost(res.yd + res.td, keep)

LEMMA NumbersOfOrder ==
  ASSUME KernelAssumption, NEW o \in Orders, NEW x \in Order, NEW res \in Reservation
  PROVE  /\ x.cum \in Nat /\ x.accounted \in Nat /\ x.linked \in BOOLEAN /\ x.sysLinked \in BOOLEAN
         /\ res.held \in BOOLEAN /\ res.yd \in Nat /\ res.td \in Nat /\ res.accounted \in Nat
         /\ Qty[o] \in Nat /\ Qty[o] >= 1 /\ ~Unheld(o).held
BY DEF Order, Reservation, KernelAssumption, Unheld

\* The order is told its last word, T; its reservation keeps what is still to come.
LEMMA EndsFit ==
  ASSUME KernelAssumption, NEW o \in Orders, NEW res \in Reservation, NEW res2 \in Reservation,
         NEW T \in Nat, NEW S \in Nat, S <= T, T <= Qty[o], Ends(o, res, res2, T),
         res.held => res.accounted <= S,
         ~res.held => T = S,
         res.held /\ OffsetOf[o] # "OPEN" =>
             res.yd + res.td = Qty[o] - res.accounted \/ res.yd + res.td = T - res.accounted
  PROVE  /\ res2.held => res.held /\ res2.accounted = res.accounted
         /\ ~res2.held => T = S
         /\ res2.held /\ OffsetOf[o] # "OPEN" => res2.yd + res2.td = T - res2.accounted
         /\ res.held /\ res.accounted = T => ~res2.held
<1> DEFINE keep == AtMost(Qty[o], AtLeast(res.accounted, T)) - res.accounted
<1>1. /\ res.held \in BOOLEAN /\ res.yd \in Nat /\ res.td \in Nat /\ res.accounted \in Nat
      /\ Qty[o] \in Nat /\ ~Unheld(o).held
  BY DEF Reservation, KernelAssumption, Unheld
<1>2. CASE ~res.held
  BY <1>2 DEF Ends
<1>3. CASE res.held
  <2>1. keep = T - res.accounted
    BY <1>1, <1>3 DEF AtMost, AtLeast
  <2>2. CASE keep <= 0
    <3>1. res2 = Unheld(o) /\ T = S /\ ~res2.held
      BY <1>1, <1>3, <2>1, <2>2 DEF Ends
    <3> QED BY <3>1
  <2>3. CASE keep > 0
    <3>1. res2.held /\ res2.accounted = res.accounted /\ res2.yd + res2.td = AtMost(res.yd + res.td, keep)
      BY <1>3, <2>3 DEF Ends
    <3> HIDE DEF keep
    <3> QED BY <1>1, <1>3, <2>1, <2>3, <3>1 DEF AtMost
  <2>4. keep \in Int
    BY <1>1, <2>1
  <2> QED BY <2>2, <2>3, <2>4
<1> QED BY <1>1, <1>2, <1>3

LEMMA FitsAtReport ==
  ASSUME KernelAssumption, NEW o \in Orders, NEW x \in Order, NEW x2 \in Order,
         NEW res \in Reservation, NEW res2 \in Reservation, NEW n, NEW n2, NEW b,
         NEW T, NEW S, NEW W, NEW W2, NEW m \in Nat, NEW status \in Statuses, NEW filled \in Nat,
         OrderFits(o, x, res, n, b, T, S, W), x.linked, x.status # "ABSENT", status # "ABSENT",
         ~Dead(b) => T < Qty[o], filled <= T,
         status \in {"CANCELLED", "REJECTED"} => Dead(b) /\ filled = T,
         status = "FILLED" => filled = T /\ T = Qty[o],
         (m = 0 /\ W2 = W) \/ (m = W /\ W2 = 0),
         x2.linked, x2.accounted = x.accounted + m,
         x2.cum = IF m = 0 THEN AtLeast(x.cum, AtMost(filled, Qty[o]))
                  ELSE AtLeast(AtLeast(x.cum, AtMost(filled, Qty[o])), x.accounted + m),
         LET first == IF x.status \in Terminal THEN x.status ELSE status IN
         x2.status = IF m # 0 /\ first \notin Terminal /\ x2.cum >= Qty[o] THEN "FILLED" ELSE first,
         status \notin {"CANCELLED", "REJECTED"} => res2 = res /\ n2 = n,
         status \in {"CANCELLED", "REJECTED"} => Ends(o, res, res2, x2.cum),
         status \in {"CANCELLED", "REJECTED"} /\ x2.cum <= x2.accounted => n2 = 0
  PROVE  OrderFits(o, x2, res2, n2, b, T, S, W2)
<1>1. /\ x.cum \in Nat /\ x.accounted \in Nat /\ x2.cum \in Nat /\ x2.accounted \in Nat
      /\ res.held \in BOOLEAN /\ res.yd \in Nat /\ res.td \in Nat /\ res.accounted \in Nat
      /\ Qty[o] \in Nat /\ Qty[o] >= 1
  BY NumbersOfOrder
<1>2. /\ T \in Nat /\ S \in Nat /\ W \in Nat /\ S <= T /\ T <= Qty[o]
      /\ x.accounted + W = S /\ x.cum <= T
      /\ x.accounted >= Qty[o] => x.status \in Terminal
      /\ x.status \in Terminal => Dead(b) /\ x.cum = T
      /\ o \in Resolved => W = 0 /\ (res.held => res.accounted = S)
      /\ o \in Resolved /\ x.status \in Terminal /\ T = S => ~res.held /\ n = 0
      /\ res.held => res.accounted <= S
      /\ ~res.held => Dead(b) /\ T = S
      /\ res.held /\ OffsetOf[o] # "OPEN" =>
            res.yd + res.td = Qty[o] - res.accounted \/ (Dead(b) /\ res.yd + res.td = T - res.accounted)
  BY DEF OrderFits
<1>3. W2 \in Nat /\ x2.accounted + W2 = S /\ (o \in Resolved => W2 = 0 /\ m = 0)
  BY <1>1, <1>2
<1>4. x2.cum <= T /\ x2.cum >= x.cum /\ x2.cum >= filled
  BY <1>1, <1>2 DEF AtLeast, AtMost
<1>5. x2.status \in Terminal => Dead(b) /\ x2.cum = T
  <2>1. CASE x.status \in Terminal
    BY <1>1, <1>2, <1>4, <2>1
  <2>2. CASE x.status \notin Terminal /\ status \in Terminal
    BY <1>1, <1>2, <1>4, <2>2 DEF Terminal
  <2>3. CASE x.status \notin Terminal /\ status \notin Terminal
    BY <1>1, <1>2, <1>4, <2>3
  <2> QED BY <2>1, <2>2, <2>3
<1>6. x2.accounted >= Qty[o] => x2.status \in Terminal
  <2>1. CASE m = 0
    BY <1>1, <1>2, <2>1
  <2>2. CASE m # 0
    <3>1. x2.cum >= x2.accounted
      BY <1>1, <2>2 DEF AtLeast
    <3>2. "FILLED" \in Terminal
      BY DEF Terminal
    <3> QED BY <1>1, <2>2, <3>1, <3>2
  <2> QED BY <2>1, <2>2
<1>7. x2.status # "ABSENT"
  BY DEF Terminal
<1>8. CASE status \notin {"CANCELLED", "REJECTED"}
  <2>1. res2 = res /\ n2 = n
    BY <1>8
  <2>2. o \in Resolved /\ x2.status \in Terminal /\ T = S => ~res.held /\ n = 0
    <3>1. o \in Resolved /\ x2.status \in Terminal /\ T = S /\ x.status \notin Terminal => FALSE
      <4> SUFFICES ASSUME o \in Resolved, x2.status \in Terminal, T = S, x.status \notin Terminal PROVE FALSE
        OBVIOUS
      <4>1. status = "FILLED"
        BY <1>3, <1>8 DEF Terminal
      <4> QED BY <1>1, <1>2, <4>1
    <3> QED BY <1>2, <3>1
  <2> QED BY <1>2, <1>3, <1>4, <1>5, <1>6, <2>1, <2>2 DEF OrderFits
<1>9. CASE status \in {"CANCELLED", "REJECTED"}
  <2>1. status \in Terminal /\ Dead(b)
    BY <1>9 DEF Terminal
  <2>2. x2.status \in Terminal /\ x2.cum = T
    BY <1>5, <2>1
  <2>3. Ends(o, res, res2, T)
    BY <1>9, <2>2
  <2>4. /\ res2.held => res.held /\ res2.accounted = res.accounted
        /\ ~res2.held => T = S
        /\ res2.held /\ OffsetOf[o] # "OPEN" => res2.yd + res2.td = T - res2.accounted
        /\ res.held /\ res.accounted = T => ~res2.held
    BY <1>2, <2>3, EndsFit
  <2>5. o \in Resolved /\ T = S => ~res2.held /\ n2 = 0
    BY <1>1, <1>2, <1>3, <1>9, <2>2, <2>4
  <2> QED BY <1>2, <1>3, <1>4, <1>5, <1>6, <2>1, <2>4, <2>5 DEF OrderFits
<1> QED BY <1>8, <1>9

\* A trade that is told to its order and taken from its reservation.
LEMMA FitsAtTrade ==
  ASSUME KernelAssumption, NEW o \in Orders, NEW x \in Order, NEW x2 \in Order,
         NEW res \in Reservation, NEW mid \in Reservation, NEW res2 \in Reservation, NEW n, NEW n2, NEW b,
         NEW T, NEW S, NEW W,
         OrderFits(o, x, res, n, b, T, S, W), x.linked, x.status # "ABSENT", S < T, ~Dead(b) => T < Qty[o],
         x2.linked, x2.accounted = x.accounted + 1, x2.cum = AtLeast(x.cum, x.accounted + 1),
         x2.status = IF x.status \notin Terminal /\ x2.cum >= Qty[o] THEN "FILLED" ELSE x.status,
         OffsetOf[o] # "OPEN" /\ mid.held => mid.yd + mid.td = res.yd + res.td - 1,
         ~mid.held => res.accounted + 1 >= Qty[o],
         mid.held => mid.accounted = res.accounted + 1,
         ~(x2.status \in Terminal /\ x2.cum <= x2.accounted) => res2 = mid,
         x2.status \in Terminal /\ x2.cum <= x2.accounted => n2 = 0 /\ Ends(o, mid, res2, x2.cum)
  PROVE  OrderFits(o, x2, res2, n2, b, T, S + 1, W)
<1>1. /\ x.cum \in Nat /\ x.accounted \in Nat /\ x2.cum \in Nat /\ x2.accounted \in Nat
      /\ res.held \in BOOLEAN /\ res.yd \in Nat /\ res.td \in Nat /\ res.accounted \in Nat
      /\ mid.held \in BOOLEAN /\ mid.yd \in Nat /\ mid.td \in Nat /\ mid.accounted \in Nat
      /\ Qty[o] \in Nat /\ Qty[o] >= 1
  BY NumbersOfOrder
<1>2. /\ T \in Nat /\ S \in Nat /\ W \in Nat /\ S <= T /\ T <= Qty[o]
      /\ x.accounted + W = S /\ x.cum <= T
      /\ x.accounted >= Qty[o] => x.status \in Terminal
      /\ x.status \in Terminal => Dead(b) /\ x.cum = T
      /\ o \in Resolved => W = 0 /\ (res.held => res.accounted = S)
      /\ res.held => res.accounted <= S
      /\ res.held
      /\ OffsetOf[o] # "OPEN" =>
            res.yd + res.td = Qty[o] - res.accounted \/ (Dead(b) /\ res.yd + res.td = T - res.accounted)
  BY DEF OrderFits
<1>3. x2.cum <= T /\ x2.cum >= x.cum /\ x2.cum >= x2.accounted
  BY <1>1, <1>2 DEF AtLeast
<1>4. x2.status \in Terminal => Dead(b) /\ x2.cum = T
  BY <1>1, <1>2, <1>3
<1>5. x2.accounted >= Qty[o] => x2.status \in Terminal
  BY <1>1, <1>2, <1>3 DEF Terminal
<1>6. /\ S + 1 \in Nat /\ S + 1 <= T /\ x2.accounted + W = S + 1
      /\ mid.held => mid.accounted <= S + 1 /\ (o \in Resolved => mid.accounted = S + 1)
  BY <1>1, <1>2
<1>7. ~mid.held => Dead(b) /\ T = S + 1
  BY <1>1, <1>2
<1>8. mid.held /\ OffsetOf[o] # "OPEN" =>
         mid.yd + mid.td = Qty[o] - mid.accounted \/ (Dead(b) /\ mid.yd + mid.td = T - mid.accounted)
  BY <1>1, <1>2
<1>9. CASE ~(x2.status \in Terminal /\ x2.cum <= x2.accounted)
  <2>1. res2 = mid
    BY <1>9
  <2>2. o \in Resolved /\ x2.status \in Terminal => T # S + 1
    BY <1>1, <1>2, <1>4, <1>6, <1>9
  <2> QED BY <1>2, <1>3, <1>4, <1>5, <1>6, <1>7, <1>8, <2>1, <2>2 DEF OrderFits
<1>10. CASE x2.status \in Terminal /\ x2.cum <= x2.accounted
  <2>1. n2 = 0 /\ Ends(o, mid, res2, T) /\ Dead(b)
    BY <1>4, <1>10
  <2>2. /\ res2.held => mid.held /\ res2.accounted = mid.accounted
        /\ ~res2.held => T = S + 1
        /\ res2.held /\ OffsetOf[o] # "OPEN" => res2.yd + res2.td = T - res2.accounted
        /\ mid.held /\ mid.accounted = T => ~res2.held
    BY <1>2, <1>6, <1>7, <1>8, <2>1, EndsFit
  <2>3. o \in Resolved /\ T = S + 1 => ~res2.held
    BY <1>6, <2>2
  <2> QED BY <1>2, <1>3, <1>4, <1>5, <1>6, <2>1, <2>2, <2>3 DEF OrderFits
<1> QED BY <1>9, <1>10

\* A trade that waits for its order: the reservation is not touched.
LEMMA FitsAtStray ==
  ASSUME KernelAssumption, NEW o \in Orders, NEW x \in Order, NEW res \in Reservation, NEW n, NEW n2, NEW b,
         NEW T, NEW S, NEW W,
         OrderFits(o, x, res, n, b, T, S, W), x.status # "ABSENT", S < T, b # "none",
         ~(o \in Resolved /\ x.linked)
  PROVE  OrderFits(o, x, res, n2, b, T, S + 1, W + 1)
<1>1. x.cum \in Nat /\ x.accounted \in Nat /\ res.accounted \in Nat
  BY NumbersOfOrder
<1>2. /\ T \in Nat /\ S \in Nat /\ W \in Nat /\ x.accounted + W = S
      /\ res.held /\ res.accounted <= S
      /\ x.status \in Terminal => x.linked
  BY DEF OrderFits
<1>3. /\ S + 1 \in Nat /\ W + 1 \in Nat /\ S + 1 <= T /\ x.accounted + (W + 1) = S + 1 /\ res.accounted <= S + 1
  BY <1>1, <1>2
<1> QED BY <1>1, <1>2, <1>3 DEF OrderFits

\* While the broker may still take lots, it may take them, and end.
LEMMA FitsWhileAlive ==
  ASSUME KernelAssumption, NEW o \in Orders, NEW x \in Order, NEW res \in Reservation, NEW n, NEW b, NEW b2,
         NEW T, NEW T2, NEW S, NEW W,
         OrderFits(o, x, res, n, b, T, S, W), x.status # "ABSENT", ~Dead(b),
         T2 \in Nat, T <= T2, T2 <= Qty[o]
  PROVE  OrderFits(o, x, res, n, b2, T2, S, W)
<1>1. x.cum \in Nat
  BY NumbersOfOrder
<1>2. /\ T \in Nat /\ S \in Nat /\ S <= T /\ x.cum <= T /\ x.status \notin Terminal /\ res.held
      /\ OffsetOf[o] # "OPEN" => res.yd + res.td = Qty[o] - res.accounted
  BY DEF OrderFits
<1>3. S <= T2 /\ x.cum <= T2
  BY <1>1, <1>2
<1> QED BY <1>2, <1>3 DEF OrderFits

-------------------------------------------------------------------------------
(* One fact: the trades seen, and what the account makes of it *)

LEMMA SeenNumbers ==
  ASSUME KernelAssumption, TradesGood, NEW k \in Kernel, SeenGood(k), NEW o \in Orders
  PROVE  /\ WaitersOf(k, o) \subseteq SeenOf(k, o) /\ SeenOf(k, o) \subseteq TradedOf(o)
         /\ IsFiniteSet(TradedOf(o)) /\ IsFiniteSet(SeenOf(k, o)) /\ IsFiniteSet(WaitersOf(k, o))
         /\ Cardinality(SeenOf(k, o)) \in Nat /\ Cardinality(WaitersOf(k, o)) \in Nat
         /\ Cardinality(TradedOf(o)) \in Nat /\ Cardinality(SeenOf(k, o)) <= Cardinality(TradedOf(o))
<1>1. IsFiniteSet(TradedOf(o)) /\ Cardinality(TradedOf(o)) \in Nat
  BY TradesNumbered
<1>2. k.seen \subseteq Trades /\ k.unlinked \subseteq Trades
  BY DEF Kernel
<1>3. WaitersOf(k, o) \subseteq SeenOf(k, o) /\ SeenOf(k, o) \subseteq TradedOf(o)
  BY <1>2 DEF WaitersOf, SeenOf, TradedOf, SeenGood
<1>4. IsFiniteSet(SeenOf(k, o)) /\ IsFiniteSet(WaitersOf(k, o))
  BY <1>1, <1>3, FS_Subset
<1>5. Cardinality(SeenOf(k, o)) <= Cardinality(TradedOf(o))
  BY <1>1, <1>3, FS_Subset
<1> QED BY <1>1, <1>3, <1>4, <1>5, FS_CardinalityType

\* A trade that was not seen is one that is still to come.
LEMMA UnseenLeft ==
  ASSUME KernelAssumption, TradesGood, NEW k \in Kernel, SeenGood(k), NEW o \in Orders,
         NEW t \in TradedOf(o), t \notin k.seen
  PROVE  Cardinality(SeenOf(k, o)) < Cardinality(TradedOf(o))
<1>1. SeenOf(k, o) \subseteq TradedOf(o) /\ IsFiniteSet(TradedOf(o)) /\ t \notin SeenOf(k, o)
      /\ Cardinality(SeenOf(k, o)) \in Nat /\ Cardinality(TradedOf(o)) \in Nat
  BY SeenNumbers DEF SeenOf
<1>2. Cardinality(SeenOf(k, o)) <= Cardinality(TradedOf(o))
      /\ (Cardinality(TradedOf(o)) = Cardinality(SeenOf(k, o)) => SeenOf(k, o) = TradedOf(o))
  BY <1>1, FS_Subset
<1> QED BY <1>1, <1>2

\* An order to which nothing happens fits as it did.
LEMMA OthersFit ==
  ASSUME NEW k, AllFit(k), NEW k2, NEW o \in Orders, Apart(k, k2, o),
         \A p \in Orders : p # o => SeenOf(k2, p) = SeenOf(k, p) /\ WaitersOf(k2, p) = WaitersOf(k, p),
         OrderFits(o, k2.orders[o], k2.reserved[o], k2.funds[o], brokerState[o], Cardinality(TradedOf(o)),
                   Cardinality(SeenOf(k2, o)), Cardinality(WaitersOf(k2, o))),
         BucketsFit(o, k2.reserved[o], k2.day)
  PROVE  AllFit(k2)
<1> SUFFICES ASSUME NEW p \in Orders, p # o
             PROVE  /\ OrderFits(p, k2.orders[p], k2.reserved[p], k2.funds[p], brokerState[p],
                                 Cardinality(TradedOf(p)), Cardinality(SeenOf(k2, p)), Cardinality(WaitersOf(k2, p)))
                    /\ BucketsFit(p, k2.reserved[p], k2.day)
  BY DEF AllFit
<1>1. /\ k2.orders[p] = k.orders[p] /\ k2.reserved[p] = k.reserved[p] /\ k2.funds[p] = k.funds[p]
      /\ k2.day = k.day
  BY DEF Apart
<1>2. SeenOf(k2, p) = SeenOf(k, p) /\ WaitersOf(k2, p) = WaitersOf(k, p)
  OBVIOUS
<1>3. /\ OrderFits(p, k.orders[p], k.reserved[p], k.funds[p], brokerState[p],
                   Cardinality(TradedOf(p)), Cardinality(SeenOf(k, p)), Cardinality(WaitersOf(k, p)))
      /\ BucketsFit(p, k.reserved[p], k.day)
  BY DEF AllFit
<1> QED BY <1>1, <1>2, <1>3

LEMMA ReportFits ==
  ASSUME KernelAssumption, TradesGood, NEW k, KernelGood(k), AllFit(k), SeenGood(k), NEW r \in Report,
         r.status # "ABSENT", r.filled <= Cardinality(TradedOf(r.order)),
         r.status \in {"CANCELLED", "REJECTED"} =>
             Dead(brokerState[r.order]) /\ r.filled = Cardinality(TradedOf(r.order)),
         r.status = "FILLED" => r.filled = Cardinality(TradedOf(r.order)) /\ Cardinality(TradedOf(r.order)) = Qty[r.order],
         brokerState[r.order] \notin {"none", "sent"}
  PROVE  AllFit(ApplyReport(k, r)) /\ SeenGood(ApplyReport(k, r))
<1> DEFINE k2 == ApplyReport(k, r)
           l == Told(k, r)
           o == r.order
           mine == Freed(k, r)
           x == k.orders[o]
           x2 == l.orders[o]
           res == k.reserved[o]
           res2 == k2.reserved[o]
           b == brokerState[o]
           T == Cardinality(TradedOf(o))
           S == Cardinality(SeenOf(k, o))
           W == Cardinality(WaitersOf(k, o))
           W2 == Cardinality(WaitersOf(k2, o))
           m == Cardinality(mine)
<1>1. /\ k \in Kernel /\ Sums(k) /\ o \in Orders /\ r.status \in Statuses /\ r.filled \in Nat
      /\ x \in Order /\ res \in Reservation
      /\ OrderFits(o, x, res, k.funds[o], b, T, S, W) /\ BucketsFit(o, res, k.day)
  BY DEF KernelGood, Report, Kernel, AllFit
<1>2. CASE ~Finds(k, o, TRUE, r.sys)
  <2>1. k2 = k
    BY <1>2 DEF ApplyReport
  <2> QED BY <2>1
<1>3. CASE Finds(k, o, TRUE, r.sys)
  <2>1. x.linked /\ x.status # "ABSENT"
    <3>1. x.linked
      BY <1>1, <1>3 DEF Finds, OrderFits
    <3> QED BY <1>1, <3>1 DEF KernelGood, Unborn
  <2>2. LET word == AtLeast(x.cum, AtMost(r.filled, Qty[o]))
            accounted == x.accounted + m
            first == IF IsTerminal(k, o) THEN x.status ELSE r.status IN
         /\ l \in Kernel /\ l.seen = k.seen /\ l.unlinked = k.unlinked \ mine
         /\ l.pos = k.pos /\ l.reserved = k.reserved /\ l.funds = k.funds
         /\ m \in Nat
         /\ x2.linked
         /\ x2.accounted = accounted
         /\ x2.cum = IF mine = {} THEN word ELSE AtLeast(word, accounted)
         /\ x2.status = IF mine # {} /\ first \notin Terminal /\ x2.cum >= Qty[o] THEN "FILLED" ELSE first
    BY <1>1, ReportTold
  <2>3. LET keep == AtMost(Qty[o], AtLeast(res.accounted, x2.cum)) - res.accounted IN
         /\ k2 \in Kernel /\ Apart(k, k2, o)
         /\ k2.seen = k.seen /\ k2.unlinked = l.unlinked /\ k2.orders = l.orders
         /\ r.status \notin {"CANCELLED", "REJECTED"} => res2 = res /\ k2.funds = k.funds
         /\ r.status \in {"CANCELLED", "REJECTED"} =>
               /\ ~res.held => res2 = res
               /\ res.held /\ keep <= 0 => res2 = Unheld(o)
               /\ res.held /\ keep > 0 => /\ res2.held /\ res2.offset = res.offset /\ res2.accounted = res.accounted
                                          /\ res2.yd + res2.td = AtMost(res.yd + res.td, keep)
                                          /\ res2.yd <= res.yd /\ res2.td <= res.td
               /\ x2.cum <= x2.accounted \/ k.funds[o] = 0 => k2.funds[o] = 0
    BY <1>1, <1>3, ReportApplied
  <2>4. x2 \in Order /\ res2 \in Reservation
    BY <1>1, <2>2, <2>3 DEF Kernel
  <2>5. mine \subseteq WaitersOf(k, o) /\ (mine = {} \/ mine = WaitersOf(k, o)) /\ IsFiniteSet(mine) /\ W \in Nat
    <3>1. mine \subseteq WaitersOf(k, o) /\ (mine = {} \/ mine = WaitersOf(k, o))
      BY DEF Freed, WaitersOf
    <3>2. IsFiniteSet(WaitersOf(k, o)) /\ W \in Nat
      BY <1>1, SeenNumbers
    <3> QED BY <3>1, <3>2, FS_Subset
  <2>6. WaitersOf(k2, o) = WaitersOf(k, o) \ mine /\ SeenOf(k2, o) = SeenOf(k, o)
        /\ \A p \in Orders : p # o => SeenOf(k2, p) = SeenOf(k, p) /\ WaitersOf(k2, p) = WaitersOf(k, p)
    BY <2>2, <2>3, <2>5 DEF WaitersOf, SeenOf
  <2>7. (m = 0 <=> mine = {}) /\ ((m = 0 /\ W2 = W) \/ (m = W /\ W2 = 0))
    <3>1. m = 0 <=> mine = {}
      BY <2>5, FS_EmptySet
    <3>2. CASE mine = {}
      <4>1. WaitersOf(k2, o) = WaitersOf(k, o)
        BY <2>6, <3>2
      <4> QED BY <3>1, <3>2, <4>1
    <3>3. CASE mine = WaitersOf(k, o)
      <4>1. WaitersOf(k2, o) = {}
        BY <2>6, <3>3
      <4>2. W2 = 0
        BY <4>1, FS_EmptySet
      <4> QED BY <3>1, <3>3, <4>2
    <3> QED BY <2>5, <3>2, <3>3
  <2>8. ~Dead(b) => T < Qty[o]
    BY <1>1, TradesNumbered DEF Dead, Working
  <2>9. SeenGood(k2)
    BY <2>2, <2>3 DEF SeenGood
  <2>10. BucketsFit(o, res2, k2.day)
    <3>1. res2 = res \/ ~res2.held \/ (/\ res.held /\ res2.offset = res.offset
                                      /\ res2.yd <= res.yd /\ res2.td <= res.td)
      <4>1. ~Unheld(o).held
        BY DEF Unheld
      <4>2. res.held \in BOOLEAN /\ AtMost(Qty[o], AtLeast(res.accounted, x2.cum)) - res.accounted \in Int
        <5>1. x2.cum \in Nat /\ res.accounted \in Nat /\ Qty[o] \in Nat /\ res.held \in BOOLEAN
          BY <1>1, <2>4, NumbersOfOrder
        <5> QED BY <5>1 DEF AtMost, AtLeast
      <4> QED BY <2>3, <4>1, <4>2
    <3>2. k2.day = k.day
      BY <2>3 DEF Apart
    <3>3. res.yd \in Nat /\ res.td \in Nat /\ res2.yd \in Nat /\ res2.td \in Nat
      BY <1>1, <2>4 DEF Reservation
    <3> HIDE DEF res2, res, k2
    <3> QED BY <1>1, <3>1, <3>2, <3>3 DEF BucketsFit
  <2>11. x2.cum = IF m = 0 THEN AtLeast(x.cum, AtMost(r.filled, Qty[o]))
                  ELSE AtLeast(AtLeast(x.cum, AtMost(r.filled, Qty[o])), x.accounted + m)
    BY <2>2, <2>7
  <2>12. LET first == IF x.status \in Terminal THEN x.status ELSE r.status IN
         x2.status = IF m # 0 /\ first \notin Terminal /\ x2.cum >= Qty[o] THEN "FILLED" ELSE first
    BY <2>2, <2>7 DEF IsTerminal
  <2>13. r.status \in {"CANCELLED", "REJECTED"} => Ends(o, res, res2, x2.cum)
    BY <2>3 DEF Ends
  <2>14. OrderFits(o, x2, res2, k2.funds[o], b, T, S, W2)
    <3>1. /\ r.status \notin {"CANCELLED", "REJECTED"} => res2 = res /\ k2.funds[o] = k.funds[o]
          /\ r.status \in {"CANCELLED", "REJECTED"} /\ x2.cum <= x2.accounted => k2.funds[o] = 0
          /\ x2.linked /\ x2.accounted = x.accounted + m /\ m \in Nat
      BY <2>2, <2>3
    <3> HIDE DEF k2, l, mine, x, x2, res, res2, b, T, S, W, W2, m
    <3> QED BY <1>1, <2>1, <2>4, <2>7, <2>8, <2>11, <2>12, <2>13, <3>1, FitsAtReport DEF b, T
  <2>15. k2.orders[o] = x2 /\ Apart(k, k2, o)
    BY <2>3
  <2>16. OrderFits(o, k2.orders[o], k2.reserved[o], k2.funds[o], brokerState[o], Cardinality(TradedOf(o)),
                   Cardinality(SeenOf(k2, o)), Cardinality(WaitersOf(k2, o)))
    <3> HIDE DEF k2, x2, o
    <3> QED BY <2>6, <2>14, <2>15
  <2> HIDE DEF k2, o
  <2> QED BY <1>1, <2>6, <2>9, <2>10, <2>15, <2>16, OthersFit DEF k2
<1> QED BY <1>2, <1>3

\* A trade that was not seen and whose order is found takes one reserved lot, of the
\* bucket it is booked in, and can be booked.
LEMMA TradeConsumes ==
  ASSUME KernelAssumption, NEW k \in Kernel, Sums(k), NEW o \in Orders, NEW d \in Days, d <= k.day,
         k.reserved[o].held, OffsetOf[o] # "OPEN", BucketsFit(o, k.reserved[o], k.day),
         k.reserved[o].offset = "CLOSE_TODAY" => d >= k.day,
         k.reserved[o].yd + k.reserved[o].td >= 1
  PROVE  LET offset == EffectiveOffset(k, o, TRUE, d)
             used == Consumed(k, o, TRUE, offset) IN
         used.yd + used.td = 1 /\ Bookable(k, o, TRUE, d)
<1> DEFINE offset == EffectiveOffset(k, o, TRUE, d)
           used == Consumed(k, o, TRUE, offset)
           res == k.reserved[o]
<1>1. /\ res.yd \in Nat /\ res.td \in Nat /\ res.offset \in Offsets
      /\ k.pos.yd \in Nat /\ k.pos.td \in Nat /\ k.pos.frozenYd \in Nat /\ k.pos.frozenTd \in Nat
      /\ k.day \in Nat /\ d \in Nat /\ k.lots \in [Days -> Nat]
      /\ OffsetOf[o] \in {"CLOSE_TODAY", "CLOSE_YESTERDAY"}
  <2>1. k.day \in Days
    BY Numbers
  <2>2. \A m \in Days : m \in Nat
    BY DEF Days
  <2>3. OffsetOf[o] \in Offsets
    BY DEF KernelAssumption
  <2>4. OffsetOf[o] \in {"CLOSE_TODAY", "CLOSE_YESTERDAY"}
    BY <2>3 DEF Offsets
  <2>5. /\ res.yd \in Nat /\ res.td \in Nat /\ res.offset \in Offsets
        /\ k.pos.yd \in Nat /\ k.pos.td \in Nat /\ k.pos.frozenYd \in Nat /\ k.pos.frozenTd \in Nat
        /\ k.lots \in [Days -> Nat]
    BY Numbers
  <2> QED BY <2>1, <2>2, <2>4, <2>5
<1>2. res.yd <= k.pos.frozenYd /\ res.td <= k.pos.frozenTd
  BY WithinFreeze
<1>3. /\ k.pos.frozenYd <= k.pos.yd /\ k.pos.frozenTd <= k.pos.td
      /\ k.pos.yd = Total(k.lots, FormerDays(k)) /\ k.pos.td = Total(k.lots, TodaysDays(k))
  BY DEF Sums
<1>4. /\ IsFiniteSet(FormerDays(k)) /\ IsFiniteSet(TodaysDays(k))
      /\ FormerDays(k) \subseteq Days /\ TodaysDays(k) \subseteq Days
  BY DaysFinite
<1>5. CASE res.offset = "CLOSE_YESTERDAY"
  <2>1. offset = "CLOSE_YESTERDAY"
    BY <1>1, <1>5 DEF EffectiveOffset, BucketsFit
  <2>2. res.td = 0 /\ res.yd >= 1
    BY <1>1, <1>5 DEF BucketsFit
  <2>3. used.yd = 1 /\ used.td = 0
    BY <1>1, <2>1, <2>2 DEF Consumed, AtMost
  <2> HIDE DEF offset, used
  <2>4. Candidates(k, offset) # {}
    <3> SUFFICES ASSUME Candidates(k, offset) = {} PROVE FALSE
      OBVIOUS
    <3>1. ASSUME NEW e \in FormerDays(k) PROVE k.lots[e] = 0
      <4>1. ~(k.lots[e] > 0)
        BY <1>4, <2>1 DEF Candidates
      <4>2. k.lots[e] \in Nat
        BY <1>1, <1>4
      <4> QED BY <4>1, <4>2
    <3>2. k.pos.yd = 0
      BY <1>3, <1>4, <3>1, TotalNothing
    <3> QED BY <1>1, <1>2, <1>3, <2>2, <3>2
  <2>5. k.pos.yd >= 1 /\ 1 - used.yd <= FreeYd(k)
    <3>1. k.pos.yd - k.pos.frozenYd >= 0 /\ k.pos.yd >= 1
      BY <1>1, <1>2, <1>3, <2>2
    <3> QED BY <2>3, <3>1 DEF FreeYd
  <2>6. Bookable(k, o, TRUE, d)
    BY <2>1, <2>4, <2>5 DEF Bookable, offset, used
  <2>7. used.yd + used.td = 1
    BY <2>3
  <2> QED BY <2>6, <2>7 DEF offset, used
<1>6. CASE res.offset = "CLOSE_TODAY"
  <2>1. offset = "CLOSE_TODAY"
    BY <1>1, <1>6 DEF EffectiveOffset, BucketsFit, IsLate
  <2>2. res.yd = 0 /\ res.td >= 1
    BY <1>1, <1>6 DEF BucketsFit
  <2>3. used.td = 1 /\ used.yd = 0
    BY <1>1, <2>1, <2>2 DEF Consumed, AtMost
  <2> HIDE DEF offset, used
  <2>4. Candidates(k, offset) # {}
    <3> SUFFICES ASSUME Candidates(k, offset) = {} PROVE FALSE
      OBVIOUS
    <3>1. ASSUME NEW e \in TodaysDays(k) PROVE k.lots[e] = 0
      <4>1. ~(k.lots[e] > 0)
        BY <1>4, <2>1 DEF Candidates
      <4>2. k.lots[e] \in Nat
        BY <1>1, <1>4
      <4> QED BY <4>1, <4>2
    <3>2. k.pos.td = 0
      BY <1>3, <1>4, <3>1, TotalNothing
    <3> QED BY <1>1, <1>2, <1>3, <2>2, <3>2
  <2>5. k.pos.td >= 1 /\ 1 - used.td <= FreeTd(k)
    <3>1. k.pos.td - k.pos.frozenTd >= 0 /\ k.pos.td >= 1
      BY <1>1, <1>2, <1>3, <2>2
    <3> QED BY <2>3, <3>1 DEF FreeTd
  <2>6. Bookable(k, o, TRUE, d)
    BY <2>1, <2>4, <2>5 DEF Bookable, offset, used
  <2>7. used.yd + used.td = 1
    BY <2>3
  <2> QED BY <2>6, <2>7 DEF offset, used
<1>7. res.offset = "CLOSE_YESTERDAY" \/ res.offset = "CLOSE_TODAY"
  BY <1>1 DEF BucketsFit
<1> QED BY <1>5, <1>6, <1>7

\* The order of such a trade still holds what the trade takes.
LEMMA UnseenIsReserved ==
  ASSUME KernelAssumption, TradesGood, NEW k, KernelGood(k), AllFit(k), SeenGood(k), NEW o \in Orders,
         NEW t \in TradedOf(o), t \notin k.seen, k.orders[o].status # "ABSENT"
  PROVE  /\ k.reserved[o].held
         /\ OffsetOf[o] # "OPEN" => k.reserved[o].yd + k.reserved[o].td >= 1
         /\ k.reserved[o].offset = "CLOSE_TODAY" => tradeDay[t] >= k.day
<1> DEFINE S == Cardinality(SeenOf(k, o))
           T == Cardinality(TradedOf(o))
           res == k.reserved[o]
<1>1. /\ k \in Kernel /\ res \in Reservation
      /\ OrderFits(o, k.orders[o], res, k.funds[o], brokerState[o], T, S, Cardinality(WaitersOf(k, o)))
      /\ BucketsFit(o, res, k.day)
  BY DEF KernelGood, Kernel, AllFit
<1>2. S < T
  BY <1>1, UnseenLeft
<1>3. Qty[o] \in Nat /\ res.accounted \in Nat /\ res.yd \in Nat /\ res.td \in Nat
  BY <1>1 DEF Reservation, KernelAssumption
<1> HIDE DEF S, T
<1>4. /\ T \in Nat /\ S \in Nat /\ T <= Qty[o] /\ res.held /\ res.accounted <= S
      /\ OffsetOf[o] # "OPEN" => res.yd + res.td = Qty[o] - res.accounted \/ res.yd + res.td = T - res.accounted
  BY <1>1, <1>2 DEF OrderFits
<1>5. OffsetOf[o] # "OPEN" => res.yd + res.td >= 1
  BY <1>2, <1>3, <1>4
<1>6. res.offset = "CLOSE_TODAY" => tradeDay[t] >= k.day
  BY <1>1, <1>4 DEF BucketsFit
<1> QED BY <1>4, <1>5, <1>6

\* One more trade of an order is seen.
LEMMA SeenAfter ==
  ASSUME KernelAssumption, TradesGood, NEW k \in Kernel, SeenGood(k), NEW k2, NEW o \in Orders,
         NEW t \in TradedOf(o), t \notin k.seen, k2.seen = k.seen \union {t},
         k2.unlinked = k.unlinked \/ k2.unlinked = k.unlinked \union {t}
  PROVE  /\ Cardinality(SeenOf(k2, o)) = Cardinality(SeenOf(k, o)) + 1
         /\ k2.unlinked = k.unlinked => Cardinality(WaitersOf(k2, o)) = Cardinality(WaitersOf(k, o))
         /\ k2.unlinked = k.unlinked \union {t} => Cardinality(WaitersOf(k2, o)) = Cardinality(WaitersOf(k, o)) + 1
         /\ \A p \in Orders : p # o => SeenOf(k2, p) = SeenOf(k, p) /\ WaitersOf(k2, p) = WaitersOf(k, p)
         /\ SeenGood(k2)
<1>1. t[1] = o /\ tradeDay[t] # 0 /\ t \notin k.unlinked
  BY DEF TradedOf, SeenGood
<1>2. IsFiniteSet(SeenOf(k, o)) /\ IsFiniteSet(WaitersOf(k, o)) /\ t \notin SeenOf(k, o) /\ t \notin WaitersOf(k, o)
  <2>1. t \notin SeenOf(k, o) /\ t \notin WaitersOf(k, o)
    BY <1>1 DEF SeenOf, WaitersOf
  <2> QED BY <2>1, SeenNumbers
<1>3. SeenOf(k2, o) = SeenOf(k, o) \union {t}
  BY <1>1 DEF SeenOf
<1>4. k2.unlinked = k.unlinked => WaitersOf(k2, o) = WaitersOf(k, o)
  BY DEF WaitersOf
<1>5. k2.unlinked = k.unlinked \union {t} => WaitersOf(k2, o) = WaitersOf(k, o) \union {t}
  BY <1>1 DEF WaitersOf
<1>6. \A p \in Orders : p # o => SeenOf(k2, p) = SeenOf(k, p) /\ WaitersOf(k2, p) = WaitersOf(k, p)
  BY <1>1 DEF SeenOf, WaitersOf
<1>7. SeenGood(k2)
  BY <1>1 DEF SeenGood
<1>8. /\ Cardinality(SeenOf(k, o) \union {t}) = Cardinality(SeenOf(k, o)) + 1
      /\ Cardinality(WaitersOf(k, o) \union {t}) = Cardinality(WaitersOf(k, o)) + 1
  BY <1>2, FS_AddElement
<1> QED BY <1>3, <1>4, <1>5, <1>6, <1>7, <1>8

LEMMA TradeFits ==
  ASSUME KernelAssumption, TradesGood, NEW k, KernelGood(k), AllFit(k), SeenGood(k), NEW t \in Trades,
         t[1] \in Orders, t \in TradedOf(t[1]), t \notin k.seen,
         k.orders[t[1]].status # "ABSENT", brokerState[t[1]] # "none",
         tradeDay[t] \in Days, tradeDay[t] <= k.day, CanApplyTrade(k, t, tradeDay[t])
  PROVE  AllFit(ApplyTrade(k, t, tradeDay[t])) /\ SeenGood(ApplyTrade(k, t, tradeDay[t]))
<1> DEFINE d == tradeDay[t]
           o == t[1]
           k2 == ApplyTrade(k, t, d)
           l == ToldTrade(k, t)
           mid == PaidTrade(k, t, d)
           used == UsedFor(k, t, d)
           x == k.orders[o]
           x2 == l.orders[o]
           res == k.reserved[o]
           res1 == mid.reserved[o]
           res2 == k2.reserved[o]
           b == brokerState[o]
           T == Cardinality(TradedOf(o))
           S == Cardinality(SeenOf(k, o))
           W == Cardinality(WaitersOf(k, o))
           found == FoundFor(k, t)
           last == found /\ x2.status \in Terminal /\ x2.cum <= x2.accounted
<1>1. /\ k \in Kernel /\ Sums(k) /\ o \in Orders /\ x \in Order /\ res \in Reservation
      /\ OrderFits(o, x, res, k.funds[o], b, T, S, W) /\ BucketsFit(o, res, k.day)
  BY DEF KernelGood, Kernel, AllFit
<1>2. S < T /\ T \in Nat /\ S \in Nat
  BY <1>1, UnseenLeft, SeenNumbers
<1>3. /\ res.held /\ (OffsetOf[o] # "OPEN" => res.yd + res.td >= 1)
      /\ res.offset = "CLOSE_TODAY" => d >= k.day
  BY UnseenIsReserved
<1>4. Bookable(k, o, found, d)
  BY <1>1 DEF CanApplyTrade, Seen, FoundFor
<1>5. LET accounted == x.accounted + 1
          cum == AtLeast(x.cum, accounted) IN
      /\ l \in Kernel
      /\ ~found => l.orders = k.orders /\ l.unlinked = k.unlinked \union {t}
      /\ found => /\ l.unlinked = k.unlinked
                  /\ x2.accounted = accounted /\ x2.cum = cum
                  /\ x2.linked = (x.linked \/ o \in Resolved) /\ x2.sysLinked
                  /\ x2.status = IF ~IsTerminal(k, o) /\ cum >= Qty[o] THEN "FILLED" ELSE x.status
  <2>1. LET linked == Finds(k, o, o \in Resolved, TRUE)
            accounted == k.orders[o].accounted + 1
            cum == AtLeast(k.orders[o].cum, accounted) IN
         /\ l \in Kernel
         /\ ~linked => l.orders = k.orders /\ l.unlinked = k.unlinked \union {t}
         /\ linked => /\ l.unlinked = k.unlinked
                      /\ l.orders[o].accounted = accounted /\ l.orders[o].cum = cum
                      /\ l.orders[o].linked = (k.orders[o].linked \/ o \in Resolved) /\ l.orders[o].sysLinked
                      /\ l.orders[o].status = IF ~IsTerminal(k, o) /\ cum >= Qty[o] THEN "FILLED" ELSE k.orders[o].status
    <3> HIDE DEF l
    <3> QED BY <1>1, TradeTold, ZenonT(40) DEF l
  <2> HIDE DEF l
  <2> QED BY <2>1 DEF FoundFor
<1>6. /\ mid \in Kernel
      /\ used.yd <= res.yd /\ used.td <= res.td
      /\ res1.yd = res.yd - used.yd /\ res1.td = res.td - used.td
      /\ ~(found /\ res.held) => res1 = res
      /\ found /\ res.held =>
            IF res.accounted + 1 >= Qty[o] /\ res.yd = used.yd /\ res.td = used.td THEN res1 = Unheld(o)
            ELSE res1.held /\ res1.offset = res.offset /\ res1.accounted = res.accounted + 1
  BY <1>1, <1>4, TradePaid, SMTT(40)
<1>7. LET keep == AtMost(Qty[o], AtLeast(res1.accounted, x2.cum)) - res1.accounted IN
      /\ k2 \in Kernel /\ Apart(k, k2, o)
      /\ k2.seen = k.seen \union {t} /\ k2.orders = l.orders /\ k2.unlinked = l.unlinked
      /\ ~last => res2 = res1
      /\ last => /\ k2.funds[o] = 0
                 /\ ~res1.held => res2 = res1
                 /\ res1.held /\ keep <= 0 => res2 = Unheld(o)
                 /\ res1.held /\ keep > 0 =>
                       /\ res2.held /\ res2.offset = res1.offset /\ res2.accounted = res1.accounted
                       /\ res2.yd + res2.td = AtMost(res1.yd + res1.td, keep)
                       /\ res2.yd <= res1.yd /\ res2.td <= res1.td
  <2>1. /\ k2 \in Kernel /\ Apart(k, k2, o)
        /\ k2.seen = k.seen \union {t} /\ k2.orders = l.orders /\ k2.unlinked = l.unlinked
        /\ ~last => res2 = res1
        /\ last => k2.funds[o] = 0
    BY <1>1, TradeApplied, SMTT(40)
  <2>2. LET keep == AtMost(Qty[o], AtLeast(res1.accounted, x2.cum)) - res1.accounted IN
        last => /\ ~res1.held => res2 = res1
                /\ res1.held /\ keep <= 0 => res2 = Unheld(o)
                /\ res1.held /\ keep > 0 =>
                       /\ res2.held /\ res2.offset = res1.offset /\ res2.accounted = res1.accounted
                       /\ res2.yd + res2.td = AtMost(res1.yd + res1.td, keep)
                       /\ res2.yd <= res1.yd /\ res2.td <= res1.td
    BY <1>1, TradeApplied, SMTT(40)
  <2> HIDE DEF k2, last, res1, res2, x2
  <2> QED BY <2>1, <2>2
<1>8. x2 \in Order /\ res1 \in Reservation /\ res2 \in Reservation
  BY <1>5, <1>6, <1>7 DEF Kernel
<1>9. found => x.linked /\ found = TRUE
  BY <1>1 DEF FoundFor, Finds, OrderFits
<1>10. found \in BOOLEAN
  BY DEF FoundFor, Finds
<1>11. found /\ OffsetOf[o] # "OPEN" => used.yd + used.td = 1
  BY <1>1, <1>3, <1>9, TradeConsumes DEF UsedFor, OffsetFor
<1>12. k2.unlinked = k.unlinked \/ k2.unlinked = k.unlinked \union {t}
  BY <1>5, <1>7
<1>13. /\ Cardinality(SeenOf(k2, o)) = S + 1
       /\ k2.unlinked = k.unlinked => Cardinality(WaitersOf(k2, o)) = W
       /\ k2.unlinked = k.unlinked \union {t} => Cardinality(WaitersOf(k2, o)) = W + 1
       /\ \A p \in Orders : p # o => SeenOf(k2, p) = SeenOf(k, p) /\ WaitersOf(k2, p) = WaitersOf(k, p)
       /\ SeenGood(k2)
  BY <1>1, <1>7, <1>12, SeenAfter
<1>14. /\ x.cum \in Nat /\ x.accounted \in Nat /\ x2.cum \in Nat /\ x2.accounted \in Nat
       /\ res.yd \in Nat /\ res.td \in Nat /\ res.accounted \in Nat /\ res.held \in BOOLEAN
       /\ res1.yd \in Nat /\ res1.td \in Nat /\ res1.accounted \in Nat /\ res1.held \in BOOLEAN
       /\ res2.yd \in Nat /\ res2.td \in Nat
       /\ Qty[o] \in Nat /\ ~Unheld(o).held
  BY <1>1, <1>8, NumbersOfOrder
<1>15. ~Dead(b) => T < Qty[o]
  BY <1>1, TradesNumbered, TradedIsBorn DEF Dead, Working, TradedOf, TradesGood
<1>16. BucketsFit(o, res2, k2.day)
  <2>1. ~res1.held \/ res1.offset = res.offset
    BY <1>6, <1>10, <1>14
  <2>2. ~res2.held \/ (res1.held /\ res2.offset = res1.offset /\ res2.yd <= res1.yd /\ res2.td <= res1.td)
    <3>1. CASE ~last
      <4>1. res2 = res1
        BY <1>7, <3>1
      <4> QED BY <1>14, <4>1
    <3>2. CASE last
      <4> DEFINE keep == AtMost(Qty[o], AtLeast(res1.accounted, x2.cum)) - res1.accounted
      <4>1. keep \in Int
        BY <1>14 DEF AtMost, AtLeast
      <4>2. /\ ~res1.held => res2 = res1
            /\ res1.held /\ keep <= 0 => res2 = Unheld(o)
            /\ res1.held /\ keep > 0 => res2.offset = res1.offset /\ res2.yd <= res1.yd /\ res2.td <= res1.td
        BY <1>7, <3>2
      <4> HIDE DEF keep
      <4> QED BY <1>14, <4>1, <4>2
    <3> QED BY <3>1, <3>2
  <2>3. res1.yd <= res.yd /\ res1.td <= res.td
    <3>1. (res1.yd = res.yd /\ res1.td = res.td) \/ (used.yd \in Nat /\ used.td \in Nat)
      BY <1>14 DEF UsedFor, Consumed, AtMost
    <3> QED BY <1>6, <1>14, <3>1
  <2>4. k2.day = k.day
    BY <1>7 DEF Apart
  <2> HIDE DEF res2, res1, res, k2
  <2> QED BY <1>1, <1>3, <1>14, <2>1, <2>2, <2>3, <2>4 DEF BucketsFit
<1>17. OrderFits(o, x2, res2, k2.funds[o], b, T, S + 1, Cardinality(WaitersOf(k2, o)))
  <2>1. CASE found
    <3>1. Cardinality(WaitersOf(k2, o)) = W
      BY <1>5, <1>7, <1>13, <2>1
    <3>2. /\ x.linked /\ x2.linked /\ x2.accounted = x.accounted + 1 /\ x2.cum = AtLeast(x.cum, x.accounted + 1)
          /\ x2.status = IF x.status \notin Terminal /\ x2.cum >= Qty[o] THEN "FILLED" ELSE x.status
      BY <1>5, <1>9, <2>1 DEF IsTerminal
    <3>3. /\ OffsetOf[o] # "OPEN" /\ res1.held => res1.yd + res1.td = res.yd + res.td - 1
          /\ ~res1.held => res.accounted + 1 >= Qty[o]
          /\ res1.held => res1.accounted = res.accounted + 1
      <4>1. OffsetOf[o] # "OPEN" => res1.yd + res1.td = res.yd + res.td - 1
        <5>1. used.yd \in Nat /\ used.td \in Nat
          BY <1>14 DEF UsedFor, Consumed, AtMost
        <5> HIDE DEF used, res, res1
        <5> QED BY <1>6, <1>11, <1>14, <2>1, <5>1
      <4> HIDE DEF res1, res, used
      <4> QED BY <1>3, <1>6, <1>14, <2>1, <4>1
    <3>4. /\ ~(x2.status \in Terminal /\ x2.cum <= x2.accounted) => res2 = res1
          /\ x2.status \in Terminal /\ x2.cum <= x2.accounted =>
                k2.funds[o] = 0 /\ Ends(o, res1, res2, x2.cum)
      BY <1>7, <2>1 DEF Ends
    <3>5. x.status # "ABSENT"
      OBVIOUS
    <3> HIDE DEF k2, l, mid, used, o, x, x2, res, res1, res2, b, T, S, W, found, last
    <3> QED BY <1>1, <1>2, <1>8, <1>15, <3>1, <3>2, <3>3, <3>4, <3>5, FitsAtTrade
  <2>2. CASE ~found
    <3>1. Cardinality(WaitersOf(k2, o)) = W + 1 /\ x2 = x /\ res2 = res
      BY <1>5, <1>6, <1>7, <1>13, <2>2
    <3>2. ~(o \in Resolved /\ x.linked)
      BY <1>1, <2>2 DEF FoundFor, Finds
    <3>3. x.status # "ABSENT" /\ b # "none"
      OBVIOUS
    <3> HIDE DEF k2, l, mid, used, o, x, x2, res, res1, res2, b, T, S, W, found, last
    <3> QED BY <1>1, <1>2, <3>1, <3>2, <3>3, FitsAtStray
  <2> QED BY <2>1, <2>2
<1>18. OrderFits(o, k2.orders[o], k2.reserved[o], k2.funds[o], brokerState[o], Cardinality(TradedOf(o)),
                 Cardinality(SeenOf(k2, o)), Cardinality(WaitersOf(k2, o)))
  <2>1. k2.orders[o] = x2
    BY <1>7
  <2> HIDE DEF k2, x2, o
  <2> QED BY <1>13, <1>17, <2>1
<1>19. Apart(k, k2, o)
  BY <1>7
<1> HIDE DEF k2, o
<1> QED BY <1>1, <1>13, <1>16, <1>18, <1>19, OthersFit DEF k2

-------------------------------------------------------------------------------
(* The account's steps *)

\* The broker's side stands still, and the account within it.
LEMMA FitKept ==
  ASSUME FitInv, BooksInv', AllFit(kernel'), SeenGood(kernel'),
         UNCHANGED <<brokerState, tradeDay, reports>>
  PROVE  FitInv'
<1>1. \A o \in Orders : TradedOf(o)' = TradedOf(o)
  BY DEF TradedOf
<1>2. AllFit(kernel)'
  BY <1>1 DEF AllFit, BucketsFit
<1>3. SeenGood(kernel)'
  BY DEF SeenGood
<1>4. ReportsTrue'
  <2>1. \A r \in reports : r.order \in Orders
    BY DEF FitInv, BooksInv, TypeOK, Report
  <2> QED BY <1>1, <2>1 DEF ReportsTrue, FitInv
<1> QED BY <1>2, <1>3, <1>4 DEF FitInv

LEMMA FitAtReport ==
  ASSUME KernelAssumption, FitInv, NEW r \in reports, ReceiveReport(r)
  PROVE  FitInv'
<1>1. BooksInv'
  BY BooksAtReport DEF FitInv
<1>2. /\ KernelGood(kernel) /\ TradesGood /\ AllFit(kernel) /\ SeenGood(kernel) /\ r \in Report /\ r.status # "ABSENT"
      /\ r.filled <= Cardinality(TradedOf(r.order))
      /\ r.status \in {"CANCELLED", "REJECTED"} =>
             Dead(brokerState[r.order]) /\ r.filled = Cardinality(TradedOf(r.order))
      /\ r.status = "FILLED" => r.filled = Cardinality(TradedOf(r.order)) /\ Cardinality(TradedOf(r.order)) = Qty[r.order]
      /\ brokerState[r.order] \notin {"none", "sent"}
  BY DEF FitInv, BooksInv, TypeOK, ReportsNamed, ReportsTrue
<1>3. AllFit(ApplyReport(kernel, r)) /\ SeenGood(ApplyReport(kernel, r))
  BY <1>2, ReportFits
<1>4. kernel' = ApplyReport(kernel, r) /\ UNCHANGED <<brokerState, tradeDay, reports>>
  BY DEF ReceiveReport, brokerVars
<1> QED BY <1>1, <1>3, <1>4, FitKept

LEMMA FitAtTrade ==
  ASSUME KernelAssumption, FitInv, NEW t \in Trades, ReceiveTrade(t)
  PROVE  FitInv'
<1>1. BooksInv' /\ BooksInv
  BY BooksAtTrade DEF FitInv
<1>2. UNCHANGED <<brokerState, tradeDay, reports>> /\ tradeDay[t] # 0
  BY DEF ReceiveTrade, brokerVars
<1>3. KernelGood(kernel) /\ TradesGood /\ AllFit(kernel) /\ SeenGood(kernel) /\ TypeOK /\ DaysGood
  BY DEF FitInv, BooksInv
<1>4. CASE kernel' = kernel
  BY <1>1, <1>2, <1>3, <1>4, FitKept
<1>5. CASE kernel' # kernel
  <2>1. CanApplyTrade(kernel, t, tradeDay[t]) /\ kernel' = ApplyTrade(kernel, t, tradeDay[t])
    BY <1>5 DEF ReceiveTrade
  <2>2. t \notin kernel.seen
    BY <1>5, <2>1 DEF ApplyTrade, Seen
  <2>3. /\ t[1] \in Orders /\ t \in TradedOf(t[1]) /\ brokerState[t[1]] # "none"
        /\ kernel.orders[t[1]].status # "ABSENT"
    BY <1>2, <1>3, TradedIsBorn
  <2>4. tradeDay[t] \in Days /\ tradeDay[t] <= kernel.day
    BY <1>3 DEF TypeOK, DaysGood
  <2>5. AllFit(ApplyTrade(kernel, t, tradeDay[t])) /\ SeenGood(ApplyTrade(kernel, t, tradeDay[t]))
    BY <1>3, <2>1, <2>2, <2>3, <2>4, TradeFits
  <2> QED BY <1>1, <1>2, <2>1, <2>5, FitKept
<1> QED BY <1>4, <1>5

\* A kernel that differs in what no order is judged by.
LEMMA FitSame ==
  ASSUME NEW k, AllFit(k), SeenGood(k), NEW k2, k2.day = k.day, k2.seen = k.seen, k2.unlinked = k.unlinked,
         k2.reserved = k.reserved, k2.funds = k.funds,
         \A o \in Orders : /\ k2.orders[o].status = k.orders[o].status /\ k2.orders[o].cum = k.orders[o].cum
                           /\ k2.orders[o].accounted = k.orders[o].accounted
                           /\ k2.orders[o].linked = k.orders[o].linked
                           /\ k2.orders[o].sysLinked = k.orders[o].sysLinked
  PROVE  AllFit(k2) /\ SeenGood(k2)
<1>1. \A o \in Orders : SeenOf(k2, o) = SeenOf(k, o) /\ WaitersOf(k2, o) = WaitersOf(k, o)
  BY DEF SeenOf, WaitersOf
<1>2. SeenGood(k2)
  BY DEF SeenGood
<1>3. ASSUME NEW o \in Orders
      PROVE  OrderFits(o, k2.orders[o], k2.reserved[o], k2.funds[o], brokerState[o], Cardinality(TradedOf(o)),
                       Cardinality(SeenOf(k2, o)), Cardinality(WaitersOf(k2, o)))
  <2>1. OrderFits(o, k.orders[o], k.reserved[o], k.funds[o], brokerState[o], Cardinality(TradedOf(o)),
                  Cardinality(SeenOf(k, o)), Cardinality(WaitersOf(k, o)))
    BY DEF AllFit
  <2> QED BY <1>1, <2>1 DEF OrderFits
<1> QED BY <1>2, <1>3 DEF AllFit

LEMMA FitAtCancel ==
  ASSUME KernelAssumption, FitInv, NEW o \in Orders, NEW made \in BOOLEAN, Cancel(o, made)
  PROVE  FitInv'
<1>1. BooksInv'
  BY BooksAtCancel DEF FitInv
<1>2. /\ kernel' = [kernel EXCEPT !.orders[o].cancelPending = made]
      /\ UNCHANGED <<brokerState, tradeDay, reports>>
      /\ kernel \in Kernel /\ AllFit(kernel) /\ SeenGood(kernel)
  BY DEF Cancel, FitInv, BooksInv, KernelGood
<1>3. /\ kernel'.day = kernel.day /\ kernel'.seen = kernel.seen /\ kernel'.unlinked = kernel.unlinked
      /\ kernel'.reserved = kernel.reserved /\ kernel'.funds = kernel.funds
      /\ \A p \in Orders : /\ kernel'.orders[p].status = kernel.orders[p].status
                           /\ kernel'.orders[p].cum = kernel.orders[p].cum
                           /\ kernel'.orders[p].accounted = kernel.orders[p].accounted
                           /\ kernel'.orders[p].linked = kernel.orders[p].linked
                           /\ kernel'.orders[p].sysLinked = kernel.orders[p].sysLinked
  BY <1>2 DEF Kernel, Order
<1>4. AllFit(kernel') /\ SeenGood(kernel')
  BY <1>2, <1>3, FitSame, ZenonT(40)
<1> QED BY <1>1, <1>2, <1>4, FitKept

\* The day turns: what was reserved of today's lots is yesterday's.
LEMMA RolloverFits ==
  ASSUME KernelAssumption, NEW k, KernelGood(k), AllFit(k), SeenGood(k), k.day < LastDay
  PROVE  AllFit(Rollover(k)) /\ SeenGood(Rollover(k))
<1> DEFINE k2 == Rollover(k)
<1>1. /\ k2 \in Kernel /\ k2.seen = k.seen /\ k2.unlinked = k.unlinked /\ k2.funds = k.funds /\ k2.orders = k.orders
      /\ \A o \in Orders : LET res == k.reserved[o] IN LET new == k2.reserved[o] IN
            /\ new.held = res.held /\ new.accounted = res.accounted
            /\ new.yd = res.yd + res.td /\ new.td = 0
            /\ new.offset = IF res.held /\ res.offset = "CLOSE_TODAY" THEN "CLOSE_YESTERDAY" ELSE res.offset
  BY RolledOver DEF KernelGood
<1> HIDE DEF k2
<1>2. \A o \in Orders : SeenOf(k2, o) = SeenOf(k, o) /\ WaitersOf(k2, o) = WaitersOf(k, o)
  BY <1>1 DEF SeenOf, WaitersOf
<1>3. SeenGood(k2)
  BY <1>1 DEF SeenGood
<1>4. ASSUME NEW o \in Orders
      PROVE  /\ OrderFits(o, k2.orders[o], k2.reserved[o], k2.funds[o], brokerState[o], Cardinality(TradedOf(o)),
                          Cardinality(SeenOf(k2, o)), Cardinality(WaitersOf(k2, o)))
             /\ BucketsFit(o, k2.reserved[o], k2.day)
  <2> DEFINE res == k.reserved[o]
             new == k2.reserved[o]
  <2>1. /\ OrderFits(o, k.orders[o], res, k.funds[o], brokerState[o], Cardinality(TradedOf(o)),
                     Cardinality(SeenOf(k, o)), Cardinality(WaitersOf(k, o)))
        /\ BucketsFit(o, res, k.day)
    BY DEF AllFit
  <2>2. /\ new.held = res.held /\ new.accounted = res.accounted
        /\ new.yd = res.yd + res.td /\ new.td = 0
        /\ new.offset = IF res.held /\ res.offset = "CLOSE_TODAY" THEN "CLOSE_YESTERDAY" ELSE res.offset
    BY <1>1
  <2>3. res.yd \in Nat /\ res.td \in Nat /\ res.offset \in Offsets /\ OffsetOf[o] \in Offsets
    BY Numbers DEF KernelGood, KernelAssumption
  <2>4. new.yd + new.td = res.yd + res.td
    BY <2>2, <2>3
  <2> HIDE DEF new, res
  <2>5. OrderFits(o, k.orders[o], new, k.funds[o], brokerState[o], Cardinality(TradedOf(o)),
                  Cardinality(SeenOf(k, o)), Cardinality(WaitersOf(k, o)))
    BY <2>1, <2>2, <2>4 DEF OrderFits
  <2>6. BucketsFit(o, new, k2.day)
    BY <2>1, <2>2, <2>3 DEF BucketsFit, Offsets
  <2> QED BY <1>1, <1>2, <2>5, <2>6 DEF new
<1> QED BY <1>3, <1>4 DEF AllFit, k2

LEMMA FitAtDayEnd ==
  ASSUME KernelAssumption, FitInv, SettlementPrice \/ AdvanceTradingDay
  PROVE  FitInv'
<1>1. BooksInv' /\ brokerDay > kernel.day /\ KernelGood(kernel) /\ AllFit(kernel) /\ SeenGood(kernel)
      /\ brokerDay \in Days /\ kernel.day \in Days
  BY BooksAtDayEnd DEF FitInv, SettlementPrice, AdvanceTradingDay, BooksInv, TypeOK, Kernel
<1>2. UNCHANGED <<brokerState, tradeDay, reports>>
  BY DEF SettlementPrice, AdvanceTradingDay, brokerVars
<1>3. \E a \in BOOLEAN, b \in BOOLEAN : kernel' = TryAdvance([kernel EXCEPT !.advancing = a, !.priced = b])
  <2>1. kernel.advancing \in BOOLEAN /\ kernel.priced \in BOOLEAN /\ kernel \in Kernel
    BY <1>1 DEF KernelGood, Kernel
  <2>2. /\ [kernel EXCEPT !.priced = TRUE] = [kernel EXCEPT !.advancing = kernel.advancing, !.priced = TRUE]
        /\ [kernel EXCEPT !.advancing = TRUE] = [kernel EXCEPT !.advancing = TRUE, !.priced = kernel.priced]
    BY <2>1 DEF Kernel
  <2>3. CASE SettlementPrice
    <3>1. kernel' = TryAdvance([kernel EXCEPT !.advancing = kernel.advancing, !.priced = TRUE])
      BY <2>2, <2>3 DEF SettlementPrice
    <3> QED BY <2>1, <3>1
  <2>4. CASE AdvanceTradingDay
    <3>1. kernel' = TryAdvance([kernel EXCEPT !.advancing = TRUE, !.priced = kernel.priced])
      BY <2>2, <2>4 DEF AdvanceTradingDay
    <3> QED BY <2>1, <3>1
  <2> QED BY <2>3, <2>4
<1>4. PICK a \in BOOLEAN, b \in BOOLEAN : kernel' = TryAdvance([kernel EXCEPT !.advancing = a, !.priced = b])
  BY <1>3
<1> DEFINE k == [kernel EXCEPT !.advancing = a, !.priced = b]
<1>5. KernelGood(k) /\ k.day = kernel.day /\ k.orders = kernel.orders
  BY <1>1, FlagsKept
<1>6. k.seen = kernel.seen /\ k.unlinked = kernel.unlinked /\ k.reserved = kernel.reserved /\ k.funds = kernel.funds
  BY <1>1 DEF KernelGood, Kernel
<1>7. kernel' = TryAdvance(k)
  BY <1>4
<1> HIDE DEF k
<1>8. AllFit(k) /\ SeenGood(k)
  BY <1>1, <1>5, <1>6, FitSame
<1>9. k.day < LastDay
  BY <1>1, <1>5 DEF Days, KernelAssumption
<1>10. AllFit(Rollover(k)) /\ SeenGood(Rollover(k))
  BY <1>5, <1>8, <1>9, RolloverFits
<1>11. AllFit(kernel') /\ SeenGood(kernel')
  BY <1>7, <1>8, <1>10 DEF TryAdvance
<1> QED BY <1>1, <1>2, <1>11, FitKept

-------------------------------------------------------------------------------
(* Steps that change what the broker has *)

\* The parts of the invariant, after a step.
LEMMA FitPrimed ==
  ASSUME BooksInv', SeenGood(kernel)', ReportsTrue',
         \A o \in Orders :
             OrderFits(o, kernel'.orders[o], kernel'.reserved[o], kernel'.funds[o], brokerState'[o],
                       Cardinality(TradedOf(o)'), Cardinality(SeenOf(kernel', o)), Cardinality(WaitersOf(kernel', o))),
         \A o \in Orders : BucketsFit(o, kernel.reserved[o], kernel.day)'
  PROVE  FitInv'
BY DEF FitInv, AllFit

\* An order that was never sent before gets its reservation, or is refused and gets nothing.
LEMMA FitsAtSend ==
  ASSUME KernelAssumption, NEW o \in Orders, NEW x \in Order, NEW x2 \in Order,
         NEW res, NEW res2 \in Reservation, NEW n, NEW n2, NEW S, NEW W, NEW b2,
         NEW outcome \in {"sent", "not_sent", "crashed"},
         OrderFits(o, x, res, n, "none", 0, S, W), ~x.linked, ~x.sysLinked,
         x2.cum = x.cum, x2.accounted = x.accounted, x2.sysLinked = x.sysLinked,
         outcome = "not_sent" => x2.status = "REJECTED" /\ x2.linked = x.linked /\ res2 = Unheld(o) /\ n2 = 0,
         outcome # "not_sent" => /\ x2.status = "SUBMITTING" /\ x2.linked = (outcome = "sent")
                                 /\ res2.held /\ res2.offset = OffsetOf[o] /\ res2.accounted = 0
                                 /\ res2.yd = IF OffsetOf[o] = "CLOSE_YESTERDAY" THEN Qty[o] ELSE 0
                                 /\ res2.td = IF OffsetOf[o] = "CLOSE_TODAY" THEN Qty[o] ELSE 0,
         outcome = "not_sent" => b2 = "none",
         outcome # "not_sent" => b2 = "sent"
  PROVE  OrderFits(o, x2, res2, n2, b2, 0, S, W)
<1>1. /\ x.cum \in Nat /\ x.accounted \in Nat /\ Qty[o] \in Nat /\ Qty[o] >= 1 /\ OffsetOf[o] \in Offsets
      /\ res2.yd \in Nat /\ res2.td \in Nat /\ res2.accounted \in Nat /\ ~Unheld(o).held /\ x2.linked \in BOOLEAN
  BY DEF Order, Reservation, KernelAssumption, Unheld
<1>2. S = 0 /\ W = 0 /\ x.accounted = 0 /\ x.cum = 0 /\ S \in Nat /\ W \in Nat
  <2>1. S \in Nat /\ W \in Nat /\ S <= 0 /\ x.accounted + W = S /\ x.cum <= 0
    BY DEF OrderFits
  <2>2. S = 0
    BY <2>1
  <2>3. x.accounted = 0 /\ W = 0
    BY <1>1, <2>1, <2>2
  <2> QED BY <1>1, <2>1, <2>2, <2>3
<1>3. CASE outcome = "not_sent"
  BY <1>1, <1>2, <1>3 DEF OrderFits, Dead, Terminal
<1>4. CASE outcome # "not_sent"
  <2>1. OffsetOf[o] # "OPEN" => res2.yd + res2.td = Qty[o] - res2.accounted
    BY <1>1, <1>4 DEF Offsets
  <2> QED BY <1>1, <1>2, <1>4, <2>1 DEF OrderFits, Dead, Terminal
<1> QED BY <1>3, <1>4

LEMMA FitAtDispatch ==
  ASSUME KernelAssumption, FitInv, NEW o \in Orders, NEW outcome \in {"sent", "not_sent", "crashed"}, Dispatch(o, outcome)
  PROVE  FitInv'
<1> DEFINE k2 == SendResult(Intend(kernel, o), o, outcome)
<1>1. BooksInv /\ BooksInv' /\ AllFit(kernel) /\ SeenGood(kernel) /\ ReportsTrue
  BY BooksAtDispatch DEF FitInv
<1>2. /\ kernel.orders[o].status = "ABSENT" /\ CanReserve(kernel, o) /\ kernel' = k2
      /\ brokerState' = [brokerState EXCEPT ![o] = IF outcome = "not_sent" THEN @ ELSE "sent"]
      /\ tradeDay' = tradeDay /\ reports' = reports
  BY DEF Dispatch
<1>3. /\ kernel \in Kernel /\ Sums(kernel) /\ Unborn(kernel) /\ TradesGood
      /\ brokerState \in [Orders -> {"none", "sent", "working", "filled", "cancelled", "rejected"}]
  BY <1>1 DEF BooksInv, KernelGood, TypeOK
<1>4. /\ ~kernel.orders[o].linked /\ ~kernel.orders[o].sysLinked
      /\ kernel.reserved[o].yd = 0 /\ kernel.reserved[o].td = 0
  BY <1>2, <1>3 DEF Unborn
<1>5. brokerState[o] = "none" /\ TradedOf(o) = {}
  BY <1>2, <1>3 DEF TradesGood
<1>6. /\ brokerState'[o] = IF outcome = "not_sent" THEN "none" ELSE "sent"
      /\ \A p \in Orders : p # o => brokerState'[p] = brokerState[p]
  BY <1>2, <1>3, <1>5
<1>7. \A p \in Orders : TradedOf(p)' = TradedOf(p)
  BY <1>2 DEF TradedOf
<1>8. /\ k2 \in Kernel /\ Apart(kernel, k2, o) /\ k2.seen = kernel.seen /\ k2.unlinked = kernel.unlinked
      /\ k2.orders[o].cum = kernel.orders[o].cum /\ k2.orders[o].accounted = kernel.orders[o].accounted
      /\ k2.orders[o].sysLinked = kernel.orders[o].sysLinked
      /\ outcome = "not_sent" => /\ k2.orders[o].status = "REJECTED" /\ k2.orders[o].linked = kernel.orders[o].linked
                                 /\ k2.reserved[o] = Unheld(o) /\ k2.funds[o] = 0
      /\ outcome # "not_sent" => /\ k2.orders[o].status = "SUBMITTING" /\ k2.orders[o].linked = (outcome = "sent")
                                 /\ k2.reserved[o].held /\ k2.reserved[o].offset = OffsetOf[o] /\ k2.reserved[o].accounted = 0
                                 /\ k2.reserved[o].yd = IF OffsetOf[o] = "CLOSE_YESTERDAY" THEN Qty[o] ELSE 0
                                 /\ k2.reserved[o].td = IF OffsetOf[o] = "CLOSE_TODAY" THEN Qty[o] ELSE 0
  BY <1>2, <1>3, <1>4, Sent
<1> HIDE DEF k2
<1>9. /\ kernel.orders[o] \in Order /\ k2.orders[o] \in Order /\ k2.reserved[o] \in Reservation
  BY <1>3, <1>8 DEF Kernel
<1>10. \A p \in Orders : SeenOf(k2, p) = SeenOf(kernel, p) /\ WaitersOf(k2, p) = WaitersOf(kernel, p)
  BY <1>8 DEF SeenOf, WaitersOf
<1>11. Cardinality({}) = 0
  BY FS_EmptySet
<1>12. OrderFits(o, kernel.orders[o], kernel.reserved[o], kernel.funds[o], "none", 0,
                 Cardinality(SeenOf(kernel, o)), Cardinality(WaitersOf(kernel, o)))
  BY <1>1, <1>5, <1>11 DEF AllFit
<1>13. OrderFits(o, k2.orders[o], k2.reserved[o], k2.funds[o], brokerState'[o], 0,
                 Cardinality(SeenOf(kernel, o)), Cardinality(WaitersOf(kernel, o)))
  <2>1. outcome = "not_sent" => brokerState'[o] = "none"
    BY <1>6
  <2>2. outcome # "not_sent" => brokerState'[o] = "sent"
    BY <1>6
  <2> DEFINE x == kernel.orders[o]
             x2 == k2.orders[o]
             res2 == k2.reserved[o]
             n2 == k2.funds[o]
             b2 == brokerState'[o]
             S == Cardinality(SeenOf(kernel, o))
             W == Cardinality(WaitersOf(kernel, o))
  <2>3. /\ outcome = "not_sent" => x2.status = "REJECTED" /\ x2.linked = x.linked /\ res2 = Unheld(o) /\ n2 = 0
        /\ outcome # "not_sent" => /\ x2.status = "SUBMITTING" /\ x2.linked = (outcome = "sent")
                                   /\ res2.held /\ res2.offset = OffsetOf[o] /\ res2.accounted = 0
                                   /\ res2.yd = IF OffsetOf[o] = "CLOSE_YESTERDAY" THEN Qty[o] ELSE 0
                                   /\ res2.td = IF OffsetOf[o] = "CLOSE_TODAY" THEN Qty[o] ELSE 0
        /\ x2.cum = x.cum /\ x2.accounted = x.accounted /\ x2.sysLinked = x.sysLinked
    BY <1>8, Zenon
  <2>4. /\ x \in Order /\ x2 \in Order /\ res2 \in Reservation /\ ~x.linked /\ ~x.sysLinked
        /\ OrderFits(o, x, kernel.reserved[o], kernel.funds[o], "none", 0, S, W)
    BY <1>4, <1>9, <1>12
  <2> HIDE DEF x, x2, res2, n2, b2, S, W
  <2>5. OrderFits(o, x2, res2, n2, b2, 0, S, W)
    BY <2>1, <2>2, <2>3, <2>4, FitsAtSend DEF b2
  <2> QED BY <2>5 DEF x2, res2, n2, b2, S, W
<1>14. \A p \in Orders :
           OrderFits(p, kernel'.orders[p], kernel'.reserved[p], kernel'.funds[p], brokerState'[p],
                     Cardinality(TradedOf(p)'), Cardinality(SeenOf(kernel', p)), Cardinality(WaitersOf(kernel', p)))
  <2> SUFFICES ASSUME NEW p \in Orders
               PROVE  OrderFits(p, k2.orders[p], k2.reserved[p], k2.funds[p], brokerState'[p],
                                Cardinality(TradedOf(p)), Cardinality(SeenOf(kernel, p)), Cardinality(WaitersOf(kernel, p)))
    BY <1>2, <1>7, <1>10
  <2>1. CASE p = o
    BY <1>5, <1>11, <1>13, <2>1
  <2>2. CASE p # o
    <3>1. k2.orders[p] = kernel.orders[p] /\ k2.reserved[p] = kernel.reserved[p] /\ k2.funds[p] = kernel.funds[p]
      BY <1>8, <2>2 DEF Apart
    <3>2. brokerState'[p] = brokerState[p]
      BY <1>6, <2>2
    <3> QED BY <1>1, <3>1, <3>2 DEF AllFit
  <2> QED BY <2>1, <2>2
<1>15. \A p \in Orders : BucketsFit(p, kernel.reserved[p], kernel.day)'
  <2> SUFFICES ASSUME NEW p \in Orders
               PROVE  BucketsFit(p, k2.reserved[p], kernel.day)
    <3>1. k2.day = kernel.day
      BY <1>8 DEF Apart
    <3> QED BY <1>2, <1>7, <3>1 DEF BucketsFit
  <2>1. CASE p = o
    <3>1. CASE outcome = "not_sent"
      BY <1>8, <2>1, <3>1 DEF BucketsFit, Unheld
    <3>2. CASE outcome # "not_sent"
      BY <1>5, <1>8, <2>1, <3>2 DEF BucketsFit
    <3> QED BY <3>1, <3>2
  <2>2. CASE p # o
    <3>1. k2.reserved[p] = kernel.reserved[p]
      BY <1>8, <2>2 DEF Apart
    <3> QED BY <1>1, <3>1 DEF AllFit
  <2> QED BY <2>1, <2>2
<1>16. SeenGood(kernel)'
  BY <1>1, <1>2, <1>8 DEF SeenGood
<1>17. ReportsTrue'
  <2>1. \A r \in reports : r.order \in Orders /\ r.order # o
    BY <1>1, <1>5 DEF BooksInv, TypeOK, Report, ReportsTrue
  <2>2. \A r \in reports : brokerState'[r.order] = brokerState[r.order] /\ TradedOf(r.order)' = TradedOf(r.order)
    BY <1>6, <1>7, <2>1
  <2> QED BY <1>1, <1>2, <2>2 DEF ReportsTrue
<1> QED BY <1>1, <1>14, <1>15, <1>16, <1>17, FitPrimed

\* The broker does something with one order.
LEMMA FitAtBroker ==
  ASSUME KernelAssumption, FitInv, BooksInv', UNCHANGED kernel, NEW o \in Orders, ReportsTrue',
         \A p \in Orders : p # o => brokerState'[p] = brokerState[p] /\ TradedOf(p)' = TradedOf(p),
         \A t \in Trades : tradeDay'[t] = tradeDay[t] \/ (tradeDay'[t] >= kernel.day /\ tradeDay'[t] # 0),
         OrderFits(o, kernel.orders[o], kernel.reserved[o], kernel.funds[o], brokerState'[o],
                   Cardinality(TradedOf(o)'), Cardinality(SeenOf(kernel, o)), Cardinality(WaitersOf(kernel, o)))
  PROVE  FitInv'
<1>1. BooksInv /\ AllFit(kernel) /\ SeenGood(kernel) /\ kernel.seen \subseteq Trades /\ kernel' = kernel
  BY DEF FitInv, BooksInv, TypeOK, Kernel
<1>2. \A p \in Orders :
          OrderFits(p, kernel'.orders[p], kernel'.reserved[p], kernel'.funds[p], brokerState'[p],
                    Cardinality(TradedOf(p)'), Cardinality(SeenOf(kernel', p)), Cardinality(WaitersOf(kernel', p)))
  <2> SUFFICES ASSUME NEW p \in Orders
               PROVE  OrderFits(p, kernel.orders[p], kernel.reserved[p], kernel.funds[p], brokerState'[p],
                                Cardinality(TradedOf(p)'), Cardinality(SeenOf(kernel, p)), Cardinality(WaitersOf(kernel, p)))
    BY <1>1
  <2>1. CASE p = o
    BY <2>1
  <2>2. CASE p # o
    <3>1. brokerState'[p] = brokerState[p] /\ TradedOf(p)' = TradedOf(p)
      BY <2>2
    <3> QED BY <1>1, <3>1 DEF AllFit
  <2> QED BY <2>1, <2>2
<1>3. \A p \in Orders : BucketsFit(p, kernel.reserved[p], kernel.day)'
  <2> SUFFICES ASSUME NEW p \in Orders, kernel.reserved[p].held, kernel.reserved[p].offset = "CLOSE_TODAY",
                      NEW t \in TradedOf(p)', BucketsFit(p, kernel.reserved[p], kernel.day)
               PROVE  tradeDay'[t] >= kernel.day
    BY <1>1 DEF BucketsFit, AllFit
  <2>1. t \in Trades /\ t[1] = p /\ tradeDay'[t] # 0
    BY DEF TradedOf
  <2>2. CASE tradeDay'[t] = tradeDay[t]
    <3>1. t \in TradedOf(p)
      BY <2>1, <2>2 DEF TradedOf
    <3> QED BY <2>2, <3>1 DEF BucketsFit
  <2> QED BY <2>1, <2>2
<1>4. SeenGood(kernel)'
  BY <1>1 DEF SeenGood
<1> QED BY <1>2, <1>3, <1>4, FitPrimed

\* A report the broker adds: what it says of its own order is true, and what the
\* earlier ones said of that order is true still.
LEMMA ReportsStayTrue ==
  ASSUME FitInv, NEW o \in Orders,
         \A p \in Orders : p # o => brokerState'[p] = brokerState[p] /\ TradedOf(p)' = TradedOf(p),
         \A r \in reports' : r \in reports \/ r.order = o,
         \A r \in reports' : r.order = o =>
             LET T == Cardinality(TradedOf(o)') IN
             /\ r.filled <= T
             /\ r.status \in {"CANCELLED", "REJECTED"} => Dead(brokerState'[o]) /\ r.filled = T
             /\ r.status = "FILLED" => r.filled = T /\ T = Qty[o]
             /\ brokerState'[o] \notin {"none", "sent"}
  PROVE  ReportsTrue'
<1>1. ReportsTrue /\ \A r \in reports : r.order \in Orders
  BY DEF FitInv, BooksInv, TypeOK, Report
<1> SUFFICES ASSUME NEW r \in reports'
             PROVE  LET T == Cardinality(TradedOf(r.order)') IN
                    /\ r.filled <= T
                    /\ r.status \in {"CANCELLED", "REJECTED"} => Dead(brokerState'[r.order]) /\ r.filled = T
                    /\ r.status = "FILLED" => r.filled = T /\ T = Qty[r.order]
                    /\ brokerState'[r.order] \notin {"none", "sent"}
  BY DEF ReportsTrue
<1>2. CASE r.order = o
  BY <1>2
<1>3. CASE r.order # o
  <2>1. r \in reports /\ r.order \in Orders
    BY <1>1, <1>3
  <2>2. brokerState'[r.order] = brokerState[r.order] /\ TradedOf(r.order)' = TradedOf(r.order)
    BY <1>3, <2>1
  <2> QED BY <1>1, <2>1, <2>2 DEF ReportsTrue
<1> QED BY <1>2, <1>3

LEMMA FitAtReceive ==
  ASSUME KernelAssumption, FitInv, NEW o \in Orders, BrokerReceive(o)
  PROVE  FitInv'
<1> DEFINE b2 == IF Covered(o) THEN "working" ELSE "rejected"
           new == IF Covered(o) THEN {Says(o, "UNKNOWN", 0, FALSE), Says(o, "ACCEPTED", 0, TRUE)}
                  ELSE {Says(o, "REJECTED", 0, FALSE)}
<1>1. BooksInv /\ BooksInv' /\ AllFit(kernel) /\ ReportsTrue
  BY BooksAtReceive DEF FitInv
<1>2. /\ brokerState[o] = "sent" /\ brokerState' = [brokerState EXCEPT ![o] = b2]
      /\ reports' = reports \union new /\ kernel' = kernel /\ tradeDay' = tradeDay
  BY DEF BrokerReceive
<1>3. /\ brokerState \in [Orders -> {"none", "sent", "working", "filled", "cancelled", "rejected"}]
      /\ TradedOf(o) = {} /\ kernel.orders[o].status # "ABSENT"
  BY <1>1, <1>2 DEF BooksInv, TypeOK, TradesGood
<1>4. /\ b2 \notin {"none", "sent"}
      /\ \A r \in new : r.order = o /\ r.filled = 0 /\ r.status # "FILLED" /\ r.status # "CANCELLED"
                        /\ (r.status = "REJECTED" => Dead(b2))
  BY DEF Says, Dead
<1> HIDE DEF b2, new
<1>5. brokerState'[o] = b2 /\ \A p \in Orders : p # o => brokerState'[p] = brokerState[p]
  BY <1>2, <1>3
<1>6. \A p \in Orders : TradedOf(p)' = TradedOf(p)
  BY <1>2 DEF TradedOf
<1>7. Cardinality({}) = 0
  BY FS_EmptySet
<1>8. Cardinality(TradedOf(o)) = 0 /\ Cardinality(TradedOf(o)') = 0
  BY <1>3, <1>6, <1>7
<1>9. OrderFits(o, kernel.orders[o], kernel.reserved[o], kernel.funds[o], brokerState'[o],
                Cardinality(TradedOf(o)'), Cardinality(SeenOf(kernel, o)), Cardinality(WaitersOf(kernel, o)))
  <2>1. OrderFits(o, kernel.orders[o], kernel.reserved[o], kernel.funds[o], "sent",
                  0, Cardinality(SeenOf(kernel, o)), Cardinality(WaitersOf(kernel, o)))
    BY <1>1, <1>2, <1>8 DEF AllFit
  <2>2. kernel.orders[o] \in Order /\ kernel.reserved[o] \in Reservation /\ ~Dead("sent") /\ 0 <= Qty[o] /\ 0 \in Nat
    BY <1>1 DEF BooksInv, TypeOK, Kernel, Dead, KernelAssumption
  <2>3. OrderFits(o, kernel.orders[o], kernel.reserved[o], kernel.funds[o], brokerState'[o],
                  0, Cardinality(SeenOf(kernel, o)), Cardinality(WaitersOf(kernel, o)))
    <3> HIDE DEF OrderFits
    <3>1. 0 <= 0
      OBVIOUS
    <3> QED BY <1>3, <2>1, <2>2, <3>1, FitsWhileAlive
  <2> QED BY <1>8, <2>3
<1>10. ReportsTrue'
  <2>1. \A r \in reports : r.order # o
    BY <1>1, <1>2 DEF ReportsTrue
  <2>2. \A r \in reports' : r.order = o => r \in new
    BY <1>2, <2>1
  <2>3. \A r \in reports' : r.order = o =>
             LET T == Cardinality(TradedOf(o)') IN
             /\ r.filled <= T
             /\ r.status \in {"CANCELLED", "REJECTED"} => Dead(brokerState'[o]) /\ r.filled = T
             /\ r.status = "FILLED" => r.filled = T /\ T = Qty[o]
             /\ brokerState'[o] \notin {"none", "sent"}
    BY <1>4, <1>5, <1>8, <2>2
  <2>4. \A r \in reports' : r \in reports \/ r.order = o
    BY <1>2, <1>4
  <2> QED BY <1>5, <1>6, <2>3, <2>4, ReportsStayTrue
<1> QED BY <1>1, <1>2, <1>5, <1>6, <1>9, <1>10, FitAtBroker

LEMMA FitAtBrokerTrade ==
  ASSUME KernelAssumption, FitInv, NEW o \in Orders, BrokerTrade(o)
  PROVE  FitInv'
<1> DEFINE T == Cardinality(TradedOf(o))
           n == T + 1
           b2 == IF n = Qty[o] THEN "filled" ELSE "working"
           new == Says(o, IF n = Qty[o] THEN "FILLED" ELSE "PARTIALLY_FILLED", n, TRUE)
<1>1. BooksInv /\ BooksInv' /\ AllFit(kernel) /\ ReportsTrue /\ DaysGood /\ TradesGood
  BY BooksAtBrokerTrade DEF FitInv, BooksInv
<1>2. /\ brokerState[o] = "working" /\ brokerState' = [brokerState EXCEPT ![o] = IF n = Qty[o] THEN "filled" ELSE @]
      /\ reports' = reports \union {new} /\ kernel' = kernel
  BY DEF BrokerTrade, Working
<1>3. /\ brokerState \in [Orders -> {"none", "sent", "working", "filled", "cancelled", "rejected"}]
      /\ tradeDay \in [Trades -> Days] /\ kernel.day \in Nat
      /\ kernel.orders[o].status # "ABSENT" /\ brokerDay = kernel.day
      /\ kernel.orders[o] \in Order /\ kernel.reserved[o] \in Reservation
  <2>1. TypeOK
    BY <1>1 DEF BooksInv
  <2>2. kernel \in Kernel
    BY <2>1 DEF TypeOK
  <2>3. kernel.day \in Nat /\ kernel.orders[o] \in Order /\ kernel.reserved[o] \in Reservation
    BY <2>2 DEF Kernel, Days
  <2>4. kernel.orders[o].status # "ABSENT"
    BY <1>1, <1>2 DEF TradesGood
  <2>5. brokerDay = kernel.day
    BY <1>1, <1>2 DEF DaysGood, Working
  <2> QED BY <2>1, <2>3, <2>4, <2>5 DEF TypeOK
<1>4. brokerState'[o] = b2 /\ \A p \in Orders : p # o => brokerState'[p] = brokerState[p]
  BY <1>2, <1>3
<1>5. /\ n \in 1..Qty[o] /\ <<o, n>> \in Trades /\ n \in Nat
      /\ tradeDay' = [tradeDay EXCEPT ![<<o, n>>] = brokerDay] /\ brokerDay \in Days /\ brokerDay # 0
      /\ TradedOf(o)' = Row(o, n)
      /\ \A p \in Orders : p # o => TradedOf(p)' = TradedOf(p)
  BY <1>1, RowGrows
<1>6. T \in Nat /\ T < Qty[o] /\ Qty[o] \in Nat
  BY <1>1, <1>2, TradesNumbered DEF Working
<1>7. Cardinality(TradedOf(o)') = n
  BY <1>5, TradesOfOrder
<1>8. /\ b2 \notin {"none", "sent"} /\ new.order = o /\ new.filled = n /\ new.status \notin {"CANCELLED", "REJECTED"}
      /\ new.status = "FILLED" => n = Qty[o]
  BY DEF Says
<1>9. /\ OrderFits(o, kernel.orders[o], kernel.reserved[o], kernel.funds[o], "working",
                   T, Cardinality(SeenOf(kernel, o)), Cardinality(WaitersOf(kernel, o)))
      /\ \A r \in reports : r.order = o =>
             r.filled <= T /\ (r.status \in {"CANCELLED", "REJECTED"} => Dead("working")) /\ (r.status = "FILLED" => T = Qty[o])
  BY <1>1, <1>2 DEF AllFit, ReportsTrue
<1>10. \A r \in reports : r.filled \in Nat
  BY <1>1 DEF BooksInv, TypeOK, Report
<1> HIDE DEF new, b2, T
<1>11. OrderFits(o, kernel.orders[o], kernel.reserved[o], kernel.funds[o], brokerState'[o],
                 Cardinality(TradedOf(o)'), Cardinality(SeenOf(kernel, o)), Cardinality(WaitersOf(kernel, o)))
  <2>1. ~Dead("working") /\ n \in Nat /\ T <= n /\ n <= Qty[o]
    BY <1>6 DEF Dead
  <2>2. OrderFits(o, kernel.orders[o], kernel.reserved[o], kernel.funds[o], brokerState'[o],
                 n, Cardinality(SeenOf(kernel, o)), Cardinality(WaitersOf(kernel, o)))
    <3> HIDE DEF OrderFits, n
    <3> QED BY <1>3, <1>9, <2>1, FitsWhileAlive
  <2> QED BY <1>7, <2>2
<1>12. ReportsTrue'
  <2>1. \A r \in reports' : r.order = o =>
             /\ r.filled <= n
             /\ r.status \notin {"CANCELLED", "REJECTED"}
             /\ r.status = "FILLED" => r.filled = n /\ n = Qty[o]
    <3> SUFFICES ASSUME NEW r \in reports', r.order = o
                 PROVE  /\ r.filled <= n /\ r.status \notin {"CANCELLED", "REJECTED"}
                        /\ r.status = "FILLED" => r.filled = n /\ n = Qty[o]
      OBVIOUS
    <3>1. CASE r = new
      BY <1>6, <1>8, <3>1
    <3>2. CASE r \in reports
      BY <1>6, <1>9, <1>10, <3>2 DEF Dead
    <3> QED BY <1>2, <3>1, <3>2
  <2>2. \A r \in reports' : r \in reports \/ r.order = o
    BY <1>2, <1>8
  <2>3. \A r \in reports' : r.order = o =>
             LET C == Cardinality(TradedOf(o)') IN
             /\ r.filled <= C
             /\ r.status \in {"CANCELLED", "REJECTED"} => Dead(brokerState'[o]) /\ r.filled = C
             /\ r.status = "FILLED" => r.filled = C /\ C = Qty[o]
             /\ brokerState'[o] \notin {"none", "sent"}
    BY <1>4, <1>7, <1>8, <2>1
  <2> QED BY <1>4, <1>5, <2>2, <2>3, ReportsStayTrue
<1>13. \A t \in Trades : tradeDay'[t] = tradeDay[t] \/ (tradeDay'[t] >= kernel.day /\ tradeDay'[t] # 0)
  <2> SUFFICES ASSUME NEW t \in Trades, t = <<o, n>>
               PROVE  tradeDay'[t] >= kernel.day /\ tradeDay'[t] # 0
    BY <1>3, <1>5
  <2>1. tradeDay'[t] = brokerDay
    BY <1>3, <1>5
  <2> QED BY <1>3, <1>5, <2>1
<1> QED BY <1>1, <1>2, <1>4, <1>5, <1>11, <1>12, <1>13, FitAtBroker

LEMMA FitAtBrokerCancel ==
  ASSUME KernelAssumption, FitInv, NEW o \in Orders, BrokerCancel(o)
  PROVE  FitInv'
<1> DEFINE T == Cardinality(TradedOf(o))
           new == Says(o, "CANCELLED", T, TRUE)
<1>1. BooksInv /\ BooksInv' /\ AllFit(kernel) /\ ReportsTrue /\ TradesGood
  BY BooksAtBrokerCancel DEF FitInv, BooksInv
<1>2. /\ brokerState[o] = "working" /\ brokerState' = [brokerState EXCEPT ![o] = "cancelled"]
      /\ reports' = reports \union {new} /\ kernel' = kernel /\ tradeDay' = tradeDay
  BY DEF BrokerCancel, Working
<1>3. /\ brokerState \in [Orders -> {"none", "sent", "working", "filled", "cancelled", "rejected"}]
      /\ kernel.orders[o].status # "ABSENT"
      /\ kernel.orders[o] \in Order /\ kernel.reserved[o] \in Reservation
  BY <1>1, <1>2 DEF BooksInv, TypeOK, TradesGood, Kernel
<1>4. brokerState'[o] = "cancelled" /\ \A p \in Orders : p # o => brokerState'[p] = brokerState[p]
  BY <1>2, <1>3
<1>5. \A p \in Orders : TradedOf(p)' = TradedOf(p)
  BY <1>2 DEF TradedOf
<1>6. T \in Nat /\ T < Qty[o] /\ Qty[o] \in Nat
  BY <1>1, <1>2, TradesNumbered DEF Working
<1>7. new.order = o /\ new.filled = T /\ new.status = "CANCELLED"
  BY DEF Says
<1>8. /\ OrderFits(o, kernel.orders[o], kernel.reserved[o], kernel.funds[o], "working",
                   T, Cardinality(SeenOf(kernel, o)), Cardinality(WaitersOf(kernel, o)))
      /\ \A r \in reports : r.order = o =>
             r.filled <= T /\ (r.status \in {"CANCELLED", "REJECTED"} => Dead("working")) /\ (r.status = "FILLED" => T = Qty[o])
  BY <1>1, <1>2 DEF AllFit, ReportsTrue
<1>9. Cardinality(TradedOf(o)') = T
  BY <1>5
<1> HIDE DEF new, T
<1>10. OrderFits(o, kernel.orders[o], kernel.reserved[o], kernel.funds[o], brokerState'[o],
                 T, Cardinality(SeenOf(kernel, o)), Cardinality(WaitersOf(kernel, o)))
  <2>1. ~Dead("working") /\ T <= T /\ T <= Qty[o]
    BY <1>6 DEF Dead
  <2> HIDE DEF OrderFits
  <2> QED BY <1>3, <1>6, <1>8, <2>1, FitsWhileAlive
<1>11. ReportsTrue'
  <2>1. \A r \in reports' : r.order = o => r.filled <= T /\ r.status # "FILLED"
                                           /\ (r.status \in {"CANCELLED", "REJECTED"} => r.filled = T)
    <3> SUFFICES ASSUME NEW r \in reports', r.order = o
                 PROVE  r.filled <= T /\ r.status # "FILLED" /\ (r.status \in {"CANCELLED", "REJECTED"} => r.filled = T)
      OBVIOUS
    <3>1. CASE r = new
      BY <1>6, <1>7, <3>1
    <3>2. CASE r \in reports
      BY <1>6, <1>8, <3>2 DEF Dead
    <3> QED BY <1>2, <3>1, <3>2
  <2>2. \A r \in reports' : r \in reports \/ r.order = o
    BY <1>2, <1>7
  <2>3. \A r \in reports' : r.order = o =>
             LET C == Cardinality(TradedOf(o)') IN
             /\ r.filled <= C
             /\ r.status \in {"CANCELLED", "REJECTED"} => Dead(brokerState'[o]) /\ r.filled = C
             /\ r.status = "FILLED" => r.filled = C /\ C = Qty[o]
             /\ brokerState'[o] \notin {"none", "sent"}
    BY <1>4, <1>9, <2>1 DEF Dead
  <2> QED BY <1>4, <1>5, <2>2, <2>3, ReportsStayTrue
<1>12. \A t \in Trades : tradeDay'[t] = tradeDay[t]
  BY <1>2
<1> QED BY <1>1, <1>2, <1>4, <1>5, <1>9, <1>10, <1>11, <1>12, FitAtBroker

\* Requests on their way are lost with the day.
LEMMA FitAtNewDay ==
  ASSUME KernelAssumption, FitInv, BrokerNewDay
  PROVE  FitInv'
<1>1. BooksInv /\ BooksInv' /\ AllFit(kernel) /\ SeenGood(kernel) /\ ReportsTrue /\ TradesGood /\ kernel \in Kernel
  BY BooksAtNewDay DEF FitInv, BooksInv, TypeOK
<1>2. /\ \A o \in Orders : brokerState'[o] = IF brokerState[o] = "sent" THEN "none" ELSE brokerState[o]
      /\ kernel' = kernel /\ tradeDay' = tradeDay /\ reports' = reports
  BY DEF BrokerNewDay
<1>3. \A o \in Orders : TradedOf(o)' = TradedOf(o)
  BY <1>2 DEF TradedOf
<1>4. \A o \in Orders :
          OrderFits(o, kernel'.orders[o], kernel'.reserved[o], kernel'.funds[o], brokerState'[o],
                    Cardinality(TradedOf(o)'), Cardinality(SeenOf(kernel', o)), Cardinality(WaitersOf(kernel', o)))
  <2> SUFFICES ASSUME NEW o \in Orders
               PROVE  OrderFits(o, kernel.orders[o], kernel.reserved[o], kernel.funds[o], brokerState'[o],
                                Cardinality(TradedOf(o)), Cardinality(SeenOf(kernel, o)), Cardinality(WaitersOf(kernel, o)))
    BY <1>2, <1>3
  <2>1. OrderFits(o, kernel.orders[o], kernel.reserved[o], kernel.funds[o], brokerState[o],
                  Cardinality(TradedOf(o)), Cardinality(SeenOf(kernel, o)), Cardinality(WaitersOf(kernel, o)))
    BY <1>1 DEF AllFit
  <2>2. CASE brokerState[o] = "sent"
    <3>1. kernel.orders[o].status # "ABSENT" /\ kernel.orders[o] \in Order /\ kernel.reserved[o] \in Reservation
      BY <1>1, <2>2 DEF TradesGood, Kernel
    <3>2. Cardinality(TradedOf(o)) \in Nat /\ Cardinality(TradedOf(o)) <= Qty[o] /\ Cardinality(TradedOf(o)) <= Cardinality(TradedOf(o))
      BY <1>1, TradesNumbered
    <3>3. ~Dead(brokerState[o])
      BY <2>2 DEF Dead
    <3> HIDE DEF OrderFits
    <3> QED BY <2>1, <3>1, <3>2, <3>3, FitsWhileAlive
  <2>3. CASE brokerState[o] # "sent"
    BY <1>2, <2>1, <2>3
  <2> QED BY <2>2, <2>3
<1>5. \A o \in Orders : BucketsFit(o, kernel.reserved[o], kernel.day)'
  BY <1>1, <1>2, <1>3 DEF AllFit, BucketsFit
<1>6. SeenGood(kernel)'
  BY <1>1, <1>2 DEF SeenGood
<1>7. ReportsTrue'
  <2>1. \A r \in reports : r.order \in Orders /\ brokerState[r.order] # "sent"
    BY <1>1 DEF BooksInv, TypeOK, Report, ReportsTrue
  <2>2. \A r \in reports : brokerState'[r.order] = brokerState[r.order] /\ TradedOf(r.order)' = TradedOf(r.order)
    BY <1>2, <1>3, <2>1
  <2> QED BY <1>1, <1>2, <2>2 DEF ReportsTrue
<1> QED BY <1>1, <1>4, <1>5, <1>6, <1>7, FitPrimed

-------------------------------------------------------------------------------
(* The invariant holds, and what it is for *)

LEMMA FitStart == KernelAssumption /\ Init => FitInv
<1> SUFFICES ASSUME KernelAssumption, Init PROVE FitInv
  OBVIOUS
<1>1. BooksInv
  BY BooksStart
<1>2. /\ reports = {} /\ kernel.seen = {} /\ kernel.unlinked = {}
      /\ tradeDay = [t \in Trades |-> 0] /\ brokerState = [o \in Orders |-> "none"]
  BY DEF Init
<1>3. ASSUME NEW o \in Orders
      PROVE  /\ kernel.orders[o] = [status |-> "ABSENT", cum |-> 0, accounted |-> 0, linked |-> FALSE,
                                    sysLinked |-> FALSE, cancelPending |-> FALSE]
             /\ ~kernel.reserved[o].held
  BY DEF Init
<1>4. ASSUME NEW o \in Orders
      PROVE  TradedOf(o) = {} /\ SeenOf(kernel, o) = {} /\ WaitersOf(kernel, o) = {} /\ brokerState[o] = "none"
  BY <1>2 DEF TradedOf, SeenOf, WaitersOf
<1>5. Cardinality({}) = 0
  BY FS_EmptySet
<1>6. AllFit(kernel)
  <2> SUFFICES ASSUME NEW o \in Orders
               PROVE  /\ OrderFits(o, kernel.orders[o], kernel.reserved[o], kernel.funds[o], "none", 0, 0, 0)
                      /\ BucketsFit(o, kernel.reserved[o], kernel.day)
    BY <1>4, <1>5 DEF AllFit
  <2> DEFINE x == kernel.orders[o]
             res == kernel.reserved[o]
  <2>1. /\ x.status = "ABSENT" /\ x.cum = 0 /\ x.accounted = 0 /\ ~x.linked /\ ~x.sysLinked /\ ~res.held
        /\ Qty[o] \in Nat /\ Qty[o] >= 1
    BY <1>3 DEF KernelAssumption
  <2> HIDE DEF x, res
  <2>2. OrderFits(o, x, res, kernel.funds[o], "none", 0, 0, 0)
    BY <2>1 DEF OrderFits, Dead, Terminal
  <2> QED BY <1>3, <2>2 DEF x, res, BucketsFit
<1>7. SeenGood(kernel)
  BY <1>2 DEF SeenGood
<1>8. ReportsTrue
  BY <1>2 DEF ReportsTrue
<1> QED BY <1>1, <1>6, <1>7, <1>8 DEF FitInv

\* Nothing of kernel and broker changes.
LEMMA FitUntouched ==
  ASSUME KernelAssumption, FitInv, BooksInv', UNCHANGED <<kernel, brokerState, tradeDay, reports>>
  PROVE  FitInv'
<1>1. AllFit(kernel') /\ SeenGood(kernel') /\ UNCHANGED <<brokerState, tradeDay, reports>>
  BY DEF FitInv
<1> QED BY <1>1, FitKept

LEMMA FitStep ==
  ASSUME KernelAssumption, FitInv, [Next]_vars
  PROVE  FitInv'
<1>1. BooksInv'
  BY BooksStep DEF FitInv
<1>2. CASE UNCHANGED vars
  <2>1. UNCHANGED <<kernel, brokerState, tradeDay, reports>>
    BY <1>2 DEF vars, brokerVars
  <2> QED BY <1>1, <2>1, FitUntouched
<1>3. ASSUME NEW o \in Orders, NEW outcome \in {"sent", "not_sent", "crashed"}, Dispatch(o, outcome) PROVE FitInv'
  BY <1>3, FitAtDispatch
<1>4. ASSUME NEW o \in Orders, NEW made \in BOOLEAN, Cancel(o, made) PROVE FitInv'
  BY <1>4, FitAtCancel
<1>5. ASSUME NEW o \in Orders, ReceiveCancelRefusal(o) \/ BrokerRefuseCancel(o) PROVE FitInv'
  <2>1. UNCHANGED <<kernel, brokerState, tradeDay, reports>>
    BY <1>5 DEF ReceiveCancelRefusal, BrokerRefuseCancel
  <2> QED BY <1>1, <2>1, FitUntouched
<1>6. ASSUME NEW r \in reports, ReceiveReport(r) PROVE FitInv'
  BY <1>6, FitAtReport
<1>7. ASSUME NEW t \in Trades, ReceiveTrade(t) PROVE FitInv'
  BY <1>7, FitAtTrade
<1>8. CASE SettlementPrice \/ AdvanceTradingDay
  BY <1>8, FitAtDayEnd
<1>9. CASE Restart
  <2>1. UNCHANGED <<kernel, brokerState, tradeDay, reports>>
    BY <1>9 DEF Restart, brokerVars
  <2> QED BY <1>1, <2>1, FitUntouched
<1>10. ASSUME NEW o \in Orders, BrokerReceive(o) PROVE FitInv'
  BY <1>10, FitAtReceive
<1>11. ASSUME NEW o \in Orders, BrokerTrade(o) PROVE FitInv'
  BY <1>11, FitAtBrokerTrade
<1>12. ASSUME NEW o \in Orders, BrokerCancel(o) PROVE FitInv'
  BY <1>12, FitAtBrokerCancel
<1>13. CASE BrokerNewDay
  BY <1>13, FitAtNewDay
<1> QED BY <1>2, <1>3, <1>4, <1>5, <1>6, <1>7, <1>8, <1>9, <1>10, <1>11, <1>12, <1>13 DEF Next, Account, Broker

\* What an order has reserved covers the trades not seen and the lots still open.
LEMMA ExposureFits ==
  ASSUME KernelAssumption, FitInv
  PROVE  ExposureIsFrozen
<1> SUFFICES ASSUME NEW o \in Orders, OffsetOf[o] # "OPEN"
             PROVE  kernel.reserved[o].yd + kernel.reserved[o].td >= Exposed(o)
  BY DEF ExposureIsFrozen
<1> DEFINE b == brokerState[o]
           x == kernel.orders[o]
           res == kernel.reserved[o]
           T == Cardinality(TradedOf(o))
           S == Cardinality(SeenOf(kernel, o))
<1>1. kernel \in Kernel /\ TradesGood /\ Unborn(kernel) /\ SeenGood(kernel) /\ AllFit(kernel)
  BY DEF FitInv, BooksInv, KernelGood
<1>2. /\ SeenOf(kernel, o) \subseteq TradedOf(o) /\ IsFiniteSet(TradedOf(o)) /\ S \in Nat /\ T \in Nat /\ S <= T
  BY <1>1, SeenNumbers
<1>3. Cardinality(TradedOf(o) \ kernel.seen) = T - S
  <2>1. TradedOf(o) \ kernel.seen = TradedOf(o) \ SeenOf(kernel, o)
    BY <1>1 DEF SeenOf, TradedOf, Kernel
  <2>2. TradedOf(o) \intersect SeenOf(kernel, o) = SeenOf(kernel, o)
    BY <1>2
  <2>3. Cardinality(TradedOf(o) \ SeenOf(kernel, o)) = T - Cardinality(TradedOf(o) \intersect SeenOf(kernel, o))
    BY <1>2, FS_Difference
  <2> QED BY <2>1, <2>2, <2>3
<1>4. /\ res.yd \in Nat /\ res.td \in Nat /\ res.accounted \in Nat /\ Qty[o] \in Nat /\ T <= Qty[o]
      /\ Left(o) = Qty[o] - T
  BY <1>1, Numbers, TradesNumbered
<1>5. Exposed(o) = (T - S) + (IF Dead(b) THEN 0 ELSE Qty[o] - T)
  BY <1>3, <1>4 DEF Exposed, Dead
<1>6. /\ OrderFits(o, x, res, kernel.funds[o], b, T, S, Cardinality(WaitersOf(kernel, o)))
      /\ x.status = "ABSENT" => b = "none" /\ TradedOf(o) = {}
  BY <1>1 DEF AllFit, TradesGood
<1>7. Cardinality({}) = 0
  BY FS_EmptySet
<1>8. x.status = "ABSENT" => Dead(b) /\ T = 0
  BY <1>6, <1>7 DEF Dead
<1> HIDE DEF b, x, res, T, S
<1>9. /\ res.held => res.accounted <= S
      /\ x.status # "ABSENT" /\ ~res.held => Dead(b) /\ T = S
      /\ res.held => res.yd + res.td = Qty[o] - res.accounted \/ (Dead(b) /\ res.yd + res.td = T - res.accounted)
  BY <1>6 DEF OrderFits
<1>10. CASE res.held
  BY <1>2, <1>4, <1>5, <1>9, <1>10 DEF res
<1>11. CASE ~res.held
  <2>1. Dead(b) /\ T = S
    BY <1>2, <1>8, <1>9, <1>11
  <2>2. Exposed(o) = 0
    BY <1>2, <1>5, <2>1
  <2>3. res.yd + res.td >= 0
    BY <1>4
  <2> QED BY <2>2, <2>3 DEF res
<1> QED BY <1>10, <1>11

\* Every trade of an order that is found by its triple can be posted.
LEMMA BookableFits ==
  ASSUME KernelAssumption, FitInv
  PROVE  LinkedTradesAreBookable
<1> SUFFICES ASSUME NEW t \in Trades, tradeDay[t] # 0, kernel.orders[t[1]].linked, t[1] \in Resolved,
                    ~Seen(kernel, t)
             PROVE  Bookable(kernel, t[1], Finds(kernel, t[1], t[1] \in Resolved, TRUE), tradeDay[t])
  BY DEF LinkedTradesAreBookable, CanApplyTrade
<1> DEFINE o == t[1]
           d == tradeDay[t]
<1>1. /\ kernel \in Kernel /\ KernelGood(kernel) /\ Sums(kernel) /\ TradesGood /\ TypeOK /\ SeenGood(kernel) /\ AllFit(kernel)
      /\ DaysGood
  BY DEF FitInv, BooksInv, KernelGood
<1>2. o \in Orders /\ t \in TradedOf(o) /\ kernel.orders[o].status # "ABSENT"
  BY <1>1, TradedIsBorn
<1>3. d \in Days /\ d <= kernel.day
  BY <1>1 DEF TypeOK, DaysGood
<1>4. Finds(kernel, o, o \in Resolved, TRUE) = TRUE
  BY DEF Finds
<1>5. t \notin kernel.seen
  BY DEF Seen
<1> HIDE DEF o, d
<1>6. /\ kernel.reserved[o].held
      /\ OffsetOf[o] # "OPEN" => kernel.reserved[o].yd + kernel.reserved[o].td >= 1
      /\ kernel.reserved[o].offset = "CLOSE_TODAY" => tradeDay[t] >= kernel.day
  BY <1>1, <1>2, <1>5, UnseenIsReserved
<1>7. CASE OffsetOf[o] = "OPEN"
  BY <1>7 DEF Bookable, EffectiveOffset, o, d
<1>8. CASE OffsetOf[o] # "OPEN"
  <2>1. BucketsFit(o, kernel.reserved[o], kernel.day)
    BY <1>1, <1>2 DEF AllFit
  <2>2. kernel.reserved[o].offset = "CLOSE_TODAY" => d >= kernel.day
    BY <1>6 DEF d
  <2>3. Bookable(kernel, o, TRUE, d)
    BY <1>1, <1>2, <1>3, <1>6, <1>8, <2>1, <2>2, TradeConsumes
  <2> QED BY <1>4, <2>3 DEF o, d
<1> QED BY <1>7, <1>8

\* A settled order holds nothing.
LEMMA SettledFits ==
  ASSUME KernelAssumption, FitInv
  PROVE  SettledOrdersHoldNothing
<1> SUFFICES ASSUME NEW o \in Resolved, Settled(o)
             PROVE  ~kernel.reserved[o].held /\ kernel.funds[o] = 0
  BY DEF SettledOrdersHoldNothing
<1> DEFINE T == Cardinality(TradedOf(o))
           S == Cardinality(SeenOf(kernel, o))
<1>1. kernel \in Kernel /\ TradesGood /\ SeenGood(kernel) /\ AllFit(kernel) /\ o \in Orders
  BY DEF FitInv, BooksInv, KernelGood, KernelAssumption
<1>2. kernel.orders[o].status \in Terminal /\ TradedOf(o) \subseteq kernel.seen
  BY DEF Settled, Terminated, TradedOf
<1>3. SeenOf(kernel, o) \subseteq TradedOf(o)
  BY <1>1, SeenNumbers
<1>4. SeenOf(kernel, o) = TradedOf(o)
  BY <1>2, <1>3 DEF SeenOf, TradedOf
<1>5. T = S
  BY <1>4
<1>6. OrderFits(o, kernel.orders[o], kernel.reserved[o], kernel.funds[o], brokerState[o], T, S,
                Cardinality(WaitersOf(kernel, o)))
  BY <1>1 DEF AllFit
<1>7. kernel.orders[o].linked \in BOOLEAN
  BY <1>1 DEF Kernel, Order
<1> HIDE DEF T, S
<1> QED BY <1>2, <1>5, <1>6, <1>7 DEF OrderFits

\* Whatever the broker does and in whatever order, how often and how late it is told:
\* a closing order has reserved what it may still take, a trade of an order the account
\* finds can be booked, and a settled order holds neither lots nor funds
\* (PositionManager.reserve_for_order, on_order_canceled_or_rejected, apply_trade).
THEOREM ReservationsAlwaysFit == AccountSpec => []ReservationsFit
<1> USE KernelAssumption
<1>1. AccountInit => FitInv
  BY FitStart DEF AccountInit
<1>2. FitInv /\ [AccountNext]_accountVars => FitInv'
  <2> SUFFICES ASSUME FitInv, [AccountNext]_accountVars
               PROVE  FitInv'
    OBVIOUS
  <2>1. CASE InKernel(Next)
    <3>1. [Next]_vars
      BY <2>1 DEF InKernel
    <3> QED BY <3>1, FitStep
  <2>2. CASE UNCHANGED vars
    <3>1. [Next]_vars
      BY <2>2
    <3> QED BY <3>1, FitStep
  <2>3. AccountNext => InKernel(Next) \/ UNCHANGED vars
    BY DEF AccountNext, InGate, InLedger, InDay, InPrograms, InControls
  <2>4. accountVars' = accountVars => UNCHANGED vars
    BY DEF accountVars
  <2> QED BY <2>1, <2>2, <2>3, <2>4
<1>3. FitInv => ReservationsFit
  BY ExposureFits, BookableFits, SettledFits DEF ReservationsFit
<1> QED BY <1>1, <1>2, <1>3, PTL DEF AccountSpec
=================================================================================
