----------------------------- MODULE AccountLedger -----------------------------
(***************************************************************************)
(* The money of an account: AccountLedger posts fees, closes and daily     *)
(* settlements to one balance, marks its lots to the settlement price, and *)
(* keeps beside it the result of every close against the price its lot was *)
(* opened at.                                                              *)
(*                                                                         *)
(* The account thread applies one fact after the other; a fact that raises *)
(* changes nothing (it is staged on a replica).  Trades may be late by a   *)
(* day; settlement prices come at any time, again and changed.  A lot of n *)
(* is n lots of one, the multiplier is 1 and money is whole.  Positions    *)
(* and reservations are AccountKernel's; closes find their lots here.      *)
(* revise_settlement is called by tests only; the model calls it whenever  *)
(* it may be.  realized_mtm_pnl, a figure of the day, is left out.         *)
(***************************************************************************)
EXTENDS Integers, Sequences, FiniteSetsExt, SequencesExt

CONSTANTS
    Instruments,    \* InstrumentId
    Prices,         \* prices of trades and settlements, in ticks
    Fee,            \* commission of a trade of one lot
    NoPrice,        \* a settlement price that is not known
    LateTrades,     \* whether trades come after their day has ended
    LastDay,        \* model bound: trading days 1..LastDay
    MaxTrades,      \* model bound: trades
    MaxQuotes,      \* model bound: settlement prices that come in
    MaxVersions     \* model bound: versions of a settlement, in their order

VARIABLES
    books,          \* AccountLedger, with the kernel's settlement_prices and pending_advance
    unposted,       \* history: results that neither balance nor basis accounts for
    trades, quotes  \* model bounds: trades booked, settlement prices taken

ledgerVars == <<books, unposted, trades, quotes>>

TradeSides == {"long", "short"}
Days == 1..LastDay
Sign == [s \in TradeSides |-> IF s = "long" THEN 1 ELSE -1]

Lot == [price : Prices, basis : Prices, open : Days, settled : 0..LastDay]
Settlement == [price : Prices, net : Int]

LedgerTypeOK ==
    /\ books.day \in Days
    /\ books.lots \in [Instruments -> [TradeSides -> Seq(Lot)]]
    /\ books.balance \in Int /\ books.fees \in Nat /\ books.tradeResult \in Int
    /\ books.preSettlement \in [Instruments -> Prices \union {NoPrice}]
    /\ books.settlements \in [Days -> [Instruments -> Seq(Settlement)]]
    /\ books.prices \in [Days -> [Instruments -> Prices \union {NoPrice}]]
    /\ books.pendingAdvance \in 0..LastDay
    /\ unposted \in Int /\ trades \in 0..MaxTrades /\ quotes \in 0..MaxQuotes

LedgerInit ==
    /\ books = [day |-> 1, balance |-> 0, fees |-> 0, tradeResult |-> 0,
                lots |-> [i \in Instruments |-> [s \in TradeSides |-> <<>>]],
                preSettlement |-> [i \in Instruments |-> NoPrice],
                settlements |-> [d \in Days |-> [i \in Instruments |-> <<>>]],
                prices |-> [d \in Days |-> [i \in Instruments |-> NoPrice]],
                pendingAdvance |-> 0]   \* the day that is to end, 0 for none
    /\ unposted = 0 /\ trades = 0 /\ quotes = 0

-------------------------------------------------------------------------------
(* Lots: InstrumentLedger *)

\* add_open_lot: a lot of a day that has ended starts at a settlement price.
BasisOf(b, i, p, d) == IF d < b.day THEN b.preSettlement[i] ELSE p

OpenLot(b, i, s, p, d) ==
    [b EXCEPT !.lots[i][s] = Append(@, [price |-> p, basis |-> BasisOf(b, i, p, d),
                                        open |-> d, settled |-> IF d < b.day THEN d ELSE 0])]

\* effective_offset: a late trade closes what is yesterday's by now.
Effective(b, offset, d) ==
    IF d < b.day /\ offset = "CLOSE_TODAY" THEN "CLOSE_YESTERDAY" ELSE offset

\* The lots a close may take, by their place; the first of them is taken.
Candidates(b, i, s, offset) ==
    LET lots == b.lots[i][s]
        today == {n \in DOMAIN lots : lots[n].open >= b.day}
        former == DOMAIN lots \ today
    IN CASE offset = "CLOSE_TODAY"     -> today
         [] offset = "CLOSE_YESTERDAY" -> former
         [] offset = "CLOSE"           -> IF former # {} THEN former ELSE today

\* Mutant of CloseLot: the day's close is measured from the opening price.
CloseFromOpening(b, i, s, p, n) ==
    LET lot == b.lots[i][s][n] IN
    [b EXCEPT !.lots[i][s] = RemoveAt(@, n),
              !.balance = @ + Sign[s] * (p - lot.price),
              !.tradeResult = @ + Sign[s] * (p - lot.price)]

\* close_lot and its postings: the balance gets the result since the last
\* settlement, the other view the result since the opening.
CloseLot(b, i, s, p, n) ==
    LET lot == b.lots[i][s][n] IN
    [b EXCEPT !.lots[i][s] = RemoveAt(@, n),
              !.balance = @ + Sign[s] * (p - lot.basis),
              !.tradeResult = @ + Sign[s] * (p - lot.price)]

Charged(b) == [b EXCEPT !.balance = @ - Fee, !.fees = @ + Fee]

-------------------------------------------------------------------------------
(* Settlements *)

Held(b) == {i \in Instruments : \E s \in TradeSides : b.lots[i][s] # <<>>}

Net(b, i) == Len(b.lots[i]["long"]) - Len(b.lots[i]["short"])

SumOf(f) == MapThenSumSet(LAMBDA x : f[x], DOMAIN f)

\* InstrumentLedger.settle
MarkedGain(lots, s, price) == SumOf([n \in DOMAIN lots |-> Sign[s] * (price - lots[n].basis)])
Marked(lots, day, price) == [n \in DOMAIN lots |-> [lots[n] EXCEPT !.basis = price, !.settled = day]]

MissingPrice(b, day) == \E i \in Held(b) : b.prices[day][i] = NoPrice

\* settle_day: everything held at its settlement price, then the next day.
\* Nobody asks twice for a day that ended (TryAdvance), so nothing held here
\* has been settled for this day before.
SettleDay(b, day) ==
    LET price == b.prices[day]
        gain == [x \in Instruments \X TradeSides |-> MarkedGain(b.lots[x[1]][x[2]], x[2], price[x[1]])]
    IN [b EXCEPT
            !.balance = @ + SumOf(gain),
            !.lots = [i \in Instruments |-> [s \in TradeSides |-> Marked(@[i][s], day, price[i])]],
            !.preSettlement = [i \in Instruments |-> IF i \in Held(b) THEN price[i] ELSE @[i]],
            !.settlements[day] = [i \in Instruments |->
                IF i \in Held(b) THEN Append(@[i], [price |-> price[i], net |-> Net(b, i)]) ELSE @[i]],
            !.day = day + 1, !.pendingAdvance = 0]

\* _try_advance: a day that has ended already is not settled again; a price
\* that is missing leaves the request pending.
TryAdvance(b) ==
    IF b.pendingAdvance = 0 THEN b
    ELSE IF b.pendingAdvance + 1 = b.day THEN [b EXCEPT !.pendingAdvance = 0]
    ELSE IF MissingPrice(b, b.pendingAdvance) THEN b
    ELSE SettleDay(b, b.pendingAdvance)

-------------------------------------------------------------------------------
(* Facts *)

\* A late opening trade jumps from its own price to a settlement price; nobody
\* posts what lies between.
TradeFact(i, s, offset, p, d) ==
    /\ trades < MaxTrades /\ trades' = trades + 1 /\ UNCHANGED quotes
    /\ d \in ({books.day} \union IF LateTrades THEN {books.day - 1} ELSE {}) \intersect Days
    /\ IF offset = "OPEN"
       THEN /\ d < books.day => books.preSettlement[i] # NoPrice
            /\ books' = OpenLot(Charged(books), i, s, p, d)
            /\ unposted' = unposted + Sign[s] * (BasisOf(books, i, p, d) - p)
       ELSE LET from == Candidates(books, i, s, Effective(books, offset, d)) IN
            /\ from # {}
            /\ books' = CloseLot(Charged(books), i, s, p, Min(from))
            /\ UNCHANGED unposted

\* The price counts at once for lots that come late, whichever day it is of.
SettlementPriceFact(d, i, p) ==
    /\ d \in {books.day, books.day - 1} \intersect Days
    /\ quotes < MaxQuotes /\ quotes' = quotes + 1
    /\ books' = TryAdvance([books EXCEPT !.prices[d][i] = p, !.preSettlement[i] = p])
    /\ UNCHANGED <<unposted, trades>>

\* The order to end a day; of a day that has ended it may come again.
AdvanceFact(d) ==
    /\ d \in {books.day, books.day - 1} \intersect (Days \ {LastDay})
    /\ books' = TryAdvance([books EXCEPT !.pendingAdvance = d])
    /\ UNCHANGED <<unposted, trades, quotes>>

\* rebase_settled_lots: the lots whose basis is the price that is revised.
Revised(lot, day, old) == lot.settled = day /\ lot.basis = old
Rebased(lots, day, old, new) ==
    [n \in DOMAIN lots |-> IF Revised(lots[n], day, old) THEN [lots[n] EXCEPT !.basis = new] ELSE lots[n]]
Moved(lots, s, day, old) ==
    SumOf([n \in DOMAIN lots |-> IF Revised(lots[n], day, old) THEN Sign[s] ELSE 0])

\* revise_settlement: the difference is posted for all that was held when the
\* day was settled, the basis moves for what is still held of it.
ReviseSettlement(d, i, p) ==
    LET history == books.settlements[d][i]
        latest == Last(history)
        delta == p - latest.price
        moved == SumOf([s \in TradeSides |-> Moved(books.lots[i][s], s, d, latest.price)])
    IN /\ history # <<>> /\ Len(history) < MaxVersions
       /\ books' = [books EXCEPT
              !.balance = @ + delta * latest.net,
              !.lots[i] = [s \in TradeSides |-> Rebased(@[s], d, latest.price, p)],
              !.preSettlement[i] = IF @ = latest.price THEN p ELSE @,
              !.settlements[d][i] = Append(@, [price |-> p, net |-> latest.net])]
       /\ unposted' = unposted - delta * (latest.net - moved)
       /\ UNCHANGED <<trades, quotes>>

LedgerNext ==
    \/ \E i \in Instruments, s \in TradeSides, p \in Prices, d \in Days :
           \E offset \in {"OPEN", "CLOSE_TODAY", "CLOSE_YESTERDAY", "CLOSE"} :
               TradeFact(i, s, offset, p, d)
    \/ \E i \in Instruments, p \in Prices, d \in Days :
           SettlementPriceFact(d, i, p) \/ ReviseSettlement(d, i, p)
    \/ \E d \in Days : AdvanceFact(d)

LedgerSpec == LedgerInit /\ [][LedgerNext]_ledgerVars

-------------------------------------------------------------------------------
(* Properties *)

Earned(lots, s) == SumOf([n \in DOMAIN lots |-> Sign[s] * (lots[n].basis - lots[n].price)])

\* What closes and open lots have earned, counted from their opening prices.
Result(b) ==
    b.tradeResult - b.fees
        + SumOf([x \in Instruments \X TradeSides |-> Earned(b.lots[x[1]][x[2]], x[2])])

\* The balance and the results trade by trade are two views of one account: a
\* gain that a settlement posted is not in it again when the lot is closed, for
\* every order of trades, prices, settlements and days.  The two ways in which
\* the code loses or repeats a result (a late opening trade, a revision after a
\* close) are in the history variable, and there is no third.
TwoViewsAgree == books.balance + unposted = Result(books)

\* A day ends with every lot at its official settlement price, never at another
\* day's price or, because a price was missing, at no price.
EndsSettled(before, after) ==
    \A i \in Instruments, s \in TradeSides : \A n \in DOMAIN after.lots[i][s] :
        /\ after.lots[i][s][n].settled = before.day
        /\ after.lots[i][s][n].basis = after.prices[before.day][i]

\* Every step keeps the two views together, and a step to another day ends the day
\* settled.
StepIsSound == TwoViewsAgree' /\ (books'.day # books.day => EndsSettled(books, books'))
LedgerIsSound == [][StepIsSound]_ledgerVars
===============================================================================
