------------------------------- MODULE MCResearch -------------------------------
(* Market data and what is computed from them, for TLC: the backtest, how its    *)
(* orders are routed and the prices at which they are filled, the storage of     *)
(* data, the dominant contracts, the calendar, gaps, and the versions of rules.  *)
(* They share no state; a behaviour follows one of them.                         *)
EXTENDS Backtest, TLC

CONSTANTS
    Parts,                      \* what this run follows
    Writers, Readers, Offers, Retirements, MaxDownloads,    \* DataStore
    MaxPrice,                   \* FillPrices
    Contracts, OpeningPrice, ClosingPrice, ConfirmDays, MaxDays, MaxMissing,       \* Contracts
    MaxLots, MaxOrders,         \* Routing
    Ids, MaxTime                \* RuleVersions

\* Nobody is not a process, and there is something to download.
ASSUME StoreAssumption == "nobody" \notin Writers /\ Offers # {}
\* Lots are counted.
ASSUME RouteAssumption == MaxLots \in Nat
\* Sources and versions of rules are numbered, and so are times.
ASSUME RuleAssumption == Ids \subseteq Nat \ {0} /\ MaxTime \in Nat
\* A switch takes a day at least to confirm (build_dominant_mappings); prices are counted
\* in ticks, and above zero, so that they have a ratio (_switch_adjustment).
ASSUME ContractAssumption ==
    /\ ConfirmDays \in Nat \ {0} /\ MaxDays \in Nat /\ "none" \notin Contracts
    /\ OpeningPrice \in [Contracts -> [1..MaxDays -> Nat \ {0}]]
    /\ ClosingPrice \in [Contracts -> [1..MaxDays -> Nat \ {0}]]

VARIABLES
    part, input,
    current, manifests, files, archive, lock, writer, reader, downloads,
    observed, versions,
    terms, position, children, requests, routingDay

\* Two instruments of which one misses a bar, a night, and two days; a third day has
\* a session and no bars.
Bar(i, day, open, end, usable) ==
    [instrument |-> i, day |-> day, open |-> open, end |-> end, usable |-> usable]
MCBars == <<Bar("a", 1, 0, 4, TRUE), Bar("b", 1, 0, 4, TRUE), Bar("a", 1, 4, 8, TRUE),
            Bar("b", 1, 4, 8, FALSE), Bar("a", 2, 16, 20, TRUE), Bar("b", 2, 16, 20, TRUE)>>
MCShapes == {[open |-> 2, high |-> 3, low |-> 1, close |-> 2], [open |-> 3, high |-> 3, low |-> 3, close |-> 3]}
MCSessions == {[start |-> 0, end |-> 8, day |-> 1], [start |-> 12, end |-> 20, day |-> 2],
               [start |-> 24, end |-> 28, day |-> 3]}
MCTerms ==
    [o \in Intents |->
        CASE o = "a1" -> [instrument |-> "a", side |-> "buy", kind |-> "limit", price |-> 1, quantity |-> 2]
          [] o = "a2" -> [instrument |-> "a", side |-> "sell", kind |-> "market", price |-> 0, quantity |-> 1]
          [] o = "b1" -> [instrument |-> "b", side |-> "sell", kind |-> "market", price |-> 0, quantity |-> 1]]
MCLimits == [upper |-> 9, lower |-> 0]

\* A source that revises bars, that gives bars over others, and that gives unsound ones.
Row(start, end, version) == [start |-> start, end |-> end, version |-> version]
MCOffers ==
    {[instrument |-> "x", bars |-> {Row(1, 2, 1), Row(2, 3, 1)}, references |-> {Row(1, 1, 1)}, sound |-> TRUE],
     [instrument |-> "x", bars |-> {Row(1, 3, 2)}, references |-> {Row(1, 1, 2)}, sound |-> TRUE],
     [instrument |-> "y", bars |-> {Row(1, 2, 1)}, references |-> {}, sound |-> TRUE],
     [instrument |-> "y", bars |-> {Row(1, 2, 2)}, references |-> {}, sound |-> FALSE]}

MCRetirements == {{<<"bar", "x">>}}

Store == INSTANCE DataStore

\* Every order, bar and price limits on a grid.
Grid == 1..MaxPrice
Fills == INSTANCE FillPrices WITH Tick <- 2, Slippage <- 1, CrossOneTick <- FALSE, BothSides <- FALSE
PriceInputs ==
    {c \in [order : [side : {"buy", "sell"}, kind : {"limit"}, price : {p \in Grid : p % 2 = 0}]
                    \union [side : {"buy", "sell"}, kind : {"market"}, price : {0}],
            bar : {b \in [open : Grid, high : Grid, low : Grid, close : Grid] :
                       b.open \in b.low..b.high /\ b.close \in b.low..b.high},
            limits : [upper : Grid, lower : Grid]] :
        c.limits.lower < c.limits.upper /\ c.limits.lower <= c.bar.low /\ c.bar.high <= c.limits.upper}

\* Three contracts over five days.
MCOpeningPrice == [x |-> <<1, 2, 3, 6, 5>>, y |-> <<6, 3, 5, 7, 4>>, z |-> <<3, 5, 4, 6, 7>>]
MCClosingPrice == [x |-> <<2, 3, 5, 8, 6>>, y |-> <<7, 5, 4, 9, 3>>, z |-> <<4, 6, 7, 5, 9>>]
Dominant == INSTANCE Contracts

Routes == INSTANCE Routing WITH MaxDays <- 2, day <- routingDay

Rules == INSTANCE RuleVersions

\* Every calendar of nine days from a Monday, with the profiles of products and the
\* announcements of nights; a session with a break, with all bars and evidence on a grid.
Dates == INSTANCE TradingSessions
Profiles ==
    [night : {FALSE}, close : {0}, cancelOnly : {FALSE}]
        \union [night : {TRUE}, close : {23 * 60, 25 * 60, 26 * 60 + 30}, cancelOnly : BOOLEAN]
CalendarInputs ==
    [profile : Profiles, days : (SUBSET {d \in 1..9 : Dates!IsWorkday(d)}) \ {{}},
     announced : {<<>>} \union [{2} -> BOOLEAN] \union [{5} -> BOOLEAN]]
Morning == {Dates!Session(1, 0, 4, "continuous"), Dates!Session(1, 4, 6, "break"),
            Dates!Session(1, 6, 8, "continuous")}
Intervals(grid) == {i \in [start : grid, end : grid] : i.start < i.end}
UpToTwo(S) == {{}} \union {{x, y} : x, y \in S}
GapInputs ==
    [bars : UpToTwo(Intervals({0, 1, 3, 4, 6, 8})),
     evidence : UpToTwo({e \in [start : {0, 2, 4}, end : {2, 4, 8}, kind : {"disconnected", "no trades"}] :
                             e.start < e.end})]

-------------------------------------------------------------------------------
storeVars == <<current, manifests, files, archive, lock, writer, reader, downloads>>
routeVars == <<terms, position, children, requests, routingDay>>
otherVars == <<versions, observed, routeVars>>
researchVars == <<part, input, backtestVars, storeVars, otherVars>>

\* A part that is not followed begins in one state.
ResearchInit ==
    /\ part \in Parts
    /\ input \in CASE part = "prices"   -> PriceInputs
                   [] part = "calendar" -> CalendarInputs
                   [] part = "gaps"     -> GapInputs
                   [] OTHER             -> {<<>>}
    /\ policy \in IF part = "backtest" THEN Policies ELSE {"next bar"}
    /\ part # "routing" => /\ terms = [capability |-> "split", priority |-> "today", sameFee |-> TRUE]
                           /\ position = [yd |-> 0, td |-> 0, frozenYd |-> 0, frozenTd |-> 0]
    /\ BacktestInit /\ Store!DataInit /\ Rules!RulesInit /\ Dominant!ContractsInit /\ Routes!RoutingInit

Simulates(A) == part = "backtest" /\ A /\ UNCHANGED <<part, input, storeVars, otherVars>>
Stores(A) == part = "store" /\ A /\ UNCHANGED <<part, input, backtestVars, otherVars>>
Registers(A) ==
    /\ part = "rules" /\ A
    /\ UNCHANGED <<part, input, backtestVars, storeVars, observed, routeVars>>
Observes(A) ==
    /\ part = "dominant" /\ A
    /\ UNCHANGED <<part, input, backtestVars, storeVars, versions, routeVars>>
Closes(A) == part = "routing" /\ A /\ UNCHANGED <<part, input, backtestVars, storeVars, versions, observed>>

ResearchNext ==
    \/ Simulates(BacktestNext) \/ Stores(Store!DataNext) \/ Registers(Rules!RulesNext)
    \/ Observes(Dominant!ObserveDay) \/ Closes(Routes!RoutingNext)

ResearchSpec == ResearchInit /\ [][ResearchNext]_researchVars

\* Processes that publish are alike.
Alike == Permutations(Writers)

\* Publications are atomic and readers see one of them.
ImplementsAtomicStore == Store!ImplementsAtomicStore
\* Published data, their manifest and their source can be read back.
PublishedIsTraceable == Store!PublishedIsTraceable
\* An order trades only where all it was decided on is past, within one day, and at
\* a price at which it may trade in the bar (Backtest, FillPrices).
BacktestIsFair ==
    /\ TradingIsFair
    /\ part = "prices" => Fills!PossiblePrices(input.order, input.bar, input.limits)
\* Rules are found by what was known (RuleVersions).
RulesAreFound == part = "rules" => Rules!RulesAreFound
\* Dominant contracts and their series are known in time (Contracts).
MappingIsCausal == part = "dominant" => Dominant!MappingIsCausal
\* Sessions count to the trading day that follows, the holidays of the risk hook are
\* those of the templates, and what bars leave open is a gap of one kind (TradingSessions).
SessionsAreSound ==
    /\ part = "calendar" => /\ Dates!SessionsCountToTheirDay(input.profile, input.days, input.announced)
                            /\ Dates!HolidaysAgree(input.days)
    /\ part = "gaps" => Dates!GapsAreTheRest(Morning, input.bars, input.evidence)
\* From intent to exchange nothing is lost, doubled, or named wrongly (Routing).
RoutesAreWhole == part = "routing" => Routes!RoutesAreWhole
=================================================================================
