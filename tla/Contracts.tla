-------------------------------- MODULE Contracts --------------------------------
(***************************************************************************)
(* Which contract of a product is the dominant one, and the continuous     *)
(* series made of the dominant contracts' bars (data/dominant_contract.py, *)
(* data/continuous.py).  Both are computed from a history of daily bars;   *)
(* here the history grows by a day at a time, so that what was computed    *)
(* from less of it can be compared with what is computed from more.        *)
(*                                                                         *)
(* Of open interest and volume only the contract that leads on a day       *)
(* matters.  Day d is open from 2d to 2d + 1.                              *)
(***************************************************************************)
EXTENDS Integers, Sequences, FiniteSets

CONSTANTS
    Contracts,
    OpeningPrice, ClosingPrice,    \* by contract and day
    ConfirmDays,
    MaxDays, MaxMissing     \* model bounds: days, and bars that contracts do not have

VARIABLE observed   \* by day: the contracts that have a bar, and the one that leads

NoContract == "none"
StartOf(d) == 2 * d
EndOf(d) == 2 * d + 1
Beyond == EndOf(MaxDays) + 1

ContractsInit == observed = <<>>

Missing(history) == {x \in Contracts \X DOMAIN history : x[1] \notin history[x[2]].bars}

ObserveDay ==
    /\ Len(observed) < MaxDays
    /\ \E bars \in SUBSET Contracts : \E leader \in bars :
           observed' = Append(observed, [bars |-> bars, leader |-> leader])
    /\ Cardinality(Missing(observed')) <= MaxMissing

-------------------------------------------------------------------------------
(* The mapping, day by day: entries that have ended, and the one that has not. *)

Unmapped == [ended |-> <<>>, dominant |-> NoContract, since |-> 0, challenger |-> NoContract, days |-> 0]

\* Mutant of Effective: from the beginning of the day it is decided on.
EffectiveAtOnce(history, d) == StartOf(d)
\* A switch is in effect when the next day opens; on the last day of a history
\* there is no next day, and it is in effect when the day ends.
Effective(history, d) == IF d < Len(history) THEN StartOf(d + 1) ELSE EndOf(d)

\* The first leader is dominant; another one is when it has led for some days on end.
Begun(m, d, leader) == [m EXCEPT !.dominant = leader, !.since = StartOf(d)]
Unchallenged(m) == [m EXCEPT !.challenger = NoContract, !.days = 0]
Challenged(m, leader) ==
    [m EXCEPT !.challenger = leader, !.days = IF m.challenger = leader THEN m.days + 1 ELSE 1]
Switched(history, m, d) ==
    [Unchallenged(m) EXCEPT
        !.ended = Append(@, [contract |-> m.dominant, from |-> m.since, to |-> Effective(history, d)]),
        !.dominant = m.challenger, !.since = Effective(history, d)]

Mapped(history, m, d) ==
    LET leader == history[d].leader
        challenged == Challenged(m, leader)
    IN  IF m.dominant = NoContract THEN Begun(m, d, leader)
        ELSE IF leader = m.dominant THEN Unchallenged(m)
        ELSE IF challenged.days >= ConfirmDays THEN Switched(history, challenged, d)
        ELSE challenged

Mapping(history) ==
    LET upTo[d \in 0..Len(history)] == IF d = 0 THEN Unmapped ELSE Mapped(history, upTo[d - 1], d)
        m == upTo[Len(history)]
    IN  Append(m.ended, [contract |-> m.dominant, from |-> m.since, to |-> Beyond])

\* The first entry in effect at the end of each day.
Dominants(history) ==
    LET mapping == Mapping(history)
        inEffect(t) == {i \in 1..Len(mapping) : mapping[i].from <= t /\ t < mapping[i].to}
        first(set) == CHOOSE i \in set : \A j \in set : i <= j
    IN  [d \in 1..Len(history) |-> mapping[first(inEffect(EndOf(d)))].contract]

-------------------------------------------------------------------------------
(* The continuous series: of every day the dominant contract's bar, if it has one. *)

\* Of two bars that follow each other: the prices of two days or of one that are compared
\* when the contract changes.
Adjustment(history, last, bar) ==
    LET old == last.contract
        new == bar.contract
        closes(day) == [old |-> ClosingPrice[old][day], new |-> ClosingPrice[new][day], degraded |-> FALSE]
    IN  IF old = new THEN [old |-> 1, new |-> 1, degraded |-> FALSE]
        ELSE IF new \in history[last.day].bars THEN closes(last.day)
        ELSE IF old \in history[bar.day].bars THEN closes(bar.day)
        ELSE [old |-> ClosingPrice[old][last.day], new |-> OpeningPrice[new][bar.day], degraded |-> TRUE]

\* The spreads are summed, and the ratios multiplied, and later bars adjusted by them.
Item(bar, spread, old, new, degraded) ==
    [day |-> bar.day, contract |-> bar.contract, spread |-> spread, old |-> old, new |-> new, degraded |-> degraded]
Adjusted(history, sofar, bar) ==
    IF sofar = <<>> THEN <<Item(bar, 0, 1, 1, FALSE)>>
    ELSE LET last == sofar[Len(sofar)]
             a == Adjustment(history, last, bar)
         IN  Append(sofar, Item(bar, last.spread + a.new - a.old, last.old * a.old, last.new * a.new, a.degraded))

\* On a day on which the dominant contract has no bar the series has none.
Series(history) ==
    LET dominants == Dominants(history)
        upTo[d \in 0..Len(history)] ==
            IF d = 0 THEN <<>>
            ELSE IF dominants[d] \notin history[d].bars THEN upTo[d - 1]
            ELSE Adjusted(history, upTo[d - 1], [day |-> d, contract |-> dominants[d]])
    IN  upTo[Len(history)]

\* The adjusted closing price, by difference and by ratio.
Shifted(item) == ClosingPrice[item.contract][item.day] - item.spread
Scaled(item) == [num |-> ClosingPrice[item.contract][item.day] * item.old, den |-> item.new]

-------------------------------------------------------------------------------
\* What is dominant at the end of a day is not changed by the days that come after
\* the next one, and neither is the series up to that day.  (Every shorter history is
\* a state of its own, so that the last day is taken away only.)
PastIsKept ==
    Len(observed) > 2 =>
        LET past(series) == {<<i, series[i]>> : i \in {i \in DOMAIN series : series[i].day <= Len(observed) - 2}}
        IN  past(Series(SubSeq(observed, 1, Len(observed) - 1))) = past(Series(observed))

\* A contract becomes dominant if and only if it has led on the days before, as many as
\* confirm it.  On the first day there are none, and on the last the switch comes early.
SwitchesAreConfirmed ==
    LET dominants == Dominants(observed) IN
    \A d \in 2..(Len(observed) - 1) :
        LET led(c) == d > ConfirmDays /\ \A k \in 1..ConfirmDays : observed[d - k].leader = c
        IN  /\ dominants[d] # dominants[d - 1] => led(dominants[d])
            /\ \A c \in Contracts : led(c) => dominants[d] = c

\* The adjusted series moves as one contract did between the same two days, be it the
\* old or the new one; where neither has both prices it moves as the new one's bar did,
\* and says that it is degraded.
ChangesAreReal ==
    LET series == Series(observed)
        real(from, to) ==
            LET moved(before, after) ==
                    /\ Shifted(to) - Shifted(from) = after - before
                    /\ Scaled(to).num * Scaled(from).den * before = Scaled(from).num * Scaled(to).den * after
                both == {c \in {from.contract, to.contract} :
                            c \in observed[from.day].bars /\ c \in observed[to.day].bars}
            IN  IF to.degraded
                THEN both = {} /\ moved(OpeningPrice[to.contract][to.day], ClosingPrice[to.contract][to.day])
                ELSE \E c \in both : moved(ClosingPrice[c][from.day], ClosingPrice[c][to.day])
    IN  \A i \in 2..Len(series) : real(series[i - 1], series[i])

\* Dominant contracts and their series are known in time.
MappingIsCausal == PastIsKept /\ SwitchesAreConfirmed /\ ChangesAreReal
==================================================================================
