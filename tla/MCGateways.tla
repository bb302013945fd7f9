------------------------------- MODULE MCGateways -------------------------------
(* CtpSession and LiveFeed for TLC: the trading and the market gateway have      *)
(* front sessions of their own and share no state; a behaviour follows the one   *)
(* or the other.                                                                 *)
EXTENDS CtpSession, Integers

CONSTANTS Sessions, Interval, MaxGap, MaxAge, PriceAt, QueueSize, Horizon, JoinBy, MaxOdd, None

VARIABLES part, clock, emitted, odd, wire, link, counts, queue, loop, paused, agg, bars

\* Two sessions, the first of which ends with a shorter bar.
MCSessions == {[start |-> 0, end |-> 5], [start |-> 6, end |-> 8]}
MCPriceAt == [t \in 0..8 |-> <<2, 3, 1, 3, 2, 1, 2, 3, 1>>[t + 1]]

\* What a front sends, and what is kept of a bar that is not closed.
Snapshots == [kind : {"ok", "empty", "bad", "ahead"}, time : 0..Horizon, price : Int, volume : Nat]
Buckets == [start : Nat, end : Nat, first : Snapshots, last : Snapshots, high : Int, low : Int,
            volume : Int, complete : BOOLEAN, count : Nat]

\* Sessions are stretches of time that do not meet; there is a price at each instant.
ASSUME FeedAssumption ==
    /\ Interval \in Nat \ {0} /\ {MaxGap, MaxAge, QueueSize, Horizon, MaxOdd} \subseteq Nat
    /\ Sessions \subseteq [start : Nat, end : Nat] /\ \A s \in Sessions : s.start < s.end
    /\ \A s, other \in Sessions : s = other \/ s.end <= other.start \/ other.end <= s.start
    /\ \A t \in 0..Horizon : PriceAt[t] \in Int
    /\ None \notin Sessions \union Snapshots \union Buckets

Feed == INSTANCE LiveFeed WITH main <- loop

feedVars == <<clock, emitted, odd, wire, link, counts, queue, loop, paused, agg, bars>>
gatewaysVars == <<part, vars, feedVars>>

GatewaysInit == part \in {"trading", "market"} /\ Init /\ Feed!FeedInit

Trading(A) == part = "trading" /\ A /\ UNCHANGED <<part, feedVars>>
Market(A) == part = "market" /\ A /\ UNCHANGED <<part, vars>>

GatewaysNext == Trading(Next) \/ Market(Feed!FeedNext)

\* The fairness of the two modules, each in its own part.
GatewaysFairness ==
    /\ WF_gatewaysVars(Trading(AccountThread))
    /\ \A step \in Handshakes : WF_gatewaysVars(Trading(AnswerOk(step) \/ AnswerError(step)))
    /\ WF_gatewaysVars(Market(Feed!ClockTicks)) /\ WF_gatewaysVars(Market(Feed!OnMarketData))
    /\ WF_gatewaysVars(Market(Feed!Loop))

GatewaysSpec == GatewaysInit /\ [][GatewaysNext]_gatewaysVars /\ GatewaysFairness

\* Bars are what the exchange traded (LiveFeed).
BarsAreTrue == Feed!BarsAreTrue
\* A bar that is not pauses the feed (LiveFeed).
FalseBarPauses == Feed!FalseBarPauses
=================================================================================
