------------------------------- MODULE LiveFeed -------------------------------
(***************************************************************************)
(* Market data of one contract, from the exchange's snapshots to the bars  *)
(* the strategy is given: the market front session and its callbacks       *)
(* (gateway/ctp_market.py), the bounded queue and the loop of              *)
(* scripts/run_simnow_strategy.py, and the aggregator (data/live_bars.py). *)
(*                                                                         *)
(* The clock moves between any two steps.  A snapshot carries the time of  *)
(* the exchange, a price and the volume traded so far; it may be delivered *)
(* late, may carry no price, fields that cannot be converted or a time     *)
(* ahead of the local clock, and is lost when the front is down or the     *)
(* queue is full.  Nothing is resent.                                      *)
(***************************************************************************)
EXTENDS Integers, Sequences, FiniteSets, SequencesExt

CONSTANTS
    Sessions,      \* continuous sessions: records [start, end], disjoint
    Interval,      \* length of a bar
    MaxGap,        \* max_gap: accepted distance of two snapshots
    MaxAge,        \* max_tick_age: accepted delay of a snapshot, of a close
    PriceAt,       \* the market price at each instant
    QueueSize,     \* QueueSink.capacity
    Horizon,       \* model bound: the last instant
    JoinBy,        \* model bound: the loop has begun by then
    MaxOdd,        \* model bound: snapshots that are not usable
    None

VARIABLES
    clock,         \* local time, in step with the exchange's
    emitted,       \* history: every priced snapshot the exchange made
    odd,           \* snapshots made that are not usable
    wire,          \* snapshots under way to the callback thread
    link,          \* the gateway's session flags and subscription
    counts,        \* which of the gateway's and the sink's counters are not 0
    queue,         \* QueueSink.queue
    main,          \* where the main thread is
    paused,        \* quote_state["fault"] is set
    agg,           \* the aggregator
    bars           \* history: bars given to the strategy

feedVars == <<clock, emitted, odd, wire, link, counts, queue, main, paused, agg, bars>>
market == <<clock, emitted, odd>>

SessionAt(at) ==
    IF \E s \in Sessions : s.start <= at /\ at < s.end
    THEN CHOOSE s \in Sessions : s.start <= at /\ at < s.end ELSE None

FeedInit ==
    /\ clock = 0 /\ emitted = {} /\ odd = 0 /\ wire = <<>>
    /\ link = [up |-> FALSE, loggedIn |-> FALSE, answered |-> FALSE,
               subscribed |-> FALSE, asked |-> "nothing"]
    /\ counts = {} /\ queue = <<>> /\ main = "front" /\ paused = FALSE /\ bars = <<>>
    /\ agg = [bucket |-> None, last |-> None, session |-> None, event |-> -1, closed |-> 0]

-------------------------------------------------------------------------------
(* The exchange and the front (external) *)

\* Model bound: nothing is followed once the feed is paused (a paused feed drops
\* what comes, for good) or the run is over.
Followed == ~paused /\ main # "ended"

ClockTicks ==
    /\ Followed /\ clock < Horizon
    /\ \A t \in ToSet(wire) \union ToSet(queue) : clock - t.time <= MaxAge    \* model bound
    /\ main \in {"health", "drain", "advance"} \/ clock < JoinBy
    /\ clock' = clock + 1
    /\ UNCHANGED <<emitted, odd, wire, link, counts, queue, main, paused, agg, bars>>

Snapshot(kind) ==
    [kind |-> kind, time |-> clock, price |-> PriceAt[clock], volume |-> Cardinality(emitted) + 1]

\* At most one trade an instant; its snapshot is sent to subscribers only.
Trades(kind) ==
    /\ Followed /\ \A t \in emitted : t.time < clock
    /\ kind # "ok" => odd < MaxOdd /\ link.asked = "market"
    /\ emitted' = IF kind = "empty" THEN emitted ELSE emitted \union {Snapshot("ok")}
    /\ odd' = IF kind = "ok" THEN odd ELSE odd + 1
    /\ wire' = IF link.asked = "market" THEN Append(wire, Snapshot(kind)) ELSE wire
    /\ UNCHANGED <<clock, link, counts, queue, main, paused, agg, bars>>

FrontUp ==
    /\ main = "front" /\ ~link.up /\ link' = [link EXCEPT !.up = TRUE]
    /\ UNCHANGED <<market, wire, counts, queue, main, paused, agg, bars>>

\* on_front_disconnected; what was under way is lost.
FrontDown ==
    /\ Followed /\ link.up
    /\ link' = [link EXCEPT !.up = FALSE, !.loggedIn = FALSE, !.answered = FALSE, !.asked = "nothing"]
    /\ counts' = counts \union {"disconnected"} /\ wire' = <<>>
    /\ UNCHANGED <<market, queue, main, paused, agg, bars>>

\* on_login: an error answers the wait as well.
LoginReply(ok) ==
    /\ link.asked = "login" /\ ~link.answered
    /\ link' = [link EXCEPT !.answered = TRUE, !.loggedIn = ok]
    /\ UNCHANGED <<market, wire, counts, queue, main, paused, agg, bars>>

SubscribeReply(ok) ==
    /\ link.asked = "market" /\ ~link.subscribed
    /\ link' = [link EXCEPT !.subscribed = ok, !.asked = IF ok THEN @ ELSE "nothing"]
    /\ UNCHANGED <<market, wire, counts, queue, main, paused, agg, bars>>

-------------------------------------------------------------------------------
(* on_market_data: convert, stamp, queue.  A time ahead of the local clock is *)
(* replaced by the time of arrival.                                           *)

\* Mutant of Dropped: a snapshot that finds the queue full is not counted.
DroppedSilently(c) == c
\* QueueSink.enqueue: a full queue drops and counts.
Dropped(c) == c \union {"dropped"}

Stamped(t) == IF t.kind = "ahead" THEN [t EXCEPT !.kind = "ok", !.time = clock] ELSE t

OnMarketData ==
    /\ Followed /\ wire # <<>> /\ wire' = Tail(wire)
    /\ LET t == Head(wire)
           full == Len(queue) >= QueueSize
       IN CASE t.kind = "bad" ->
                 counts' = counts \union {"conversion_failures"} /\ UNCHANGED queue
            [] t.kind = "empty" -> UNCHANGED <<counts, queue>>
            [] OTHER ->
                 LET late == IF t.kind = "ahead" THEN {"timestamp_anomalies"} ELSE {}
                 IN IF full THEN counts' = Dropped(counts) \union late /\ UNCHANGED queue
                    ELSE counts' = counts \union late /\ queue' = Append(queue, Stamped(t))
    /\ UNCHANGED <<market, link, main, paused, agg, bars>>

-------------------------------------------------------------------------------
(* LiveBarAggregator *)

MarkGap(a) == [a EXCEPT !.bucket = None, !.last = None, !.session = None]

Result(a, out, gap) == [agg |-> a, bars |-> out, gap |-> gap]

\* _finish: a bucket whose beginning was not seen, of one snapshot, with a
\* silent end or closed late is no bar.
MissingTail(b) == b.end - b.last.time > MaxGap
LateClose(b, at) == at - b.end > MaxAge
Finish(a, at) ==
    LET b == a.bucket
        bad == MissingTail(b) \/ LateClose(b, at)
    IN Result([a EXCEPT !.bucket = None, !.closed = b.end],
              IF b.complete /\ b.count >= 2 /\ ~bad
              THEN <<[start |-> b.start, end |-> b.end, open |-> b.first.price, high |-> b.high,
                      low |-> b.low, close |-> b.last.price, volume |-> b.volume]>>
              ELSE <<>>,
              bad)

SameSession(a, t) == a.last # None /\ a.session = SessionAt(t.time)

\* What on_tick rejects.
Untrusted(a, t, at) ==
    \/ t.time > at \/ at - t.time > MaxAge
    \/ t.time <= a.event
    \/ t.time < a.closed
    \/ SessionAt(t.time) = None
    \/ (a.last # None /\ t.volume < a.last.volume)
    \/ (SameSession(a, t) /\ t.time - a.last.time > MaxGap)

\* Mutant of SeenFromStart: a bucket joined in its middle counts as whole.
JoinedAnywhere(a, t, start) == TRUE
\* A bucket is whole when its first instant was seen, or the session before it.
SeenFromStart(a, t, start) == t.time = start \/ (SameSession(a, t) /\ a.last.time < start)

NewBucket(a, t, traded) ==
    LET s == SessionAt(t.time)
        start == s.start + ((t.time - s.start) \div Interval) * Interval
        end == IF start + Interval < s.end THEN start + Interval ELSE s.end
    IN [start |-> start, end |-> end, first |-> t, last |-> t, high |-> t.price, low |-> t.price,
        volume |-> traded, complete |-> SeenFromStart(a, t, start), count |-> 1]

Extended(b, t, traded) ==
    [b EXCEPT !.last = t, !.count = @ + 1, !.volume = @ + traded,
              !.high = IF t.price > @ THEN t.price ELSE @,
              !.low = IF t.price < @ THEN t.price ELSE @]

\* on_tick of a trusted snapshot: close what it proves closed, then take it.
Taken(a, t, at) ==
    LET closed == IF a.bucket # None /\ t.time >= a.bucket.end THEN Finish(a, at) ELSE Result(a, <<>>, FALSE)
        traded == IF SameSession(a, t) THEN t.volume - a.last.volume ELSE 0
        b == closed.agg.bucket
    IN [closed EXCEPT !.agg = [closed.agg EXCEPT
            !.bucket = IF b = None THEN NewBucket(a, t, traded) ELSE Extended(b, t, traded),
            !.last = t, !.session = SessionAt(t.time), !.event = t.time]]

Advanced(a, at) ==
    CASE a.bucket = None -> Result(a, <<>>, FALSE)
      [] a.bucket # None /\ at >= a.bucket.end -> Finish(a, at)
      [] OTHER -> IF at - a.bucket.last.time > MaxGap THEN Result(MarkGap(a), <<>>, TRUE) ELSE Result(a, <<>>, FALSE)

-------------------------------------------------------------------------------
(* The main thread: connect, subscribe, then the loop *)

\* connect(): both waits may end without an answer, and the run with them.
RequestLogin ==
    /\ main = "front" /\ link.up /\ main' = "login"
    /\ link' = [link EXCEPT !.asked = "login"]
    /\ UNCHANGED <<market, wire, counts, queue, paused, agg, bars>>

Subscribe ==
    /\ main = "login" /\ link.answered /\ link.loggedIn /\ main' = "subscribed"
    /\ link' = [link EXCEPT !.asked = "market"]
    /\ UNCHANGED <<market, wire, counts, queue, paused, agg, bars>>

StartLoop ==
    /\ main = "subscribed" /\ link.subscribed /\ main' = "health"
    /\ UNCHANGED <<market, wire, link, counts, queue, paused, agg, bars>>

\* A wait that times out, a refused login or subscription, or the deadline,
\* which is tested at the head of the loop.
End ==
    /\ Followed /\ main \in {"front", "login", "subscribed", "health"} /\ main' = "ended"
    /\ UNCHANGED <<market, wire, link, counts, queue, paused, agg, bars>>

\* pause: once, and for good.
Pause(a) == paused' = TRUE /\ agg' = MarkGap(a)

Unhealthy == ~link.up \/ ~link.loggedIn \/ counts # {}

CheckHealth ==
    /\ Followed /\ main = "health" /\ main' = "drain"
    /\ IF Unhealthy THEN Pause(agg) ELSE UNCHANGED <<paused, agg>>
    /\ UNCHANGED <<market, wire, link, counts, queue, bars>>

\* accept_event: what the runtime itself demands of a snapshot.
Fresh(t) == t.time <= clock /\ clock - t.time <= MaxAge /\ "timestamp_anomalies" \notin counts

AcceptTick ==
    /\ Followed /\ main = "drain" /\ queue # <<>> /\ queue' = Tail(queue)
    /\ LET t == Head(queue)
           r == Taken(agg, t, clock)
       IN IF ~Fresh(t) \/ Untrusted(agg, t, clock) THEN Pause(agg) /\ UNCHANGED bars
          ELSE IF r.gap THEN Pause(r.agg) /\ UNCHANGED bars
          ELSE agg' = r.agg /\ bars' = bars \o r.bars /\ UNCHANGED paused
    /\ UNCHANGED <<market, wire, link, counts, main>>

Drained ==
    /\ Followed /\ main = "drain" /\ queue = <<>> /\ main' = "advance"
    /\ UNCHANGED <<market, wire, link, counts, queue, paused, agg, bars>>

Advance ==
    /\ Followed /\ main = "advance" /\ main' = "health"
    /\ LET r == Advanced(agg, clock)
       IN IF r.gap THEN Pause(r.agg) /\ bars' = bars \o r.bars
          ELSE agg' = r.agg /\ bars' = bars \o r.bars /\ UNCHANGED paused
    /\ UNCHANGED <<market, wire, link, counts, queue>>

Loop == CheckHealth \/ AcceptTick \/ Drained \/ Advance

-------------------------------------------------------------------------------
FeedNext ==
    \/ ClockTicks \/ FrontUp \/ FrontDown
    \/ \E k \in {"ok", "empty", "bad", "ahead"} : Trades(k)
    \/ \E ok \in BOOLEAN : LoginReply(ok) \/ SubscribeReply(ok)
    \/ OnMarketData
    \/ RequestLogin \/ Subscribe \/ StartLoop \/ End
    \/ Loop

FeedSpec == FeedInit /\ [][FeedNext]_feedVars

\* Time passes, the callback thread runs, the loop goes on to the end of the run.
FeedFairness == WF_feedVars(ClockTicks) /\ WF_feedVars(OnMarketData) /\ WF_feedVars(Loop)

-------------------------------------------------------------------------------
(* Properties *)

FeedTypeOK ==
    /\ clock \in 0..Horizon /\ odd \in 0..MaxOdd
    /\ \A t \in emitted \union ToSet(wire) \union ToSet(queue) : t.time \in 0..Horizon
    /\ link \in [up : BOOLEAN, loggedIn : BOOLEAN, answered : BOOLEAN, subscribed : BOOLEAN,
                 asked : {"nothing", "login", "market"}]
    /\ counts \subseteq {"disconnected", "conversion_failures", "timestamp_anomalies", "dropped"}
    /\ Len(queue) <= QueueSize /\ paused \in BOOLEAN
    /\ main \in {"front", "login", "subscribed", "health", "drain", "advance", "ended"}

\* What the exchange traded in the interval of a bar.
Within(b) == {t \in emitted : b.start <= t.time /\ t.time < b.end}
Earliest(S) == CHOOSE t \in S : \A u \in S : t.time <= u.time
Latest(S) == CHOOSE t \in S : \A u \in S : t.time >= u.time
Before(b) == {t \in emitted : t.time < b.start /\ SessionAt(t.time) = SessionAt(b.start)}

\* The volume counts from the last trade before the bar, or from a first trade
\* seen at the very start of the bar.
TrueBar(b) ==
    LET S == Within(b)
        first == Earliest(S)
        last == Latest(S)
    IN /\ Cardinality(S) >= 2
       /\ b.open = first.price /\ b.close = last.price
       /\ \A t \in S : b.low <= t.price /\ t.price <= b.high
       /\ \E t, u \in S : t.price = b.low /\ u.price = b.high
       /\ \/ first.time = b.start /\ b.volume = last.volume - first.volume
          \/ Before(b) # {} /\ b.volume = last.volume - Latest(Before(b)).volume

InFlight(b) == \E t \in ToSet(wire) \union ToSet(queue) : t.kind # "empty" /\ b.start <= t.time /\ t.time < b.end

\* Every bar the strategy was given is the bar of what the exchange traded in
\* its interval, whole and counted once, and bars follow each other; unless a
\* snapshot of it is still on its way (the clock closed the bar first), a loss
\* has been counted, or the feed is paused already
\* (live_bars.py:1-5, run_simnow_strategy.py:741-768).
BarsAreTrue ==
    /\ FeedTypeOK
    /\ \A i \in 1..(Len(bars) - 1) : bars[i].end <= bars[i + 1].start
    /\ \A i \in DOMAIN bars : TrueBar(bars[i]) \/ InFlight(bars[i]) \/ counts # {} \/ paused

\* A bar that is not what the exchange traded, for whatever reason (late, lost
\* with the front, dropped at a full queue, not convertible), does not go
\* unnoticed: the feed is paused, or the run is over.
FalseBarPauses ==
    (\E i \in DOMAIN bars : ~TrueBar(bars[i])) ~> (paused \/ main = "ended")
===============================================================================
