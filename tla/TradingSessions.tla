----------------------------- MODULE TradingSessions -----------------------------
(***************************************************************************)
(* When a contract trades and to which trading day that counts             *)
(* (data/session_templates.py, data/calendar.py), what may be opened       *)
(* before a holiday (domain/risk.py HolidayRiskHook), and what is missing  *)
(* from data that cover a calendar (data/gaps.py).  All are functions of   *)
(* a calendar; they are compared with what trading days, holidays and gaps *)
(* are.                                                                    *)
(*                                                                         *)
(* Time is counted in minutes; day d begins at d * Day and day 1 is a      *)
(* Monday.  A profile says whether there is a night session, when it ends, *)
(* and how the day is opened.                                              *)
(***************************************************************************)
EXTENDS Integers, Sequences, FiniteSets

Hour == 60
Day == 24 * Hour

IsWorkday(d) == d % 7 \in 1..5

Earlier(days, d) == {x \in days : x < d}
Later(days, d) == {x \in days : x > d}
First(set) == CHOOSE x \in set : \A y \in set : x <= y
Last(set) == CHOOSE x \in set : \A y \in set : y <= x

-------------------------------------------------------------------------------
(* Session templates. *)

Session(day, start, end, phase) == [day |-> day, start |-> start, end |-> end, phase |-> phase]
MaySubmit(s) == s.phase \in {"continuous", "auction"}
MayMatch(s) == s.phase \in {"continuous", "match"}

\* No night session where a workday between two trading days is a holiday; an
\* announcement for the day before says otherwise.
HasNight(day, previous, announced) ==
    IF previous \in DOMAIN announced THEN announced[previous]
    ELSE \A d \in (previous + 1)..(day - 1) : ~IsWorkday(d)

\* The night of a trading day is that of the trading day before, and may end on the
\* day after that.
NightSessions(profile, day, previous) ==
    LET at == previous * Day IN
    {Session(day, at + 20 * Hour + 55, at + 20 * Hour + 59, "auction"),
     Session(day, at + 20 * Hour + 59, at + 21 * Hour, "match"),
     Session(day, at + 21 * Hour, at + profile.close, "continuous")}

DaySessions(profile, day) ==
    LET at(hour, minute) == day * Day + hour * Hour + minute IN
    {Session(day, at(8, 55), at(8, 59), IF profile.cancelOnly THEN "cancel only" ELSE "auction"),
     Session(day, at(8, 59), at(9, 0), IF profile.cancelOnly THEN "waiting" ELSE "match"),
     Session(day, at(9, 0), at(10, 15), "continuous"), Session(day, at(10, 15), at(10, 30), "break"),
     Session(day, at(10, 30), at(11, 30), "continuous"), Session(day, at(11, 30), at(13, 30), "break"),
     Session(day, at(13, 30), at(15, 0), "continuous")}

\* The first day of a calendar has no night: the day before it is not known.
NightOf(profile, days, day, announced) ==
    IF ~profile.night \/ Earlier(days, day) = {} THEN {}
    ELSE LET previous == Last(Earlier(days, day)) IN
         IF HasNight(day, previous, announced) THEN NightSessions(profile, day, previous) ELSE {}

SessionsOf(profile, days, day, announced) ==
    NightOf(profile, days, day, announced) \union DaySessions(profile, day)

AllSessions(profile, days, announced) == UNION {SessionsOf(profile, days, day, announced) : day \in days}

-------------------------------------------------------------------------------
(* The calendar. *)

Overlap(a, b) == a.start < b.end /\ b.start < a.end
Accepted(sessions) == \A a, b \in sessions : a # b => ~Overlap(a, b)

\* By the session that contains an instant; Day 0 is none.
TradingDay(sessions, t) ==
    LET covering == {s \in sessions : s.start <= t /\ t < s.end} IN
    IF Cardinality(covering) = 1 THEN (CHOOSE s \in covering : TRUE).day ELSE 0

\* The first workday of each gap between trading days that has one.
HolidayStarts(days) ==
    {d \in 1..Last(days) : /\ d \notin days /\ IsWorkday(d) /\ Earlier(days, d) # {}
                           /\ \A x \in (Last(Earlier(days, d)) + 1)..(d - 1) : ~IsWorkday(x)}

\* Few enough trading days before the last one that is before a holiday.
InHolidayWindow(days, d, before) ==
    \E start \in Later(HolidayStarts(days), d) :
        LET eve == Last(Earlier(days, start)) IN
        eve >= d /\ Cardinality({x \in days : d < x /\ x <= eve}) < before

MayOpenOn(days, d, before) == ~InHolidayWindow(days, d, before)

-------------------------------------------------------------------------------
(* Gaps: what the bars of a day leave uncovered of a session, by what is known about  *)
(* the cause.                                                                         *)

\* A gap is cut at the bounds of the evidence about it, and each piece has one cause.
Causes(evidence, left, right) == {e.kind : e \in {x \in evidence : x.start <= left /\ x.end >= right}}
KindOf(causes) ==
    CASE causes = {}              -> "missing"
      [] Cardinality(causes) = 1  -> CHOOSE c \in causes : TRUE
      [] OTHER                    -> "conflicting"

Classified(evidence, start, end) ==
    LET relevant == {e \in evidence : e.start < end /\ e.end > start}
        points == {start, end} \union {e.start : e \in relevant} \union {e.end : e \in relevant}
        inside == {p \in points : start <= p /\ p <= end}
    IN  {[start |-> p, end |-> First(Later(inside, p)), kind |-> KindOf(Causes(relevant, p, First(Later(inside, p))))] :
            p \in inside \ {end}}

Clipped(bars, session) ==
    {[start |-> IF b.start > session.start THEN b.start ELSE session.start,
      end |-> IF b.end < session.end THEN b.end ELSE session.end] :
        b \in {x \in bars : x.start < session.end /\ x.end > session.start}}

\* A plausible slip: a bar within another one uncovers its rest.
EndOfLast(cursor, end) == end

\* Bars are taken by their start; where they overlap, what is covered stays covered.
Further(cursor, end) == IF end > cursor THEN end ELSE cursor

InOrder(set) ==
    CHOOSE q \in [1..Cardinality(set) -> set] :
        /\ \A x \in set : \E i \in DOMAIN q : q[i] = x
        /\ \A i, j \in DOMAIN q : i < j => q[i].start < q[j].start \/ (q[i].start = q[j].start /\ q[i].end <= q[j].end)

GapsIn(session, bars, evidence) ==
    LET coverage == InOrder(Clipped(bars, session))
        scan[i \in 0..Len(coverage)] ==
            IF i = 0 THEN [cursor |-> session.start, gaps |-> {}]
            ELSE LET before == scan[i - 1]
                     bar == coverage[i]
                 IN  [cursor |-> Further(before.cursor, bar.end),
                      gaps |-> before.gaps \union
                          (IF bar.start > before.cursor THEN Classified(evidence, before.cursor, bar.start) ELSE {})]
        whole == scan[Len(coverage)]
    IN  whole.gaps \union
            (IF whole.cursor < session.end THEN Classified(evidence, whole.cursor, session.end) ELSE {})

\* Only sessions in which orders are matched continuously are to be covered.
Gaps(sessions, bars, evidence) ==
    UNION {GapsIn(s, bars, evidence) : s \in {x \in sessions : x.phase = "continuous"}}

-------------------------------------------------------------------------------
\* Sessions do not overlap, so that the calendar accepts them, and every one counts to
\* the trading day that ends first after it: nights, also those that end on a Saturday
\* or before a holiday that was announced to have one, to the next trading day.
SessionsCountToTheirDay(profile, days, announced) ==
    LET sessions == AllSessions(profile, days, announced) IN
    /\ Accepted(sessions)
    /\ \A s \in sessions :
           /\ s.day = First({d \in days : d * Day + 15 * Hour >= s.end})
           /\ TradingDay(sessions, s.start) = s.day /\ TradingDay(sessions, s.end - 1) = s.day

\* The risk hook and the templates agree on holidays: without an announcement, the day
\* on which nothing is opened because a holiday follows is the day after which there is
\* no night, and a hook of two days adds the trading day before it.
HolidaysAgree(days) ==
    \A d \in days \ {Last(days)} :
        LET next == First(Later(days, d)) IN
        /\ MayOpenOn(days, d, 1) <=> HasNight(next, d, <<>>)
        /\ MayOpenOn(days, d, 2) <=> MayOpenOn(days, d, 1) /\ MayOpenOn(days, next, 1)

\* Of every minute to be covered, either a bar covers it or exactly one gap, of the kind
\* that the evidence about this minute says; nothing else is a gap.
GapsAreTheRest(sessions, bars, evidence) ==
    LET gaps == Gaps(sessions, bars, evidence)
        within(set, m) == {x \in set : x.start <= m /\ m < x.end}
        active == {s \in sessions : s.phase = "continuous"}
    IN  \A m \in First({s.start : s \in sessions})..Last({s.end : s \in sessions}) :
            LET found == within(gaps, m) IN
            IF within(active, m) = {} \/ within(bars, m) # {} THEN found = {}
            ELSE \E g \in found : found = {g} /\ g.kind = KindOf({e.kind : e \in within(evidence, m)})
=================================================================================
