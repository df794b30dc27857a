------------------------------- MODULE Figures -------------------------------
(***************************************************************************)
(* What the overview, the heatmap and the services screen make of the      *)
(* connection log (app.js, charts.js; dashboard/handlers.go and            *)
(* storage/analytics.go count it): the headline figures, the decision      *)
(* flow, the chart of a range, the week by local hour and the strip of a   *)
(* service.  Everything is a function of the log and of the time; when the *)
(* answers come is Screens.  Time is counted in half hours, so that an     *)
(* hour has an inside; a day has DayHours hours and a week WeekDays days.  *)
(***************************************************************************)
EXTENDS Integers, Sequences, FiniteSets, Functions, FiniteSetsExt

CONSTANTS
    DayHours, WeekDays,   \* 24 and 7
    Zone,       \* hours the browser's clock is ahead of UTC
    PeakFloor,  \* a peak of fewer connections is not named: 10
    TopSent, TopShown,  \* the busiest sources that are sent, and listed: 8 and 5
    Attackers,  \* the sources
    OutcomeOf,  \* [Attackers -> what becomes of their connections]
    Bursts,     \* bound: how many connections come at once
    MaxLog, LastTick  \* bounds: bursts, and the last half hour

ASSUME FiguresAssumption ==
    /\ DayHours \in Nat \ {0} /\ WeekDays \in Nat \ {0} /\ Zone \in 0..DayHours /\ PeakFloor \in Nat
    /\ TopSent \in Nat /\ TopShown \in 1..TopSent
    /\ IsFiniteSet(Attackers) /\ DOMAIN OutcomeOf = Attackers
    /\ Bursts \subseteq Nat \ {0} /\ MaxLog \in Nat /\ LastTick \in Nat

VARIABLES log, now  \* the bursts [at, src, n] in their order, and the half hour it is
figures_vars == <<log, now>>

-----------------------------------------------------------------------------
(* The server counts.                                                      *)

Ranges7 == {"24h", "7d"}
HourTicks == 2
Span(range) == IF range = "24h" THEN DayHours * HourTicks ELSE WeekDays * DayHours * HourTicks

\* A faulty form, for a mutant: it ends now.
UntilNow(t) == t + 1

\* parseRange: the window ends with the hour in progress.
Until(t) == (t \div HourTicks + 1) * HourTicks

CountIn(bursts, from, to, src) ==
    LET within == {i \in DOMAIN bursts : bursts[i].at >= from /\ bursts[i].at < to /\ bursts[i].src \in src}
    IN SumFunction([i \in within |-> bursts[i].n])
Connections(range) == CountIn(log, Until(now) - Span(range), Until(now), Attackers)
Previous(range) == CountIn(log, Until(now) - 2 * Span(range), Until(now) - Span(range), Attackers)
Of(range, s) == CountIn(log, Until(now) - Span(range), Until(now), {s})
Outcome(range, o) ==
    CountIn(log, Until(now) - Span(range), Until(now), {s \in Attackers : OutcomeOf[s] = o})

\* TopSources: the busiest first, of equals the one seen last; the database
\* has its own order for what is equal in both, and keeps to the limit.
Ranked(range) == {s \in Attackers : Of(range, s) > 0}
LastSeen(range, s) ==
    Max({log[i].at : i \in {i \in DOMAIN log : log[i].src = s /\ log[i].at < Until(now)}})
Busier(range, s, o) ==
    Of(range, s) > Of(range, o) \/ (Of(range, s) = Of(range, o) /\ LastSeen(range, s) > LastSeen(range, o))
TopLists(range) ==
    {q \in UNION {[1..n -> Ranked(range)] : n \in 0..TopSent} :
        /\ \A i, j \in DOMAIN q : i < j => q[i] # q[j] /\ ~Busier(range, q[j], q[i])
        /\ \A s \in Ranked(range) \ Range(q) : Len(q) = TopSent /\ \A o \in Range(q) : ~Busier(range, s, o)}

\* Series: the start is cut down to a whole hour; empty hours are zero.
Hours(from, to) == from \div HourTicks .. (to - 1) \div HourTicks
Series(from, to) ==
    [h \in Hours(from, to) |-> CountIn(log, h * HourTicks, Min({to, (h + 1) * HourTicks}), Attackers)]
Buckets(range) == Series(Until(now) - Span(range), Until(now))
\* handleServices counts back from now.
Strip == Series(now + 1 - Span("24h"), now + 1)
Hits24h == CountIn(log, now + 1 - Span("24h"), now + 1, Attackers)

-----------------------------------------------------------------------------
(* The overview.                                                           *)

Total(f) == SumFunction(f)
Peak(f) == Max({f[h] : h \in DOMAIN f})

\* The figure under a headline figure: none, the change and whether it is new.
Delta(v, p) ==
    [word |-> IF v = 0 /\ p = 0 THEN "none" ELSE IF p = 0 THEN "new" ELSE IF v = p THEN "same" ELSE "change",
     signed |-> v - p]

\* The finding, for the list top_sources: kept as it was if that is empty.
Busiest(range, top) ==
    IF Connections(range) = 0 THEN [kind |-> "quiet"]
    ELSE IF top = <<>> THEN [kind |-> "kept"]
    ELSE [kind |-> "busiest", ip |-> top[1], made |-> Of(range, top[1]), of |-> Connections(range)]

\* The rows under it, and how long a bar is among them all, in tenths of a
\* percent as toFixed rounds them.
SourceRows(top) == [i \in 1..Min({TopShown, Len(top)}) |-> top[i]]
Flow(range) ==
    LET shown == {o \in Range(OutcomeOf) : Outcome(range, o) > 0} IN [o \in shown |-> Outcome(range, o)]
Bar(v, all) == LET most == Max({1} \cup all) IN (2000 * v + most) \div (2 * most)

\* renderSeries: the tallest bar is named when it is far above the middle one.
Nth(f, k) == Min({v \in Range(f) : Cardinality({x \in DOMAIN f : f[x] <= v}) > k})  \* at index k of the sorted values
Median(f) == Nth(f, Cardinality(DOMAIN f) \div 2)
FirstPeak(f) == Min({h \in DOMAIN f : f[h] = Peak(f)})
Named(f) ==
    IF Peak(f) >= PeakFloor /\ Peak(f) > 3 * Max({1, Median(f)}) THEN {FirstPeak(f)} ELSE {}

\* bucketLabels: an hour of the day chart by its time, one of the week by its
\* day too, the first of a day by the day alone; those are under the axis.
HourOf(h) == (h + Zone) % DayHours
DayOf(h) == (h + Zone) \div DayHours
Label(range, h) ==
    IF range = "24h" THEN [day |-> 0, hour |-> HourOf(h)]
    ELSE [day |-> DayOf(h), hour |-> IF HourOf(h) = 0 THEN -1 ELSE HourOf(h)]
UnderAxis(f) == {h \in DOMAIN f : HourOf(h) = 0}

-----------------------------------------------------------------------------
(* The week by local day and hour.                                         *)

Today == DayOf(now \div HourTicks)
Thishour == HourOf(now \div HourTicks)
DaysOf(f) == {DayOf(h) : h \in DOMAIN f}
Rows(f) == {d \in DaysOf(f) : d > Max(DaysOf(f)) - WeekDays}
Cell(f, d, hr) == Total(Restrict(f, {h \in DOMAIN f : DayOf(h) = d /\ HourOf(h) = hr}))
isFuture(d, hr) == d = Today /\ hr > Thishour

\* The scale ends at the 95th percentile of the hours that saw something.
Grid(f) == [c \in Rows(f) \X (0..DayHours - 1) |-> Cell(f, c[1], c[2])]
Scale(grid) ==
    LET busy == Restrict(grid, {c \in DOMAIN grid : grid[c] > 0})
        n == Cardinality(DOMAIN busy)
    IN IF n = 0 THEN 1 ELSE Nth(busy, Min({n - 1, (n * 95) \div 100}))
\* One of five shades, or the empty one.
Fill(v, top) == IF v = 0 THEN -1 ELSE Min({4, (4999 * Min({v, top})) \div (1000 * top)})

-----------------------------------------------------------------------------
(* The services screen: one column for each hour of a service.             *)

Columns(f) == LET most == Max({1, Peak(f)})
              IN [h \in DOMAIN f |-> IF f[h] = 0 THEN 1 ELSE Max({3, (28 * f[h]) \div most})]
InProgress(f) == Max(DOMAIN f)

-----------------------------------------------------------------------------
(* The log grows and time passes.                                          *)

FiguresInit == log = <<>> /\ now = 0
Burst(s, n) ==
    /\ Len(log) < MaxLog
    /\ log' = Append(log, [at |-> now, src |-> s, n |-> n]) /\ UNCHANGED now
HalfHour == now < LastTick /\ now' = now + 1 /\ UNCHANGED log
FiguresNext == HalfHour \/ \E s \in Attackers, n \in Bursts : Burst(s, n)
FiguresSpec == FiguresInit /\ [][FiguresNext]_figures_vars

FiguresTypeOK ==
    log \in Seq([at : 0..now, src : Attackers, n : Bursts]) /\ Len(log) <= MaxLog /\ now \in 0..LastTick

\* The numbers on the overview are one another's: the bars of a range add up
\* to its headline figure, the flow shares it out, and the change leads from
\* the period before to this one.
OverviewAgrees(range) ==
    LET made == Connections(range)
        before == Previous(range)
    IN /\ Total(Buckets(range)) = made /\ Total(Flow(range)) = made
       /\ before + Delta(made, before).signed = made
       /\ Delta(made, before).word \in {"new", "none"} => before = 0
\* The busiest sources, whichever list of them the server sends: a source is
\* named exactly if there were connections, and no other made more; the rows
\* add up to no more than the headline figure, and to less only if the list is
\* full; nobody left out of it made more than somebody in it; the bars start
\* at full width and do not grow.
SourcesTold(range, top) ==
    LET made == Connections(range)
        busiest == Busiest(range, top)
        rows == SourceRows(top)
        sum == Total([i \in DOMAIN rows |-> Of(range, rows[i])])
        bar(i) == Bar(Of(range, rows[i]), {Of(range, s) : s \in Range(top)})
    IN /\ busiest.kind = "busiest" <=> made > 0
       /\ made > 0 => busiest.made \in 1..made /\ \A s \in Attackers : Of(range, s) <= busiest.made
       /\ sum <= made /\ (sum < made => Len(rows) = TopShown)
       /\ \A s \in Attackers \ Range(rows), o \in Range(rows) : Of(range, s) <= Of(range, o)
       /\ rows # <<>> => bar(1) = 1000
       /\ \A i, j \in DOMAIN rows : i < j => bar(j) <= bar(i)
\* A bar that is named is the tallest, and most hours saw less than a third of
\* it; on the chart of a day no other bar has its label, on the week's one
\* neither.
PeakTold(range) == LET f == Buckets(range) IN
    \A p \in Named(f) :
        /\ \A h \in DOMAIN f : f[h] <= f[p]
        /\ 2 * Cardinality({h \in DOMAIN f : 3 * f[h] < f[p]}) > Cardinality(DOMAIN f)
        /\ \A h \in DOMAIN f \ {p} : Label(range, h) # Label(range, p)
\* The week shows every connection of the days it has, none in a cell that is
\* left out as still to come, in more than the empty shade and in no lighter
\* a shade than an hour with fewer; the days under the axis of the chart are
\* those of the week.
WeekTold ==
    LET f == Buckets("7d")
        rows == Rows(f)
        grid == Grid(f)
        top == Scale(grid)
        shade == [c \in DOMAIN grid |-> Fill(grid[c], top)]
    IN /\ Total(Restrict(grid, {c \in DOMAIN grid : ~isFuture(c[1], c[2])}))
             = Total(Restrict(f, {h \in DOMAIN f : DayOf(h) \in rows}))
       /\ Cardinality(rows) = WeekDays /\ Today \in rows
       /\ \A c \in DOMAIN grid : grid[c] > 0 <=> shade[c] >= 0
       /\ \A c, o \in DOMAIN grid : grid[c] <= grid[o] => shade[c] <= shade[o]
       /\ \A h \in UnderAxis(f) : Label("7d", h) = [day |-> DayOf(h), hour |-> -1]
FiguresTrue ==
    /\ \A range \in Ranges7 :
           OverviewAgrees(range) /\ PeakTold(range) /\ \A top \in TopLists(range) : SourcesTold(range, top)
    /\ WeekTold

\* The strip of a service has a column for each of the 24 hours whose
\* connections the figure beside it counts.
StripIsTheDay ==
    Cardinality(DOMAIN Strip) = DayHours /\ Total(Strip) = Hits24h /\ Columns(Strip)[InProgress(Strip)] >= 1
=============================================================================
