-------------------------------- MODULE Charts --------------------------------
(***************************************************************************)
(* Where the bars of the dashboard put what is written on them             *)
(* (charts.js): the labels picked for the axis below, their places, and    *)
(* the rows of annotations above the plot.  Lengths are pixels; of the     *)
(* annotations only markers are modelled, the only kind the dashboard has. *)
(* The assumptions compare each choice with what its comment promises.     *)
(***************************************************************************)
EXTENDS Readings

-----------------------------------------------------------------------------
(* The labels below: n of them, one bar each, of which some are written.   *)
(* minutes is Sundry unless every label is a time of day.                  *)

Sundry == <<>>
LabelWidth(length) == 7 * length
Cap(span, length) == Max({2, Min({8, span \div (LabelWidth(length) + 18)})})

\* Clock labels step in whole hours, halves or quarters, from a round time.
RoundStep(m) == IF m >= 60 THEN m \in {60, 120, 180, 240, 360, 720} ELSE 60 % m = 0
Clocked(minutes) == minutes # Sundry /\ minutes[1] > minutes[0]
StartOf(minutes, k) ==
    LET Hourly(m) == {i \in DOMAIN minutes : minutes[i] % m = 0}
        round == Hourly(Max({60, k * (minutes[1] - minutes[0])}))
    IN IF ~Clocked(minutes) THEN 0
       ELSE Min(IF round # {} THEN round ELSE IF Hourly(60) # {} THEN Hourly(60) ELSE {0})
CountOf(n, minutes, k) == (n - 1 - StartOf(minutes, k)) \div k + 1

\* The smallest step with a label at the end, if it leaves enough of them, or
\* the smallest there is.
Steps(n, cap, minutes) ==
    {k \in 1..n - 1 : /\ Clocked(minutes) => RoundStep(k * (minutes[1] - minutes[0]))
                      /\ CountOf(n, minutes, k) <= cap}
StepOf(n, cap, minutes) ==
    LET all == Steps(n, cap, minutes)
        land == {k \in all : (n - 1 - StartOf(minutes, k)) % k = 0}
    IN IF land # {} /\ CountOf(n, minutes, Min(land)) >= Max({3, (6 * cap + 9) \div 10}) THEN Min(land)
       ELSE IF all # {} THEN Min(all) ELSE n - 1
xPicks(n, cap, minutes) ==
    LET k == StepOf(n, cap, minutes)
        s == IF Steps(n, cap, minutes) = {} THEN 0 ELSE StartOf(minutes, k)
    IN IF n <= cap THEN 0..n - 1 ELSE {i \in s..n - 1 : (i - s) % k = 0}

\* axes: a label is centred below its bar and pulled inside the drawing.
\* Places are in parts of 2 * n to a pixel.
LeftOfLabel(i, n, padL, span, length) ==
    LET tw == LabelWidth(length)
    IN Max({0, Min({2 * n * (padL + span - tw), 2 * n * padL + span * (2 * i + 1) - n * tw})})

\* The hourly axis of a day that starts at an hour, and the axis of a month.
HourAxis(n, from) == [i \in 0..n - 1 |-> 60 * ((from + i) % 24)]
Spans == {180, 240, 320, 420, 560, 700, 900, 1200}

Apart(n, length, minutes, span) ==
    LET picks == xPicks(n, Cap(span, length), minutes)
    IN \A i, j \in picks : i < j =>
           LeftOfLabel(j, n, 40, span, length) >= LeftOfLabel(i, n, 40, span, length) + 2 * n * LabelWidth(length)

\* Whatever the width and the hour, two or more labels are written and none
\* runs into the next.
ASSUME LabelsApart ==
    \A span \in Spans :
        /\ \A n \in 24..25, from \in 0..23 :
               /\ Apart(n, 5, HourAxis(n, from), span)
               /\ Cardinality(xPicks(n, Cap(span, 5), HourAxis(n, from))) \in 2..8
        /\ \A n \in 2..31 : Apart(n, 6, Sundry, span) /\ Cardinality(xPicks(n, Cap(span, 6), Sundry)) \in 2..8

\* The hours written are multiples of their step.  An axis that starts at 23:00
\* is the exception: its second label is smaller than its first, the code does
\* not take it for a clock, and it reads 23:00, 03:00, 07:00.
ASSUME HoursAreRound ==
    \A span \in Spans, n \in 24..25, from \in 0..23 :
        LET m == HourAxis(n, from)  cap == Cap(span, 5)
        IN (\A i \in xPicks(n, cap, m) : m[i] % (60 * StepOf(n, cap, m)) = 0) <=> from # 23

-----------------------------------------------------------------------------
(* The labels above: a marker at x with a label and maybe a short form, by *)
(* their widths, in one of three rows, right or left of its own line.      *)

Gap == 6
MarkerOf(x, label, short) == [x |-> x, label |-> label, short |-> short]
Dropped == [row |-> -1]
OptionsOf(it, w) ==
    LET Box(width, row, x0) == [row |-> row, x0 |-> x0, x1 |-> x0 + width, leader |-> it.x, short |-> width = it.short]
        Of(width) == <<Box(width, 0, it.x + 4), Box(width, 0, it.x - 4 - width), Box(width, 1, it.x + 4),
                       Box(width, 1, it.x - 4 - width), Box(width, 2, it.x + 4), Box(width, 2, it.x - 4 - width)>>
        Inside(c) == c.x0 >= 0 /\ c.x1 <= w
    IN SelectSeq(Of(it.label) \o (IF it.short > 0 THEN Of(it.short) ELSE <<>>), Inside)

\* No overlap in a row; a line runs down through the rows below its own label.
Through(p, c) == p.row >= c.row /\ p.leader > c.x0 - 3 /\ p.leader < c.x1 + 3
FreeOf(c, p) ==
    p = Dropped \/ (/\ ~(p.row = c.row /\ c.x0 < p.x1 + Gap /\ c.x1 > p.x0 - Gap)
                    /\ ~Through(p, c) /\ ~Through(c, p))

\* The first arrangement of the rest, in the order of the options, or none.
RECURSIVE Solve(_, _, _, _)
Solve(rest, placed, w, mode) ==
    IF rest = <<>> THEN {placed}
    ELSE LET Fits(c) == (c.short => mode # "full") /\ \A i \in DOMAIN placed : FreeOf(c, placed[i])
             options == SelectSeq(OptionsOf(Head(rest), w), Fits)
             Then(c) == Solve(Tail(rest), Append(placed, c), w, mode)
             good == {i \in DOMAIN options : Then(options[i]) # {}}
         IN IF good # {} THEN Then(options[Min(good)])
            ELSE IF mode = "drop" THEN Then(Dropped) ELSE {}

\* Full labels first, then short forms, and only then is one dropped.
lane(items, w) ==
    LET best(mode) == Solve(items, <<>>, w, mode)
        mode == IF best("full") # {} THEN "full" ELSE IF best("short") # {} THEN "short" ELSE "drop"
    IN CHOOSE a \in best(mode) : TRUE

\* Markers from left to right on a plot 60 wide.
SomeMarkers == {MarkerOf(x, l, s) : x \in {10, 24, 31, 50}, l \in {18, 30}, s \in {0, 8}}
Lanes == {<<a, b>> \in SomeMarkers \X SomeMarkers : a.x < b.x}
             \cup {<<a, b, c>> \in SomeMarkers \X SomeMarkers \X SomeMarkers : a.x < b.x /\ b.x < c.x /\ a.label = c.label}

\* A label that is written covers no other and no line; one is left out only
\* when no arrangement has them all, and then no row has room for it.
ASSUME LaneKept ==
    \A items \in Lanes :
        LET a == lane(items, 60)
            ways == [i \in DOMAIN items |-> {OptionsOf(items[i], 60)[k] : k \in DOMAIN OptionsOf(items[i], 60)}]
            Together(f) == \A i, j \in DOMAIN items : i # j => FreeOf(f[i], f[j])
        IN /\ \A i, j \in DOMAIN items : i # j /\ a[i] # Dropped => FreeOf(a[i], a[j])
           /\ \A i \in DOMAIN items : a[i] = Dropped =>
                  /\ ~\E f \in [DOMAIN items -> UNION {ways[j] : j \in DOMAIN items}] :
                         (\A j \in DOMAIN items : f[j] \in ways[j]) /\ Together(f)
                  /\ \A c \in ways[i] : \E j \in DOMAIN items \ {i} : ~FreeOf(c, a[j])

\* One marker, as the busiest hour has, is written in the lowest row whenever
\* one of its sides has room for its label.
ASSUME OneIsWritten ==
    \A x \in 0..60, width \in {18, 30, 50} :
        LET a == lane(<<MarkerOf(x, width, 0)>>, 60)[1]
        IN IF x + 4 + width <= 60 \/ x - 4 - width >= 0 THEN a # Dropped /\ a.row = 0 ELSE a = Dropped

-----------------------------------------------------------------------------
(* The bars, in rows * 14 pixels below the labels, from the top tick down. *)

ROW == 14
LANE(rows) == 8 + rows * ROW + IF rows > 0 THEN 4 ELSE 0
BaseOf(row, rows) == LANE(rows) - 9 - row * ROW
padB == 26
BarTop(v, max, rows, h) ==
    LANE(rows) + ((h - LANE(rows) - padB) * (TopTick(max) - 1000 * v)) \div TopTick(max)
LeaderEnd(v, max, rows, h) == Max({LANE(rows), BarTop(v, max, rows, h) - 4})
\* Twice the half width of a bar, and the room of a bar, in parts of 50 * n.
BarWidth(n, span) == Max({100 * n, 31 * span})
BandOf(span) == 50 * span

\* Every row of labels, eleven pixels high, is inside the drawing and above the
\* bars; no bar is higher than the plot, not even the highest; and the line of a
\* marker stops above the bar it points at or has no length.  Bars run into
\* each other only when each has less than two pixels.
ASSUME BarsInside ==
    /\ \A rows \in 1..3 : \A row \in 0..rows - 1 :
           BaseOf(row, rows) - 11 >= 0 /\ BaseOf(row, rows) < LANE(rows)
    /\ \A rows \in 0..3, h \in {120, 150, 220}, max \in 1..40 : \A v \in 0..max :
           /\ BarTop(v, max, rows, h) \in LANE(rows)..h - padB
           /\ v > 0 => BarTop(v, max, rows, h) < h - padB
           /\ LeaderEnd(v, max, rows, h) <= BarTop(v, max, rows, h)
    /\ \A n \in {24, 30, 168}, span \in Spans : BarWidth(n, span) <= BandOf(span) <=> span >= 2 * n
===============================================================================
