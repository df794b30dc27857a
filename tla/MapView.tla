------------------------------- MODULE MapView -------------------------------
(***************************************************************************)
(* What the network map shows of its devices (topology.js): the view that  *)
(* is panned and zoomed, the labels that give way, the outlines of the     *)
(* projects, the focus and the search, and the minimap.  The graph stays   *)
(* as it is; data that changes under the map, cables and the inspector are *)
(* NetworkMap.  World and screen are points of integers, the view is of    *)
(* fractions <<n, d>> in lowest terms.                                     *)
(***************************************************************************)
EXTENDS Integers, Sequences, FiniteSets, FiniteSetsExt, SequencesExt

CONSTANTS
    Devices,   \* S.nodes, a sequence: [kind, length (of the label), group, words]
    Cables,    \* S.edges: pairs of indices of Devices
    NoGroup,
    Queries, NoQuery,  \* what is typed into the search; words are those that find a device
    Origins,   \* bound: the layouts the map starts from, [indices -> points]
    Spots,     \* bound: where a device is dragged or laid out to
    Wide, High,  \* the size of the map on the screen
    Pointer,   \* bound: where a wheel is turned or fingers meet
    MaxMoves   \* bound: what the operator does

Items == DOMAIN Devices
Nobody == 0
Pinch == -1
MapViewAssumption ==
    /\ \A c \in Cables : c[1] \in Items /\ c[2] \in Items
    /\ \A i \in Items : Devices[i].kind \in {"ct", "net", "host"} /\ Devices[i].length \in Nat /\ Devices[i].words \subseteq Queries
    /\ NoQuery \notin Queries /\ Wide \in Nat \ {0} /\ High \in Nat \ {0} /\ MaxMoves \in Nat
    /\ Items = 1..Cardinality(Items) /\ IsFiniteSet(Items) /\ IsFiniteSet(Cables)
    /\ Origins \subseteq [Items -> Int \X Int] /\ Spots \subseteq Int \X Int /\ Pointer \subseteq Int \X Int
ASSUME MapViewAssumption

VARIABLES
    pos,     \* where each device is
    laid,    \* where it was when outlines and minimap were last drawn
    vp,    \* S.view: [x, y, k]
    sel,     \* S.sel, or Nobody
    sought,   \* S.query
    queued,  \* cullQueued: a frame will go over the labels
    labels,  \* the devices that show theirs
    drag,    \* the pointer: nothing, a device that has moved, two fingers
    cut,     \* history: two fingers ended a drag, and nothing was drawn since
    kept,    \* history: pairs <<world point, screen point>> the last change of view is about
    moves
mapview_vars == <<pos, laid, vp, sel, sought, queued, labels, drag, cut, kept, moves>>

-----------------------------------------------------------------------------
(* Fractions.                                                              *)

gcd[p \in Nat \X Nat] == IF p[2] = 0 THEN p[1] ELSE gcd[<<p[2], p[1] % p[2]>>]
Abs(n) == IF n < 0 THEN -n ELSE n
Q(n, d) == LET g == gcd[<<Abs(n), Abs(d)>>] IN IF d < 0 THEN <<-n \div g, -d \div g>> ELSE <<n \div g, d \div g>>
Plus(p, q) == Q(p[1] * q[2] + q[1] * p[2], p[2] * q[2])
Times(p, q) == Q(p[1] * q[1], p[2] * q[2])
Lt(p, q) == p[1] * q[2] < q[1] * p[2]
MinQ(p, q) == IF Lt(q, p) THEN q ELSE p
MaxQ(p, q) == IF Lt(p, q) THEN q ELSE p
Whole(n) == <<n, 1>>
Minus(p, q) == Plus(p, <<-q[1], q[2]>>)
Over(p, q) == Times(p, IF q[1] < 0 THEN <<-q[2], -q[1]>> ELSE <<q[2], q[1]>>)

\* A world point on the screen, and a point of the screen in the world.
Screen(v, p) == <<Plus(Times(p[1], v.k), v.x), Plus(Times(p[2], v.k), v.y)>>
World(v, s) == <<Over(Minus(s[1], v.x), v.k), Over(Minus(s[2], v.y), v.k)>>
Spot(p) == <<Whole(p[1]), Whole(p[2])>>
Centre == <<Q(Wide, 2), Q(High, 2)>>

-----------------------------------------------------------------------------
(* Outlines, focus and search.                                             *)

\* What Array.prototype.sort makes of S when before is what comes before what.
InOrder(S, before) ==
    [n \in 1..Cardinality(S) |-> CHOOSE i \in S : Cardinality({j \in S : <<j, i>> \in before}) = n - 1]

Groups == {Devices[i].group : i \in Items} \ {NoGroup}
Members(g) == {i \in Items : Devices[i].group = g /\ Devices[i].kind = "ct"}
Outlined == {g \in Groups : Cardinality(Members(g)) > 1}

\* hull: a monotone chain, lower half and upper half without their last points.
LeftOf(p, q) == p[1] < q[1] \/ (p[1] = q[1] /\ p[2] < q[2])
Cross(o, a, b) == (a[1] - o[1]) * (b[2] - o[2]) - (a[2] - o[2]) * (b[1] - o[1])
Turns(chain, q) == Cross(chain[Len(chain) - 1], chain[Len(chain)], q) > 0
Popped(chain, q) ==
    SubSeq(chain, 1, Max({n \in 0..Len(chain) : n < 2 \/ Turns(SubSeq(chain, 1, n), q)}))
Chain(points) ==
    LET upto[n \in 0..Len(points)] == IF n = 0 THEN <<>> ELSE Append(Popped(upto[n - 1], points[n]), points[n])
    IN upto[Len(points)]
hull(points) ==
    LET n == DOMAIN points
        before == {e \in n \X n : LeftOf(points[e[1]], points[e[2]]) \/ (points[e[1]] = points[e[2]] /\ e[1] < e[2])}
        sorted == [k \in n |-> points[InOrder(n, before)[k]]]
    IN IF Len(points) < 3 THEN points ELSE Front(Chain(sorted)) \o Front(Chain(Reverse(sorted)))
Outline(g, where) == hull([n \in 1..Cardinality(Members(g)) |-> where[SetToSeq(Members(g))[n]]])

neighbours(n) == {n} \cup {c[2] : c \in {e \in Cables : e[1] = n}} \cup {c[1] : c \in {e \in Cables : e[2] = n}}
matches(i, q) == q = NoQuery \/ q \in Devices[i].words
Lights(i) == (sel # Nobody => i \in neighbours(sel)) /\ matches(i, sought)
CableLights(c) ==
    /\ sel # Nobody => c[1] \in neighbours(sel) /\ c[2] \in neighbours(sel) /\ sel \in {c[1], c[2]}
    /\ matches(c[1], sought) \/ matches(c[2], sought)
OutlineLights(g) ==
    /\ sel # Nobody => Members(g) \cap neighbours(sel) # {}
    /\ \E i \in Members(g) : matches(i, sought)

-----------------------------------------------------------------------------
(* Labels.                                                                 *)

\* px is 12 * min(1, k).  The boxes of two labels are compared by the distance
\* of their middles, where the offset of the view is out of it.
Shrunk == MinQ(Whole(1), vp.k)
Tiny == Lt(Times(Whole(12), Shrunk), Q(13, 2))
Below(i) == CASE Devices[i].kind = "ct" -> 30 [] Devices[i].kind = "host" -> 34 [] OTHER -> 26
HalfWidth(i) == Plus(Times(Q(Devices[i].length * 87, 25), Shrunk), Whole(3))
Overprints(i, j) ==
    /\ Lt(Times(vp.k, Whole(Abs(pos[i][1] - pos[j][1]))), Plus(HalfWidth(i), HalfWidth(j)))
    /\ Lt(Times(vp.k, Whole(Abs(pos[i][2] + Below(i) - pos[j][2] - Below(j)))), Plus(Times(Whole(12), Shrunk), Whole(4)))

rank(i) ==
    IF i = sel THEN 0 ELSE IF sought # NoQuery /\ matches(i, sought) THEN 1
    ELSE IF Devices[i].kind # "ct" THEN 2 ELSE 3
Degree(i) == Cardinality({c \in Cables : c[1] = i}) + Cardinality({c \in Cables : c[2] = i})
Ahead(i, j) == rank(i) < rank(j) \/ (rank(i) = rank(j) /\ Degree(i) > Degree(j))
\* A faulty form, for a mutant: the devices come as the server sent them.
AsListed == [i \in Items |-> i]
\* Array.prototype.sort leaves equals in the order they had.
Order ==
    InOrder(Items, {e \in Items \X Items : Ahead(e[1], e[2]) \/ (~Ahead(e[2], e[1]) /\ e[1] < e[2])})

GivesWay(i, placed) == (Tiny /\ rank(i) > 1) \/ \E j \in placed : Overprints(i, j)
Placed ==
    LET order == Order
        upto[n \in 0..Len(order)] ==
            IF n = 0 THEN {}
            ELSE IF GivesWay(order[n], upto[n - 1]) /\ rank(order[n]) > 0 THEN upto[n - 1]
            ELSE upto[n - 1] \cup {order[n]}
    IN upto[Len(order)]

-----------------------------------------------------------------------------
(* Drawing.                                                                *)

\* render: every label is shown again until the frame comes.
Render == laid' = pos' /\ labels' = Items /\ queued' = TRUE /\ cut' = FALSE
ApplyView == queued' = TRUE /\ UNCHANGED <<laid, labels, cut>>
Cull == queued /\ queued' = FALSE /\ labels' = Placed
    /\ UNCHANGED <<pos, laid, vp, sel, sought, drag, cut, kept, moves>>

Move == moves > 0 /\ moves' = moves - 1
Steady == UNCHANGED <<pos, sel, sought, drag>>

Bounds(where) ==
    LET xs == {where[i][1] : i \in Items}
        ys == {where[i][2] : i \in Items}
    IN IF Items = {} THEN [x0 |-> -100, y0 |-> -100, x1 |-> 100, y1 |-> 100]
       ELSE [x0 |-> Min(xs) - 60, y0 |-> Min(ys) - 60, x1 |-> Max(xs) + 60, y1 |-> Max(ys) + 70]
Roomy(b) == MinQ(Q(Wide, b.x1 - b.x0), Q(High, b.y1 - b.y0))
Fitted(where) ==
    LET b == Bounds(where)
        k == MinQ(Q(7, 5), MaxQ(Q(3, 25), Roomy(b)))
    IN [k |-> k, x |-> Minus(Centre[1], Times(Q(b.x0 + b.x1, 2), k)), y |-> Minus(Centre[2], Times(Q(b.y0 + b.y1, 2), k))]
Fit == Move /\ vp' = Fitted(pos) /\ kept' = {} /\ ApplyView /\ Steady

Clamped(k) == MinQ(Whole(3), MaxQ(Q(2, 25), k))
Ratio(f) == Over(Clamped(Times(vp.k, f)), vp.k)
Zoomed(f, s) ==
    LET away(p, o) == Minus(p, Times(Minus(p, o), Ratio(f)))
    IN [k |-> Clamped(Times(vp.k, f)), x |-> away(s[1], vp.x), y |-> away(s[2], vp.y)]
Zoom(f, s) == Move /\ vp' = Zoomed(f, s) /\ kept' = {<<World(vp, s), s>>} /\ ApplyView /\ Steady

CentredOn(p, k) == [k |-> k, x |-> Minus(Centre[1], Times(p[1], k)), y |-> Minus(Centre[2], Times(p[2], k))]
CentreOn(p, k) == vp' = CentredOn(p, k) /\ kept' = {<<p, Centre>>}
ReadableScale == MaxQ(vp.k, Q(9, 10))

\* Click, or a click on nothing; a row of the inspector focuses a device.
Select(i) == Move /\ drag = Nobody /\ sel' = i /\ UNCHANGED <<pos, vp, sought, drag, kept>> /\ Render
Focus(i) == Move /\ sel' = i /\ CentreOn(Spot(pos[i]), ReadableScale) /\ UNCHANGED <<pos, sought, drag>> /\ Render
First(q) == {i \in Items : matches(i, q) /\ \A j \in Items : matches(j, q) => i <= j}
search(q) ==
    /\ Move /\ sought' = q /\ UNCHANGED <<pos, sel, drag>> /\ Render
    /\ IF q = NoQuery \/ First(q) = {} THEN UNCHANGED <<vp, kept>>
       ELSE \E i \in First(q) : CentreOn(Spot(pos[i]), ReadableScale)

\* A device is dragged: it and its cables move, the rest waits for the drop.
\* A second finger turns the drag into a pinch, after which nothing is drawn.
DragMove(i, p) ==
    /\ Move /\ drag \in {Nobody, i} /\ drag' = i /\ pos' = [pos EXCEPT ![i] = p]
    /\ UNCHANGED <<laid, vp, sel, sought, queued, labels, cut, kept>>
Drop == drag \in Items /\ drag' = Nobody /\ UNCHANGED <<pos, vp, sel, sought, kept, moves>> /\ Render
SecondFinger == drag \in Items /\ drag' = Pinch /\ cut' = TRUE
    /\ UNCHANGED <<pos, laid, vp, sel, sought, queued, labels, kept, moves>>
LiftFingers == drag = Pinch /\ drag' = Nobody
    /\ UNCHANGED <<pos, laid, vp, sel, sought, queued, labels, cut, kept, moves>>
Pan(dx) == Move /\ drag = Nobody /\ vp' = [vp EXCEPT !.x = Plus(@, Whole(dx))] /\ kept' = {} /\ ApplyView /\ Steady

\* miniJump: the dot of a device on the minimap is clicked.
MiniScale == LET b == Bounds(laid) IN MinQ(Q(168, b.x1 - b.x0), Q(108, b.y1 - b.y0))
Dot(i) == LET b == Bounds(laid) IN <<Times(Whole(laid[i][1] - b.x0), MiniScale), Times(Whole(laid[i][2] - b.y0), MiniScale)>>
MiniWorld(s) == LET b == Bounds(laid) IN <<Plus(Over(s[1], MiniScale), Whole(b.x0)), Plus(Over(s[2], MiniScale), Whole(b.y0))>>
MiniJump(i) ==
    /\ Move /\ drag = Nobody /\ vp' = CentredOn(MiniWorld(Dot(i)), vp.k)
    /\ kept' = (IF cut THEN {} ELSE {<<Spot(pos[i]), Centre>>}) /\ ApplyView /\ Steady

\* Arrange again: the layout puts the devices anywhere; drawn, then fitted.
Relayout ==
    /\ Move /\ drag = Nobody /\ pos' \in Origins /\ Render
    /\ vp' = Fitted(pos') /\ kept' = {} /\ UNCHANGED <<sel, sought, drag>>

MapViewInit ==
    /\ pos \in Origins /\ laid = pos /\ vp = Fitted(pos) /\ sel = Nobody /\ sought = NoQuery
    /\ queued = TRUE /\ labels = Items /\ drag = Nobody /\ cut = FALSE /\ kept = {} /\ moves = MaxMoves
MapViewNext ==
    \/ Cull \/ Fit \/ Drop \/ SecondFinger \/ LiftFingers \/ Relayout
    \/ \E f \in {Whole(2), Q(1, 2)}, s \in Pointer : Zoom(f, Spot(s))
    \/ Select(Nobody) \/ \E dx \in {-Wide, Wide} : Pan(dx)
    \/ \E i \in Items : Select(i) \/ Focus(i) \/ MiniJump(i) \/ \E p \in Spots : DragMove(i, p)
    \/ \E q \in Queries \cup {NoQuery} : search(q)
MapViewSpec == MapViewInit /\ [][MapViewNext]_mapview_vars

-----------------------------------------------------------------------------
(* Types and properties.                                                   *)

MapViewTypeOK ==
    /\ {pos, laid} \subseteq [Items -> Int \X Int] /\ sel \in Items \cup {Nobody} /\ sought \in Queries \cup {NoQuery}
    /\ labels \subseteq Items /\ {queued, cut} \subseteq BOOLEAN /\ drag \in Items \cup {Nobody, Pinch}
    /\ ~Lt(vp.k, Q(2, 25)) /\ ~Lt(Whole(3), vp.k) /\ moves \in 0..MaxMoves

\* Nothing is under way: no drag or pinch, and none that was cut short.
AtRest == drag = Nobody /\ ~cut

\* Once the frame has come, no label prints over another, the selection keeps
\* its own, and one that is hidden is too small to read or printed over by one
\* that matters as much or more.
LabelsGiveWay == AtRest /\ ~queued =>
    /\ \A i, j \in labels : i # j /\ i # sel /\ j # sel => ~Overprints(i, j)
    /\ sel # Nobody => sel \in labels /\ \A i \in labels \ {sel} : ~Overprints(i, sel)
    /\ \A i \in Items \ labels : (Tiny /\ rank(i) > 1) \/ \E j \in labels : Overprints(i, j) /\ ~Ahead(i, j)
\* The outline of a project goes round all its devices, turning one way only.
OutlinesHold == AtRest => \A g \in Outlined :
    LET line == Outline(g, laid)
        next(n) == line[(n % Len(line)) + 1]
    IN /\ Range(line) \subseteq {pos[i] : i \in Members(g)}
       /\ Len(line) > 2 =>
              /\ \A n \in DOMAIN line : \A i \in Members(g) : Cross(line[n], next(n), pos[i]) >= 0
              /\ \A n \in DOMAIN line : Cross(line[n], next(n), next((n % Len(line)) + 1)) > 0
\* A bright cable ends at a bright device, and an outline round a bright device
\* is bright.
FocusIsWhole ==
    /\ \A c \in Cables : CableLights(c) => Lights(c[1]) \/ Lights(c[2])
    /\ \A g \in Outlined : (\E i \in Members(g) : Lights(i)) => OutlineLights(g)
\* What the last change of view was about is where it should be on the screen:
\* the point under the wheel, the device that was searched, focused or clicked
\* on the minimap.
ViewKept == \A e \in kept : Screen(vp, e[1]) = e[2]
MapReads == LabelsGiveWay /\ OutlinesHold /\ FocusIsWhole /\ ViewKept

\* The map shows each outline round its devices whatever the fingers did.
OutlineAlways == drag = Nobody => laid = pos
=============================================================================
