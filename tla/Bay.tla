--------------------------------- MODULE Bay ---------------------------------
(***************************************************************************)
(* The containers screen as lists: the patch bay, its search box and       *)
(* filters, what the same search leaves bright on the network map, the     *)
(* engine's networks, and the panels on host ports and exposure            *)
(* (app.js, topology.js).  Dragging, cables and the inspector are          *)
(* NetworkMap; stacks and the selection are left out here.                 *)
(***************************************************************************)
EXTENDS Integers, Sequences, FiniteSets

CONSTANTS
    Engines,
    Boxes,      \* containers: [id, engine, words, locked, ports]; words are the
                \* searches that find it, ports what it publishes: [port, ip]
    Nets,       \* networks: [name, engine]
    Plugged,    \* [Ids -> the networks it is on at first]
    FirstUps,   \* bound: the sets of containers that run at first
    Traps,      \* the ports of SkyGuard's own listeners
    Searches,   \* what is typed into the search box; Nothing is the empty text
    Everywhere, \* the host address of a port published on every address
    Covers,     \* ban_coverage: [method, chain, covered]
    Nothing, Absent,  \* Absent: no answer yet, no map yet
    MaxActs,    \* bound: what the operator does
    MaxChanges, \* bound: what happens on the server
    MaxErrors   \* bound: requests that fail

Ids == {b.id : b \in Boxes}
NetNames == {n.name : n \in Nets}

ASSUME BayAssumption ==
    /\ IsFiniteSet(Boxes) /\ Cardinality(Ids) = Cardinality(Boxes)
    /\ \A b \in Boxes : b.engine \in Engines /\ b.words \subseteq Searches
    /\ \A n \in Nets : n.engine \in Engines
    /\ Nothing \notin Searches \cup NetNames \cup Engines /\ Absent \notin Searches \cup {Nothing}
    /\ Plugged \in [Ids -> SUBSET NetNames] /\ FirstUps \subseteq SUBSET Ids
    /\ Covers \subseteq [method : {"iptables", "ufw", "log", "none"}, chain : BOOLEAN, covered : BOOLEAN]
    /\ MaxActs \in Nat /\ MaxChanges \in Nat /\ MaxErrors \in Nat

VARIABLES
    fleet,    \* the server: what runs, who is on which network, what is reachable
    ctData,   \* ct.data, or Absent before the first answer
    asks,     \* GET /api/containers under way: Nothing until it is served
    engine, query, runningOnly, hl, view,  \* ct
    typed,    \* the search the 120 ms timer will make, or Nothing
    waiting,  \* that timer is set
    bay,      \* the bay drawn: its kind, rows, network columns and cables
    help,     \* the count below it, or Nothing
    stage,    \* the engine whose map is on the page
    mapQuery, \* the search of each engine's map, Absent before it is created
    acts, changes, errors

bay_vars == <<fleet, ctData, asks, engine, query, runningOnly, hl, view, typed, waiting,
              bay, help, stage, mapQuery, acts, changes, errors>>
Act == acts > 0 /\ acts' = acts - 1

-----------------------------------------------------------------------------
(* What is drawn from an answer d.                                         *)

\* An engine that does not answer lists nothing.
OfEngine(d, e) == {b \in Boxes : b.engine = e /\ e \in d.alive}
NetsOf(d, e) == {n.name : n \in {m \in Nets : m.engine = e /\ e \in d.alive /\ m.name \in d.nets}}

ctMatches(d, b, q, running) == (running => b.id \in d.up) /\ (q # Nothing => q \in b.words)

\* Rows and columns; a socket carries a cable to every jack that is plugged,
\* lit if it is the network picked.  Hidden, the bay has no place to draw them.
Jacks(d, rows, e) == {j \in rows \X NetsOf(d, e) : ~j[1].locked /\ j[2] \in d.on[j[1].id]}
Cable(i, n, lit, shown) == [id |-> i, net |-> n, lit |-> n = lit, placed |-> shown]
CablesOf(d, rows, e, lit, shown) == {Cable(j[1].id, j[2], lit, shown) : j \in Jacks(d, rows, e)}
Empty(kind) == [kind |-> kind, rows |-> {}, cables |-> {}]
Bayed(d, e, q, running, lit, shown) ==
    LET rows == {b \in OfEngine(d, e) : ctMatches(d, b, q, running)}
    IN IF e \notin d.alive THEN Empty("error")
       ELSE IF rows = {} THEN Empty("empty")
       ELSE [kind |-> "rows", rows |-> rows, cables |-> CablesOf(d, rows, e, lit, shown)]
Lit(d, e, n) == IF n \in NetsOf(d, e) THEN n ELSE Nothing

\* drawCables alone, over the rows that are there.
Recabled(lit, shown) == [bay EXCEPT !.cables = {Cable(c.id, c.net, lit, shown) : c \in @}]

\* The devices of the map, and those a search leaves bright.
OnMap(d, e, running) == {b \in OfEngine(d, e) : running => b.id \in d.up}
Bright(d, e, running, q) == {b \in OnMap(d, e, running) : q # Nothing => q \in b.words}
\* Mutant: renderMap does not repeat the search.
AsItWas(q, old) == IF old = Absent THEN Nothing ELSE old

\* renderMap creates the engine's map if need be and repeats a search in force.
Searched(q, old) == IF q # Nothing THEN q ELSE IF old = Absent THEN Nothing ELSE old
MapQueries(e, q) == [mapQuery EXCEPT ![e] = Searched(q, @)]

\* renderBay: the help goes, the network picked must exist, then rows or a reason.
RenderBay(d, e, q, running) ==
    /\ hl' = Lit(d, e, hl)
    /\ bay' = Bayed(d, e, q, running, hl', view = "table")
RenderMap(e, q) == stage' = e /\ mapQuery' = MapQueries(e, q)

-----------------------------------------------------------------------------
(* The panels on ports.                                                    *)

Owners(d, p) ==
    {o \in {b \in Boxes : b.engine \in d.alive} \X UNION {b.ports : b \in Boxes} : o[2] \in o[1].ports /\ o[2].port = p}
HostPorts == Traps \cup UNION {{u.port : u \in b.ports} : b \in Boxes}
Overlaps(a, b) == a = b \/ Everywhere \in {a, b}

\* A listener of SkyGuard that could not start claims its port as well.
Conflict(d, p) ==
    LET up == {o \in Owners(d, p) : o[1].id \in d.up}
    IN (p \in Traps /\ up # {}) \/ \E a, b \in up : a # b /\ Overlaps(a[2].ip, b[2].ip)
Failed(d, p) == p \in Traps /\ p \in d.lost

PortState(d, p) ==
    IF Conflict(d, p) THEN "conflict" ELSE IF Failed(d, p) THEN "not listening"
    ELSE IF p \in Traps \/ \E o \in Owners(d, p) : o[1].id \in d.up THEN "in use" ELSE "free"

\* The sentence at the top: the worst there is to say.
Finding(d, e) ==
    IF \E p \in HostPorts : Conflict(d, p) /\ Failed(d, p) THEN "honeypot lost"
    ELSE IF \E p \in HostPorts : Conflict(d, p) THEN "conflict"
    ELSE IF e \notin d.alive THEN "unreachable" ELSE "counts"

OpenPorts(d) == {p \in HostPorts : \E o \in Owners(d, p) : o[1].id \in d.up /\ o[2].ip = Everywhere}
Exposure(d, cov) ==
    LET docker == \E p \in OpenPorts(d) : \E o \in Owners(d, p) : o[1].engine = "docker"
    IN IF OpenPorts(d) = {} THEN "none"
       ELSE IF cov.method \in {"none", "log"} THEN "only logged"
       ELSE IF docker /\ cov.method = "ufw" THEN "not covered"
       ELSE IF docker /\ cov.chain /\ ~cov.covered THEN "not covered" ELSE "covered"

\* What a ban stops: Docker forwards past INPUT if it has its chain, the proxies
\* of Incus and of a Docker without chains accept on the host.
BanStops(b, cov) ==
    \/ cov.method = "iptables" /\ (b.engine = "docker" /\ cov.chain => cov.covered)
    \/ cov.method = "ufw" /\ b.engine # "docker"

-----------------------------------------------------------------------------
Ask ==
    /\ Act /\ Len(asks) < 2 /\ asks' = Append(asks, Nothing)
    /\ UNCHANGED <<fleet, ctData, engine, query, runningOnly, hl, view, typed, waiting, bay, help,
                   stage, mapQuery, changes, errors>>

Answer(i) ==
    /\ asks[i] = Nothing /\ asks' = [asks EXCEPT ![i] = fleet]
    /\ UNCHANGED <<fleet, ctData, engine, query, runningOnly, hl, view, typed, waiting, bay, help,
                   stage, mapQuery, acts, changes, errors>>

Less(s, i) == SubSeq(s, 1, i - 1) \o SubSeq(s, i + 1, Len(s))

\* loadContainers draws everything of the engine that is current by then.
Loaded(i) ==
    /\ asks[i] # Nothing /\ asks' = Less(asks, i)
    /\ ctData' = asks[i] /\ help' = Nothing
    /\ RenderBay(asks[i], engine, query, runningOnly) /\ RenderMap(engine, query)
    /\ UNCHANGED <<fleet, engine, query, runningOnly, view, typed, waiting, acts, changes, errors>>

LoadError(i) ==
    /\ errors > 0 /\ errors' = errors - 1 /\ asks' = Less(asks, i)
    /\ bay' = Empty("error")
    /\ UNCHANGED <<fleet, ctData, engine, query, runningOnly, hl, view, typed, waiting, help,
                   stage, mapQuery, acts, changes>>

\* The engine buttons stand over both views; the old drawings stay until the answer.
PickEngineTab(e) ==
    /\ Act /\ ctData # Absent /\ Cardinality(Engines) > 1 /\ Len(asks) < 2
    /\ engine' = e /\ asks' = Append(asks, Nothing)
    /\ UNCHANGED <<fleet, ctData, query, runningOnly, hl, view, typed, waiting, bay, help, stage,
                   mapQuery, changes, errors>>

\* applyCtView draws the cables again once the bay is on the page.
Viewed(v) == IF v = "table" THEN Recabled(hl, TRUE) ELSE bay
PickTableOrMap(v) ==
    /\ Act /\ v # view
    /\ view' = v /\ bay' = Viewed(v)
    /\ IF v = "map" /\ ctData # Absent THEN RenderMap(engine, query) ELSE UNCHANGED <<stage, mapQuery>>
    /\ UNCHANGED <<fleet, ctData, asks, engine, query, runningOnly, hl, typed, waiting, help, changes, errors>>

PickRunning(on) ==
    /\ Act /\ ctData # Absent /\ on # runningOnly
    /\ runningOnly' = on /\ help' = Nothing
    /\ RenderBay(ctData, engine, query, on) /\ RenderMap(engine, query)
    /\ UNCHANGED <<fleet, ctData, asks, engine, query, view, typed, waiting, changes, errors>>

\* Each key starts the timer again.
Type(q) ==
    /\ Act /\ typed' = q /\ waiting' = TRUE
    /\ UNCHANGED <<fleet, ctData, asks, engine, query, runningOnly, hl, view, bay, help, stage,
                   mapQuery, changes, errors>>
\* Without data renderBay throws: the search is noted and nothing else happens.
\* Only the map of the current engine is told.
Counted(q, rows) == IF q = Nothing THEN Nothing ELSE Cardinality(rows)
SearchFires ==
    /\ waiting /\ waiting' = FALSE /\ query' = typed
    /\ IF ctData = Absent THEN UNCHANGED <<hl, bay, help, mapQuery>>
       ELSE /\ RenderBay(ctData, engine, typed, runningOnly)
            /\ mapQuery' = [mapQuery EXCEPT ![engine] = IF @ = Absent THEN Absent ELSE typed]
            /\ help' = Counted(typed, {b \in OfEngine(ctData, engine) : ctMatches(ctData, b, typed, runningOnly)})
    /\ UNCHANGED <<fleet, ctData, asks, engine, runningOnly, view, typed, stage, acts, changes, errors>>

\* A head of the bay, or a name in the list of networks; the same one again
\* puts the light out.
PickNet(n) ==
    /\ Act /\ ctData # Absent /\ n \in NetsOf(ctData, engine)
    /\ hl' = IF hl = n THEN Nothing ELSE n
    /\ bay' = Recabled(hl', view = "table")
    /\ UNCHANGED <<fleet, ctData, asks, engine, query, runningOnly, view, typed, waiting, help,
                   stage, mapQuery, changes, errors>>

\* On the server: a container starts or stops, joins or leaves a network; a
\* network is deleted; an engine stops answering, and then lists nothing.
Flip(S, x) == IF x \in S THEN S \ {x} ELSE S \cup {x}
Happens ==
    /\ changes > 0 /\ changes' = changes - 1
    /\ \/ \E b \in Boxes : fleet' = [fleet EXCEPT !.up = Flip(@, b.id)]
       \/ \E b \in Boxes, n \in Nets : n.engine = b.engine /\ n.name \in fleet.nets
              /\ fleet' = [fleet EXCEPT !.on = [fleet.on EXCEPT ![b.id] = Flip(fleet.on[b.id], n.name)]]
       \/ \E n \in fleet.nets : (\A i \in Ids : n \notin fleet.on[i]) /\ fleet' = [fleet EXCEPT !.nets = @ \ {n}]
       \/ \E e \in Engines : fleet' = [fleet EXCEPT !.alive = Flip(@, e)]
    /\ UNCHANGED <<ctData, asks, engine, query, runningOnly, hl, view, typed, waiting, bay, help,
                   stage, mapQuery, acts, errors>>

Fleets == [up : SUBSET Ids, nets : SUBSET NetNames, on : [Ids -> SUBSET NetNames],
           alive : SUBSET Engines, lost : SUBSET Traps]
ASSUME FleetsAssumption == Nothing \notin Fleets /\ Absent \notin Fleets

BayInit ==
    /\ \E up \in FirstUps, lost \in SUBSET Traps :
         fleet = [up |-> up, nets |-> NetNames, on |-> Plugged, alive |-> Engines, lost |-> lost]
    /\ ctData = Absent /\ asks = <<Nothing>>
    /\ engine \in Engines /\ query = Nothing /\ runningOnly = FALSE /\ hl = Nothing /\ view = "map"
    /\ typed = Nothing /\ waiting = FALSE
    /\ bay = Empty("none") /\ help = Nothing
    /\ stage = Nothing /\ mapQuery = [e \in Engines |-> Absent]
    /\ acts = MaxActs /\ changes = MaxChanges /\ errors = MaxErrors

BayNext ==
    \/ Ask \/ SearchFires \/ Happens
    \/ \E i \in DOMAIN asks : Answer(i) \/ Loaded(i) \/ LoadError(i)
    \/ \E e \in Engines : PickEngineTab(e)
    \/ \E v \in {"map", "table"} : PickTableOrMap(v)
    \/ \E on \in BOOLEAN : PickRunning(on)
    \/ \E q \in Searches \cup {Nothing} : Type(q)
    \/ \E n \in NetNames : PickNet(n)
BaySpec == BayInit /\ [][BayNext]_bay_vars

-----------------------------------------------------------------------------
(* Types and properties.                                                   *)

BayTypeOK ==
    /\ fleet \in Fleets /\ (ctData \in Fleets \/ ctData = Absent)
    /\ Len(asks) <= 2 /\ \A i \in DOMAIN asks : asks[i] \in Fleets \/ asks[i] = Nothing
    /\ engine \in Engines /\ query \in Searches \cup {Nothing} /\ runningOnly \in BOOLEAN
    /\ hl \in NetNames \cup {Nothing} /\ view \in {"map", "table"}
    /\ typed \in Searches \cup {Nothing} /\ waiting \in BOOLEAN
    /\ bay.kind \in {"none", "error", "empty", "rows"} /\ bay.rows \subseteq Boxes
    /\ bay.cables \subseteq [id : Ids, net : NetNames, lit : BOOLEAN, placed : BOOLEAN]
    /\ help \in Nat \/ help = Nothing
    /\ stage \in Engines \cup {Nothing}
    /\ \A e \in Engines : mapQuery[e] \in Searches \cup {Nothing, Absent}

\* Once no answer is outstanding, a search shows the same containers in the
\* bay and on the map of the engine, however the box, the filter, the engine
\* and the answers came one after another; a count below the bay is that of
\* its rows; and in the bay on the page every container without a network
\* mode of its own has one cable to each network it is on, at its place, the
\* ones of the network picked lit.
ListsAgree ==
    /\ bay.kind = "rows" /\ query # Nothing /\ stage = engine /\ asks = <<>> =>
           bay.rows = Bright(ctData, engine, runningOnly, mapQuery[engine])
    /\ bay.kind = "rows" /\ help # Nothing => help = Cardinality(bay.rows)
    /\ bay.kind = "rows" /\ view = "table" =>
           bay.cables = UNION {CablesOf(ctData, {b}, b.engine, hl, TRUE) : b \in bay.rows}

\* Bans are said to cover the open ports only when a ban stops the connections
\* to every running container that publishes one on every address; a port is
\* said to be free only when nothing running claims it; and a honeypot that
\* lost its port to a running container is what the screen says first.
PortsPanelTrue == ctData # Absent =>
    LET running == {b \in Boxes : b.engine \in ctData.alive /\ b.id \in ctData.up} IN
    /\ \A cov \in Covers : Exposure(ctData, cov) = "covered" =>
           \A b \in running : (\E u \in b.ports : u.ip = Everywhere) => BanStops(b, cov)
    /\ \A b \in running, p \in HostPorts :
           (\E u \in b.ports : u.port = p) => PortState(ctData, p) \in {"in use", "conflict"}
    /\ (\E b \in running : \E u \in b.ports : u.port \in ctData.lost) => Finding(ctData, engine) = "honeypot lost"

\* The containers screen: bay and map, and the panel of the ports.
ContainersTrue == BayTypeOK /\ ListsAgree /\ PortsPanelTrue

\* A search that was cleared leaves no map dimmed.
ClearedEverywhere ==
    query = Nothing /\ stage = engine /\ asks = <<>> /\ bay.kind = "rows" => mapQuery[engine] = Nothing
=============================================================================
