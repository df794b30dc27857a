----------------------------- MODULE NetworkMap -----------------------------
(***************************************************************************)
(* The container map and the patch bay of the dashboard                    *)
(* (src/internal/dashboard/static/assets/topology.js and the containers    *)
(* part of app.js), for one engine.  The map redraws itself whenever the   *)
(* server's answer comes, also while the operator drags a device, pulls a  *)
(* cable or reads a dialog.  A position is Home, where the force layout    *)
(* puts a device, or a spot it was dragged to; zoom, pan and labels are    *)
(* left out.  left, forgotten and loose are history variables.             *)
(***************************************************************************)
EXTENDS Naturals, FiniteSets, Functions

CONSTANTS
    Cts, Nets,      \* containers and networks the server may have
    NoCt, NoNet,
    Family,         \* image, project and numbered name of a container, or NoFamily
    NoFamily,
    Locked,         \* containers with a network mode; HostMode of them use the host's network
    HostMode,
    Self,           \* the container SkyGuard runs in
    Builtin,        \* the engine's default bridge
    Closed,         \* networks that cannot be joined from here
    NewNet,         \* the name the operator gives a network of a pair
    Home, Spots,    \* positions on the map
    Touched,        \* bound: the containers that the operator and others touch
    Servers,        \* what the server may have at first
    Remembered,     \* what localStorage may remember at first
    MaxGestures,    \* bound: what the operator does
    MaxAsks,        \* bound: loads in flight
    MaxWorld,       \* bound: changes made elsewhere
    MaxFails,       \* bound: requests that fail
    MaxReloads      \* bound: reloads of the page

\* Replicas fold into one device from four on.
FoldAt == 4

ASSUME NetworkMapAssumption ==
    /\ NoCt \notin Cts /\ NoNet \notin Nets /\ Home \notin Spots
    /\ HostMode \subseteq Locked /\ Locked \subseteq Cts /\ Self \subseteq Cts
    /\ Builtin \subseteq Nets /\ Closed \subseteq Nets /\ Touched \subseteq Cts
    /\ NewNet \in Nets \ (Builtin \cup Closed)
    /\ \A f \in Remembered : f \in [DOMAIN f -> Spots \cup {Home}]
    /\ MaxGestures \in Nat /\ MaxAsks \in Nat \ {0} /\ MaxWorld \in Nat
    /\ MaxFails \in Nat /\ MaxReloads \in Nat

VARIABLES
    server,       \* the engine's containers and networks
    readOnly,     \* changes are switched off in the config file
    data,         \* ct.data
    asks,         \* loads of /api/containers in flight
    only,         \* ct.only: all containers, or the running ones
    expanded,     \* ct.expanded: the stacks taken apart
    pos,          \* S.nodes: the devices on the map and where they stand
    pinned,       \* S.pinned
    saved,        \* localStorage: the positions remembered
    sel,          \* S.sel
    card,         \* what the inspector shows
    cable,        \* S.cable, with ct.cabling
    drag, ptrs,   \* the gesture under way and the pointers down
    patch,        \* ct.patch: the container whose bay cable is lifted
    dialog,       \* the confirm or the connect dialog
    jobs,         \* requests posted and not answered
    here,         \* the containers screen is the current one
    left, forgotten, loose,  \* where the operator left a device; exceptions to it
    gestures, changes, fails, reloads

map_vars == <<pos, pinned, saved, sel, card>>
hand_vars == <<cable, drag, ptrs, patch>>
page_vars == <<data, asks, only, expanded, dialog, jobs, here>>
history_vars == <<left, forgotten, loose>>
bound_vars == <<gestures, changes, fails, reloads>>
networkmap_vars == <<server, readOnly, map_vars, hand_vars, page_vars, history_vars, bound_vars>>

-----------------------------------------------------------------------------
(* What the map draws of the containers.                                   *)

\* What the engine can list: containers, those that run, networks, and the
\* networks each container is on.
IsListing(s) ==
    s \in [there : SUBSET Cts, up : SUBSET s.there, nets : SUBSET Nets, on : [s.there -> SUBSET s.nets]]
ASSUME ServersAssumption == \A s \in Servers : IsListing(s)

NoData == [there |-> {}, up |-> {}, nets |-> {}, on |-> [c \in {} |-> {}]]
Loaded == data # NoData

Ct(c) == <<"ct", c>>
Net(n) == <<"net", n>>
Stack(k) == <<"stack", k>>
Host == <<"host">>
NoNode == <<"none">>
Handled == {Ct(c) : c \in Touched}
IsCt(id) == id[1] = "ct"
IsNet(id) == id[1] = "net"
IsStack(id) == id[1] = "stack"

\* A faulty form, for a mutant: replicas fold whatever networks they are on.
SigByFamily(d, c) == <<Family[c], {}>>

\* Replicas: the same image, project and networks under a numbered name.
Sig(d, c) == <<Family[c], d.on[c]>>
Shown(d, o) == IF o = "all" THEN d.there ELSE d.up
Replicas(d, o, k) == {c \in Shown(d, o) : Family[c] # NoFamily /\ Sig(d, c) = k}
Folds(d, o, x) ==
    {k \in {Sig(d, c) : c \in Shown(d, o)} \ x : Cardinality(Replicas(d, o, k)) >= FoldAt}

\* The devices: networks, stacks, the other containers, and the host once.
Nodes(d, o, x) ==
    LET folds == Folds(d, o, x)
        single == Shown(d, o) \ UNION {Replicas(d, o, k) : k \in folds}
    IN {Net(n) : n \in d.nets} \cup {Stack(k) : k \in folds} \cup {Ct(c) : c \in single}
       \cup {Host : c \in HostMode \cap single}

\* The cables of the devices ns: of a container to its networks, of a stack to
\* those of its first replica.
Edges(d, o, ns) ==
    {e \in ns \X d.nets :
        \/ IsCt(e[1]) /\ e[2] \in d.on[e[1][2]]
        \/ IsStack(e[1]) /\ e[2] \in d.on[CHOOSE c \in Replicas(d, o, e[1][2]) : TRUE]}

\* The inspector speaks of a device with what the data says of it.
NoCard == [of |-> NoNode, up |-> FALSE]
CardOf(id, d, ns) ==
    IF IF IsCt(id) THEN id[2] \in d.there ELSE id \in ns
    THEN [of |-> id, up |-> IsCt(id) /\ id[2] \in d.up]
    ELSE NoCard

-----------------------------------------------------------------------------
(* Drawing.                                                                *)

Nowhere == [id \in {} |-> Home]

\* A faulty form, for a mutant: every device is laid out again.
LayAllOut(id) == IF id \in DOMAIN saved THEN saved[id] ELSE Home

\* A device that was there stays where it stands, one that is new comes back to
\* its remembered position, and layout, which moves none that has a place, puts
\* the others around them: Home stands for wherever that is.
PosOf(id) == IF id \in DOMAIN pos THEN pos[id]
             ELSE IF id \in DOMAIN saved THEN saved[id] ELSE Home

\* renderMap: the nodes are new objects, so that a drag holds a stale one.
RenderMap(d, o, x) ==
    LET ns == Nodes(d, o, x) IN
    /\ pos' = [id \in ns |-> PosOf(id)]
    /\ pinned' = pinned \cup (DOMAIN saved \cap ns)
    /\ sel' = IF sel \in ns THEN sel ELSE NoNode
    /\ card' = CardOf(sel', d, ns)
    /\ drag' = [drag EXCEPT !.live = FALSE]
    /\ UNCHANGED saved

\* store.save: the pinned devices on the map, and no others.
Save ==
    /\ saved' = [id \in pinned \cap DOMAIN pos |-> pos[id]]
    /\ forgotten' = forgotten \cup (DOMAIN saved \ DOMAIN pos)

\* loadContainers: the answer is drawn at once; a failed load leaves the map.
Answer ==
    /\ asks > 0 /\ asks' = asks - 1
    /\ \/ /\ data' = server
          /\ RenderMap(server, only, expanded)
          /\ UNCHANGED fails
       \/ /\ fails > 0 /\ fails' = fails - 1
          /\ UNCHANGED <<data, map_vars, drag>>
    /\ UNCHANGED <<server, readOnly, cable, ptrs, patch, only, expanded, dialog, jobs, here,
                   history_vars, gestures, changes, reloads>>

Ask == asks < MaxAsks /\ asks' = asks + 1

-----------------------------------------------------------------------------
(* The operator's hands.                                                   *)

NoDialog == [kind |-> "none"]
NoCable == [from |-> NoNode, target |-> NoNode, armed |-> FALSE]
NoDrag == [kind |-> "none", of |-> NoNode, net |-> NoNet, live |-> FALSE, moved |-> FALSE]
Drag(kind, id, n) == [kind |-> kind, of |-> id, net |-> n, live |-> TRUE, moved |-> FALSE]

Gesture == gestures > 0 /\ gestures' = gestures - 1
AtHand == Loaded /\ here /\ dialog = NoDialog /\ patch = NoCt
Idle == AtHand /\ ptrs = 0

\* An open device is one whose networks can be changed from here.
Open(id) == IsCt(id) /\ id[2] \notin Locked /\ ~readOnly
HandleShown == sel \in DOMAIN pos /\ Open(sel) /\ cable = NoCable

\* snapTarget: what the free end of the cable may plug into.
MayPlug(id) ==
    /\ id # cable.from
    /\ \/ Open(id)
       \/ /\ IsNet(id) /\ id[2] \notin Closed
          /\ id[2] \notin data.on[cable.from[2]]

\* startCable, from the plug of the selected device or from the card.
GrabHandle ==
    /\ Idle /\ Gesture /\ HandleShown
    /\ cable' = [NoCable EXCEPT !.from = sel]
    /\ drag' = Drag("cable", NoNode, NoNet) /\ ptrs' = 1
    /\ UNCHANGED <<server, readOnly, map_vars, patch, page_vars, history_vars, changes, fails, reloads>>
CableFromCard ==
    /\ Idle /\ Gesture /\ card.of \in DOMAIN pos /\ Open(card.of)
    /\ cable' = [NoCable EXCEPT !.from = card.of, !.armed = TRUE]
    /\ UNCHANGED <<server, readOnly, map_vars, drag, ptrs, patch, page_vars, history_vars,
                   changes, fails, reloads>>

\* pointerdown on a device, on a cable or beside them.  With an armed cable
\* the pointerup decides; a second finger turns the gesture into a pinch.
Down(d) ==
    /\ Idle /\ Gesture /\ ptrs' = 1
    /\ drag' = IF cable.armed THEN drag ELSE d
    /\ UNCHANGED <<server, readOnly, map_vars, cable, patch, page_vars, history_vars,
                   changes, fails, reloads>>
DownSomewhere ==
    \/ \E id \in {id \in DOMAIN pos : IsCt(id) => id \in Handled} : Down(Drag("node", id, NoNet))
    \/ \E e \in Edges(data, only, Handled \cap DOMAIN pos) : Down(Drag("edge", e[1], e[2]))
    \/ Down(Drag("pan", NoNode, NoNet))
SecondFinger ==
    /\ AtHand /\ ptrs = 1 /\ ptrs' = 2
    /\ drag' = Drag("pinch", NoNode, NoNet)
    /\ UNCHANGED <<server, readOnly, map_vars, cable, patch, page_vars, history_vars, bound_vars>>

\* pointermove: the free end of a cable, or the device dragged.  A device
\* redrawn meanwhile only moves on the screen: its new object stays behind.
PullCable ==
    /\ AtHand /\ cable # NoCable /\ cable.from \in DOMAIN pos
    /\ \E t \in {id \in DOMAIN pos : MayPlug(id)} \cup {NoNode} : cable' = [cable EXCEPT !.target = t]
    /\ drag' = IF drag.kind = "cable" THEN [drag EXCEPT !.moved = TRUE] ELSE drag
    /\ UNCHANGED <<server, readOnly, map_vars, ptrs, patch, page_vars, history_vars, bound_vars>>
DragNode(at) ==
    /\ AtHand /\ cable = NoCable /\ drag.kind = "node" /\ drag.of \in Handled
    /\ drag' = [drag EXCEPT !.moved = TRUE]
    /\ pinned' = pinned \cup {drag.of}
    /\ pos' = IF drag.live THEN [pos EXCEPT ![drag.of] = at] ELSE pos
    /\ left' = [left EXCEPT ![drag.of] = at]
    /\ forgotten' = forgotten \ {drag.of}
    /\ loose' = loose \cup {drag.of}
    /\ UNCHANGED <<server, readOnly, saved, sel, card, cable, ptrs, patch, page_vars, bound_vars>>
Pan ==
    /\ AtHand /\ cable = NoCable /\ drag.kind \in {"pan", "edge"}
    /\ drag' = [drag EXCEPT !.moved = TRUE]
    /\ UNCHANGED <<server, readOnly, map_vars, cable, ptrs, patch, page_vars, history_vars, bound_vars>>

-----------------------------------------------------------------------------
(* Requests and the dialogs before them.                                   *)

\* A request; next is the second container of a pair that gets a new network.
Job(op, c, n, next) == [op |-> op, c |-> c, n |-> n, next |-> next]
Post(j) == jobs' = jobs \cup {j}
Confirm(j) == [kind |-> "confirm", job |-> j]

\* openConnect: nothing for a container that cannot share a network or already
\* does; else the dialog with the networks of b that a can join.
Shared(a, b) == (data.on[a] \cap data.on[b]) \ Builtin
Joinable(a, b) == data.on[b] \ (Closed \cup Builtin \cup data.on[a])
ConnectDialog(a, b) ==
    IF {a, b} \subseteq data.there /\ b \notin Locked /\ Shared(a, b) = {}
    THEN [kind |-> "connect", from |-> a, to |-> b, join |-> Joinable(a, b)]
    ELSE NoDialog

\* What dropping a cable on a target does: a request, or the dialog.
Plug(from, t) ==
    IF IsNet(t) THEN Post(Job("connect", from, t[2], NoCt)) /\ UNCHANGED dialog
    ELSE dialog' = ConnectDialog(from, t[2]) /\ UNCHANGED jobs

\* endCable: a source that left the map meanwhile connects nothing.
EndCable ==
    /\ cable' = NoCable
    /\ IF cable.target # NoNode /\ cable.from \in DOMAIN pos
       THEN Plug(cable.from[2], cable.target)
       ELSE UNCHANGED <<dialog, jobs>>

\* disconnectFrom: asked about before it is posted.
Disconnect(c, n) ==
    IF c \in data.there /\ n \in data.on[c] /\ ~readOnly
    THEN dialog' = Confirm(Job("disconnect", c, n, NoCt)) ELSE UNCHANGED dialog

Select(id) == sel' = id /\ card' = CardOf(id, data, DOMAIN pos)

\* pointerup.
UpCable ==
    /\ cable # NoCable
    /\ IF ~cable.armed /\ drag.kind = "cable" /\ ~drag.moved
       THEN cable' = [cable EXCEPT !.armed = TRUE] /\ UNCHANGED <<dialog, jobs>>
       ELSE EndCable
    /\ UNCHANGED <<map_vars, history_vars>>
UpMoved ==
    /\ cable = NoCable /\ drag.kind = "node" /\ drag.moved
    /\ Save
    /\ loose' = IF drag.live THEN loose \ {drag.of} ELSE loose
    /\ UNCHANGED <<pos, pinned, sel, card, cable, dialog, jobs, left>>
UpClick ==
    /\ cable = NoCable /\ ~drag.moved /\ drag.kind \in {"node", "edge", "pan", "cable"}
    /\ IF drag.kind = "edge" /\ <<drag.of, drag.net>> \in Edges(data, only, DOMAIN pos)
       THEN /\ IF IsCt(drag.of) THEN Disconnect(drag.of[2], drag.net) ELSE UNCHANGED dialog
            /\ UNCHANGED <<sel, card>>
       ELSE /\ Select(IF drag.kind = "node" THEN drag.of ELSE NoNode)
            /\ UNCHANGED dialog
    /\ UNCHANGED <<pos, pinned, saved, cable, jobs, history_vars>>
UpNothing ==
    /\ cable = NoCable
    /\ \/ drag.kind \in {"none", "pinch"}
       \/ drag.kind \in {"pan", "edge", "cable"} /\ drag.moved
    /\ UNCHANGED <<map_vars, cable, dialog, jobs, history_vars>>

\* Any pointer that goes up ends the gesture, also one finger of a pinch.
Up ==
    /\ AtHand /\ ptrs > 0 /\ ptrs' = ptrs - 1
    /\ drag' = NoDrag
    /\ UpCable \/ UpMoved \/ UpClick \/ UpNothing
    /\ UNCHANGED <<server, readOnly, patch, data, asks, only, expanded, here, bound_vars>>

\* Escape lets go of the cable, on whatever screen.
Escape ==
    /\ dialog = NoDialog /\ Gesture /\ (cable # NoCable \/ patch # NoCt)
    /\ cable' = NoCable /\ patch' = NoCt
    /\ UNCHANGED <<server, readOnly, map_vars, drag, ptrs, page_vars, history_vars, changes, fails, reloads>>

\* The patch bay: a socket lifts a cable, the next click drops it.
StartPatch(c) ==
    /\ Idle /\ Gesture /\ c \in Shown(data, only) /\ Open(Ct(c))
    /\ patch' = c
    /\ UNCHANGED <<server, readOnly, map_vars, cable, drag, ptrs, page_vars, history_vars, changes, fails, reloads>>
PatchTargets ==
    {Ct(c) : c \in data.there \ {patch}}
    \cup {Net(n) : n \in IF patch \in data.there
                         THEN data.nets \ (Closed \cup data.on[patch]) ELSE {}}
DropPatch ==
    /\ here /\ patch # NoCt /\ patch' = NoCt
    /\ \/ \E t \in PatchTargets :
             IF patch \in data.there THEN Plug(patch, t) ELSE UNCHANGED <<dialog, jobs>>
       \/ UNCHANGED <<dialog, jobs>>
    /\ UNCHANGED <<server, readOnly, map_vars, cable, drag, ptrs, data, asks, only, expanded, here,
                   history_vars, bound_vars>>

\* A jack of the bay: join the network, or ask to leave it.
Jack(c, n) ==
    /\ Idle /\ Gesture /\ c \in Shown(data, only) \ Locked /\ n \in data.nets \ Closed /\ ~readOnly
    /\ IF n \in data.on[c] THEN Disconnect(c, n) /\ UNCHANGED jobs
       ELSE Post(Job("connect", c, n, NoCt)) /\ UNCHANGED dialog
    /\ UNCHANGED <<server, readOnly, map_vars, hand_vars, data, asks, only, expanded, here,
                   history_vars, changes, fails, reloads>>

\* Start and Stop of the card; only Stop asks first.
Press ==
    /\ Idle /\ Gesture /\ IsCt(card.of) /\ card.of[2] \notin Self /\ ~readOnly
    /\ IF card.up THEN dialog' = Confirm(Job("stop", card.of[2], NoNet, NoCt)) /\ UNCHANGED jobs
       ELSE Post(Job("start", card.of[2], NoNet, NoCt)) /\ UNCHANGED dialog
    /\ UNCHANGED <<server, readOnly, map_vars, hand_vars, data, asks, only, expanded, here,
                   history_vars, changes, fails, reloads>>
\* Delete network, offered for one without members.
DeleteNetwork ==
    /\ Idle /\ Gesture /\ IsNet(card.of) /\ ~readOnly /\ card.of[2] \in data.nets \ Builtin
    /\ \A c \in data.there : card.of[2] \notin data.on[c]
    /\ dialog' = Confirm(Job("delete", NoCt, card.of[2], NoCt))
    /\ UNCHANGED <<server, readOnly, map_vars, hand_vars, data, asks, only, expanded, jobs, here,
                   history_vars, changes, fails, reloads>>

\* The dialogs: Cancel, Confirm, and Connect with one of the offered networks
\* or a new one, once at a time.
Pairing == \E j \in jobs : j.op \in {"pair", "pair again"}
Cancel ==
    /\ dialog # NoDialog /\ dialog' = NoDialog /\ UNCHANGED jobs
Confirmed ==
    /\ dialog.kind = "confirm" /\ dialog' = NoDialog /\ Post(dialog.job)
SubmitConnect ==
    /\ dialog.kind = "connect" /\ ~Pairing /\ {dialog.from, dialog.to} \subseteq data.there
    /\ \/ \E n \in dialog.join : Post(Job("pair", dialog.from, n, NoCt))
       \/ Post(Job("pair", dialog.from, NewNet, dialog.to))
    /\ UNCHANGED dialog
InDialog ==
    /\ Cancel \/ Confirmed \/ SubmitConnect
    /\ UNCHANGED <<server, readOnly, map_vars, hand_vars, data, asks, only, expanded, here,
                   history_vars, bound_vars>>

\* What a request does at the engine.
OnNets(c, N) == [server EXCEPT !.on = [server.on EXCEPT ![c] = N]]
Applied(j) ==
    CASE j.op = "start"      -> [server EXCEPT !.up = @ \cup {j.c}]
      [] j.op = "stop"       -> [server EXCEPT !.up = @ \ {j.c}]
      [] j.op = "delete"     -> [server EXCEPT !.nets = @ \ {j.n}]
      [] j.op = "disconnect" -> OnNets(j.c, server.on[j.c] \ {j.n})
      [] OTHER               -> [OnNets(j.c, server.on[j.c] \cup {j.n}) EXCEPT !.nets = @ \cup {j.n}]
Refused(j) ==
    \/ j.op # "delete" /\ j.c \notin server.there
    \/ j.op = "delete" /\ \E c \in server.there : j.n \in server.on[c]
    \/ j.op = "connect" /\ j.n \notin server.nets

\* The answer to a request: whatever it is, the containers are loaded again; the
\* second request of a pair follows the first, and its success closes the
\* connect dialog, whichever pair that is open for.
Finish(j) ==
    /\ j \in jobs
    /\ \/ /\ ~Refused(j) /\ server' = Applied(j)
          /\ UNCHANGED fails
          /\ IF j.op = "pair" /\ j.next # NoCt
             THEN /\ jobs' = (jobs \ {j}) \cup {Job("pair again", j.next, j.n, NoCt)}
                  /\ UNCHANGED <<dialog, card, asks>>
             ELSE /\ jobs' = jobs \ {j}
                  /\ dialog' = IF j.op \in {"pair", "pair again"} /\ dialog.kind = "connect"
                               THEN NoDialog ELSE dialog
                  /\ card' = IF j.op = "delete" THEN NoCard ELSE card
                  /\ Ask
       \/ /\ Refused(j) \/ fails > 0
          /\ fails' = IF Refused(j) THEN fails ELSE fails - 1
          /\ jobs' = jobs \ {j} /\ Ask
          /\ UNCHANGED <<server, dialog, card>>
    /\ UNCHANGED <<readOnly, pos, pinned, saved, sel, hand_vars, data, only, expanded, here,
                   history_vars, gestures, changes, reloads>>

-----------------------------------------------------------------------------
(* Buttons of the map, the interval and the world.                         *)

Redraw(o, x) ==
    /\ RenderMap(data, o, x)
    /\ only' = o /\ expanded' = x
    /\ UNCHANGED <<server, readOnly, cable, ptrs, patch, data, asks, dialog, jobs, here,
                   history_vars, changes, fails, reloads>>
ShowOnly(o) == Idle /\ Gesture /\ o # only /\ Redraw(o, expanded)

\* Expand and "Fold the replicas" of the card.
Expand ==
    /\ Idle /\ IsStack(card.of)
    /\ Redraw(only, expanded \cup {card.of[2]}) /\ UNCHANGED gestures
Collapse ==
    /\ Idle /\ IsCt(card.of)
    /\ LET opened == {k \in expanded : k[1] = Family[card.of[2]]} IN
       opened # {} /\ Redraw(only, expanded \ opened) /\ UNCHANGED gestures

\* A member named on a network's card.
Focus(c) ==
    /\ Idle /\ Gesture /\ IsNet(card.of) /\ c \in data.there /\ card.of[2] \in data.on[c]
    /\ sel' = IF Ct(c) \in DOMAIN pos THEN Ct(c) ELSE sel
    /\ card' = CardOf(Ct(c), data, DOMAIN pos)
    /\ UNCHANGED <<server, readOnly, pos, pinned, saved, hand_vars, page_vars, history_vars,
                   changes, fails, reloads>>

\* "Arrange again (forget dragged positions)".
Relayout ==
    /\ Idle /\ Gesture
    /\ pinned' = {} /\ saved' = Nowhere
    /\ pos' = [id \in DOMAIN pos |-> Home]
    /\ left' = [id \in Handled |-> Home] /\ forgotten' = {} /\ loose' = {}
    /\ UNCHANGED <<server, readOnly, sel, card, hand_vars, page_vars, changes, fails, reloads>>

\* To another live screen and back.
Navigate ==
    /\ dialog = NoDialog /\ patch = NoCt /\ ptrs = 0 /\ Gesture
    /\ here' = ~here
    /\ IF here' /\ asks = 0 THEN Ask ELSE UNCHANGED asks
    /\ UNCHANGED <<server, readOnly, map_vars, hand_vars, data, only, expanded, dialog, jobs,
                   history_vars, changes, fails, reloads>>

\* The interval that refreshes the current screen.
TickAllowed == dialog = NoDialog /\ patch = NoCt /\ cable = NoCable
Tick ==
    /\ here /\ TickAllowed /\ asks = 0 /\ Ask
    /\ UNCHANGED <<server, readOnly, map_vars, hand_vars, data, only, expanded, dialog, jobs, here,
                   history_vars, bound_vars>>

\* Somebody starts, stops, removes or disconnects a container elsewhere.
Elsewhere ==
    /\ changes > 0 /\ changes' = changes - 1
    /\ \E c \in server.there \cap Touched :
        server' \in {[server EXCEPT !.up = IF c \in @ THEN @ \ {c} ELSE @ \cup {c}],
                     [there |-> server.there \ {c}, up |-> server.up \ {c}, nets |-> server.nets,
                      on |-> [e \in server.there \ {c} |-> server.on[e]]]}
                    \cup {OnNets(c, server.on[c] \ {n}) : n \in server.on[c]}
    /\ UNCHANGED <<readOnly, map_vars, hand_vars, page_vars, history_vars, gestures, fails, reloads>>

\* The page starts with nothing but what localStorage remembers.
MapInit ==
    /\ server \in Servers /\ readOnly \in BOOLEAN
    /\ data = NoData /\ asks = 1 /\ only = "all" /\ expanded = {} /\ here = TRUE
    /\ pos = Nowhere /\ pinned = {} /\ saved \in Remembered /\ sel = NoNode /\ card = NoCard
    /\ cable = NoCable /\ drag = NoDrag /\ ptrs = 0 /\ patch = NoCt
    /\ dialog = NoDialog /\ jobs = {}
    /\ left = [id \in Handled |-> IF id \in DOMAIN saved THEN saved[id] ELSE Home]
    /\ forgotten = {} /\ loose = {}
    /\ gestures = MaxGestures /\ changes = MaxWorld /\ fails = MaxFails /\ reloads = MaxReloads

Reload ==
    /\ reloads > 0 /\ reloads' = reloads - 1 /\ jobs = {} /\ UNCHANGED jobs
    /\ data' = NoData /\ asks' = 1 /\ only' = "all" /\ expanded' = {} /\ here' = TRUE
    /\ pos' = Nowhere /\ pinned' = {} /\ sel' = NoNode /\ card' = NoCard
    /\ cable' = NoCable /\ drag' = NoDrag /\ ptrs' = 0 /\ patch' = NoCt /\ dialog' = NoDialog
    /\ UNCHANGED <<server, readOnly, saved, history_vars, gestures, changes, fails>>

Hands == GrabHandle \/ CableFromCard \/ DownSomewhere \/ SecondFinger \/ PullCable
         \/ (\E at \in Spots : DragNode(at)) \/ Pan \/ Up \/ Escape
Buttons == (\E c \in Touched : StartPatch(c)) \/ DropPatch \/ (\E c \in Touched, n \in Nets : Jack(c, n))
           \/ Press \/ DeleteNetwork \/ InDialog
           \/ (\E o \in {"all", "running"} : ShowOnly(o)) \/ Expand \/ Collapse
           \/ (\E c \in Touched : Focus(c)) \/ Relayout \/ Navigate
MapNext == Hands \/ Buttons \/ Answer \/ (\E j \in jobs : Finish(j)) \/ Tick \/ Elsewhere \/ Reload

-----------------------------------------------------------------------------
(* Properties.                                                             *)

\* Type invariant: also that the map has the devices the data and the filters
\* name, and that a gesture is under way only while a pointer is down.  The
\* selection may have left the map: a click that an answer overtook selects it.
MapTypeOK ==
    /\ data.up \subseteq data.there /\ DOMAIN data.on = data.there
    /\ DOMAIN pos = Nodes(data, only, expanded)
    /\ \A id \in DOMAIN pos : pos[id] \in Spots \cup {Home}
    /\ \A id \in DOMAIN saved : saved[id] \in Spots \cup {Home}
    /\ ptrs \in 0..2 /\ (drag.kind # "none" => ptrs > 0)
    /\ asks \in 0..MaxAsks /\ dialog.kind \in {"none", "confirm", "connect"}
    /\ cable.target # NoNode => cable.from # NoNode

\* The cables on the map, a stack's counting for every container it stands for,
\* are the memberships of the containers shown: folding replicas hides none.
NoCableLost ==
    LET edges == Edges(data, only, DOMAIN pos)
        device(c) == IF Ct(c) \in DOMAIN pos THEN Ct(c) ELSE Stack(Sig(data, c))
    IN \A c \in Shown(data, only) :
           device(c) \in DOMAIN pos /\ {n \in data.nets : <<device(c), n>> \in edges} = data.on[c]

\* The card speaks of something the data still has and offers Start or Stop as
\* the data has it, however the answers come between the clicks.
CardIsCurrent ==
    IsCt(card.of) => card.of[2] \in data.there /\ (card.up <=> card.of[2] \in data.up)

\* Whatever is redrawn while a cable hangs, a dialog is open or a click waits, a
\* request only joins open containers to networks that can be joined, nothing
\* acts on SkyGuard's own container, and nothing is sent in read-only mode.
OnlyOpenDevices ==
    \A j \in jobs :
        /\ ~readOnly
        /\ j.op \in {"connect", "pair", "pair again"} => j.c \notin Locked /\ j.n \notin Closed
        /\ j.op \in {"start", "stop"} => j.c \notin Self
        /\ j.op = "delete" => j.n \notin Builtin

\* A device that stays on the map moves only under the operator's pointer or by
\* "Arrange again": no answer, filter or fold shifts it.
StaysPut ==
    [][\A id \in DOMAIN pos \cap DOMAIN pos' :
          pos'[id] # pos[id] =>
              \/ drag.kind = "node" /\ drag.of = id /\ UNCHANGED data
              \/ pinned' = {}]_networkmap_vars

\* topology.js:6: "Positions the operator drags are pinned and remembered per
\* browser."  A device on the map stands where the operator left it, also after
\* the page is reloaded; loose are those whose drag a pinch, a redraw or a
\* reload cut off.
DragRemembered ==
    \A id \in Handled \cap DOMAIN pos :
        left[id] # Home /\ id \notin loose => pos[id] = left[id]

\* The same, but for the devices that were off the map when another was saved.
RememberedIfShown ==
    \A id \in Handled \cap DOMAIN pos :
        left[id] # Home /\ id \notin loose \cup forgotten => pos[id] = left[id]

\* The map holds: its variables have their types, no cable is lost, the card is
\* current, requests act on open devices only, and what is shown stands where
\* it was left.
MapHolds == MapTypeOK /\ NoCableLost /\ CardIsCurrent /\ OnlyOpenDevices /\ RememberedIfShown

\* app.js:2122: "Live screens refresh every 30 seconds while the tab is visible".
\* On another screen than the containers nothing holds the interval back.
RefreshesElsewhere == ~here => TickAllowed
=============================================================================
