------------------------------- MODULE Screens -------------------------------
(***************************************************************************)
(* The browser dashboard's routing and loading                             *)
(* (src/internal/dashboard/static/assets/app.js).  The screen and its      *)
(* state live in the URL hash; a screen asks the server for its parts and  *)
(* renders them when every answer is in.  Answers come late and in any     *)
(* order, a request may fail, and the operator clicks meanwhile.  What a   *)
(* part shows is kept as the parameters it was asked with and the age of   *)
(* the server's data in it; layout and wording are left out.               *)
(***************************************************************************)
EXTENDS Naturals, FiniteSets, SequencesExt

CONSTANTS
    Hashes,       \* the hashes the operator's links and bookmarks name
    Opened,       \* those the page may be opened on
    Filters,      \* what the connection filters may be set to; NoFilter is one
    NoFilter,
    EnginesOn,    \* the container engines switched on at the server
    DefaultEngine,\* the first of them whose socket answers
    LastPage,     \* the last page of connections the server has
    MaxLoads,     \* bound: loads in flight at once
    MaxClicks,    \* bound: what the operator does
    MaxWorld,     \* bound: changes of the server's data
    MaxFails      \* bound: requests that fail

ASSUME ScreensAssumption ==
    /\ NoFilter \in Filters /\ Opened \subseteq Hashes
    /\ DefaultEngine \in EnginesOn
    /\ LastPage \in Nat /\ MaxLoads \in Nat \ {0}
    /\ MaxClicks \in Nat /\ MaxWorld \in Nat /\ MaxFails \in Nat

VARIABLES
    current, range, metric, filter, offset, engine, view, \* state, ct and current
    hash,         \* location.hash
    refreshing,   \* the flag refresh() sets while its load runs
    load,         \* the loads in flight, by slot
    poll,         \* sw.poll: the timer of the software screen is set
    shown,        \* what each part of the page shows
    pager,        \* the page the label names, and whether Previous and Next are enabled
    banned,       \* the age of the ban list in state.banned
    known,        \* the engines switched on in ct.data, {} before it is loaded
    scan,         \* the server is scanning software
    world,        \* the age of the server's data
    visible,      \* the tab is visible
    dialog,       \* a dialog is open
    lifted,       \* the cables that hang: "patch" for ct.patch, "cable" for ct.cabling
    clicks, fails \* what is left of the bounds

view_vars == <<current, range, metric, filter, offset, engine, view, hash>>
screens_vars == <<view_vars, refreshing, load, poll, shown, pager, banned, known, scan,
                  world, visible, dialog, lifted, clicks, fails>>

-----------------------------------------------------------------------------
(* The screens, their parts and what a part is asked with.                 *)

Parts ==
    [overview    |-> {"summary", "series", "latest"},
     connections |-> {"rows", "heatmap"},
     attackers   |-> {"scores", "bans", "info"},
     credentials |-> {"breakdown", "pairs", "logins"},
     services    |-> {"honeypots"},
     ports       |-> {"listeners"},
     software    |-> {"targets"},
     containers  |-> {"bay"},
     settings    |-> {"autoban", "firewall"}]
ScreenNames == DOMAIN Parts
Live == ScreenNames \ {"connections", "software", "settings"}
AllParts == UNION {Parts[s] : s \in ScreenNames}

\* show() opens the overview on the name of no screen, and a filter is set to
\* what its field or its list holds.
ASSUME HashesAssumption == \A h \in Hashes : h.screen \in ScreenNames /\ h.filter \in Filters

Ranges == {"24h", "7d", "30d"}
Metrics == {"total", "honeypot_hits", "credentials", "dropped"}

RangedParts == {"summary", "series", "breakdown", "logins"}
Asked(p) == [range  |-> IF p \in RangedParts THEN range ELSE "-",
             filter |-> IF p = "rows" THEN filter ELSE NoFilter,
             offset |-> IF p = "rows" THEN offset ELSE 0]
AskedNow == [p \in AllParts |-> Asked(p)]
Params == [range : Ranges \cup {"-"}, filter : Filters, offset : Nat]

Cables == {"patch", "cable"}

Waiting == [st |-> "waiting", age |-> 0, busy |-> FALSE]
Failed  == [st |-> "failed", age |-> 0, busy |-> FALSE]
Answers == [st : {"waiting", "failed", "ok"}, age : 0..MaxWorld, busy : BOOLEAN]

\* A part shows nothing yet, an error with a retry, or data.
Nothing == [st |-> "nothing"]
Broken  == [st |-> "broken"]
IsData(c) == c.st = "data"
Busy(c) == IsData(c) /\ c.busy

Slots == 1..MaxLoads
NoLoad == [screen |-> "none"]
Free == {s \in Slots : load[s] = NoLoad}
FirstFree == CHOOSE s \in Free : \A t \in Free : s <= t
InFlight == Slots \ Free

-----------------------------------------------------------------------------
(* The hash.                                                               *)

Absent == "absent"
Hash(s, r, m, f, e, v) ==
    [screen |-> s, range |-> r, metric |-> m, filter |-> f, engine |-> e, view |-> v]
Plain(s) == Hash(s, Absent, Absent, NoFilter, Absent, Absent)

\* The hash writeHash makes of the state: default values stay out of it, and
\* the engine is only in it once two engines are known to be switched on.
WriteHash(s, r, m, f, e, v) ==
    LET ranged == s \in {"overview", "credentials"} IN
    Hash(s,
         IF ranged /\ r # "24h" THEN r ELSE Absent,
         IF s = "overview" /\ m # "total" THEN m ELSE Absent,
         IF s = "connections" THEN f ELSE NoFilter,
         IF s = "containers" /\ e # Absent /\ Cardinality(known) > 1 THEN e ELSE Absent,
         IF s = "containers" /\ v = "table" THEN v ELSE Absent)

\* applyParams: the state after the hash h is opened.
RangeAfter(h) == IF h.range \in Ranges THEN h.range
                 ELSE IF h.screen \in {"overview", "credentials"} THEN "24h" ELSE range
MetricAfter(h) == IF h.screen # "overview" THEN metric
                  ELSE IF h.metric \in Metrics THEN h.metric ELSE "total"
FilterAfter(h) == IF h.screen = "connections" THEN h.filter ELSE filter
OffsetAfter(h) == IF h.screen = "connections" THEN 0 ELSE offset
EngineAfter(h) == IF h.screen = "containers" /\ h.engine # Absent THEN h.engine ELSE engine
ViewAfter(h) == IF h.screen # "containers" THEN view
                ELSE IF h.view = "table" THEN "table" ELSE "map"

-----------------------------------------------------------------------------
(* Loads.  A loader asks for all its parts at once and renders when the    *)
(* last answer is in (Promise.allSettled).                                 *)

\* The load of screen s, asked with the parameters ask.
NewLoad(s, chain, ask) ==
    [screen |-> s, chain |-> chain,
     asked |-> [p \in Parts[s] |-> ask[p]],
     got |-> [p \in Parts[s] |-> Waiting]]

\* loadConnections, loadSoftware, loadContainers... called past refresh().
LoadDirectly(s, ask) ==
    /\ Free # {}
    /\ load' = [load EXCEPT ![FirstFree] = NewLoad(s, FALSE, ask)]
    /\ UNCHANGED refreshing

\* refresh(): nothing while a refresh runs.
MayRefresh == ~refreshing
Refresh(s, ask) ==
    IF MayRefresh
    THEN /\ Free # {}
         /\ refreshing' = TRUE
         /\ load' = [load EXCEPT ![FirstFree] = NewLoad(s, TRUE, ask)]
    ELSE UNCHANGED <<refreshing, load>>

\* The server answers one request with its data of this moment.
Answer(s, p) ==
    /\ load[s] # NoLoad /\ p \in Parts[load[s].screen]
    /\ load[s].got[p] = Waiting
    /\ \/ load' = [load EXCEPT ![s].got[p] =
                     [st |-> "ok", age |-> world, busy |-> p = "targets" /\ scan]]
          /\ UNCHANGED fails
       \/ /\ fails > 0
          /\ fails' = fails - 1
          /\ load' = [load EXCEPT ![s].got[p] = Failed]
    /\ UNCHANGED <<view_vars, refreshing, poll, shown, pager, banned, known, scan, world,
                   visible, dialog, lifted, clicks>>

\* loadOverview, loadCredentials, loadServices, loadPorts, loadSettings and the
\* two parts of the connections screen: data where the answer came, an error
\* block where it did not.
RenderPart(a, asked) ==
    IF a.st = "ok" THEN [st |-> "data", of |-> asked, age |-> a.age, busy |-> a.busy]
    ELSE Broken

\* A faulty form, for a mutant: the scores are drawn before the bans are taken.
RenderScoresFirst(got, asked) ==
    IF got["scores"].st = "ok"
    THEN [st |-> "data", of |-> asked, age |-> got["scores"].age, busy |-> FALSE,
          pills |-> banned]
    ELSE Broken

\* loadAttackers replaces state.banned before it draws the scores, so that
\* their pills speak of the bans listed beside them.
BannedAfter(got) == IF got["bans"].st = "ok" THEN got["bans"].age ELSE banned
RenderScores(got, asked) ==
    IF got["scores"].st = "ok"
    THEN [st |-> "data", of |-> asked, age |-> got["scores"].age, busy |-> FALSE,
          pills |-> BannedAfter(got)]
    ELSE Broken

\* What the parts of a load show once it is rendered.
Rendered(l) ==
    [p \in AllParts |->
        IF p \notin Parts[l.screen] THEN shown[p]
        ELSE IF p = "scores" THEN RenderScores(l.got, l.asked[p])
        ELSE RenderPart(l.got[p], l.asked[p])]

\* loadContainers picks an engine that is switched on when the chosen one is not.
EngineOnceLoaded == IF engine \in EnginesOn THEN engine ELSE DefaultEngine

\* loadSoftware asks again in two seconds while a scan runs; an answer that
\* never came leaves the timer as it is.
PollAfter(a) == IF a.st = "ok" THEN a.busy ELSE poll

\* loadConnections writes the label and the buttons from the offset of this
\* moment and the rows of the answer, which may be of another page.
PagerAfter(l) ==
    IF l.got["rows"].st = "ok"
    THEN [page |-> offset, prev |-> offset # 0, next |-> l.asked["rows"].offset < LastPage]
    ELSE pager

\* A faulty form, for a mutant: a failed load keeps it.
FlagKeptOnFailure(l) ==
    IF l.chain /\ \A p \in DOMAIN l.got : l.got[p].st = "ok" THEN FALSE ELSE refreshing

\* refresh() clears its flag whatever the load's outcome was (finally).
FlagAfter(l) == IF l.chain THEN FALSE ELSE refreshing

Settle(s) ==
    /\ load[s] # NoLoad
    /\ LET l == load[s] IN
       /\ \A p \in Parts[l.screen] : l.got[p] # Waiting
       /\ shown' = Rendered(l)
       /\ refreshing' = FlagAfter(l)
       /\ pager' = IF l.screen = "connections" THEN PagerAfter(l) ELSE pager
       /\ banned' = IF l.screen = "attackers" THEN BannedAfter(l.got) ELSE banned
       /\ poll' = IF l.screen = "software" THEN PollAfter(l.got["targets"]) ELSE poll
       /\ IF l.screen = "containers" /\ l.got["bay"].st = "ok"
          THEN known' = EnginesOn /\ engine' = EngineOnceLoaded
          ELSE UNCHANGED <<known, engine>>
    /\ load' = [load EXCEPT ![s] = NoLoad]
    /\ UNCHANGED <<current, range, metric, filter, offset, view, hash, scan, world,
                   visible, dialog, lifted, clicks, fails>>

-----------------------------------------------------------------------------
(* The operator.                                                           *)

Click == clicks > 0 /\ clicks' = clicks - 1
\* While a cable hangs from a socket of the table, a click anywhere drops it
\* and does nothing else (LetGo); fields and the browser's own buttons work.
Hit == Click /\ "patch" \notin lifted
Untouched == UNCHANGED <<poll, shown, pager, banned, known, scan, world, visible, lifted, fails>>

\* Parameters a part of the screen is asked with after the hash h is opened.
AskedAfter(h, p) ==
    [range  |-> IF p \in RangedParts THEN RangeAfter(h) ELSE "-",
     filter |-> IF p = "rows" THEN FilterAfter(h) ELSE NoFilter,
     offset |-> IF p = "rows" THEN OffsetAfter(h) ELSE 0]

\* show(): the screen of the hash with its parameters, the hash in its normal
\* form, and a refresh, which a load in flight swallows.
Show(h) ==
    /\ current' = h.screen
    /\ range' = RangeAfter(h) /\ metric' = MetricAfter(h)
    /\ filter' = FilterAfter(h) /\ offset' = OffsetAfter(h)
    /\ engine' = EngineAfter(h) /\ view' = ViewAfter(h)
    /\ hash' = WriteHash(h.screen, RangeAfter(h), MetricAfter(h), FilterAfter(h),
                         EngineAfter(h), ViewAfter(h))
    /\ Refresh(h.screen, [p \in AllParts |-> AskedAfter(h, p)])

\* A link, the address bar or "All its connections" of an address sheet, which
\* closes the sheet first: hashchange fires only when the hash is another one.
Navigate(h) ==
    /\ Click /\ h # hash
    /\ Show(h)
    /\ dialog' \in {dialog, FALSE} /\ ("patch" \in lifted => dialog' = dialog)
    /\ Untouched

\* The range buttons.
PickRange(r) ==
    /\ Hit /\ current \in {"overview", "credentials"}
    /\ range' = r
    /\ hash' = WriteHash(current, r, metric, filter, engine, view)
    /\ Refresh(current, [p \in AllParts |-> [Asked(p) EXCEPT !.range = IF p \in RangedParts THEN r ELSE "-"]])
    /\ UNCHANGED <<current, metric, filter, offset, engine, view, dialog>> /\ Untouched

\* A metric tab draws the chart again from the series already loaded.
PickMetric(m) ==
    /\ Hit /\ current = "overview" /\ m # metric
    /\ metric' = m
    /\ hash' = WriteHash(current, range, m, filter, engine, view)
    /\ UNCHANGED <<current, range, filter, offset, engine, view, dialog, refreshing, load>>
    /\ Untouched

\* A filter of the connections: first page, and a load past refresh().
PickFilter(f) ==
    /\ Click /\ current = "connections"
    /\ filter' = f /\ offset' = 0
    /\ hash' = WriteHash(current, range, metric, f, engine, view)
    /\ LoadDirectly(current, [p \in AllParts |-> [Asked(p) EXCEPT !.filter = IF p = "rows" THEN f ELSE NoFilter,
                                                                   !.offset = 0]])
    /\ UNCHANGED <<current, range, metric, engine, view, dialog>> /\ Untouched

\* Next and Previous, enabled as the last answer left them.
Page(to) ==
    /\ Hit /\ current = "connections"
    /\ \/ pager.next /\ to = offset + 1
       \/ pager.prev /\ to = (IF offset = 0 THEN 0 ELSE offset - 1)
    /\ offset' = to
    /\ LoadDirectly(current, [p \in AllParts |-> [Asked(p) EXCEPT !.offset = IF p = "rows" THEN to ELSE 0]])
    /\ UNCHANGED <<current, range, metric, filter, engine, view, hash, dialog>> /\ Untouched

\* The engine buttons are drawn once two engines are known.
PickEngine(e) ==
    /\ Hit /\ current = "containers" /\ Cardinality(known) > 1 /\ e \in known
    /\ engine' = e
    /\ hash' = WriteHash(current, range, metric, filter, e, view)
    /\ LoadDirectly(current, AskedNow)
    /\ UNCHANGED <<current, range, metric, filter, offset, view, dialog>> /\ Untouched

\* Map or table.
PickView(v) ==
    /\ Hit /\ current = "containers" /\ v # view
    /\ view' = v
    /\ hash' = WriteHash(current, range, metric, filter, engine, v)
    /\ UNCHANGED <<current, range, metric, filter, offset, engine, dialog, refreshing, load>>
    /\ Untouched

\* The refresh button and Retry.
PressRefresh ==
    /\ Hit /\ MayRefresh
    /\ Refresh(current, AskedNow)
    /\ UNCHANGED <<view_vars, dialog>> /\ Untouched

\* swPost('/api/software/scan'): its answer is the new state of the inventory,
\* then the screen is loaded again.
StartScan ==
    /\ Hit /\ current = "software" /\ ~scan
    /\ IsData(shown["targets"]) /\ ~Busy(shown["targets"])
    /\ scan' = TRUE
    /\ shown' = [shown EXCEPT !["targets"].age = world, !["targets"].busy = TRUE]
    /\ LoadDirectly(current, AskedNow)
    /\ UNCHANGED <<view_vars, dialog, lifted, poll, pager, banned, known, world, visible, fails>>

\* Any of the page's dialogs and sheets; some open when an answer is in.
OpenDialog  == /\ Click /\ ~dialog /\ dialog' = TRUE
               /\ UNCHANGED <<view_vars, refreshing, load>> /\ Untouched
CloseDialog == /\ dialog /\ dialog' = FALSE
               /\ UNCHANGED <<view_vars, refreshing, load, clicks>> /\ Untouched
\* Leaving the tab and coming back to it.
TurnAway == /\ Click /\ visible' = ~visible
            /\ UNCHANGED <<view_vars, refreshing, load, poll, shown, pager, banned, known,
                           scan, world, dialog, lifted, fails>>

\* A cable hangs from a socket of the table (startPatch) or from a device of
\* the map (onCableStart), on whatever screen, until it is let go: dropped on a
\* container, which asks how to join the two, on a network or nowhere, or by
\* Escape.  What is connected by it is NetworkMap.
Lift ==
    /\ Click /\ ~dialog /\ current = "containers" /\ IsData(shown["bay"])
    /\ "patch" \in lifted => view = "map"
    /\ lifted' = lifted \cup {IF view = "table" THEN "patch" ELSE "cable"}
    /\ UNCHANGED <<view_vars, refreshing, load, poll, shown, pager, banned, known, scan, world,
                   visible, dialog, fails>>
LetGo(what) ==
    /\ what \in lifted /\ lifted' = lifted \ {what}
    /\ dialog' \in {dialog, TRUE} /\ (dialog' # dialog => current = "containers")
    /\ UNCHANGED <<view_vars, refreshing, load, poll, shown, pager, banned, known, scan, world,
                   visible, clicks, fails>>

-----------------------------------------------------------------------------
(* Timers and the server.                                                  *)

\* The 30-second interval.
TickGuard == visible /\ current \in Live /\ lifted = {} /\ ~dialog
Tick ==
    /\ TickGuard /\ MayRefresh
    /\ Refresh(current, AskedNow)
    /\ UNCHANGED <<view_vars, dialog, clicks>> /\ Untouched

\* The timer of loadSoftware, on whatever screen the operator is by now.
Poll ==
    /\ poll /\ poll' = FALSE
    /\ LoadDirectly("software", AskedNow)
    /\ UNCHANGED <<view_vars, shown, pager, banned, known, scan, world, visible, dialog, lifted, clicks, fails>>

\* The timer after a resize draws the connections again.
Resize ==
    /\ Click /\ current = "connections"
    /\ LoadDirectly(current, AskedNow)
    /\ UNCHANGED <<view_vars, dialog>> /\ Untouched

\* The server's data changes: an event, or a ban or a switch posted from here.
WorldChanges ==
    /\ world < MaxWorld /\ world' = world + 1
    /\ UNCHANGED <<view_vars, refreshing, load, poll, shown, pager, banned, known, scan,
                   visible, dialog, lifted, clicks, fails>>
ScanEnds ==
    /\ scan /\ scan' = FALSE
    /\ UNCHANGED <<view_vars, refreshing, load, poll, shown, pager, banned, known, world,
                   visible, dialog, lifted, clicks, fails>>

-----------------------------------------------------------------------------
\* The page opens on the hash of the address bar.
ScreensInit ==
    /\ \E h \in Opened :
        /\ current = h.screen
        /\ range = IF h.range \in Ranges THEN h.range ELSE "24h"
        /\ metric = IF h.screen = "overview" /\ h.metric \in Metrics THEN h.metric ELSE "total"
        /\ filter = IF h.screen = "connections" THEN h.filter ELSE NoFilter
        /\ engine = IF h.screen = "containers" THEN h.engine ELSE Absent
        /\ view = IF h.screen = "containers" /\ h.view = "table" THEN "table" ELSE "map"
        /\ known = {}
        /\ hash = WriteHash(h.screen, range, metric, filter, engine, view)
    /\ offset = 0
    /\ refreshing = TRUE
    /\ load = [s \in Slots |-> IF s = 1 THEN NewLoad(current, TRUE, AskedNow) ELSE NoLoad]
    /\ poll = FALSE
    /\ shown = [p \in AllParts |-> Nothing]
    /\ pager = [page |-> 0, prev |-> TRUE, next |-> TRUE]
    /\ banned = 0
    /\ scan \in (IF current = "software" THEN BOOLEAN ELSE {FALSE})
    /\ world = 0 /\ visible = TRUE /\ dialog = FALSE /\ lifted = {}
    /\ clicks = MaxClicks /\ fails = MaxFails

Operator ==
    \/ \E h \in Hashes : Navigate(h)
    \/ \E r \in Ranges : PickRange(r)
    \/ \E m \in Metrics : PickMetric(m)
    \/ \E f \in Filters : PickFilter(f)
    \/ \E to \in 0..LastPage + MaxClicks : Page(to)
    \/ \E e \in EnginesOn : PickEngine(e)
    \/ \E v \in {"map", "table"} : PickView(v)
    \/ PressRefresh \/ StartScan
    \/ OpenDialog \/ CloseDialog \/ TurnAway \/ Resize
    \/ Lift \/ \E what \in Cables : LetGo(what)

AnswerSome(s) == \E p \in AllParts : Answer(s, p)

ScreensNext ==
    \/ Operator \/ Tick \/ Poll \/ WorldChanges \/ ScanEnds
    \/ \E s \in Slots : AnswerSome(s) \/ Settle(s)

-----------------------------------------------------------------------------
(* Properties.                                                             *)

\* Type invariant of the page: also that the flag of refresh() is up exactly
\* while one load of its own is in flight.
ScreensTypeOK ==
    /\ current \in ScreenNames /\ range \in Ranges /\ metric \in Metrics
    /\ filter \in Filters /\ offset \in 0..LastPage + MaxClicks
    /\ engine \in EnginesOn \cup {Absent} \cup {h.engine : h \in Hashes} /\ view \in {"map", "table"}
    /\ \A p \in AllParts : shown[p].st \in {"nothing", "broken", "data"}
    /\ lifted \subseteq Cables
    /\ \A s \in InFlight : \A p \in Parts[load[s].screen] :
           load[s].got[p] \in Answers /\ load[s].asked[p] \in Params
    /\ refreshing = (Cardinality({s \in InFlight : load[s].chain}) = 1)
    /\ Cardinality({s \in InFlight : load[s].chain}) <= 1

\* Reopening the hash changes nothing of what the operator chose: every handler
\* that changes the range, the metric, the filters or the view leaves them in
\* the hash in the form applyParams reads.
HashIsView ==
    /\ hash.screen = current
    /\ RangeAfter(hash) = range /\ MetricAfter(hash) = metric
    /\ FilterAfter(hash) = filter /\ ViewAfter(hash) = view

\* USAGE.md:791 names #containers?engine=incus&view=table as a bookmark: once
\* the containers are drawn, a page opened on the hash draws the same engine.
EngineBookmarked ==
    current = "containers" /\ known # {} =>
        engine = (IF hash.engine \in EnginesOn THEN hash.engine ELSE DefaultEngine)

\* The pill beside a score says what the ban list on the same screen says, as
\* one load drew both and took the bans first.
PillsMatchBans ==
    IsData(shown["scores"]) /\ IsData(shown["bans"]) =>
        shown["scores"].pills = shown["bans"].age

\* The screen shows the server's data for the parameters the operator chose.
CaughtUp ==
    \A p \in Parts[current] :
        IsData(shown[p]) /\ shown[p].of = Asked(p) /\ shown[p].age = world
=============================================================================
