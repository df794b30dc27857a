------------------------------ MODULE Inventory ------------------------------
(***************************************************************************)
(* The software inventory: the manager that reads every place, keeps what  *)
(* it found in memory and in the database and compares it with OSV.dev     *)
(* (inventory/manager.go), and the Software screen with its headline, its  *)
(* rows and the sheet of one place (app.js, dashboard/software.go).        *)
(* Packages are told apart by one thing: whether an advisory is about      *)
(* them.                                                                   *)
(***************************************************************************)
EXTENDS Integers, Sequences, FiniteSets

CONSTANTS
    Places, ThisServer,  \* what is scanned; all but ThisServer are containers
    NoPlace,    \* no answer, no target, no sheet
    FirstCodes, \* bound: what is installed at first, [Places -> "bad" or "clean"] each
    StuckAt,    \* reads left behind after which no scan begins: 3
    MaxCalls,   \* bound: requests of the page at once
    MaxPresses, \* bound: what the operator does
    MaxEvents,  \* bound: what changes elsewhere
    MaxFaults,  \* bound: writes and requests that fail, and restarts
    MaxDays     \* bound: scheduled scans

ASSUME InventoryAssumption ==
    /\ IsFiniteSet(Places) /\ ThisServer \in Places /\ NoPlace \notin Places
    /\ FirstCodes \subseteq [Places -> {"bad", "clean"}] /\ MaxCalls \in Nat \ {0} /\ StuckAt \in Nat \ {0}
    /\ MaxPresses \in Nat /\ MaxEvents \in Nat /\ MaxFaults \in Nat /\ MaxDays \in Nat

VARIABLES
    world,    \* [Places -> what is there]: there, readable, code; and whether the engine answers
    targets,  \* Manager.targets: [Places -> target or NoPlace]
    stored,   \* the same rows in the database
    job,      \* Manager.status and what the scan under way has still to read
    stuck,    \* Manager.stuck: reads that were left behind
    osv,      \* the switch, in the database
    seen,     \* sw.data, or NoPlace
    sheet,    \* sw.cur, or NoPlace
    calls,    \* requests of the page, in their order: [kind, place, reply]
    poll,     \* the 2 s timer is set
    unsaved,  \* history: places whose last write failed
    whole,    \* history: every target is of one scan that ran to its end
    presses, events, faults, days

server_side == <<world, targets, stored, job, stuck, osv, unsaved, whole>>
page_side == <<seen, sheet, calls, poll>>
inventory_vars == <<server_side, page_side, presses, events, faults, days>>

Idle0 == [phase |-> "idle", todo |-> {}, listed |-> {}, failed |-> FALSE]
Fault == faults > 0 /\ faults' = faults - 1
Press == presses > 0 /\ presses' = presses - 1 /\ UNCHANGED events

-----------------------------------------------------------------------------
(* The manager.                                                            *)

\* What a scan lists: this server, and the containers of an engine that answers.
ToScan == {ThisServer} \cup {p \in Places : p # ThisServer /\ world.engine /\ world.at[p].there}
MayBegin == job.phase = "idle" /\ stuck < StuckAt
ScanJob == [phase |-> "scanning", todo |-> ToScan, listed |-> ToScan, failed |-> FALSE]
\* check looks at every target there is, read or not.
CheckJob == [phase |-> "checking", todo |-> {}, listed |-> {p \in Places : targets[p] # NoPlace}, failed |-> FALSE]

\* Run: once a day.
DailyScan == MayBegin /\ days > 0 /\ days' = days - 1 /\ job' = ScanJob
    /\ UNCHANGED <<world, targets, stored, stuck, osv, unsaved, whole, page_side, presses, events, faults>>

\* A scan starts with no findings; a place that cannot be read keeps the
\* packages found before.
Read(p, ok, compared) ==
    [code |-> IF ok THEN world.at[p].code ELSE IF targets[p] = NoPlace THEN "none" ELSE targets[p].code,
     found |-> "none", checked |-> compared, error |-> ~ok]
\* A faulty form, for a mutant: what was compared before stays compared.
StillChecked(p, ok) == Read(p, ok, targets[p] # NoPlace /\ targets[p].checked)
ReadAs(p, ok) == Read(p, ok, FALSE)

\* save only logs an error.
Saved(p, t, ok) ==
    /\ stored' = IF ok THEN [stored EXCEPT ![p] = t] ELSE stored
    /\ unsaved' = IF ok THEN unsaved \ {p} ELSE unsaved \cup {p}
    /\ IF ok THEN UNCHANGED faults ELSE Fault
\* A read that hangs is left behind after 90 s and counts for ever.
ReadPlace(p, hangs, ok) ==
    /\ p \in job.todo /\ job.phase = "scanning" /\ (ThisServer \in job.todo => p = ThisServer) /\ (hangs => ~world.at[p].readable)
    /\ LET t == ReadAs(p, world.at[p].readable)
       IN targets' = [targets EXCEPT ![p] = t] /\ Saved(p, t, ok)
    /\ job' = [job EXCEPT !.todo = @ \ {p}]
    /\ IF hangs THEN stuck' = stuck + 1 ELSE UNCHANGED stuck
    /\ UNCHANGED <<world, osv, whole, page_side, presses, events>>

\* What was not listed is forgotten, in memory and in the database (an error
\* there goes unnoticed); then the check follows.
Remaining(lost) == job.listed \cup lost
ScanEnds(lost) ==
    /\ job.phase = "scanning" /\ job.todo = {} /\ lost \subseteq {p \in Places \ job.listed : stored[p] # NoPlace}
    /\ targets' = [p \in Places |-> IF p \in job.listed THEN targets[p] ELSE NoPlace]
    /\ stored' = [p \in Places |-> IF p \in Remaining(lost) THEN stored[p] ELSE NoPlace]
    /\ unsaved' = (unsaved \cap job.listed) \cup lost
    /\ IF lost = {} THEN UNCHANGED faults ELSE Fault
    /\ job' = IF osv THEN [CheckJob EXCEPT !.listed = job.listed] ELSE Idle0
    /\ whole' = TRUE
    /\ UNCHANGED <<world, stuck, osv, page_side, presses, events>>

\* OSV.dev answers: with every advisory, with some it could not load, or not.
Compared(t, full) ==
    [t EXCEPT !.found = IF t.code = "bad" THEN (IF full THEN "critical" ELSE "unrated") ELSE "none",
              !.checked = TRUE]
OsvAnswers(full, lost) ==
    /\ job.phase = "checking" /\ lost \subseteq job.listed
    /\ targets' = [p \in Places |-> IF p \in job.listed THEN Compared(targets[p], full) ELSE targets[p]]
    /\ stored' = [p \in Places |-> IF p \in job.listed \ lost THEN targets'[p] ELSE stored[p]]
    /\ unsaved' = (unsaved \ job.listed) \cup lost
    /\ IF lost = {} THEN UNCHANGED faults ELSE Fault
    /\ job' = Idle0 /\ whole' = TRUE
    /\ UNCHANGED <<world, stuck, osv, page_side, presses, events>>
OsvFails ==
    /\ job.phase = "checking" /\ Fault /\ job' = [Idle0 EXCEPT !.failed = TRUE]
    /\ UNCHANGED <<world, targets, stored, stuck, osv, unsaved, whole, page_side, presses, events>>

\* The process ends and starts again: what was stored is loaded, a scan or
\* check under way is not taken up, and every request of the page fails.
Restart ==
    /\ Fault
    /\ targets' = stored /\ job' = Idle0 /\ stuck' = 0 /\ unsaved' = {}
    /\ whole' = (whole /\ unsaved = {} /\ job.phase # "scanning")
    /\ calls' = <<>>
    /\ UNCHANGED <<world, stored, osv, seen, sheet, poll, presses, events>>

\* Containers come and go, packages change, a file system stops answering, an
\* engine is restarted.
Becomes(p, there) == world' = [world EXCEPT !.at = [@ EXCEPT ![p] = there]]
Changes ==
    /\ events > 0 /\ events' = events - 1
    /\ \/ world' = [world EXCEPT !.engine = ~@]
       \/ \E p \in Places \ {ThisServer} : Becomes(p, [world.at[p] EXCEPT !.there = ~@])
       \/ \E p \in Places : Becomes(p, [world.at[p] EXCEPT !.readable = ~@])
       \/ \E p \in Places : Becomes(p, [world.at[p] EXCEPT !.code = IF @ = "bad" THEN "clean" ELSE "bad"])
    /\ UNCHANGED <<targets, stored, job, stuck, osv, unsaved, whole, page_side, presses, faults>>

-----------------------------------------------------------------------------
(* The screen.                                                             *)

Known(d) == {p \in Places : d.targets[p] # NoPlace}
RatedIn(d) == {p \in Known(d) : d.targets[p].found = "critical"}
AnyChecked(d) == \E p \in Known(d) : d.targets[p].checked
Headline(d) ==
    IF Known(d) = {} THEN "nothing scanned"
    ELSE IF ~d.osv THEN "not compared"
    ELSE IF ~AnyChecked(d) THEN "not checked yet"
    ELSE IF RatedIn(d) # {} THEN "known" ELSE "none known"
Row(d, t) ==
    IF ~d.osv THEN "not checked" ELSE IF ~t.checked THEN "not checked yet"
    ELSE IF t.found = "none" THEN "none known" ELSE "known"
\* The sheet goes by the switch of the overview on the page.
SheetSays == Row(seen, sheet.target)
ScanDisabled(d) == d.phase # "idle"
CheckDisabled(d) == ScanDisabled(d) \/ Known(d) = {} \/ ~d.osv

View == [targets |-> targets, phase |-> job.phase, osv |-> osv, whole |-> whole]
Unserved == [kind |-> "none"]
Send(kind, p) == Len(calls) < MaxCalls /\ calls' = Append(calls, [kind |-> kind, place |-> p, reply |-> Unserved])

LoadSoftware == Press /\ Send("load", NoPlace) /\ UNCHANGED <<server_side, seen, sheet, poll, faults>>
PollFires == poll /\ poll' = FALSE /\ Send("load", NoPlace)
    /\ UNCHANGED <<server_side, seen, sheet, presses, events, faults>>
PressScan == seen # NoPlace /\ ~ScanDisabled(seen) /\ Press /\ Send("scan", NoPlace)
    /\ UNCHANGED <<server_side, seen, sheet, poll, faults>>
PressCheck == seen # NoPlace /\ ~CheckDisabled(seen) /\ Press /\ Send("check", NoPlace)
    /\ UNCHANGED <<server_side, seen, sheet, poll, faults>>
SwitchOsv == seen # NoPlace /\ Press /\ Send("osv", NoPlace)
    /\ UNCHANGED <<server_side, seen, sheet, poll, faults>>
OpenSoftware(p) == seen # NoPlace /\ p \in Known(seen) /\ Press /\ Send("target", p)
    /\ UNCHANGED <<server_side, seen, sheet, poll, faults>>

\* The server takes a request; a reply is a view of the moment.
Refused == [kind |-> "error"]
Replied(i, reply) == calls' = [calls EXCEPT ![i] = [@ EXCEPT !.reply = reply]]
    /\ UNCHANGED <<world, targets, stored, stuck, unsaved, whole, seen, sheet, poll, presses, events, faults>>
Shows(v) == [kind |-> "view", view |-> v]
ServeSoftware(i) ==
    /\ calls[i].reply = Unserved
    /\ CASE calls[i].kind = "load" -> Replied(i, Shows(View)) /\ UNCHANGED <<job, osv>>
         [] calls[i].kind = "target" ->
                /\ Replied(i, IF targets[calls[i].place] = NoPlace THEN Refused
                              ELSE [kind |-> "target", target |-> targets[calls[i].place], whole |-> whole])
                /\ UNCHANGED <<job, osv>>
         [] calls[i].kind = "osv" ->
                osv' = ~seen.osv /\ Replied(i, Shows([View EXCEPT !.osv = osv'])) /\ UNCHANGED job
         [] calls[i].kind = "scan" ->
                IF MayBegin THEN job' = ScanJob /\ Replied(i, Shows([View EXCEPT !.phase = "scanning"])) /\ UNCHANGED osv
                ELSE Replied(i, Refused) /\ UNCHANGED <<job, osv>>
         [] calls[i].kind = "check" ->
                IF MayBegin /\ osv THEN job' = CheckJob /\ Replied(i, Shows([View EXCEPT !.phase = "checking"])) /\ UNCHANGED osv
                ELSE Replied(i, Refused) /\ UNCHANGED <<job, osv>>

\* An answer is drawn; after a button the overview is loaded again, and while
\* the server works the timer is set.
Rest(i) == SubSeq(calls, 1, i - 1) \o SubSeq(calls, i + 1, Len(calls))
Again(i) == Append(Rest(i), [kind |-> "load", place |-> NoPlace, reply |-> Unserved])
SoftwareComes(i) ==
    /\ calls[i].reply.kind # "none"
    /\ LET c == calls[i] IN
       CASE c.kind = "target" ->
                /\ calls' = Rest(i)
                /\ sheet' = IF c.reply = Refused THEN sheet
                            ELSE [place |-> c.place, target |-> c.reply.target, whole |-> c.reply.whole]
                /\ UNCHANGED <<seen, poll>>
         [] c.kind = "load" ->
                seen' = c.reply.view /\ poll' = (seen'.phase # "idle") /\ calls' = Rest(i) /\ UNCHANGED sheet
         [] OTHER ->
                /\ seen' = IF c.reply = Refused THEN seen ELSE c.reply.view
                /\ calls' = Again(i) /\ UNCHANGED <<sheet, poll>>
    /\ UNCHANGED <<server_side, presses, events, faults>>
SoftwareFails(i) ==
    /\ Fault
    /\ calls' = IF calls[i].kind \in {"load", "target"} THEN Rest(i) ELSE Again(i)
    /\ UNCHANGED <<server_side, seen, sheet, poll, presses, events>>

-----------------------------------------------------------------------------
InventoryInit ==
    /\ \E codes \in FirstCodes :
           world = [engine |-> TRUE, at |-> [p \in Places |-> [there |-> TRUE, readable |-> TRUE, code |-> codes[p]]]]
    /\ targets = [p \in Places |-> NoPlace] /\ stored = targets
    /\ job = Idle0 /\ stuck = 0 /\ osv \in BOOLEAN
    /\ seen = NoPlace /\ sheet = NoPlace /\ poll = FALSE
    /\ calls = <<[kind |-> "load", place |-> NoPlace, reply |-> Unserved]>>
    /\ unsaved = {} /\ whole = TRUE
    /\ presses = MaxPresses /\ events = MaxEvents /\ faults = MaxFaults /\ days = MaxDays

InventoryNext ==
    \/ DailyScan
    \/ UNCHANGED days /\
        \/ OsvFails \/ Restart \/ Changes
        \/ \E p \in Places, hangs, ok \in BOOLEAN : ReadPlace(p, hangs, ok)
        \/ \E lost \in SUBSET Places : ScanEnds(lost) \/ (\E full \in BOOLEAN : OsvAnswers(full, lost))
        \/ LoadSoftware \/ PollFires \/ PressScan \/ PressCheck \/ SwitchOsv
        \/ \E p \in Places : OpenSoftware(p)
        \/ \E i \in DOMAIN calls : ServeSoftware(i) \/ SoftwareComes(i) \/ SoftwareFails(i)
InventorySpec == InventoryInit /\ [][InventoryNext]_inventory_vars

-----------------------------------------------------------------------------
(* Types and properties.                                                   *)

Targets == [code : {"none", "bad", "clean"}, found : {"none", "critical", "unrated"}, checked : BOOLEAN, error : BOOLEAN]
Tables == [Places -> Targets \cup {NoPlace}]
ASSUME NoPlaceAssumption == NoPlace \notin Targets
InventoryTypeOK ==
    /\ targets \in Tables /\ stored \in Tables /\ stuck \in 0..StuckAt + Cardinality(Places) - 1 /\ osv \in BOOLEAN
    /\ job.phase \in {"idle", "scanning", "checking"} /\ job.todo \subseteq job.listed /\ job.listed \subseteq Places
    /\ seen = NoPlace \/ (seen.targets \in Tables /\ seen.phase \in {"idle", "scanning", "checking"})
    /\ sheet = NoPlace \/ (sheet.place \in Places /\ sheet.target \in Targets)
    /\ Len(calls) <= MaxCalls /\ unsaved \subseteq Places

\* With nothing under way, no write refused and no restart in the middle of a
\* scan, the page that says that no critical or high vulnerability is known
\* has compared the packages of every place it lists, and each place with an
\* advisory shows it; so does a sheet that says that there is none.
VerdictsCompared ==
    /\ seen # NoPlace /\ seen.phase = "idle" /\ seen.whole /\ Headline(seen) = "none known" =>
           \A p \in Known(seen) :
               /\ seen.targets[p].checked
               /\ seen.targets[p].code = "bad" => Row(seen, seen.targets[p]) = "known"
    /\ seen # NoPlace /\ sheet # NoPlace /\ sheet.whole /\ SheetSays = "none known" => sheet.target.code # "bad"

\* With nothing under way the database holds what is in memory, but for the
\* places whose last write was refused, so that a restart forgets nothing.
ScansKept == job.phase = "idle" => \A p \in Places \ unsaved : stored[p] = targets[p]

\* The inventory is true: what the page and the sheet say of the places was
\* compared, and what was found is stored.
InventoryTrue == VerdictsCompared /\ ScansKept
\* The Software screen: what was compared and what is stored.
SoftwareTrue == InventoryTypeOK /\ InventoryTrue

\* The page says that nothing is known only when every place was compared.
VerdictAlways ==
    seen # NoPlace /\ Headline(seen) = "none known" => \A p \in Known(seen) : seen.targets[p].checked
\* A container that is still there keeps what was found in it.
PresentKept ==
    [][\A p \in Places : targets[p] # NoPlace /\ world.at[p].there => targets'[p] # NoPlace]_targets
=============================================================================
