------------------------------- MODULE Settings -------------------------------
(***************************************************************************)
(* The settings screen of the dashboard: the switches for AI assistants    *)
(* (MCP) and their token, the container engines, the auto-ban form, and    *)
(* the panel that starts an update and follows it through the restart      *)
(* (src/internal/dashboard/static/assets/app.js).  No interval renews this *)
(* screen: what a block shows stays until one of its own answers comes.    *)
(* The blocks share no state; a behaviour works in one of them.            *)
(***************************************************************************)
EXTENDS Integers, FiniteSets

CONSTANTS
    Blocks,       \* of "assistants", "engines", "ban" and "update"
    Engines,      \* container engines
    MaxThreshold, \* bound: of the score threshold; 0 is the empty field
    Newest,       \* the newest release; version 1 runs at first, 0 is the one before it
    Follows,      \* bound: calls of followUpdate at once
    None,
    MaxPresses,   \* bound: what the operator does, for each block
    MaxFaults     \* bound: requests that fail, or whose answer is lost

ASSUME SettingsAssumption ==
    /\ Blocks \subseteq {"assistants", "engines", "ban", "update"}
    /\ MaxThreshold \in Nat \ {0} /\ Newest \in Nat \ {0, 1} /\ Follows \in Nat
    /\ MaxPresses \in [Blocks -> Nat] /\ MaxFaults \in Nat

VARIABLES
    block,       \* the block of the screen this behaviour is about
    here,        \* current = "settings"
    srv,         \* the server's settings; ver counts their changes
    page,        \* the switches and fields of the screen, and mcp.token
    confirm,     \* the change the confirm dialog is open for
    calls,       \* requests sent and not answered
    host,        \* the process that answers: version, phase, up; boots counts its starts
    upd,         \* upd.data, or None
    follow,      \* the calls of followUpdate that run
    leaving,     \* location.reload is due
    verdict,     \* what the last of them said (only the properties read it)
    fate,        \* "overtaken", "raced", "lost", "declined": what went wrong (only the properties)
    presses, faults

update_vars == <<host, upd, follow, leaving, verdict>>
rest_vars == <<block, here>>
settings_vars == <<rest_vars, srv, page, confirm, calls, update_vars, fate, presses, faults>>

Press == presses > 0 /\ presses' = presses - 1
Fault == faults > 0 /\ faults' = faults - 1

\* A request: what it asks or changes, what its handler read, its answer.
Call(what, name, val) ==
    [what |-> what, name |-> name, val |-> val, base |-> None, view |-> None, attached |-> TRUE, n |-> 0]
Get(b) == Call("get", b, None)

\* Calls are sent once more without the one before them being answered.
Alike(c) == {d \in calls : d.what = c.what /\ d.name = c.name}
Numbered(c) == [c EXCEPT !.n = CHOOSE n \in 0..Cardinality(Alike(c)) : \A d \in Alike(c) : d.n # n]
Send(c) == calls' = calls \cup {Numbered(c)}

-----------------------------------------------------------------------------
(* The operator.                                                           *)

\* loadSettings, when the screen is shown or refreshed.
LoadSettings ==
    /\ Press /\ confirm = None
    /\ here' = TRUE /\ Send(Get(block))
    /\ UNCHANGED <<block, srv, page, confirm, update_vars, fate, faults>>
Leave ==
    /\ Press /\ confirm = None /\ here /\ here' = FALSE
    /\ UNCHANGED <<block, srv, page, confirm, calls, update_vars, fate, faults>>

On(b) == block = b /\ here /\ confirm = None /\ ~leaving /\ Press

\* saveMCP: the switch is where the operator put it; letting the assistant act
\* is asked about first.
SaveMCP(field) ==
    /\ On("assistants") /\ page.mcp # None
    /\ field = "act" => page.mcp.on
    /\ LET on == ~page[field] IN
         /\ page' = [page EXCEPT ![field] = on]
         /\ IF field = "act" /\ on
            THEN confirm' = Call("mcp", field, on) /\ UNCHANGED calls
            ELSE Send(Call("mcp", field, on)) /\ UNCHANGED confirm
    /\ UNCHANGED <<rest_vars, srv, update_vars, fate, faults>>

\* newMCPToken, asked about when there is one: there is while the button is shown.
NewMCPToken ==
    /\ On("assistants") /\ page.mcp # None /\ page.mcp.on
    /\ confirm' = Call("mcp", "token", None)
    /\ UNCHANGED <<rest_vars, srv, page, calls, update_vars, fate, faults>>

\* switchEngine, from the switch: disabled until it is answered or drawn anew.
SwitchEngine(e) ==
    /\ On("engines") /\ page.engines # None
    /\ \A c \in calls : c.what = "engine" /\ c.name = e => ~c.attached
    /\ page' = [page EXCEPT !.engines[e] = ~@]
    /\ Send(Call("engine", e, ~page.engines[e]))
    /\ UNCHANGED <<rest_vars, srv, confirm, update_vars, fate, faults>>

\* The auto-ban form: its switch, its stepper, and saveSettings.  An empty
\* threshold is sent too, and leaves the server's.
Stepped(t, d) == IF t + d < 1 THEN 1 ELSE t + d
EditForm ==
    /\ On("ban")
    /\ \/ page' = [page EXCEPT !.form.enabled = ~@, !.touched = @ \cup {"enabled"}]
       \/ \E d \in {-1, 1} :
            /\ page.form.threshold + d <= MaxThreshold
            /\ page' = [page EXCEPT !.form.threshold = Stepped(@, d), !.touched = @ \cup {"threshold"}]
    /\ UNCHANGED <<rest_vars, srv, confirm, calls, update_vars, fate, faults>>
SaveSettings ==
    /\ On("ban") /\ ~\E c \in calls : c.what = "form"
    /\ Send(Call("form", None, page.form))
    /\ UNCHANGED <<rest_vars, srv, page, confirm, update_vars, fate, faults>>

\* applyUpdate, rollbackUpdate and checkUpdate; the first two are asked about.
Working(phase) == phase \notin {"idle", "failed"}
Room == Cardinality({f \in DOMAIN follow : follow[f] # None})
          + Cardinality({c \in calls : c.what \in {"apply", "rollback"}}) < Follows
ApplyUpdate ==
    /\ On("update") /\ upd # None /\ upd.running < Newest /\ ~Working(upd.phase) /\ Room
    /\ confirm' = Call("apply", None, Newest)
    /\ UNCHANGED <<rest_vars, srv, page, calls, update_vars, fate, faults>>
RollbackUpdate ==
    /\ On("update") /\ upd # None /\ upd.running > 0 /\ Room
    /\ confirm' = Call("rollback", None, None)
    /\ UNCHANGED <<rest_vars, srv, page, calls, update_vars, fate, faults>>

\* confirmAction: OK sends the change; on anything else the switch goes back.
Confirmed ==
    /\ confirm # None /\ confirm' = None
    /\ \/ Send(confirm) /\ UNCHANGED <<page, fate>>
       \/ /\ page' = IF confirm.name = "act" THEN [page EXCEPT !.act = FALSE] ELSE page
          /\ fate' = IF confirm.name = "act" /\ page.mcp.act THEN fate \cup {"declined"} ELSE fate
          /\ UNCHANGED calls
    /\ UNCHANGED <<rest_vars, srv, update_vars, presses, faults>>

-----------------------------------------------------------------------------
(* The server, for the settings.                                           *)

\* handleMCPSettings and handleMCPToken: switching on for the first time makes a token.
MCPChange(c) ==
    LET s == IF c.name = "token" THEN c.base ELSE [c.base EXCEPT ![c.name] = c.val] IN
      IF c.name = "token" \/ (s.on /\ s.token = 0)
      THEN [s EXCEPT !.token = srv.made + 1, !.made = srv.made + 1] ELSE [s EXCEPT !.made = srv.made]

\* handleSetEngine and handlePostSettings.
Changed(c) ==
    CASE c.what = "mcp"    -> MCPChange(c)
      [] c.what = "engine" -> [srv EXCEPT !.engines[c.name] = c.val]
      [] c.what = "form"   -> [srv EXCEPT !.form.enabled = c.val.enabled,
                                 !.form.threshold = IF c.val.threshold = 0 THEN @ ELSE c.val.threshold]

\* What a handler answers with; a new token only to the request that made it.
AnswerWith(c, s, v) == (calls \ {c}) \cup {[c EXCEPT !.view = [s |-> s, token |-> v]]}
IsSetting(c) == c.what \in {"mcp", "engine", "form"}

\* The MCP handlers read the settings, change their copy and save all of it.
Read(c) ==
    /\ c \in calls /\ c.what = "mcp" /\ c.base = None
    /\ calls' = (calls \ {c}) \cup {[c EXCEPT !.base = srv]}
    /\ UNCHANGED <<rest_vars, srv, page, confirm, update_vars, fate, presses, faults>>
Save(c) ==
    /\ c \in calls /\ IsSetting(c) /\ c.view = None /\ (c.what = "mcp" => c.base # None)
    /\ srv' = [Changed(c) EXCEPT !.ver = srv.ver + 1]
    /\ calls' = AnswerWith(c, srv', IF srv'.made # srv.made THEN srv'.made ELSE 0)
    /\ fate' = IF c.what = "mcp" /\ c.base.ver # srv.ver THEN fate \cup {"raced"} ELSE fate
    /\ UNCHANGED <<rest_vars, page, confirm, update_vars, presses, faults>>
View(c) ==
    /\ c \in calls /\ c.what = "get" /\ block # "update" /\ c.view = None
    /\ calls' = AnswerWith(c, srv, 0)
    /\ UNCHANGED <<rest_vars, srv, page, confirm, update_vars, fate, presses, faults>>

-----------------------------------------------------------------------------
(* The page, when an answer comes.                                         *)

Shows(s) == [on |-> s.on, act |-> s.act, set |-> s.token # 0]

\* renderMCP.
RenderMCP(p, d) == [p EXCEPT !.mcp = d, !.on = d.on, !.act = d.act]

\* A faulty form, for a mutant: the first token is shown until the page is left.
FirstToken(p, c) == IF p.token # 0 THEN p.token ELSE c.view.token

\* What mcp.token is after an answer: the token is in the answer that made it.
TokenAfter(p, c) == IF c.view.token # 0 THEN c.view.token ELSE p.token

LoadOf(b, c) == c.what = "get" /\ c.name = b

\* What the block shows once c was answered.
RenderedBlock(c) ==
    CASE c.what = "mcp"    -> RenderMCP([page EXCEPT !.token = TokenAfter(page, c)], Shows(c.view.s))
      [] c.what = "engine" -> page
      [] c.what = "form"   -> [page EXCEPT !.touched = {}]
      [] LoadOf("assistants", c) -> RenderMCP(page, Shows(c.view.s))
      [] LoadOf("engines", c)    -> [page EXCEPT !.engines = c.view.s.engines]
      [] LoadOf("ban", c)        -> [page EXCEPT !.form = c.view.s.form, !.touched = {}]

\* Drawing the engines anew replaces the switches that wait for an answer.
Detached(c, cs) ==
    IF LoadOf("engines", c) THEN {[d EXCEPT !.attached = FALSE] : d \in cs} ELSE cs

\* The loads that follow: of the engines whatever came of the switch, of the
\* form when it was saved.
ReloadAfter(c, ok) ==
    CASE c.what = "engine" -> IF here THEN {Numbered(Get(block))} ELSE {}
      [] c.what = "form"   -> IF ok THEN {Numbered(Get(block))} ELSE {}
      [] OTHER -> {}

Deliver(c) ==
    /\ c \in calls /\ c.view # None /\ block # "update"
    /\ page' = [RenderedBlock(c) EXCEPT !.ver = IF c.what \in {"engine", "form"} THEN @ ELSE c.view.s.ver]
    /\ calls' = Detached(c, calls \ {c}) \cup ReloadAfter(c, TRUE)
    /\ fate' = IF page'.ver < page.ver THEN fate \cup {"overtaken"} ELSE fate
    /\ UNCHANGED <<rest_vars, srv, confirm, update_vars, presses, faults>>

\* Refused, not delivered, or answered and the answer lost: the switch goes back
\* to what the page knows.
NotDone(c) ==
    /\ c \in calls /\ block # "update" /\ Fault
    /\ page' = CASE c.what = "mcp" -> RenderMCP(page, page.mcp)
                 [] c.what = "engine" /\ c.attached /\ page.engines # None
                      -> [page EXCEPT !.engines[c.name] = ~c.val]
                 [] LoadOf("engines", c) -> [page EXCEPT !.engines = None]
                 [] OTHER -> page
    /\ calls' = Detached(c, calls \ {c}) \cup ReloadAfter(c, FALSE)
    /\ fate' = IF c.what = "get" \/ (c.view # None /\ c.what # "engine") THEN fate \cup {"lost"} ELSE fate
    /\ UNCHANGED <<rest_vars, srv, confirm, update_vars, presses>>

-----------------------------------------------------------------------------
(* The process that is updated.                                            *)

\* Manager.Apply goes on in the background, is done or stops.
Install ==
    /\ host.up /\ host.phase = "installing"
    /\ \E ph \in {"restarting", "failed"} : host' = [host EXCEPT !.phase = ph]
    /\ UNCHANGED <<rest_vars, srv, page, confirm, calls, upd, follow, leaving, verdict, fate, presses, faults>>

\* It stops, and the launcher starts the version that was chosen, or the one
\* before it when that one does not start.
Restart ==
    /\ host.up /\ host.phase = "restarting"
    /\ host' = [host EXCEPT !.up = FALSE]
    /\ UNCHANGED <<rest_vars, srv, page, confirm, calls, upd, follow, leaving, verdict, fate, presses, faults>>
Boot ==
    /\ ~host.up
    /\ \E v \in host.next :
         host' = [up |-> TRUE, running |-> v, phase |-> "idle", boots |-> host.boots + 1, next |-> {}]
    /\ UNCHANGED <<rest_vars, srv, page, confirm, calls, upd, follow, leaving, verdict, fate, presses, faults>>

\* Apply and Rollback are refused while one is under way, and with nothing to go to.
Refused(c) ==
    \/ c.what \in {"apply", "rollback"} /\ Working(host.phase)
    \/ c.what = "apply" /\ host.running >= c.val
    \/ c.what = "rollback" /\ host.running = 0
Started(c) ==
    CASE c.what = "apply"    -> [host EXCEPT !.phase = "installing", !.next = {host.running, c.val}]
      [] c.what = "rollback" -> [host EXCEPT !.phase = "restarting", !.next = {host.running - 1}]
      [] OTHER -> host
Report(h) == [running |-> h.running, phase |-> h.phase, boots |-> h.boots]
Serve(c) ==
    /\ c \in calls /\ block = "update" /\ c.view = None /\ host.up /\ ~Refused(c)
    /\ host' = Started(c)
    /\ calls' = (calls \ {c}) \cup {[c EXCEPT !.view = Report(host')]}
    /\ UNCHANGED <<rest_vars, srv, page, confirm, upd, follow, leaving, verdict, fate, presses, faults>>

-----------------------------------------------------------------------------
(* followUpdate.                                                           *)

FollowSlots == 1..Follows
Following(target, since) ==
    [target |-> target, down |-> FALSE, late |-> FALSE, over |-> FALSE, asked |-> FALSE,
     since |-> since, lost |-> FALSE]
Begin(target, since) ==
    LET f == CHOOSE f \in FollowSlots : follow[f] = None IN
      follow' = [follow EXCEPT ![f] = Following(target, since)]

\* loadUpdate, checkUpdate and the answers of applyUpdate and rollbackUpdate.
Updated(c) ==
    /\ c \in calls /\ block = "update" /\ c.what # "poll" /\ c.view # None
    /\ calls' = calls \ {c}
    /\ upd' = IF c.what = "rollback" THEN upd ELSE c.view
    /\ CASE c.what = "get"   -> UNCHANGED follow
         [] c.what = "apply" -> Begin(c.val, c.view.boots)
         [] c.what = "rollback" -> Begin(None, c.view.boots)
    /\ UNCHANGED <<rest_vars, srv, page, confirm, host, leaving, verdict, fate, presses, faults>>

\* A request to a process that is away fails; others may.
Away(c) == c.view = None /\ ~host.up
Lost(c) ==
    /\ c \in calls /\ block = "update"
    /\ IF Away(c) \/ (c.view = None /\ Refused(c)) THEN UNCHANGED faults ELSE Fault
NotUpdated(c) ==
    /\ c.what # "poll" /\ Lost(c)
    /\ calls' = calls \ {c}
    /\ UNCHANGED <<rest_vars, srv, page, confirm, update_vars, fate, presses>>

\* Every 1.5 seconds; four seconds and five minutes after it began.
PollUpdate(f) ==
    /\ follow[f] # None /\ ~follow[f].asked
    /\ follow' = [follow EXCEPT ![f].asked = TRUE]
    /\ Send(Call("poll", f, None))
    /\ UNCHANGED <<rest_vars, srv, page, confirm, host, upd, leaving, verdict, fate, presses, faults>>
Late(f) ==
    /\ follow[f] # None /\ ~follow[f].late
    /\ follow' = [follow EXCEPT ![f].late = TRUE]
    /\ UNCHANGED <<rest_vars, srv, page, confirm, calls, host, upd, leaving, verdict, fate, presses, faults>>
Over(f) ==
    /\ follow[f] # None /\ follow[f].late /\ ~follow[f].over
    /\ follow' = [follow EXCEPT ![f].over = TRUE]
    /\ UNCHANGED <<rest_vars, srv, page, confirm, calls, host, upd, leaving, verdict, fate, presses, faults>>

\* The restart is behind the process that answers.
Restarted(w, v) == w.down \/ (v.phase = "idle" /\ w.late)

\* A faulty form, for a mutant: only an answer ends it.
NoTimeout(w) == [w EXCEPT !.asked = FALSE]

\* It goes on, if five minutes are not over.
Onward(w) == IF w.over THEN None ELSE [w EXCEPT !.asked = FALSE]

Says(w, v) ==
    [ok |-> w.target = None \/ v.running = w.target, target |-> w.target, running |-> v.running,
     restarts |-> host.boots - w.since, lost |-> w.lost]

\* An answer came: the update failed, or is done and the page is loaded anew soon.
PollAnswered(c) ==
    /\ c \in calls /\ c.what = "poll" /\ c.view # None
    /\ calls' = calls \ {c}
    /\ upd' = c.view
    /\ LET w == follow[c.name] IN
         CASE c.view.phase = "failed" ->
                follow' = [follow EXCEPT ![c.name] = None] /\ UNCHANGED <<verdict, leaving>>
           [] c.view.phase # "failed" /\ Restarted(w, c.view) ->
                /\ follow' = [follow EXCEPT ![c.name] = None]
                /\ verdict' = Says(w, c.view) /\ leaving' = TRUE
           [] OTHER -> follow' = [follow EXCEPT ![c.name] = Onward(w)] /\ UNCHANGED <<verdict, leaving>>
    /\ UNCHANGED <<rest_vars, srv, page, confirm, host, fate, presses, faults>>

\* Or none: the process is taken to be away.
Missed(w, c) == [w EXCEPT !.down = TRUE, !.lost = @ \/ ~Away(c)]
PollFailed(c) ==
    /\ c.what = "poll" /\ Lost(c)
    /\ calls' = calls \ {c}
    /\ follow' = [follow EXCEPT ![c.name] = Onward(Missed(@, c))]
    /\ UNCHANGED <<rest_vars, srv, page, confirm, host, upd, leaving, verdict, fate, presses>>

\* location.reload, 1.2 seconds later: everything the page held is gone.
Unloaded ==
    [mcp |-> None, on |-> FALSE, act |-> FALSE, token |-> 0, engines |-> None,
     form |-> [enabled |-> FALSE, threshold |-> 0], touched |-> {}, ver |-> 0]
Reload ==
    /\ leaving /\ leaving' = FALSE
    /\ page' = Unloaded /\ upd' = None /\ confirm' = None
    /\ follow' = [f \in FollowSlots |-> None]
    /\ calls' = IF here THEN {Get(block)} ELSE {}
    /\ UNCHANGED <<rest_vars, srv, host, verdict, fate, presses, faults>>

-----------------------------------------------------------------------------
SettingsInit ==
    /\ block \in Blocks /\ here = TRUE
    /\ srv = [on |-> FALSE, act |-> FALSE, token |-> 0, made |-> 0,
              engines |-> [e \in Engines |-> FALSE],
              form |-> [enabled |-> TRUE, threshold |-> 1], ver |-> 0]
    /\ page = Unloaded /\ confirm = None
    /\ calls = {Get(block)}
    /\ host = [up |-> TRUE, running |-> 1, phase |-> "idle", boots |-> 0, next |-> {}]
    /\ upd = None /\ follow = [f \in FollowSlots |-> None] /\ leaving = FALSE /\ verdict = None
    /\ fate = {} /\ presses = MaxPresses[block] /\ faults = MaxFaults

SettingsOperator ==
    \/ LoadSettings \/ Leave \/ Confirmed
    \/ (\E field \in {"on", "act"} : SaveMCP(field)) \/ NewMCPToken
    \/ (\E e \in Engines : SwitchEngine(e)) \/ EditForm \/ SaveSettings
    \/ ApplyUpdate \/ RollbackUpdate
Answered(c) == Deliver(c) \/ NotDone(c) \/ Updated(c) \/ NotUpdated(c)
Polled(f) == PollUpdate(f) \/ \E c \in calls : c.what = "poll" /\ c.name = f /\ (Serve(c) \/ PollAnswered(c) \/ PollFailed(c))
SettingsNext ==
    \/ SettingsOperator
    \/ (\E c \in calls : Read(c) \/ Save(c) \/ View(c) \/ (c.what # "poll" /\ Serve(c)) \/ Answered(c))
    \/ (\E f \in FollowSlots : Polled(f) \/ Late(f) \/ Over(f))
    \/ Install \/ Restart \/ Boot \/ Reload

-----------------------------------------------------------------------------
(* Properties.                                                             *)

\* What the server keeps and answers with, what the switches of the assistants
\* show, the calls of followUpdate, and the changes that are asked about.
Forms == [enabled : BOOLEAN, threshold : 0..MaxThreshold]
SrvStates == [on : BOOLEAN, act : BOOLEAN, token : Nat, made : Nat, engines : [Engines -> BOOLEAN],
              form : Forms, ver : Nat]
Snapshots == [s : SrvStates, token : Nat]
Reports == [running : 0..Newest, phase : {"idle", "installing", "restarting", "failed"}, boots : Nat]
Switches == [on : BOOLEAN, act : BOOLEAN, set : BOOLEAN]
Followed == [target : {None, Newest}, down : BOOLEAN, late : BOOLEAN, over : BOOLEAN, asked : BOOLEAN,
             since : Nat, lost : BOOLEAN]
AskedAbout(what, name, val) ==
    [what : {what}, name : name, val : val, base : {None}, view : {None}, attached : {TRUE}, n : {0}]
Questions == AskedAbout("mcp", {"on", "act"}, BOOLEAN) \cup AskedAbout("mcp", {"token"}, {None})
             \cup AskedAbout("apply", {None}, {Newest}) \cup AskedAbout("rollback", {None}, {None})
ASSUME NoneAssumption ==
    None \notin SrvStates \cup Snapshots \cup Reports \cup Switches \cup Followed \cup Questions

\* Type invariant.
SettingsTypeOK ==
    /\ block \in Blocks /\ here \in BOOLEAN /\ leaving \in BOOLEAN
    /\ srv.token \in 0..srv.made
    /\ page.mcp # None => page.mcp \in Switches
    /\ page.engines # None => page.engines \in [Engines -> BOOLEAN]
    /\ page.form \in Forms
    /\ host.running \in 0..Newest
    /\ \A f \in FollowSlots : follow[f] # None => (follow[f].asked <=> \E c \in calls : c.what = "poll" /\ c.name = f)

\* followUpdate says that a version runs, or did not start, only once the
\* process was started anew, if no poll was lost on its way.
VerdictTrue ==
    verdict # None /\ ~verdict.lost =>
        /\ verdict.restarts > 0
        /\ ~verdict.ok => verdict.running # verdict.target

\* Every call of followUpdate ends, also when the process never comes back.
FollowEnds == \A f \in FollowSlots : follow[f] # None ~> follow[f] = None

\* Once every request is answered the switches say what the server has, and the
\* token the page shows is the one that lets an assistant in: unless an answer
\* was overtaken by a newer one, a load or the answer to a change was lost, two
\* handlers saved over each other, or a question was declined whose switch had
\* been answered meanwhile (saveMCP, newMCPToken, switchEngine, saveSettings).
SettingsShown ==
    calls = {} /\ confirm = None /\ fate = {} =>
        /\ page.mcp # None => page.on = srv.on /\ page.act = srv.act /\ page.mcp.set = (srv.token # 0)
        /\ page.token # 0 => page.token = srv.token
        /\ here /\ page.engines # None => page.engines = srv.engines
        /\ block = "ban" /\ page.touched = {} => page.form = srv.form

\* Saving the auto-ban form changes what the operator touched and nothing else.
OnlyTouched ==
    [][\A k \in {"enabled", "threshold"} : srv'.form[k] # srv.form[k] => k \in page.touched]_settings_vars
=============================================================================
