------------------------------- MODULE Sheets -------------------------------
(***************************************************************************)
(* The sheets and dialogs of the dashboard over the screens: the container *)
(* sheet, the address sheet, the dialog that closes a published port, the  *)
(* ban and create forms and the confirm dialog                             *)
(* (src/internal/dashboard/static/assets/app.js).  Each asks the server    *)
(* when it opens and is filled when the answer comes, by which time it may *)
(* be closed or open for something else.                                   *)
(***************************************************************************)
EXTENDS Naturals, FiniteSets, Sequences

CONSTANTS
    Containers,          \* containers, each with one published port
    IPs,          \* addresses
    None,
    Ports,        \* what the port of each container may be at first
    Opens,        \* bound: the sheets and dialogs the run opens
    MaxClicks,    \* bound: what the operator does
    MaxLosses      \* bound: requests that fail

ASSUME SheetsAssumption ==
    /\ None \notin Containers \cup IPs
    /\ {"loading", "error"} \cap (Containers \cup IPs) = {}
    /\ Opens \subseteq {"container", "address", "close", "ban", "create"}
    /\ MaxClicks \in Nat /\ MaxLosses \in Nat

VARIABLES
    there, port, banned,   \* the server: containers, their ports, the ban list
    top,          \* the modal dialogs that are open, the last one on top
    sheet,        \* ct.sheet and ct.cur, and what the container sheet shows
    snapsFor,     \* ct.snapsFor
    addr,         \* what the address sheet shows
    arg, action, seq, plan,   \* cp and the choice of the close dialog
    ready,        \* its button is enabled
    form,         \* what the ban and create forms are filled with
    busy,         \* the submit buttons disabled while a request is out
    asking,       \* what the confirm dialog says, and the request it is for
    calls, sent,  \* questions and changes sent and not answered
    clicks, losses

server_vars == <<there, port, banned>>
close_vars == <<arg, action, seq, plan, ready>>
sheets_vars == <<server_vars, top, sheet, snapsFor, addr, close_vars, form, busy, asking,
          calls, sent, clicks, losses>>

-----------------------------------------------------------------------------
(* Dialogs.                                                                *)

Dialogs == {"container", "address", "close", "ban", "create", "confirm"}
IsOpen(d) == \E i \in DOMAIN top : top[i] = d
OnTop(d) == IF d = "page" THEN top = <<>> ELSE top # <<>> /\ top[Len(top)] = d
Show(d) == IF IsOpen(d) THEN top ELSE Append(top, d)
Closing(d) ==
    IF ~IsOpen(d) THEN top
    ELSE LET i == CHOOSE i \in DOMAIN top : top[i] = d
         IN SubSeq(top, 1, i - 1) \o SubSeq(top, i + 1, Len(top))

Click == clicks > 0 /\ clicks' = clicks - 1

Call(what, of) == [what |-> what, of |-> of, action |-> None, seq |-> 0]
PlanCall(a, act, n) == [what |-> "plan", of |-> a, action |-> act, seq |-> n]
Change(op, of, with) == [op |-> op, of |-> of, with |-> with]

\* What the confirm dialog may ask.
Askings == [named : Containers \cup IPs,
            job : [op : {"remove", "restart", "snapshot", "unban"}, of : Containers \cup IPs,
                   with : Containers \cup {None}]]
ASSUME NoneAssumption == None \notin Askings

\* Escape, Cancel or a click beside the topmost dialog.
CloseTop ==
    /\ top # <<>> /\ Click
    /\ top' = Closing(top[Len(top)]) /\ asking' = None
    /\ UNCHANGED <<server_vars, sheet, snapsFor, addr, close_vars, form, busy, calls, sent, losses>>

-----------------------------------------------------------------------------
(* The container sheet.                                                    *)

\* openCt: the title and placeholders at once, the rest when the container is
\* inspected.  The limits, the snapshots and ct.cur stay those of the last one.
OpenSheet(c) ==
    /\ "container" \in Opens /\ OnTop("page") /\ Click
    /\ top' = Show("container")
    /\ sheet' = [sheet EXCEPT !.id = c, !.title = c, !.facts = "loading", !.rows = None, !.logs = None]
    /\ snapsFor' = None
    /\ calls' = calls \cup {Call("inspect", c)}
    /\ UNCHANGED <<server_vars, addr, close_vars, form, busy, asking, sent, losses>>

\* A faulty form, for a mutant: the facts are written before the title.
FactsOnly(c, s) == [s EXCEPT !.id = c, !.cur = c, !.facts = c, !.rows = c, !.limits = c]

\* renderSheet: the container inspected is the sheet's from now on.
Rendered(c, s) ==
    [s EXCEPT !.id = c, !.cur = c, !.title = c, !.facts = c, !.rows = c, !.limits = c]
RenderSheet(c) ==
    /\ sheet' = Rendered(c, sheet)
    /\ snapsFor' = c
    /\ busy' = busy \ {"ports", "limits"}

\* What renderSheet asks about the container it shows for the first time.
SnapCalls(c) == IF snapsFor = c THEN {} ELSE {Call("snapshots", c)}

\* The request of the sheet's button, for ct.cur; a changed port or limit is
\* written as the form has it.
SheetButton == OnTop("container") /\ sheet.cur # None /\ Click
SavePorts ==
    /\ SheetButton /\ "ports" \notin busy
    /\ busy' = busy \cup {"ports"}
    /\ sent' = sent \cup {Change("ports", sheet.cur, sheet.rows)}
    /\ UNCHANGED <<server_vars, top, sheet, snapsFor, addr, close_vars, form, asking, calls, losses>>
SaveLimits ==
    /\ SheetButton /\ "limits" \notin busy
    /\ busy' = busy \cup {"limits"}
    /\ sent' = sent \cup {Change("limits", sheet.cur, sheet.limits)}
    /\ UNCHANGED <<server_vars, top, sheet, snapsFor, addr, close_vars, form, asking, calls, losses>>
LoadLogs ==
    /\ SheetButton
    /\ calls' = calls \cup {Call("logs", sheet.cur)}
    /\ UNCHANGED <<server_vars, top, sheet, snapsFor, addr, close_vars, form, busy, asking, sent, losses>>

\* Take needs no confirmation; a start of the sheet neither.
TakeSnapshot ==
    /\ SheetButton /\ "snapshot" \notin busy
    /\ busy' = busy \cup {"snapshot"}
    /\ sent' = sent \cup {Change("snapshot", sheet.cur, "take")}
    /\ UNCHANGED <<server_vars, top, sheet, snapsFor, addr, close_vars, form, asking, calls, losses>>

\* confirmAction: the dialog names the container (or address), and what is sent
\* once it says OK was chosen before it opened.
confirmAction(op, of, with) ==
    /\ top' = Show("confirm")
    /\ asking' = [named |-> of, job |-> Change(op, of, with)]
    /\ UNCHANGED <<server_vars, sheet, snapsFor, addr, close_vars, form, busy, calls, sent, losses>>
AskRemove == SheetButton /\ confirmAction("remove", sheet.cur, None)
AskRestart == SheetButton /\ sheet.rows # None /\ confirmAction("restart", sheet.cur, None)
\* Roll back to, or delete, a snapshot of the table, whosever it lists.
AskSnapshot == SheetButton /\ sheet.snaps # None /\ confirmAction("snapshot", sheet.cur, sheet.snaps)

\* A faulty form, for a mutant: the container is read again once the dialog closes.
CurrentSubject(j) == IF j.of \in Containers THEN sheet.cur ELSE j.of

SubjectOf(j) == j.of
SaysOK ==
    /\ OnTop("confirm")
    /\ top' = Closing("confirm") /\ asking' = None
    /\ sent' = sent \cup {[asking.job EXCEPT !.of = SubjectOf(asking.job)]}
    /\ UNCHANGED <<server_vars, sheet, snapsFor, addr, close_vars, form, busy, calls, clicks, losses>>

-----------------------------------------------------------------------------
(* The address sheet.                                                      *)

\* openIP: placeholders, then what the server says of the address.
Placeholders(i) == [title |-> i, facts |-> "loading", offer |-> None]
OpenIP(i) ==
    /\ "address" \in Opens /\ OnTop("page") /\ Click
    /\ top' = Show("address")
    /\ addr' = Placeholders(i)
    /\ calls' = calls \cup {Call("ip", i)}
    /\ UNCHANGED <<server_vars, sheet, snapsFor, close_vars, form, busy, asking, sent, losses>>

AskUnban ==
    /\ OnTop("address") /\ addr.offer # None /\ addr.offer.what = "unban" /\ Click
    /\ confirmAction("unban", addr.offer.of, None)

-----------------------------------------------------------------------------
(* The ban and create forms.                                               *)

OpenForm(k, v) ==
    /\ top' = Show(k)
    /\ form' = [form EXCEPT ![k] = v]
    /\ UNCHANGED <<server_vars, sheet, snapsFor, addr, close_vars, busy, asking, calls, sent, losses>>
OpenBan ==
    /\ Click
    /\ \/ OnTop("address") /\ addr.offer # None /\ addr.offer.what = "ban" /\ OpenForm("ban", addr.offer.of)
       \/ "ban" \in Opens /\ OnTop("page") /\ \E i \in IPs : OpenForm("ban", i)
OpenCreate ==
    /\ Click /\ "create" \in Opens /\ OnTop("page")
    /\ \E c \in Containers \ there : OpenForm("create", c)

\* The submit button is disabled while the request is out, also when the form
\* was closed and opened again meanwhile.
Enabled(k) == k \notin busy
SubmitForm(k) ==
    /\ OnTop(k) /\ k \in {"ban", "create"} /\ Enabled(k) /\ Click
    /\ busy' = busy \cup {k}
    /\ sent' = sent \cup {Change(k, form[k], None)}
    /\ UNCHANGED <<server_vars, top, sheet, snapsFor, addr, close_vars, form, asking, calls, losses>>

-----------------------------------------------------------------------------
(* Closing a published port.                                               *)

Question(a, act, n) == [of |-> a.of, action |-> act, seq |-> n]

\* planClose: a rule needs no plan; for the others the button waits for one.
AskPlan(a, act) ==
    /\ action' = act
    /\ seq' = seq + 1
    /\ ready' = (act = "rule")
    /\ calls' = IF act = "rule" THEN calls ELSE calls \cup {PlanCall(a.of, act, seq + 1)}

\* openClose, from the port row of the sheet or from the ports screen, where
\* an access rule may be chosen instead.
OpenClose(c, rules) ==
    /\ "close" \in Opens /\ Click /\ c \in there /\ port[c] # "none"
    /\ OnTop(IF rules THEN "page" ELSE "container") /\ (~rules => sheet.rows = c)
    /\ top' = Show("close")
    /\ arg' = [of |-> c, local |-> port[c] = "local", rules |-> rules]
    /\ plan' = None
    /\ AskPlan(arg', IF port[c] = "local" THEN "public" ELSE "local")
    /\ UNCHANGED <<server_vars, sheet, snapsFor, addr, form, busy, asking, sent, losses>>

Choices == IF arg.local THEN {"public", "remove"}
           ELSE {"local", "remove"} \cup (IF arg.rules THEN {"rule"} ELSE {})
PickAction(act) ==
    /\ OnTop("close") /\ Click /\ act \in Choices \ {action}
    /\ AskPlan(arg, act)
    /\ UNCHANGED <<server_vars, top, sheet, snapsFor, addr, arg, plan, form, busy, asking, sent, losses>>

\* submitClose; choosing a rule opens the rule editor instead.
SubmitClose ==
    /\ OnTop("close") /\ ready /\ Click
    /\ IF action = "rule"
       THEN top' = Closing("close") /\ UNCHANGED <<ready, sent>>
       ELSE /\ ready' = FALSE
            /\ sent' = sent \cup {Change("close", arg.of, action)}
            /\ UNCHANGED top
    /\ UNCHANGED <<server_vars, sheet, snapsFor, addr, arg, action, seq, plan, form, busy, asking, calls, losses>>

\* A faulty form, for a mutant: whichever plan comes is taken.
AnyPlan(k) == TRUE

\* The plan of a question that was followed by another is dropped.
Latest(k) == k.seq = seq

-----------------------------------------------------------------------------
(* Answers.                                                                *)

OfNobody(k) == k.what \in {"inspect", "plan", "logs", "snapshots"} /\ k.of \notin there

\* What the sheets show of an answer that came, by what was asked.
Answered(k) ==
    /\ CASE k.what = "inspect" ->
              /\ RenderSheet(k.of)
              /\ calls' = (calls \ {k}) \cup SnapCalls(k.of)
              /\ UNCHANGED <<addr, close_vars>>
         [] k.what = "list" ->
              /\ calls' = (calls \ {k}) \cup
                    (IF IsOpen("container") THEN {Call("inspect", sheet.id)} ELSE {})
              /\ UNCHANGED <<sheet, snapsFor, busy, addr, close_vars>>
         [] k.what = "snapshots" ->
              /\ sheet' = [sheet EXCEPT !.snaps = k.of]
              /\ calls' = calls \ {k} /\ UNCHANGED <<snapsFor, busy, addr, close_vars>>
         [] k.what = "logs" ->
              /\ sheet' = [sheet EXCEPT !.logs = k.of]
              /\ calls' = calls \ {k} /\ UNCHANGED <<snapsFor, busy, addr, close_vars>>
         [] k.what = "ip" ->
              /\ addr' = [addr EXCEPT !.facts = k.of,
                            !.offer = [of |-> k.of, what |-> IF k.of \in banned THEN "unban" ELSE "ban"]]
              /\ calls' = calls \ {k} /\ UNCHANGED <<sheet, snapsFor, busy, close_vars>>
         [] k.what = "plan" ->
              /\ IF Latest(k)
                 THEN plan' = [of |-> k.of, action |-> k.action, seq |-> k.seq] /\ ready' = TRUE
                 ELSE UNCHANGED <<plan, ready>>
              /\ calls' = calls \ {k}
              /\ UNCHANGED <<sheet, snapsFor, busy, addr, arg, action, seq>>
    /\ UNCHANGED <<server_vars, top, form, asking, sent, clicks, losses>>

\* An error block where the answer would be; a plan that failed leaves its
\* button disabled.
Failed(k) ==
    /\ OfNobody(k) \/ losses > 0
    /\ losses' = IF OfNobody(k) THEN losses ELSE losses - 1
    /\ calls' = calls \ {k}
    /\ sheet' = IF k.what = "inspect" THEN [sheet EXCEPT !.facts = "error"] ELSE sheet
    /\ addr' = IF k.what = "ip" THEN [addr EXCEPT !.facts = "error"] ELSE addr
    /\ UNCHANGED <<server_vars, top, snapsFor, close_vars, form, busy, asking, sent, clicks>>

AnswerTo(k) ==
    /\ k \in calls
    /\ \/ ~OfNobody(k) /\ Answered(k)
       \/ Failed(k)

\* What the server does with a change.
Served(j) ==
    /\ there' = CASE j.op = "create" -> there \cup {j.of}
                  [] j.op = "remove" -> there \ {j.of}
                  [] OTHER -> there
    /\ banned' = CASE j.op = "ban" -> banned \cup {j.of}
                   [] j.op = "unban" -> banned \ {j.of}
                   [] OTHER -> banned
    /\ port' = CASE j.op = "close" -> [port EXCEPT ![j.of] = IF j.with = "remove" THEN "none" ELSE j.with]
                 [] j.op = "ports" /\ j.with = None -> [port EXCEPT ![j.of] = "none"]
                 [] OTHER -> port
TurnedDown(j) == IF j.op = "create" THEN j.of \in there ELSE j.of \in Containers /\ j.of \notin there

\* The loads that follow a change whatever came of it: the container list, the
\* snapshots, the sheet.
Reloads(j) ==
    CASE j.op \in {"ports", "limits", "remove", "restart"} -> {Call("list", None)}
      [] j.op = "snapshot" -> {Call("snapshots", j.of), Call("inspect", sheet.id)}
      [] OTHER -> {}

Succeeded(j) ==
    /\ ~TurnedDown(j) /\ Served(j)
    /\ CASE j.op \in {"ports", "limits"} \/ (j.op = "close" /\ IsOpen("container") /\ sheet.cur = j.of) ->
              /\ RenderSheet(j.of)
              /\ calls' = calls \cup Reloads(j) \cup SnapCalls(j.of) /\ UNCHANGED addr
         [] j.op = "unban" /\ IsOpen("address") ->
              /\ addr' = Placeholders(j.of)
              /\ calls' = calls \cup {Call("ip", j.of)} /\ UNCHANGED <<sheet, snapsFor, busy>>
         [] OTHER ->
              /\ calls' = calls \cup Reloads(j) \cup (IF j.op = "create" THEN {Call("list", None)} ELSE {})
              /\ snapsFor' = IF j.op = "snapshot" THEN j.of ELSE snapsFor
              /\ busy' = busy \ {j.op} /\ UNCHANGED <<sheet, addr>>
    \* the dialog of the request closes, whatever it is open for by now
    /\ top' = CASE j.op \in {"ban", "create", "close"} -> Closing(j.op)
                [] j.op = "remove" -> Closing("container")
                [] OTHER -> top
    /\ UNCHANGED losses
NotDone(j) ==
    /\ TurnedDown(j) \/ losses > 0
    /\ losses' = IF TurnedDown(j) THEN losses ELSE losses - 1
    /\ calls' = calls \cup Reloads(j)
    /\ snapsFor' = IF j.op = "snapshot" THEN j.of ELSE snapsFor
    /\ busy' = busy \ {j.op}
    /\ UNCHANGED <<server_vars, top, sheet, addr>>
JobDone(j) ==
    /\ j \in sent /\ sent' = sent \ {j}
    /\ Succeeded(j) \/ NotDone(j)
    /\ ready' = IF j.op = "close" THEN TRUE ELSE ready
    /\ UNCHANGED <<arg, action, seq, plan, form, asking, clicks>>

-----------------------------------------------------------------------------
SheetsInit ==
    /\ there \in SUBSET Containers \ {{}} /\ port \in [Containers -> Ports] /\ banned = {}
    /\ top = <<>>
    /\ sheet = [id |-> None, cur |-> None, title |-> None, facts |-> "loading", rows |-> None,
                limits |-> None, snaps |-> None, logs |-> None]
    /\ snapsFor = None
    /\ addr = [title |-> None, facts |-> "loading", offer |-> None]
    /\ arg = [of |-> None, local |-> FALSE, rules |-> FALSE] /\ action = None /\ seq = 0
    /\ plan = None /\ ready = FALSE
    /\ form = [ban |-> None, create |-> None] /\ busy = {} /\ asking = None
    /\ calls = {} /\ sent = {} /\ clicks = MaxClicks /\ losses = MaxLosses

Operator ==
    \/ CloseTop \/ SaysOK
    \/ (\E c \in Containers : OpenSheet(c)) \/ SavePorts \/ SaveLimits \/ LoadLogs \/ TakeSnapshot
    \/ AskRemove \/ AskRestart \/ AskSnapshot
    \/ (\E i \in IPs : OpenIP(i)) \/ AskUnban \/ OpenBan \/ OpenCreate
    \/ (\E k \in {"ban", "create"} : SubmitForm(k))
    \/ (\E c \in Containers, rules \in BOOLEAN : OpenClose(c, rules))
    \/ (\E act \in {"local", "public", "remove", "rule"} : PickAction(act)) \/ SubmitClose
SheetsNext == Operator \/ (\E k \in calls : AnswerTo(k)) \/ (\E j \in sent : JobDone(j))

-----------------------------------------------------------------------------
(* Properties.                                                             *)

\* Type invariant of the dialogs and of what fills them.
SheetsTypeOK ==
    /\ there \subseteq Containers /\ banned \subseteq IPs
    /\ \A i \in DOMAIN top : top[i] \in Dialogs
    /\ sheet.cur \in Containers \cup {None} /\ sheet.facts \in Containers \cup {"loading", "error"}
    /\ addr.facts \in IPs \cup {"loading", "error"}
    /\ seq \in Nat /\ ready \in BOOLEAN

\* A confirm dialog lies over all others and has its question, whatever answers
\* come while it is open.
ConfirmOnTop == \A i \in DOMAIN top : top[i] = "confirm" => i = Len(top) /\ asking # None

\* A form that is open has what it is about.
FormsFilled ==
    /\ IsOpen("ban") => form.ban \in IPs
    /\ IsOpen("create") => form.create \in Containers
    /\ IsOpen("close") => arg.of \in Containers

\* What the sheet states as facts is of the container its title names and its
\* buttons act on, in whatever order inspections and changes are answered.
FactsAreOfTitle ==
    sheet.facts \in Containers => sheet.facts = sheet.title /\ sheet.facts = sheet.cur

\* The limits written back are those read from the container they are written to.
LimitsOfCur == \A j \in sent : j.op = "limits" => j.with = j.of

\* One request of the ban and of the create form is out at a time, and the
\* form's button stays off until it is answered.
OneSubmit ==
    \A j, k \in sent : j.op = k.op /\ j.op \in {"ban", "create"} => j = k
OffWhileSent == \A j \in sent : j.op \in {"ban", "create"} => j.op \in busy

\* The sheets hold: their variables have their types, a confirmation lies on
\* top and has its question, forms have their subject, the facts are of the
\* title, limits go to the container they are of, and a form has one submission
\* at a time, with its button off.
SheetsHold ==
    /\ SheetsTypeOK /\ ConfirmOnTop /\ FormsFilled
    /\ FactsAreOfTitle /\ LimitsOfCur /\ OneSubmit /\ OffWhileSent

\* What is sent after a confirmation concerns what the dialog named, although
\* the sheet under it may have been filled with another container meanwhile.
ConfirmedIsSent ==
    [][\A j \in sent' \ sent : asking # None /\ asking' = None => j.of = asking.named]_sheets_vars

\* The close dialog promises what LatestPlan says: an answer that was overtaken
\* never replaces the plan.
Preview == INSTANCE LatestPlan WITH
    Questions <- [of : Containers \cup {None}, action : {None, "local", "public", "remove", "rule"}, seq : Nat],
    NoPlan <- None,
    question <- Question(arg, action, seq),
    plan <- plan
ShowsLatest == Preview!Spec

\* README.md:656: "The dialog shows the exact lines before anything is written".
PlanSeenFirst ==
    [][\A j \in sent' \ sent : j.op = "close" => plan = Question(arg, j.with, seq)]_sheets_vars

\* USAGE.md:806: "click a container for its sheet (actions, ports, networks,
\* restart policy and limits, logs, snapshots".  What the sheet sends without a
\* question concerns the container its title names.
ActsOnTitle ==
    [][\A j \in sent' \ sent : j.op \in {"ports", "limits"} => j.of = sheet.title]_sheets_vars
=============================================================================
