----------------------------- MODULE RuleEditor -----------------------------
(***************************************************************************)
(* The ports screen of the dashboard: the list of access rules, its editor *)
(* and the banner of a change on trial                                     *)
(* (src/internal/dashboard/static/assets/app.js), in several browsers at   *)
(* once.  A page never sends one rule: every edit posts the whole list,    *)
(* put together from what the page loaded last.                            *)
(* The server's side is that of module PortRules, one step per request.    *)
(***************************************************************************)
EXTENDS Naturals, Sequences, SequencesExt, Bags

CONSTANTS
    Pages,        \* browsers with the ports screen open
    Ids,          \* ids of rules; those not in FirstRules are random new ones
    Restricting,  \* what a rule may say that restricts a protected port
    Harmless,     \*   and what it may say that does not
    FirstRules,   \* the rules at first
    None,
    TrialTime,    \* how long a trial lasts, in units of the page's reload delay
    MaxLoads,     \* bound: answers of GET /api/ports a page waits for, and reloads due
    MaxClicks,    \* bound: what the operators do
    MaxFails      \* bound: requests that fail, or whose answer is lost

ASSUME RuleEditorAssumption ==
    /\ Restricting \cap Harmless = {} /\ None \notin Ids \cup Nat
    /\ TrialTime \in Nat \ {0} /\ MaxLoads \in Nat \ {0} /\ MaxClicks \in Nat /\ MaxFails \in Nat

Says == Restricting \cup Harmless
Rules == [id : Ids, says : Says, enabled : BOOLEAN]

\* The lists of rules: one rule has an id.
Lists == {rules \in Seq(Rules) : IsInjective([i \in DOMAIN rules |-> rules[i].id])}
ASSUME FirstRulesAssumption == FirstRules \in Lists

VARIABLES
    active, saved,   \* the server's rules: in force, and saved
    trial,           \* the time the trial that runs has left, or None
    data,            \* pt.data of each page
    edit, dialog,    \* pt.edit; "rule", "confirm" or None
    busy,            \* whether the Save button of the rule dialog is disabled
    timer,           \* pt.timer counts down
    soon, due,       \* reloads after a countdown: set off in this unit, ready now
    loads,           \* GET /api/ports: asked (None) or answered, and not shown
    posts,           \* changes sent and not answered
    clicks, fails

server_vars == <<active, saved, trial>>
screen_vars == <<edit, dialog, busy>>
count_vars == <<timer, soon, due>>
vars == <<server_vars, data, screen_vars, count_vars, loads, posts, clicks, fails>>

Click == clicks > 0 /\ clicks' = clicks - 1
Fault == fails > 0 /\ fails' = fails - 1

-----------------------------------------------------------------------------
(* The list an edit sends.                                                 *)

\* The rules but the one with the id, as a recursive function, which a proof can
\* follow.
Without(rules, id) ==
    LET kept[i \in 0..Len(rules)] ==
            IF i = 0 THEN <<>>
            ELSE IF rules[i].id = id THEN kept[i - 1] ELSE Append(kept[i - 1], rules[i])
    IN kept[Len(rules)]
IndexOf(rules, id) == SelectInSeq(rules, LAMBDA r : r.id = id)

\* A faulty form, for a mutant: the place is looked up in the list the rule was
\* taken from already, where it has none.
PutLast(rules, r) == Append(Without(rules, r.id), r)

\* A faulty form, for a mutant: an edited rule is added like a new one.
AddedTwice(rules, r) == Append(rules, r)

\* submitRule: the rule takes the place of the one with its id, or comes last.
Spliced(rules, r) ==
    IF IndexOf(rules, r.id) = 0
    THEN Append(rules, r)
    ELSE InsertAt(Without(rules, r.id), IndexOf(rules, r.id), r)

\* toggleRule.
Toggled(rules, id, on) ==
    [i \in DOMAIN rules |-> IF rules[i].id = id THEN [rules[i] EXCEPT !.enabled = on] ELSE rules[i]]

\* saveRules: what is posted.
Post(p, by, id, list) == [page |-> p, by |-> by, id |-> id, list |-> list]
Trial(p, what) == Post(p, what, None, <<>>)
IsList(j) == j.by \in {"submit", "toggle", "delete"}

\* loadPorts; submitRule waits for the one that follows its post.
Room(p) == BagCardinality(loads[p]) < MaxLoads
Ask(p, waits) == [loads EXCEPT ![p] = @ (+) SetToBag({[waits |-> waits, view |-> None]})]

-----------------------------------------------------------------------------
(* Operators.                                                              *)

NewIds == {id \in Ids : \A p \in Pages : IndexOf(data[p].rules, id) = 0}

\* openRule, for a rule of the list or a new one.
OpenRule(p, id) ==
    /\ dialog[p] = None /\ Click
    /\ id # None => IndexOf(data[p].rules, id) # 0
    /\ edit' = [edit EXCEPT ![p] = id]
    /\ dialog' = [dialog EXCEPT ![p] = "rule"]
    /\ UNCHANGED <<server_vars, data, busy, count_vars, loads, posts, fails>>

\* submitRule with what the form holds (ruleFromForm); the dialog stays open
\* until the post and the load after it are done.
SubmitRule(p) ==
    /\ dialog[p] = "rule" /\ ~busy[p] /\ Click
    /\ \E says \in Says, id \in IF edit[p] # None THEN {edit[p]} ELSE NewIds :
         posts' = posts \cup {Post(p, "submit", id, Spliced(data[p].rules, [id |-> id, says |-> says, enabled |-> TRUE]))}
    /\ busy' = [busy EXCEPT ![p] = TRUE]
    /\ UNCHANGED <<server_vars, data, edit, dialog, count_vars, loads, fails>>

\* deleteRule: the dialog closes, a question is asked, and the list is that of
\* the moment it was answered.
AskDelete(p) ==
    /\ dialog[p] = "rule" /\ edit[p] # None /\ Click
    /\ dialog' = [dialog EXCEPT ![p] = IF IndexOf(data[p].rules, edit[p]) = 0 THEN None ELSE "confirm"]
    /\ UNCHANGED <<server_vars, data, edit, busy, count_vars, loads, posts, fails>>
DeleteRule(p) ==
    /\ dialog[p] = "confirm"
    /\ dialog' = [dialog EXCEPT ![p] = None]
    /\ posts' = posts \cup {Post(p, "delete", edit[p], Without(data[p].rules, edit[p]))}
    /\ UNCHANGED <<server_vars, data, edit, busy, count_vars, loads, clicks, fails>>
Dismiss(p) ==
    /\ dialog[p] # None /\ Click
    /\ dialog' = [dialog EXCEPT ![p] = None]
    /\ UNCHANGED <<server_vars, data, edit, busy, count_vars, loads, posts, fails>>

ToggleRule(p, id) ==
    /\ dialog[p] = None /\ IndexOf(data[p].rules, id) # 0 /\ Click
    /\ \A j \in posts : ~(j.page = p /\ j.by = "toggle" /\ j.id = id)
    /\ LET was == data[p].rules[IndexOf(data[p].rules, id)].enabled IN
         posts' = posts \cup {Post(p, "toggle", id, Toggled(data[p].rules, id, ~was))}
    /\ UNCHANGED <<server_vars, data, screen_vars, count_vars, loads, fails>>

Banner(p) == data[p].deadline # None

\* trialAction: Keep these rules, or undo them now.
TrialAction(p, what) ==
    /\ Banner(p) /\ dialog[p] = None /\ Click
    /\ posts' = posts \cup {Trial(p, what)}
    /\ UNCHANGED <<server_vars, data, screen_vars, count_vars, loads, fails>>

\* loadPorts when the screen is shown or refreshed.
LoadPorts(p) ==
    /\ dialog[p] = None /\ Room(p) /\ Click
    /\ loads' = Ask(p, FALSE)
    /\ UNCHANGED <<server_vars, data, screen_vars, count_vars, posts, fails>>

-----------------------------------------------------------------------------
(* The server.                                                             *)

Covering(rules) ==
    LET in == SelectSeq(rules, LAMBDA r : r.enabled /\ r.says \in Restricting) IN
      [i \in DOMAIN in |-> in[i].says]
Risky(before, next) == Covering(next) # <<>> /\ Covering(next) # Covering(before)

\* Manager.Set, Confirm and Revert.
Applied(j) ==
    CASE IsList(j) /\ Risky(saved, j.list) ->
           active' = j.list /\ trial' = TrialTime /\ UNCHANGED saved
      [] IsList(j) /\ ~Risky(saved, j.list) ->
           active' = j.list /\ saved' = j.list /\ trial' = None
      [] j.by = "confirm" -> saved' = active /\ trial' = None /\ UNCHANGED active
      [] j.by = "revert"  -> active' = saved /\ trial' = None /\ UNCHANGED saved
Refused(j) == ~IsList(j) /\ trial = None

\* Manager.expire, by the timer of the trial.
Expire ==
    /\ trial = 0
    /\ active' = saved /\ trial' = None
    /\ UNCHANGED <<saved, data, screen_vars, count_vars, loads, posts, clicks, fails>>

\* A change is made and answered: what the page does is the same whether the
\* toast says so or not, except that a list that was refused is not loaded again
\* and leaves its dialog open.
Answered(j, ok) ==
    /\ posts' = posts \ {j}
    /\ IF ok \/ ~IsList(j)
       THEN loads' = Ask(j.page, j.by = "submit") /\ UNCHANGED busy
       ELSE busy' = [busy EXCEPT ![j.page] = @ /\ j.by # "submit"] /\ UNCHANGED loads
    /\ UNCHANGED <<data, edit, dialog, count_vars, clicks>>
Serve(j) ==
    /\ j \in posts /\ Room(j.page)
    /\ \/ ~Refused(j) /\ Applied(j) /\ Answered(j, TRUE) /\ UNCHANGED fails
       \/ ~Refused(j) /\ Applied(j) /\ Answered(j, FALSE) /\ Fault
       \/ UNCHANGED <<active, saved, trial>> /\ Answered(j, FALSE) /\ IF Refused(j) THEN UNCHANGED fails ELSE Fault

View == [rules |-> active, deadline |-> trial]
ServeLoad(p, l) ==
    /\ l.view = None
    /\ loads' = [loads EXCEPT ![p] = @ (-) SetToBag({l}) (+) SetToBag({[l EXCEPT !.view = View]})]
    /\ UNCHANGED <<server_vars, data, screen_vars, count_vars, posts, clicks, fails>>

-----------------------------------------------------------------------------
(* The page when an answer comes.                                          *)

\* trial_deadline, as the time that is left: the clocks of server and browser agree.
Over(d) == d.deadline = 0

\* A faulty form, for a mutant: the countdown ends and that is all.
NoReload(p) == 0

\* The countdown is over: the page asks again a little later.  More than MaxLoads
\* such timers are counted as MaxLoads.
ReloadAfter(p) == IF soon[p] < MaxLoads THEN 1 ELSE 0

\* renderTrial: the countdown that ran stops; another starts, and asks at once
\* when there is nothing left to count.
RenderTrial(p, d) ==
    /\ timer' = [timer EXCEPT ![p] = d.deadline # None]
    /\ soon' = [soon EXCEPT ![p] = @ + IF Over(d) THEN ReloadAfter(p) ELSE 0]
    /\ UNCHANGED due

\* submitRule goes on: whatever the rule dialog is open for by now, it closes.
Continued(p) ==
    /\ busy' = [busy EXCEPT ![p] = FALSE]
    /\ dialog' = [dialog EXCEPT ![p] = IF @ = "rule" THEN None ELSE @]

\* loadPorts: in the order the answers come, not in that of the questions.
Deliver(p, l) ==
    /\ loads' = [loads EXCEPT ![p] = @ (-) SetToBag({l})]
    /\ \/ /\ l.view # None
          /\ data' = [data EXCEPT ![p] = l.view]
          /\ RenderTrial(p, l.view) /\ UNCHANGED fails
       \/ Fault /\ UNCHANGED <<data, count_vars>>
    /\ IF l.waits THEN Continued(p) ELSE UNCHANGED <<busy, dialog>>
    /\ UNCHANGED <<server_vars, edit, posts, clicks>>

\* The interval of renderTrial, once there is nothing left.
Tick(p) ==
    /\ timer[p] /\ Over(data[p])
    /\ timer' = [timer EXCEPT ![p] = FALSE]
    /\ soon' = [soon EXCEPT ![p] = @ + ReloadAfter(p)]
    /\ UNCHANGED <<server_vars, data, screen_vars, due, loads, posts, clicks, fails>>
Reload(p) ==
    /\ due[p] > 0 /\ Room(p)
    /\ due' = [due EXCEPT ![p] = @ - 1]
    /\ loads' = Ask(p, FALSE)
    /\ UNCHANGED <<server_vars, data, screen_vars, timer, soon, posts, clicks, fails>>

\* Time passes, no faster than timers run: those of the pages and the server's.
Later(t) == IF t \in {None, 0} THEN t ELSE t - 1
Aged(d) == IF d = None THEN None ELSE [d EXCEPT !.deadline = Later(@)]
AgedLoad(l) == [l EXCEPT !.view = Aged(@)]
Advance ==
    /\ trial # 0
    /\ \A p \in Pages : due[p] = 0 /\ (timer[p] => ~Over(data[p]))
    /\ trial' = Later(trial)
    /\ data' = [p \in Pages |-> Aged(data[p])]
    /\ loads' = [p \in Pages |-> BagOfAll(AgedLoad, loads[p])]
    /\ due' = soon /\ soon' = [p \in Pages |-> 0]
    /\ UNCHANGED <<active, saved, screen_vars, timer, posts, clicks, fails>>

-----------------------------------------------------------------------------
Init ==
    /\ active = FirstRules /\ saved = FirstRules /\ trial = None
    /\ data = [p \in Pages |-> View]
    /\ edit = [p \in Pages |-> None] /\ dialog = [p \in Pages |-> None]
    /\ busy = [p \in Pages |-> FALSE]
    /\ timer = [p \in Pages |-> FALSE]
    /\ soon = [p \in Pages |-> 0] /\ due = [p \in Pages |-> 0]
    /\ loads = [p \in Pages |-> EmptyBag] /\ posts = {}
    /\ clicks = MaxClicks /\ fails = MaxFails

Operator(p) ==
    \/ (\E id \in Ids \cup {None} : OpenRule(p, id)) \/ SubmitRule(p)
    \/ AskDelete(p) \/ DeleteRule(p) \/ Dismiss(p)
    \/ (\E id \in Ids : ToggleRule(p, id))
    \/ (\E what \in {"confirm", "revert"} : TrialAction(p, what)) \/ LoadPorts(p)
Answers(p) == \E l \in BagToSet(loads[p]) : ServeLoad(p, l) \/ Deliver(p, l)
PageStep == \E p \in Pages : Answers(p) \/ Tick(p) \/ Reload(p)
Next ==
    \/ (\E p \in Pages : Operator(p)) \/ PageStep
    \/ (\E j \in posts : Serve(j)) \/ Expire \/ Advance

Spec == Init /\ [][Next]_vars

\* The server answers or the request fails, timers run and time passes.
FairSpec == Spec /\ WF_vars(PageStep) /\ WF_vars(Expire) /\ WF_vars(Advance)

-----------------------------------------------------------------------------
(* Properties.                                                             *)

\* Type invariant: also that one rule has an id, on the server and on the pages.
TypeOK ==
    /\ active \in Lists /\ saved \in Lists /\ trial \in Nat \cup {None}
    /\ \A p \in Pages : /\ data[p].rules \in Lists
                        /\ timer[p] => Banner(p)

\* A list that is posted is the one the page shows with one rule written,
\* switched or taken out and every other in its place, also when the list was
\* loaded again while a question was open (submitRule, toggleRule, deleteRule).
\* The order is that in which the firewall asks them.
EditIsLocal ==
    [][\A j \in posts' \ posts : IsList(j) =>
         LET shown == data[j.page].rules IN
           /\ Without(j.list, j.id) = Without(shown, j.id)
           /\ \A i \in DOMAIN shown : i \in DOMAIN j.list /\ j.list[i].id # shown[i].id
                 => IndexOf(j.list, j.id) = 0]_vars

\* The banner of a trial goes once the trial is over, in every browser that
\* shows it and by itself, if no request failed: nobody is told that rules are in
\* force which were undone (renderTrial).
TrialLeavesPage ==
    \A p \in Pages :
      (Banner(p) /\ trial = None) ~> (~Banner(p) \/ trial # None \/ fails < MaxFails)
=============================================================================
