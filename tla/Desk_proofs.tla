----------------------------- MODULE Desk_proofs -----------------------------
(***************************************************************************)
(* What is proved of Desk for any containers, networks, addresses, clicks  *)
(* and requests.  Of the dialogs: the one that closes a published port     *)
(* implements LatestPlan, a confirmed request concerns what was named, and *)
(* the sheets hold.  Of the map: only the operator moves what stays on it, *)
(* and the map holds.                                                      *)
(***************************************************************************)
EXTENDS Desk, SequenceTheorems, TLAPS

Actions == {None, "local", "public", "remove", "rule"}

Others == {"inspect", "list", "snapshots", "logs", "ip"}

\* The questions out about the close dialog: none of them is newer than the
\* question of this moment, and the one of this moment is about what it asks.
PlanInv ==
    /\ arg.of \in Containers \cup {None} /\ action \in Actions /\ seq \in Nat
    /\ \A k \in calls : k.what \in Others \cup {"plan"}
    /\ \A k \in calls : k.what = "plan" =>
          k.seq \in Nat /\ k.seq <= seq /\ (k.seq = seq => k.of = arg.of /\ k.action = action)

LEMMA CallKind == \A what, of : Call(what, of).what = what
  BY DEF Call

\* A step that is not about the close dialog.
NotPlan ==
    /\ UNCHANGED <<arg, action, seq, plan>>
    /\ \A k \in calls' : k \in calls \/ k.what \in Others

LEMMA NotPlanInv ==
    ASSUME PlanInv, NotPlan
    PROVE  PlanInv' /\ UNCHANGED <<Question(arg, action, seq), plan>>
  BY DEF PlanInv, NotPlan, Question, Others

\* Another question is a new one, and no answer that is out answers it.
LEMMA AskPlanInv ==
    ASSUME PlanInv, NEW a, NEW act \in Actions, arg' = a, a.of \in Containers \cup {None},
           AskPlan(a, act), plan' \in {plan, None}
    PROVE  PlanInv' /\ Preview!Ask
  <1>1. action' = act /\ seq' = seq + 1 /\ seq' \in Nat
    BY DEF AskPlan, PlanInv
  <1>2. ASSUME NEW k \in calls', k.what = "plan"
        PROVE  k.seq \in Nat /\ k.seq <= seq' /\ (k.seq = seq' => k.of = a.of /\ k.action = act)
    <2>1. CASE k \in calls
      BY <1>1, <1>2, <2>1 DEF PlanInv
    <2>2. CASE k = PlanCall(a.of, act, seq + 1)
      BY <1>1, <2>2 DEF PlanCall
    <2> QED
      BY <1>2, <2>1, <2>2 DEF AskPlan
  <1>3. \A k \in calls' : k.what \in Others \cup {"plan"}
    BY DEF AskPlan, PlanCall, PlanInv
  <1>4. PlanInv'
    BY <1>1, <1>2, <1>3 DEF PlanInv
  <1>5. Question(arg, action, seq)'
          \in [of : Containers \cup {None}, action : Actions, seq : Nat]
    BY <1>1 DEF Question
  <1> QED
    BY <1>4, <1>5 DEF Preview!Ask, Actions

LEMMA OperatorPlan ==
    ASSUME PlanInv, Operator
    PROVE  PlanInv' /\ (Preview!Ask \/ UNCHANGED <<Question(arg, action, seq), plan>>)
  <1>1. ASSUME NEW c \in Containers, NEW rules \in BOOLEAN, OpenClose(c, rules)
        PROVE  PlanInv' /\ Preview!Ask
    <2> DEFINE a == [of |-> c, local |-> port[c] = "local", rules |-> rules]
               act == IF port[c] = "local" THEN "public" ELSE "local"
    <2>1. arg' = a /\ AskPlan(arg', act) /\ plan' = None
      BY <1>1 DEF OpenClose
    <2>2. a.of = c /\ act \in Actions
      BY DEF Actions
    <2> HIDE DEF a, act
    <2> QED
      BY <2>1, <2>2, AskPlanInv
  <1>2. ASSUME NEW act \in {"local", "public", "remove", "rule"}, PickAction(act)
        PROVE  PlanInv' /\ (Preview!Ask \/ UNCHANGED <<Question(arg, action, seq), plan>>)
    <2>1. arg' = arg /\ AskPlan(arg, act) /\ plan' = plan
      BY <1>2 DEF PickAction
    <2> QED
      BY <2>1, AskPlanInv DEF PlanInv, Actions
  <1>3. CASE \/ CloseTop \/ SaysOK \/ SavePorts \/ SaveLimits \/ TakeSnapshot
             \/ AskRemove \/ AskRestart \/ AskSnapshot \/ AskUnban \/ OpenBan \/ OpenCreate
             \/ (\E k \in {"ban", "create"} : SubmitForm(k)) \/ SubmitClose
    <2>1. UNCHANGED <<arg, action, seq, plan, calls>>
      BY <1>3 DEF CloseTop, SaysOK, SavePorts, SaveLimits, TakeSnapshot, AskRemove, AskRestart,
         AskSnapshot, AskUnban, OpenBan, OpenCreate, OpenForm, SubmitForm, SubmitClose,
         confirmAction, close_vars
    <2> QED
      BY <2>1, NotPlanInv DEF NotPlan
  <1>4. CASE LoadLogs \/ (\E c \in Containers : OpenSheet(c)) \/ (\E i \in IPs : OpenIP(i))
    <2>1. UNCHANGED <<arg, action, seq, plan>>
      BY <1>4 DEF LoadLogs, OpenSheet, OpenIP, close_vars
    <2>2. \E what \in Others : \E of : calls' = calls \cup {Call(what, of)}
      BY <1>4, Zenon DEF LoadLogs, OpenSheet, OpenIP, Others
    <2>3. \A k \in calls' : k \in calls \/ k.what \in Others
      BY <2>2, CallKind
    <2> QED
      BY <2>1, <2>3, NotPlanInv DEF NotPlan
  <1> QED
    BY <1>1, <1>2, <1>3, <1>4 DEF Operator

\* An answer is shown if it is that to the question of this moment.
LEMMA AnswerPlan ==
    ASSUME PlanInv, NEW k \in calls, AnswerTo(k)
    PROVE  PlanInv' /\ (Preview!Show \/ UNCHANGED <<Question(arg, action, seq), plan>>)
  <1>1. CASE Failed(k)
    <2>1. NotPlan
      BY <1>1 DEF Failed, close_vars, NotPlan
    <2> QED
      BY <2>1, NotPlanInv
  <1>2. CASE Answered(k) /\ k.what # "plan"
    <2>0. k.what \in Others
      BY <1>2 DEF PlanInv
    <2>1. UNCHANGED <<arg, action, seq, plan>>
      BY <1>2, <2>0 DEF Answered, close_vars, Others
    <2>2. calls' \subseteq calls \cup SnapCalls(k.of) \cup {Call("inspect", sheet.id)}
      BY <1>2, <2>0 DEF Answered, Others
    <2>3. \A c \in calls' : c \in calls \/ c.what \in Others
      BY <2>2, CallKind DEF SnapCalls, Others
    <2> QED
      BY <2>1, <2>3, NotPlanInv DEF NotPlan
  <1>3. CASE Answered(k) /\ k.what = "plan"
    <2>1. /\ UNCHANGED <<arg, action, seq>> /\ calls' = calls \ {k}
          /\ IF Latest(k) THEN plan' = [of |-> k.of, action |-> k.action, seq |-> k.seq]
             ELSE UNCHANGED plan
      BY <1>3 DEF Answered
    <2>2. PlanInv'
      BY <2>1 DEF PlanInv
    <2>3. CASE Latest(k)
      <3>1. k.seq = seq /\ k.of = arg.of /\ k.action = action
        BY <1>3, <2>3 DEF Latest, PlanInv
      <3>2. plan' = Question(arg, action, seq) /\ UNCHANGED Question(arg, action, seq)
        BY <2>1, <2>3, <3>1 DEF Question
      <3> QED
        BY <2>2, <3>2 DEF Preview!Show
    <2>4. CASE ~Latest(k)
      BY <2>1, <2>2, <2>4 DEF Question
    <2> QED
      BY <2>3, <2>4
  <1> QED
    BY <1>1, <1>2, <1>3 DEF AnswerTo

LEMMA JobPlan ==
    ASSUME PlanInv, NEW j \in sent, JobDone(j)
    PROVE  PlanInv' /\ UNCHANGED <<Question(arg, action, seq), plan>>
  <1>1. \A c \in Reloads(j) \cup SnapCalls(j.of) : c.what \in Others
    BY DEF Others, Reloads, SnapCalls, Call
  <1>2. \A c \in calls' : c \in calls \/ c.what \in Others
    BY <1>1 DEF JobDone, Succeeded, NotDone, Call, Others
  <1>3. UNCHANGED <<arg, action, seq, plan>>
    BY DEF JobDone
  <1> QED
    BY <1>2, <1>3, NotPlanInv DEF NotPlan

LEMMA PlanStep ==
    ASSUME PlanInv, [Next]_desk_vars
    PROVE  PlanInv' /\ [Preview!Next]_<<Question(arg, action, seq), plan>>
  <1>1. CASE SheetsNext
    BY <1>1, OperatorPlan, AnswerPlan, JobPlan DEF SheetsNext, Preview!Next
  <1>2. CASE UNCHANGED sheets_vars
    BY <1>2, NotPlanInv DEF sheets_vars, close_vars, NotPlan
  <1> QED
    BY <1>1, <1>2 DEF Next, desk_vars

LEMMA PlanInit == Init => PlanInv /\ Preview!Init
  BY DEF Init, SheetsInit, PlanInv, Actions, Preview!Init, Question

\* The dialog that closes a published port implements LatestPlan: an answer that
\* another question overtook is never shown.
THEOREM PreviewIsLatest == Spec => ShowsLatest
  <1>1. PlanInv /\ [Next]_desk_vars => PlanInv'
    BY PlanStep
  <1>2. PlanInv /\ [Next]_desk_vars => [Preview!Next]_<<Question(arg, action, seq), plan>>
    BY PlanStep
  <1> QED
    BY PlanInit, <1>1, <1>2, PTL DEF Spec, ShowsLatest, Preview!Spec

-----------------------------------------------------------------------------
(* Confirmations.                                                          *)

\* The confirm dialog names what its request is about.
Named == asking # None => \E op, of, with : asking = [named |-> of, job |-> Change(op, of, with)]

\* What is sent when the dialog closes concerns what it named.
SentAsNamed == \A j \in sent' \ sent : asking # None /\ asking' = None => j.of = asking.named

LEMMA NamedStep ==
    ASSUME Named, [Next]_desk_vars
    PROVE  Named' /\ [SentAsNamed]_sheets_vars
  <1>1. CASE UNCHANGED asking
    BY <1>1 DEF Named, SentAsNamed
  <1>2. CASE CloseTop
    BY <1>2 DEF CloseTop, Named, SentAsNamed
  <1>3. CASE SaysOK
    <2>1. asking' = None /\ sent' = sent \cup {[asking.job EXCEPT !.of = SubjectOf(asking.job)]}
      BY <1>3 DEF SaysOK
    <2>2. ASSUME asking # None
          PROVE  [asking.job EXCEPT !.of = SubjectOf(asking.job)].of = asking.named
      <3>1. PICK op, of, with : asking = [named |-> of, job |-> Change(op, of, with)]
        BY <2>2 DEF Named
      <3> QED
        BY <3>1 DEF Change, SubjectOf
    <2> QED
      BY <2>1, <2>2 DEF Named, SentAsNamed
  <1>4. ASSUME NEW op, NEW of, NEW with, confirmAction(op, of, with)
        PROVE  Named' /\ SentAsNamed
    BY <1>4 DEF confirmAction, Named, SentAsNamed
  <1>5. CASE SheetsNext
    <2>1. CASE AskRemove \/ AskRestart \/ AskSnapshot \/ AskUnban
      BY <1>4, <2>1 DEF AskRemove, AskRestart, AskSnapshot, AskUnban
    <2>2. ASSUME NEW k \in calls, AnswerTo(k)
          PROVE  UNCHANGED asking
      BY <2>2 DEF AnswerTo, Answered, Failed
    <2>3. ASSUME NEW j \in sent, JobDone(j)
          PROVE  UNCHANGED asking
      BY <2>3 DEF JobDone
    <2> QED
      BY <1>1, <1>2, <1>3, <1>5, <2>1, <2>2, <2>3 DEF SheetsNext, Operator, SavePorts, SaveLimits,
         LoadLogs, TakeSnapshot, OpenSheet, OpenIP, OpenBan, OpenCreate, OpenForm, SubmitForm,
         OpenClose, PickAction, SubmitClose
  <1>6. CASE UNCHANGED sheets_vars
    BY <1>1, <1>6 DEF sheets_vars
  <1> QED
    BY <1>5, <1>6 DEF Next, desk_vars

\* What is sent after a confirmation concerns what the dialog named, whatever
\* the sheet under it shows by then.
THEOREM ConfirmedAsNamed == Spec => ConfirmedIsSent
  <1>1. Init => Named
    BY DEF Init, SheetsInit, Named
  <1>2. Named /\ [Next]_desk_vars => Named'
    BY NamedStep
  <1>3. Named /\ [Next]_desk_vars => [SentAsNamed]_sheets_vars
    BY NamedStep
  <1> QED
    BY <1>1, <1>2, <1>3, PTL DEF Spec, ConfirmedIsSent, SentAsNamed

-----------------------------------------------------------------------------
(* The sheets.                                                             *)

\* The container sheet: the limits it shows are those of the container its
\* buttons act on.
SheetInv ==
    /\ sheet = [id |-> sheet.id, cur |-> sheet.cur, title |-> sheet.title, facts |-> sheet.facts,
                rows |-> sheet.rows, limits |-> sheet.limits, snaps |-> sheet.snaps, logs |-> sheet.logs]
    /\ sheet.limits = sheet.cur
    /\ FactsAreOfTitle

LEMMA SheetKept ==
    ASSUME SheetInv, UNCHANGED sheet
    PROVE  SheetInv'
  BY DEF SheetInv, FactsAreOfTitle

LEMMA RenderedInv ==
    ASSUME SheetInv, NEW c, RenderSheet(c)
    PROVE  SheetInv'
  BY DEF SheetInv, RenderSheet, Rendered, FactsAreOfTitle

LEMMA SheetStep ==
    ASSUME PlanInv, SheetInv, [Next]_desk_vars
    PROVE  SheetInv'
  <1>1. ASSUME NEW c \in Containers, OpenSheet(c)
        PROVE  SheetInv'
    BY <1>1, SheetsAssumption DEF OpenSheet, SheetInv, FactsAreOfTitle
  <1>2. ASSUME NEW k \in calls, AnswerTo(k)
        PROVE  SheetInv'
    <2>1. CASE Failed(k)
      BY <2>1, SheetsAssumption DEF Failed, SheetInv, FactsAreOfTitle
    <2>2. CASE Answered(k)
      <3>1. k.what \in {"inspect", "list", "snapshots", "logs", "ip", "plan"}
        BY DEF PlanInv, Others
      <3>2. CASE k.what = "inspect"
        BY <2>2, <3>2, RenderedInv DEF Answered
      <3>3. CASE k.what \in {"snapshots", "logs"}
        BY <2>2, <3>3 DEF Answered, SheetInv, FactsAreOfTitle
      <3>4. CASE k.what \in {"list", "ip", "plan"}
        <4>1. UNCHANGED sheet
          BY <2>2, <3>4 DEF Answered
        <4> QED
          BY <4>1, SheetKept
      <3> QED
        BY <3>1, <3>2, <3>3, <3>4
    <2> QED
      BY <1>2, <2>1, <2>2 DEF AnswerTo
  <1>3. ASSUME NEW j \in sent, JobDone(j)
        PROVE  SheetInv'
    <2>1. RenderSheet(j.of) \/ UNCHANGED sheet
      BY <1>3 DEF JobDone, Succeeded, NotDone
    <2> QED
      BY <2>1, RenderedInv, SheetKept
  <1>4. CASE Operator
    <2>1. UNCHANGED sheet \/ \E c \in Containers : OpenSheet(c)
      BY <1>4 DEF Operator, CloseTop, SaysOK, SavePorts, SaveLimits, LoadLogs, TakeSnapshot,
         AskRemove, AskRestart, AskSnapshot, AskUnban, confirmAction, OpenIP, OpenBan, OpenCreate,
         OpenForm, SubmitForm, OpenClose, PickAction, SubmitClose
    <2> QED
      BY <1>1, <2>1, SheetKept
  <1>5. CASE UNCHANGED sheets_vars
    BY <1>5, SheetKept DEF sheets_vars
  <1> QED
    BY <1>2, <1>3, <1>4, <1>5 DEF Next, SheetsNext, desk_vars

\* What the sheet states as facts is of the container its title names and its
\* buttons act on, and the limits beside its Save are that container's, in
\* whatever order the answers come.
THEOREM SheetIsConsistent == Spec => [](FactsAreOfTitle /\ sheet.limits = sheet.cur)
  <1>1. Init => PlanInv /\ SheetInv
    BY PlanInit, SheetsAssumption DEF Init, SheetsInit, SheetInv, FactsAreOfTitle
  <1>2. PlanInv /\ SheetInv /\ [Next]_desk_vars => (PlanInv /\ SheetInv)'
    BY PlanStep, SheetStep
  <1>3. SheetInv => FactsAreOfTitle /\ sheet.limits = sheet.cur
    BY DEF SheetInv
  <1> QED
    BY <1>1, <1>2, <1>3, PTL DEF Spec

-----------------------------------------------------------------------------
(* The sheets' types and the requests.                                     *)

Shows == Containers \cup {None}
SheetRecs == [id : Shows, cur : Shows, title : Shows, facts : Containers \cup {"loading", "error"},
              rows : Shows, limits : Shows, snaps : Shows, logs : Shows]
Offers == [of : IPs, what : {"ban", "unban"}]
AddrRecs == [title : IPs \cup {None}, facts : IPs \cup {"loading", "error"}, offer : Offers \cup {None}]
Forms == [ban : IPs \cup {None}, create : Shows]
SheetsTyped ==
    /\ there \subseteq Containers /\ banned \subseteq IPs
    /\ sheet \in SheetRecs /\ addr \in AddrRecs /\ form \in Forms
    /\ seq \in Nat /\ ready \in BOOLEAN

\* The confirm dialog stands over the others, with its question; a form that
\* is open is filled, and so is the close dialog.
TopInv ==
    /\ top \in Seq(Dialogs)
    /\ \A i \in DOMAIN top : top[i] = "confirm" => i = Len(top) /\ asking # None
    /\ IsOpen("ban") => form.ban \in IPs
    /\ IsOpen("create") => form.create \in Containers
    /\ IsOpen("close") => arg.of \in Containers

OfContainers == {"ports", "limits", "remove", "restart", "snapshot", "create", "close"}
OfIPs == {"ban", "unban"}
AboutIts(j) ==
    /\ j.op \in OfContainers \cup OfIPs
    /\ j.op \in OfContainers => j.of \in Containers
    /\ j.op \in OfIPs => j.of \in IPs
AskingInv == asking # None => asking \in Askings /\ AboutIts(asking.job)

\* A form's button stays disabled as long as its request is out.
SentInv == \A j \in sent :
    /\ AboutIts(j) /\ (j.op = "limits" => j.with = j.of)
    /\ j.op \in {"ban", "create"} => j.op \in busy
CallsInv == \A k \in calls : k.what = "ip" => k.of \in IPs
SheetsInv == SheetsTyped /\ TopInv /\ AskingInv /\ SentInv /\ OneSubmit /\ CallsInv

\* A sequence without one of its elements.
LeavesOut(s, i, t) ==
    /\ t = SubSeq(s, 1, i - 1) \o SubSeq(s, i + 1, Len(s)) /\ Len(t) = Len(s) - 1
    /\ \A j \in 1..Len(t) : t[j] = IF j < i THEN s[j] ELSE s[j + 1]
LEMMA WithoutOne ==
    ASSUME NEW S, NEW s \in Seq(S), NEW i \in DOMAIN s
    PROVE  \E t \in Seq(S) : LeavesOut(s, i, t)
  <1>1. i \in 1..Len(s) /\ Len(s) \in Nat /\ i \in Nat
    OBVIOUS
  <1> DEFINE u == SubSeq(s, 1, i - 1)
             v == SubSeq(s, i + 1, Len(s))
  <1>2. u \in Seq(S) /\ Len(u) = i - 1 /\ \A j \in 1..(i - 1) : u[j] = s[j]
    BY <1>1, SubSeqProperties
  <1>3. v \in Seq(S) /\ Len(v) = Len(s) - i /\ \A j \in 1..(Len(s) - i) : v[j] = s[i + j]
    BY <1>1, SubSeqProperties
  <1>4. u \in Seq(S) /\ v \in Seq(S) /\ Len(u) = i - 1 /\ Len(v) = Len(s) - i
    BY <1>2, <1>3
  <1> SUFFICES \E t \in Seq(S) :
                   /\ t = u \o v /\ Len(t) = Len(s) - 1
                   /\ \A j \in 1..Len(t) : t[j] = IF j < i THEN s[j] ELSE s[j + 1]
    BY DEF LeavesOut
  <1> HIDE DEF u, v
  <1>5. \E t \in Seq(S) :
            /\ t = u \o v /\ Len(t) = Len(u) + Len(v)
            /\ \A j \in 1..(Len(u) + Len(v)) : t[j] = IF j <= Len(u) THEN u[j] ELSE v[j - Len(u)]
    <2>1. /\ u \o v \in Seq(S) /\ Len(u \o v) = Len(u) + Len(v)
          /\ \A j \in 1..(Len(u) + Len(v)) : (u \o v)[j] = IF j <= Len(u) THEN u[j] ELSE v[j - Len(u)]
      BY <1>4, ConcatProperties
    <2> QED
      BY <2>1, Zenon
  <1>6. PICK t \in Seq(S) :
            /\ t = u \o v /\ Len(t) = Len(u) + Len(v)
            /\ \A j \in 1..(Len(u) + Len(v)) : t[j] = IF j <= Len(u) THEN u[j] ELSE v[j - Len(u)]
    BY <1>5
  <1>7. Len(t) = Len(u) + Len(v)
        /\ \A j \in 1..(Len(u) + Len(v)) : t[j] = IF j <= Len(u) THEN u[j] ELSE v[j - Len(u)]
    BY <1>6
  <1>8. Len(t) = Len(s) - 1
    BY <1>1, <1>4, <1>7
  <1>9. ASSUME NEW j \in 1..Len(t)
        PROVE  t[j] = IF j < i THEN s[j] ELSE s[j + 1]
    <2>1. j \in 1..(Len(u) + Len(v)) /\ j \in Nat
      BY <1>1, <1>7, <1>8
    <2>2. t[j] = IF j <= Len(u) THEN u[j] ELSE v[j - Len(u)]
      BY <1>7, <2>1
    <2>3. CASE j < i
      <3>1. j \in 1..(i - 1) /\ j <= Len(u)
        BY <1>1, <1>4, <2>1, <2>3
      <3> QED
        BY <1>2, <2>2, <2>3, <3>1
    <2>4. CASE ~(j < i)
      <3>0. Len(u) = i - 1 /\ Len(v) = Len(s) - i /\ j <= Len(u) + Len(v) /\ j >= i
        BY <1>1, <1>4, <2>1, <2>4
      <3>5. PICK k \in Int, l \in Int, m \in Int : k = j /\ l = i /\ m = Len(s)
        BY <1>1, <2>1
      <3>6. k >= l /\ k <= l - 1 + (m - l)
        BY <3>0, <3>5
      <3>7. ~(k <= l - 1) /\ k - (l - 1) = k - l + 1 /\ k - l + 1 \in 1..(m - l)
        BY <3>6
      <3>1. ~(j <= Len(u)) /\ j - Len(u) = j - i + 1
        BY <3>0, <3>5, <3>7
      <3>4. j - i + 1 \in 1..(Len(s) - i)
        BY <3>5, <3>7
      <3>2. v[j - i + 1] = s[i + (j - i + 1)]
        BY <1>3, <3>4
      <3>3. i + (j - i + 1) = j + 1
        BY <1>1, <2>1
      <3> QED
        BY <2>2, <2>4, <3>1, <3>2, <3>3
    <2> QED
      BY <2>3, <2>4
  <1> QED
    BY <1>6, <1>8, <1>9

LEMMA ClosedIs ==
    ASSUME TopInv, NEW d
    PROVE  /\ Closing(d) \in Seq(Dialogs)
           /\ \A i \in DOMAIN Closing(d) : \E j \in DOMAIN top : Closing(d)[i] = top[j]
           /\ \A i \in DOMAIN Closing(d) : Closing(d)[i] = "confirm" =>
                  /\ i = Len(Closing(d)) /\ asking # None
                  /\ d # "confirm" /\ (top # <<>> => d # top[Len(top)])
  <1>1. top \in Seq(Dialogs) /\ Len(top) \in Nat /\ DOMAIN top = 1..Len(top)
        /\ \A i \in DOMAIN top : top[i] = "confirm" => i = Len(top) /\ asking # None
    BY DEF TopInv
  <1>2. CASE ~IsOpen(d)
    BY <1>1, <1>2 DEF Closing, IsOpen
  <1>3. CASE IsOpen(d)
    <2> DEFINE n == CHOOSE i \in DOMAIN top : top[i] = d
    <2>1. n \in DOMAIN top /\ top[n] = d
      BY <1>3 DEF IsOpen
    <2>2. Closing(d) = SubSeq(top, 1, n - 1) \o SubSeq(top, n + 1, Len(top))
      BY <1>3 DEF Closing
    <2> HIDE DEF n
    <2>5. PICK r \in Seq(Dialogs) : LeavesOut(top, n, r)
      BY <1>1, <2>1, WithoutOne
    <2>3. PICK t \in Seq(Dialogs) :
              /\ t = Closing(d) /\ Len(t) = Len(top) - 1
              /\ \A j \in 1..Len(t) : t[j] = IF j < n THEN top[j] ELSE top[j + 1]
      BY <2>2, <2>5, Zenon DEF LeavesOut
    <2>4. /\ t \in Seq(Dialogs) /\ Len(t) = Len(top) - 1
          /\ \A j \in 1..Len(t) : t[j] = IF j < n THEN top[j] ELSE top[j + 1]
      BY <2>3
    <2>8. DOMAIN t = 1..Len(t)
      BY <2>4
    <2>6. ASSUME NEW i \in DOMAIN t
          PROVE  /\ \E j \in DOMAIN top : t[i] = top[j]
                 /\ t[i] = "confirm" => i = Len(t) /\ n < Len(top) /\ asking # None /\ top[Len(top)] = "confirm"
      <3>1. i \in 1..Len(t) /\ i \in Nat /\ n \in 1..Len(top) /\ n \in Nat /\ Len(t) = Len(top) - 1
        BY <1>1, <2>1, <2>4, <2>8
      <3>2. CASE i < n
        <4>1. t[i] = top[i] /\ i \in DOMAIN top /\ i < Len(top)
          BY <1>1, <2>4, <3>1, <3>2
        <4> QED
          BY <1>1, <4>1
      <3>3. CASE ~(i < n)
        <4>1. t[i] = top[i + 1] /\ i + 1 \in DOMAIN top
          BY <1>1, <2>4, <3>1, <3>3
        <4>2. top[i + 1] = "confirm" => i + 1 = Len(top) /\ asking # None
          BY <1>1, <4>1
        <4> QED
          BY <3>1, <3>3, <4>1, <4>2
      <3> QED
        BY <3>2, <3>3
    <2>7. ASSUME NEW i \in DOMAIN t, t[i] = "confirm"
          PROVE  d # "confirm" /\ d # top[Len(top)]
      BY <1>1, <2>1, <2>6, <2>7
    <2> QED
      BY <2>3, <2>4, <2>6, <2>7
  <1> QED
    BY <1>2, <1>3

LEMMA ClosedTop ==
    ASSUME TopInv, NEW d, top' = Closing(d), UNCHANGED <<form, arg>>,
           asking' = asking \/ d = "confirm" \/ (top # <<>> /\ d = top[Len(top)])
    PROVE  TopInv'
  <1>1. top' \in Seq(Dialogs) /\ \A i \in DOMAIN top' : \E j \in DOMAIN top : top'[i] = top[j]
    BY ClosedIs
  <1>2. \A i \in DOMAIN top' : top'[i] = "confirm" => i = Len(top') /\ asking' # None
    BY ClosedIs
  <1>3. \A k : IsOpen(k)' => IsOpen(k)
    BY <1>1 DEF IsOpen
  <1> QED
    BY <1>1, <1>2, <1>3 DEF TopInv

LEMMA ShownTop ==
    ASSUME TopInv, ~IsOpen("confirm"), NEW d \in Dialogs, top' = Show(d),
           d = "confirm" => asking' # None,
           d = "ban" => form'.ban \in IPs, d # "ban" => form'.ban = form.ban,
           d = "create" => form'.create \in Containers, d # "create" => form'.create = form.create,
           d = "close" => arg'.of \in Containers, d # "close" => arg'.of = arg.of
    PROVE  TopInv'
  <1>1. top \in Seq(Dialogs) /\ Len(top) \in Nat /\ DOMAIN top = 1..Len(top)
    BY DEF TopInv
  <1>2. top' = top \/ top' = Append(top, d)
    BY DEF Show
  <1>3. /\ top' \in Seq(Dialogs)
        /\ \A i \in DOMAIN top' : (i \in DOMAIN top /\ top'[i] = top[i]) \/ (i = Len(top') /\ top'[i] = d)
    BY <1>1, <1>2, AppendProperties
  <1>4. \A i \in DOMAIN top' : top'[i] = "confirm" => i = Len(top') /\ asking' # None
    BY <1>3 DEF IsOpen
  <1>5. \A k : IsOpen(k)' => IsOpen(k) \/ k = d
    BY <1>3 DEF IsOpen
  <1> QED
    BY <1>3, <1>4, <1>5 DEF TopInv

LEMMA SameTop ==
    ASSUME TopInv, UNCHANGED <<top, asking, form, arg>>
    PROVE  TopInv'
  BY DEF TopInv, IsOpen

\* Only over the page or another dialog than this one is something opened.
LEMMA NotConfirming ==
    ASSUME TopInv, NEW d, d # "confirm", OnTop(d)
    PROVE  ~IsOpen("confirm")
  BY DEF TopInv, OnTop, IsOpen

LEMMA OnTopIsOpen ==
    ASSUME TopInv, NEW d \in Dialogs, OnTop(d)
    PROVE  IsOpen(d)
  <1>1. top # <<>> /\ top \in Seq(Dialogs) /\ top[Len(top)] = d
    BY DEF OnTop, TopInv, Dialogs
  <1> QED
    BY <1>1 DEF IsOpen

\* Another request: of a form, only while none of that form is out.
LEMMA SentMore ==
    ASSUME SentInv, OneSubmit, NEW j, sent' = sent \cup {j}, AboutIts(j), j.op = "limits" => j.with = j.of,
           busy \subseteq busy', j.op \in {"ban", "create"} => j.op \notin busy /\ j.op \in busy'
    PROVE  SentInv' /\ OneSubmit'
  <1>1. \A k \in sent' : k \in sent \/ k = j
    OBVIOUS
  <1>2. SentInv'
    BY <1>1 DEF SentInv, AboutIts
  <1>3. \A k \in sent : k.op \in {"ban", "create"} => k.op # j.op
    BY DEF SentInv
  <1>4. ASSUME NEW k \in sent', NEW l \in sent', k.op = l.op, k.op \in {"ban", "create"}
        PROVE  k = l
    BY <1>1, <1>3, <1>4 DEF OneSubmit
  <1> QED
    BY <1>2, <1>4 DEF OneSubmit

LEMMA SentSame ==
    ASSUME SentInv, OneSubmit, UNCHANGED sent,
           \A k \in {"ban", "create"} : k \in busy => k \in busy'
    PROVE  SentInv' /\ OneSubmit'
  BY DEF SentInv, OneSubmit, AboutIts

LEMMA CallsMore ==
    ASSUME CallsInv, \A k \in calls' : k \in calls \/ k.what # "ip" \/ k.of \in IPs
    PROVE  CallsInv'
  BY DEF CallsInv

LEMMA ChangeIs ==
    ASSUME NEW op, NEW of, NEW with
    PROVE  /\ Change(op, of, with).op = op /\ Change(op, of, with).of = of /\ Change(op, of, with).with = with
           /\ op \in OfContainers /\ of \in Containers => AboutIts(Change(op, of, with))
           /\ op \in OfIPs /\ of \in IPs => AboutIts(Change(op, of, with))
  BY DEF Change, AboutIts, OfContainers, OfIPs

LEMMA CallIs == \A what, of : Call(what, of).what = what /\ Call(what, of).of = of
  BY DEF Call

\* What opens and closes dialogs.
LEMMA CloseTopKeeps ==
    ASSUME SheetsInv, CloseTop
    PROVE  SheetsInv'
  <1>1. TopInv'
    <2>1. top # <<>> /\ top' = Closing(top[Len(top)]) /\ UNCHANGED <<form, arg>>
      BY DEF CloseTop, close_vars
    <2> QED
      BY <2>1, ClosedTop DEF SheetsInv
  <1>2. SheetsTyped'
    BY DEF CloseTop, SheetsInv, SheetsTyped, server_vars, close_vars
  <1>3. SentInv' /\ OneSubmit'
    BY SentSame DEF CloseTop, SheetsInv
  <1>4. AskingInv' /\ CallsInv'
    BY DEF CloseTop, SheetsInv, AskingInv, CallsInv
  <1> QED
    BY <1>1, <1>2, <1>3, <1>4 DEF SheetsInv

LEMMA SaysOKKeeps ==
    ASSUME SheetsInv, SaysOK
    PROVE  SheetsInv'
  <1>1. asking # None
    <2>1. IsOpen("confirm")
      BY OnTopIsOpen DEF SaysOK, SheetsInv, Dialogs
    <2> QED
      BY <2>1 DEF SheetsInv, TopInv, IsOpen
  <1>2. asking \in Askings /\ AboutIts(asking.job)
    BY <1>1 DEF SheetsInv, AskingInv
  <1>3. PICK j : j = asking.job
    OBVIOUS
  <1>4. j \in [op : {"remove", "restart", "snapshot", "unban"}, of : Containers \cup IPs, with : Containers \cup {None}]
    BY <1>2, <1>3 DEF Askings
  <1>5. sent' = sent \cup {[j EXCEPT !.of = j.of]}
    BY <1>3 DEF SaysOK, SubjectOf
  <1>6. [j EXCEPT !.of = j.of] = j
    BY <1>4
  <1>7. sent' = sent \cup {j} /\ AboutIts(j) /\ j.op \notin {"limits", "ban", "create"}
    BY <1>2, <1>3, <1>4, <1>5, <1>6
  <1>8. SentInv' /\ OneSubmit'
    BY <1>7, SentMore DEF SaysOK, SheetsInv
  <1>9. TopInv'
    <2>1. top' = Closing("confirm") /\ UNCHANGED <<form, arg>>
      BY DEF SaysOK, close_vars
    <2> QED
      BY <2>1, ClosedTop DEF SheetsInv
  <1>10. SheetsTyped'
    BY DEF SaysOK, SheetsInv, SheetsTyped, server_vars, close_vars
  <1>11. AskingInv' /\ CallsInv'
    BY DEF SaysOK, SheetsInv, AskingInv, CallsInv
  <1> QED
    BY <1>8, <1>9, <1>10, <1>11 DEF SheetsInv

LEMMA ConfirmKeeps ==
    ASSUME SheetsInv, ~IsOpen("confirm"), NEW op, NEW of, NEW with \in Shows, confirmAction(op, of, with),
           (op \in {"remove", "restart", "snapshot"} /\ of \in Containers) \/ (op = "unban" /\ of \in IPs)
    PROVE  SheetsInv'
  <1>1. asking' = [named |-> of, job |-> Change(op, of, with)]
    BY DEF confirmAction
  <1>2. asking' \in Askings
    BY <1>1 DEF Askings, Change, Shows
  <1>3. AboutIts(Change(op, of, with))
    BY ChangeIs DEF OfContainers, OfIPs
  <1>4. AskingInv'
    <2>1. asking'.job = Change(op, of, with)
      BY <1>1
    <2> QED
      BY <1>2, <1>3, <2>1 DEF AskingInv, AboutIts
  <1>5. asking' # None
    BY <1>2, NoneAssumption
  <1>6. TopInv'
    BY <1>5, ShownTop DEF confirmAction, SheetsInv, close_vars, Dialogs
  <1>7. SheetsTyped'
    BY DEF confirmAction, SheetsInv, SheetsTyped, server_vars, close_vars
  <1>8. SentInv' /\ OneSubmit'
    BY SentSame DEF confirmAction, SheetsInv
  <1>9. CallsInv'
    BY DEF confirmAction, SheetsInv, CallsInv
  <1> QED
    BY <1>4, <1>6, <1>7, <1>8, <1>9 DEF SheetsInv

LEMMA OverSheet ==
    ASSUME SheetsInv, OnTop("container") \/ OnTop("address") \/ OnTop("page") \/ OnTop("close")
    PROVE  ~IsOpen("confirm")
  BY NotConfirming DEF SheetsInv

\* What the sheet's and the address sheet's dangerous buttons ask.
LEMMA AsksKeep ==
    ASSUME SheetsInv, AskRemove \/ AskRestart \/ AskSnapshot \/ AskUnban
    PROVE  SheetsInv'
  <1>1. sheet \in SheetRecs /\ addr \in AddrRecs
    BY DEF SheetsInv, SheetsTyped
  <1>2. CASE AskRemove
    BY <1>1, <1>2, ConfirmKeeps, OverSheet DEF AskRemove, SheetButton, SheetRecs, Shows
  <1>3. CASE AskRestart
    BY <1>1, <1>3, ConfirmKeeps, OverSheet DEF AskRestart, SheetButton, SheetRecs, Shows
  <1>4. CASE AskSnapshot
    BY <1>1, <1>4, ConfirmKeeps, OverSheet DEF AskSnapshot, SheetButton, SheetRecs, Shows
  <1>5. CASE AskUnban
    <2>1. addr.offer \in Offers /\ OnTop("address") /\ confirmAction("unban", addr.offer.of, None)
      BY <1>1, <1>5 DEF AskUnban, AddrRecs
    <2> QED
      BY <2>1, ConfirmKeeps, OverSheet DEF Offers, Shows
  <1> QED
    BY <1>2, <1>3, <1>4, <1>5

\* The sheet, the address sheet and the forms.
LEMMA OpenSheetKeeps ==
    ASSUME SheetsInv, NEW c \in Containers, OpenSheet(c)
    PROVE  SheetsInv'
  <1>1. sheet' \in SheetRecs
    BY DEF OpenSheet, SheetsInv, SheetsTyped, SheetRecs, Shows
  <1>2. SheetsTyped'
    BY <1>1 DEF OpenSheet, SheetsInv, SheetsTyped, server_vars, close_vars
  <1>3. TopInv'
    BY OverSheet, ShownTop DEF OpenSheet, SheetsInv, close_vars, Dialogs
  <1>4. SentInv' /\ OneSubmit'
    BY SentSame DEF OpenSheet, SheetsInv
  <1>5. CallsInv'
    BY CallsMore, CallIs DEF OpenSheet, SheetsInv
  <1>6. AskingInv'
    BY DEF OpenSheet, SheetsInv, AskingInv
  <1> QED
    BY <1>2, <1>3, <1>4, <1>5, <1>6 DEF SheetsInv

LEMMA ButtonsKeep ==
    ASSUME SheetsInv, SheetInv, SavePorts \/ SaveLimits \/ TakeSnapshot
    PROVE  SheetsInv'
  <1>1. sheet.cur \in Containers /\ sheet.limits = sheet.cur
    BY DEF SavePorts, SaveLimits, TakeSnapshot, SheetButton, SheetsInv, SheetsTyped, SheetRecs, Shows, SheetInv
  <1>2. UNCHANGED <<there, banned, top, sheet, addr, arg, form, asking, calls, seq, ready>>
    BY DEF SavePorts, SaveLimits, TakeSnapshot, server_vars, close_vars
  <1>3. PICK op \in {"ports", "limits", "snapshot"} : \E with :
            sent' = sent \cup {Change(op, sheet.cur, with)} /\ (op = "limits" => with = sheet.limits)
    BY DEF SavePorts, SaveLimits, TakeSnapshot
  <1>4. PICK with : sent' = sent \cup {Change(op, sheet.cur, with)} /\ (op = "limits" => with = sheet.limits)
    BY <1>3
  <1>5. busy \subseteq busy'
    BY DEF SavePorts, SaveLimits, TakeSnapshot
  <1>6. SentInv' /\ OneSubmit'
    <2> DEFINE j == Change(op, sheet.cur, with)
    <2>1. sent' = sent \cup {j} /\ AboutIts(j) /\ j.op = op /\ (op = "limits" => j.with = j.of)
      BY <1>1, <1>4, ChangeIs DEF OfContainers
    <2> HIDE DEF j
    <2> QED
      BY <1>5, <2>1, SentMore DEF SheetsInv
  <1>7. TopInv'
    BY <1>2, SameTop DEF SheetsInv
  <1> QED
    BY <1>2, <1>6, <1>7 DEF SheetsInv, SheetsTyped, AskingInv, AboutIts, CallsInv

LEMMA OpenIPKeeps ==
    ASSUME SheetsInv, NEW i \in IPs, OpenIP(i)
    PROVE  SheetsInv'
  <1>1. addr' \in AddrRecs
    BY DEF OpenIP, Placeholders, AddrRecs
  <1>2. SheetsTyped'
    BY <1>1 DEF OpenIP, SheetsInv, SheetsTyped, server_vars, close_vars
  <1>3. TopInv'
    BY OverSheet, ShownTop DEF OpenIP, SheetsInv, close_vars, Dialogs
  <1>4. SentInv' /\ OneSubmit'
    BY SentSame DEF OpenIP, SheetsInv
  <1>5. CallsInv'
    BY CallsMore, CallIs DEF OpenIP, SheetsInv
  <1>6. AskingInv'
    BY DEF OpenIP, SheetsInv, AskingInv
  <1> QED
    BY <1>2, <1>3, <1>4, <1>5, <1>6 DEF SheetsInv

LEMMA LoadLogsKeeps ==
    ASSUME SheetsInv, LoadLogs
    PROVE  SheetsInv'
  <1>1. UNCHANGED <<there, banned, top, sheet, addr, arg, form, asking, sent, busy, seq, ready>>
    BY DEF LoadLogs, server_vars, close_vars
  <1>2. CallsInv'
    BY CallsMore, CallIs DEF LoadLogs, SheetsInv
  <1>3. TopInv' /\ SentInv' /\ OneSubmit'
    BY <1>1, SameTop, SentSame DEF SheetsInv
  <1> QED
    BY <1>1, <1>2, <1>3 DEF SheetsInv, SheetsTyped, AskingInv

LEMMA FormKeeps ==
    ASSUME SheetsInv, NEW k, NEW v, OpenForm(k, v), ~IsOpen("confirm"),
           (k = "ban" /\ v \in IPs) \/ (k = "create" /\ v \in Containers)
    PROVE  SheetsInv'
  <1>1. /\ form' \in Forms
        /\ k = "ban" => form'.ban \in IPs /\ form'.create = form.create
        /\ k = "create" => form'.create \in Containers /\ form'.ban = form.ban
    <2>1. form \in Forms
      BY DEF SheetsInv, SheetsTyped
    <2>2. CASE k = "ban"
      BY <2>1, <2>2 DEF OpenForm, Forms
    <2>3. CASE k = "create"
      BY <2>1, <2>3 DEF OpenForm, Forms, Shows
    <2> QED
      BY <2>2, <2>3
  <1>2. TopInv'
    BY <1>1, ShownTop DEF OpenForm, SheetsInv, close_vars, Dialogs
  <1>3. SheetsTyped'
    BY <1>1 DEF OpenForm, SheetsInv, SheetsTyped, server_vars, close_vars
  <1>4. SentInv' /\ OneSubmit'
    BY SentSame DEF OpenForm, SheetsInv
  <1>5. AskingInv' /\ CallsInv'
    BY DEF OpenForm, SheetsInv, AskingInv, CallsInv
  <1> QED
    BY <1>2, <1>3, <1>4, <1>5 DEF SheetsInv

LEMMA OpenFormsKeep ==
    ASSUME SheetsInv, OpenBan \/ OpenCreate
    PROVE  SheetsInv'
  <1>1. CASE OpenCreate
    BY <1>1, FormKeeps, OverSheet DEF OpenCreate
  <1>2. ASSUME NEW i \in IPs, OnTop("page"), OpenForm("ban", i)
        PROVE  SheetsInv'
    BY <1>2, FormKeeps, OverSheet
  <1>3. ASSUME OnTop("address"), addr.offer # None, OpenForm("ban", addr.offer.of)
        PROVE  SheetsInv'
    <2>1. addr.offer.of \in IPs
      BY <1>3 DEF SheetsInv, SheetsTyped, AddrRecs, Offers
    <2> QED
      BY <1>3, <2>1, FormKeeps, OverSheet
  <1> QED
    BY <1>1, <1>2, <1>3 DEF OpenBan

LEMMA SubmitFormKeeps ==
    ASSUME SheetsInv, NEW k \in {"ban", "create"}, SubmitForm(k)
    PROVE  SheetsInv'
  <1>1. UNCHANGED <<there, banned, top, sheet, addr, arg, form, asking, calls, seq, ready>>
    BY DEF SubmitForm, server_vars, close_vars
  <1>2. IsOpen(k)
    BY OnTopIsOpen DEF SubmitForm, SheetsInv, Dialogs
  <1>3. form[k] \in IF k = "ban" THEN IPs ELSE Containers
    BY <1>2 DEF SheetsInv, TopInv
  <1> DEFINE j == Change(k, form[k], None)
  <1>4. sent' = sent \cup {j} /\ busy' = busy \cup {k} /\ k \notin busy
    BY DEF SubmitForm, Enabled
  <1>5. AboutIts(j) /\ j.op = k
    BY <1>3, ChangeIs DEF OfContainers, OfIPs
  <1> HIDE DEF j
  <1>6. SentInv' /\ OneSubmit'
    BY <1>4, <1>5, SentMore DEF SheetsInv
  <1>7. TopInv'
    BY <1>1, SameTop DEF SheetsInv
  <1> QED
    BY <1>1, <1>6, <1>7 DEF SheetsInv, SheetsTyped, AskingInv, AboutIts, CallsInv

\* The close dialog.
LEMMA AskPlanCalls ==
    ASSUME SheetsInv, NEW q, NEW act, AskPlan(q, act)
    PROVE  CallsInv' /\ seq' \in Nat /\ ready' \in BOOLEAN
  <1>1. PlanCall(q.of, act, seq + 1).what # "ip"
    BY DEF PlanCall
  <1>2. CallsInv'
    BY <1>1, CallsMore DEF AskPlan, SheetsInv
  <1>3. seq' \in Nat /\ ready' \in BOOLEAN
    BY DEF AskPlan, SheetsInv, SheetsTyped
  <1> QED
    BY <1>2, <1>3

LEMMA OpenCloseKeeps ==
    ASSUME SheetsInv, NEW c \in Containers, NEW rules \in BOOLEAN, OpenClose(c, rules)
    PROVE  SheetsInv'
  <1>1. UNCHANGED <<there, banned, sheet, addr, form, asking, sent, busy>>
    BY DEF OpenClose, server_vars
  <1>2. CallsInv' /\ seq' \in Nat /\ ready' \in BOOLEAN
    BY AskPlanCalls DEF OpenClose
  <1>3. ~IsOpen("confirm")
    BY OverSheet DEF OpenClose
  <1>4. top' = Show("close") /\ arg'.of = c
    BY DEF OpenClose
  <1>5. TopInv'
    BY <1>1, <1>3, <1>4, ShownTop DEF SheetsInv, Dialogs
  <1>6. SentInv' /\ OneSubmit'
    BY <1>1, SentSame DEF SheetsInv
  <1> QED
    BY <1>1, <1>2, <1>5, <1>6 DEF SheetsInv, SheetsTyped, AskingInv, AboutIts

LEMMA PickActionKeeps ==
    ASSUME SheetsInv, NEW act, PickAction(act)
    PROVE  SheetsInv'
  <1>1. UNCHANGED <<there, banned, top, arg, sheet, addr, form, asking, sent, busy>>
    BY DEF PickAction, server_vars
  <1>2. CallsInv' /\ seq' \in Nat /\ ready' \in BOOLEAN
    BY AskPlanCalls DEF PickAction
  <1>3. TopInv' /\ SentInv' /\ OneSubmit'
    BY <1>1, SameTop, SentSame DEF SheetsInv
  <1> QED
    BY <1>1, <1>2, <1>3 DEF SheetsInv, SheetsTyped, AskingInv, AboutIts

LEMMA SubmitCloseKeeps ==
    ASSUME SheetsInv, SubmitClose
    PROVE  SheetsInv'
  <1>1. UNCHANGED <<there, banned, arg, sheet, addr, form, asking, busy, calls, seq>>
    BY DEF SubmitClose, server_vars
  <1>2. CASE action = "rule"
    <2>1. top' = Closing("close") /\ UNCHANGED <<ready, sent>>
      BY <1>2 DEF SubmitClose
    <2>2. TopInv' /\ SentInv' /\ OneSubmit'
      BY <1>1, <2>1, ClosedTop, SentSame DEF SheetsInv
    <2> QED
      BY <1>1, <2>1, <2>2 DEF SheetsInv, SheetsTyped, AskingInv, AboutIts, CallsInv
  <1>3. CASE action # "rule"
    <2> DEFINE j == Change("close", arg.of, action)
    <2>1. ready' = FALSE /\ sent' = sent \cup {j} /\ UNCHANGED top
      BY <1>3 DEF SubmitClose
    <2>2. IsOpen("close")
      BY OnTopIsOpen DEF SubmitClose, SheetsInv, Dialogs
    <2>3. arg.of \in Containers
      BY <2>2 DEF SheetsInv, TopInv
    <2>4. AboutIts(j) /\ j.op = "close"
      BY <2>3, ChangeIs DEF OfContainers
    <2> HIDE DEF j
    <2>5. SentInv' /\ OneSubmit'
      BY <1>1, <2>1, <2>4, SentMore DEF SheetsInv
    <2>6. TopInv'
      BY <1>1, <2>1, SameTop DEF SheetsInv
    <2>7. ready' \in BOOLEAN
      BY <2>1
    <2> QED
      BY <1>1, <2>5, <2>6, <2>7 DEF SheetsInv, SheetsTyped, AskingInv, AboutIts, CallsInv
  <1> QED
    BY <1>2, <1>3

\* Answers.
LEMMA RenderTyped ==
    ASSUME SheetsInv, NEW c \in Containers, RenderSheet(c)
    PROVE  sheet' \in SheetRecs /\ \A k \in {"ban", "create"} : k \in busy => k \in busy'
  BY DEF RenderSheet, Rendered, SheetsInv, SheetsTyped, SheetRecs, Shows

LEMMA AnsweredKeeps ==
    ASSUME SheetsInv, PlanInv, NEW k \in calls, ~OfNobody(k), Answered(k)
    PROVE  SheetsInv'
  <1>1. UNCHANGED <<there, banned, top, form, asking, sent>>
    BY DEF Answered, server_vars
  <1>2. k.what \in {"inspect", "list", "snapshots", "logs", "ip", "plan"}
    BY DEF PlanInv, Others
  <1>3. k.what \in {"inspect", "snapshots", "logs"} => k.of \in Containers
    BY DEF OfNobody, SheetsInv, SheetsTyped
  <1>4. /\ sheet' \in SheetRecs /\ addr' \in AddrRecs
        /\ \A f \in {"ban", "create"} : f \in busy => f \in busy'
        /\ arg' = arg /\ seq' = seq /\ ready' \in BOOLEAN
    <2>0. sheet \in SheetRecs /\ addr \in AddrRecs /\ ready \in BOOLEAN
      BY DEF SheetsInv, SheetsTyped
    <2>1. CASE k.what = "inspect"
      BY <1>3, <2>0, <2>1, RenderTyped DEF Answered, close_vars
    <2>2. CASE k.what = "list"
      BY <2>0, <2>2 DEF Answered, close_vars
    <2>3. CASE k.what = "snapshots"
      BY <1>3, <2>0, <2>3 DEF Answered, close_vars, SheetRecs, Shows
    <2>4. CASE k.what = "logs"
      BY <1>3, <2>0, <2>4 DEF Answered, close_vars, SheetRecs, Shows
    <2>5. CASE k.what = "ip"
      <3>1. k.of \in IPs
        BY <2>5 DEF SheetsInv, CallsInv
      <3>2. /\ addr' = [addr EXCEPT !.facts = k.of,
                            !.offer = [of |-> k.of, what |-> IF k.of \in banned THEN "unban" ELSE "ban"]]
            /\ UNCHANGED <<sheet, busy, arg, seq, ready>>
        BY <2>5 DEF Answered, close_vars
      <3>3. [of |-> k.of, what |-> IF k.of \in banned THEN "unban" ELSE "ban"] \in Offers
        BY <3>1 DEF Offers
      <3>4. addr' \in AddrRecs
        BY <2>0, <3>1, <3>2, <3>3 DEF AddrRecs
      <3> QED
        BY <2>0, <3>2, <3>4
    <2>6. CASE k.what = "plan"
      BY <2>0, <2>6 DEF Answered, close_vars
    <2> QED
      BY <1>2, <2>1, <2>2, <2>3, <2>4, <2>5, <2>6
  <1>5. CallsInv'
    <2>1. calls' \subseteq calls \cup SnapCalls(k.of) \cup {Call("inspect", sheet.id)}
      BY <1>2 DEF Answered
    <2>2. \A l \in calls' : l \in calls \/ l.what # "ip"
      BY <2>1, CallIs DEF SnapCalls
    <2> QED
      BY <2>2, CallsMore DEF SheetsInv
  <1>6. TopInv' /\ SentInv' /\ OneSubmit'
    BY <1>1, <1>4, SameTop, SentSame DEF SheetsInv
  <1> QED
    BY <1>1, <1>4, <1>5, <1>6 DEF SheetsInv, SheetsTyped, AskingInv, AboutIts

LEMMA FailedKeeps ==
    ASSUME SheetsInv, NEW k \in calls, Failed(k)
    PROVE  SheetsInv'
  <1>1. UNCHANGED <<there, banned, top, form, asking, sent, busy, arg, seq, ready>>
    BY DEF Failed, server_vars, close_vars
  <1>2. sheet' \in SheetRecs /\ addr' \in AddrRecs
    <2>1. sheet \in SheetRecs /\ addr \in AddrRecs
      BY DEF SheetsInv, SheetsTyped
    <2> QED
      BY <2>1 DEF Failed, SheetRecs, AddrRecs
  <1>3. CallsInv'
    BY DEF Failed, SheetsInv, CallsInv
  <1>4. TopInv' /\ SentInv' /\ OneSubmit'
    BY <1>1, SameTop, SentSame DEF SheetsInv
  <1> QED
    BY <1>1, <1>2, <1>3, <1>4 DEF SheetsInv, SheetsTyped, AskingInv, AboutIts

\* A request that is answered frees no button but its own.
LEMMA SentLess ==
    ASSUME SentInv, OneSubmit, NEW j \in sent, sent' = sent \ {j},
           \A k \in {"ban", "create"} \ {j.op} : k \in busy => k \in busy'
    PROVE  SentInv' /\ OneSubmit'
  <1>1. ASSUME NEW k \in sent'
        PROVE  /\ AboutIts(k) /\ (k.op = "limits" => k.with = k.of)
               /\ k.op \in {"ban", "create"} => k.op \in busy'
    <2>1. k \in sent /\ k # j
      OBVIOUS
    <2>2. k.op \in {"ban", "create"} => k.op # j.op
      BY <2>1 DEF OneSubmit
    <2> QED
      BY <2>1, <2>2 DEF SentInv
  <1>2. SentInv'
    BY <1>1 DEF SentInv, AboutIts
  <1> QED
    BY <1>2 DEF OneSubmit

LEMMA SucceededKeeps ==
    ASSUME SheetsInv, NEW j \in sent, sent' = sent \ {j}, Succeeded(j), ready' \in BOOLEAN,
           UNCHANGED <<arg, seq, form, asking>>
    PROVE  SheetsInv'
  <1>1. AboutIts(j)
    BY DEF SheetsInv, SentInv
  <1>2. there' \subseteq Containers /\ banned' \subseteq IPs
    BY <1>1 DEF Succeeded, Served, SheetsInv, SheetsTyped, AboutIts, OfContainers, OfIPs
  <1>3. /\ sheet' \in SheetRecs /\ addr' \in AddrRecs
        /\ \A k \in {"ban", "create"} \ {j.op} : k \in busy => k \in busy'
        /\ CallsInv'
    <2>0. sheet \in SheetRecs /\ addr \in AddrRecs
      BY DEF SheetsInv, SheetsTyped
    <2>1. \A k \in Reloads(j) \cup SnapCalls(j.of) \cup {Call("list", None)} : k.what # "ip"
      BY CallIs DEF Reloads, SnapCalls
    <2>2. CASE j.op \in {"ports", "limits"} \/ (j.op = "close" /\ IsOpen("container") /\ sheet.cur = j.of)
      <3>1. RenderSheet(j.of) /\ calls' = calls \cup Reloads(j) \cup SnapCalls(j.of) /\ UNCHANGED addr
        BY <2>2 DEF Succeeded
      <3>2. j.of \in Containers
        BY <1>1, <2>2 DEF AboutIts, OfContainers
      <3>3. CallsInv'
        BY <2>1, <3>1, CallsMore DEF SheetsInv
      <3> QED
        BY <2>0, <3>1, <3>2, <3>3, RenderTyped
    <2>3. CASE ~(j.op \in {"ports", "limits"} \/ (j.op = "close" /\ IsOpen("container") /\ sheet.cur = j.of))
               /\ j.op = "unban" /\ IsOpen("address")
      <3>1. addr' = Placeholders(j.of) /\ calls' = calls \cup {Call("ip", j.of)} /\ UNCHANGED <<sheet, busy>>
        BY <2>3 DEF Succeeded
      <3>2. j.of \in IPs
        BY <1>1, <2>3 DEF AboutIts, OfIPs
      <3>3. addr' \in AddrRecs
        BY <3>1, <3>2 DEF Placeholders, AddrRecs
      <3>4. CallsInv'
        BY <3>1, <3>2, CallsMore, CallIs DEF SheetsInv
      <3> QED
        BY <2>0, <3>1, <3>3, <3>4
    <2>4. CASE ~(j.op \in {"ports", "limits"} \/ (j.op = "close" /\ IsOpen("container") /\ sheet.cur = j.of))
               /\ ~(j.op = "unban" /\ IsOpen("address"))
      <3>1. /\ calls' = calls \cup Reloads(j) \cup (IF j.op = "create" THEN {Call("list", None)} ELSE {})
            /\ busy' = busy \ {j.op} /\ UNCHANGED <<sheet, addr>>
        BY <2>4 DEF Succeeded
      <3>2. CallsInv'
        BY <2>1, <3>1, CallsMore DEF SheetsInv
      <3> QED
        BY <2>0, <3>1, <3>2
    <2> QED
      BY <2>2, <2>3, <2>4
  <1>4. SentInv' /\ OneSubmit'
    BY <1>3, SentLess DEF SheetsInv
  <1>5. TopInv'
    <2>1. top' = top \/ \E d : top' = Closing(d)
      BY DEF Succeeded
    <2> QED
      BY <2>1, ClosedTop, SameTop DEF SheetsInv
  <1> QED
    BY <1>2, <1>3, <1>4, <1>5 DEF SheetsInv, SheetsTyped, AskingInv, AboutIts

LEMMA NotDoneKeeps ==
    ASSUME SheetsInv, NEW j \in sent, sent' = sent \ {j}, NotDone(j), ready' \in BOOLEAN,
           UNCHANGED <<arg, seq, form, asking>>
    PROVE  SheetsInv'
  <1>1. UNCHANGED <<there, banned, top, sheet, addr>> /\ busy' = busy \ {j.op}
    BY DEF NotDone, server_vars
  <1>2. \A k \in Reloads(j) : k.what # "ip"
    BY CallIs DEF Reloads
  <1>3. CallsInv'
    BY <1>2, CallsMore DEF NotDone, SheetsInv
  <1>4. SentInv' /\ OneSubmit'
    BY <1>1, SentLess DEF SheetsInv
  <1>5. TopInv'
    BY <1>1, SameTop DEF SheetsInv
  <1> QED
    BY <1>1, <1>3, <1>4, <1>5 DEF SheetsInv, SheetsTyped, AskingInv, AboutIts

LEMMA SheetsFirst ==
    ASSUME SheetsInit
    PROVE  SheetsInv
  <1>1. sheet \in SheetRecs /\ addr \in AddrRecs /\ form \in Forms
    BY DEF SheetsInit, SheetRecs, AddrRecs, Forms, Shows
  <1>2. top \in Seq(Dialogs) /\ top = <<>>
    BY DEF SheetsInit
  <1>3. TopInv
    BY <1>2 DEF TopInv, IsOpen
  <1>4. SheetsTyped
    BY <1>1 DEF SheetsInit, SheetsTyped
  <1>5. SentInv /\ OneSubmit /\ CallsInv /\ AskingInv
    BY DEF SheetsInit, SentInv, OneSubmit, CallsInv, AskingInv
  <1> QED
    BY <1>3, <1>4, <1>5 DEF SheetsInv

LEMMA SheetsStep ==
    ASSUME SheetsInv, PlanInv, SheetInv, [Next]_desk_vars
    PROVE  SheetsInv'
  <1>1. CASE Operator
    BY <1>1, CloseTopKeeps, SaysOKKeeps, OpenSheetKeeps, ButtonsKeep, LoadLogsKeeps, AsksKeep, OpenIPKeeps,
       OpenFormsKeep, SubmitFormKeeps, OpenCloseKeeps, PickActionKeeps, SubmitCloseKeeps DEF Operator
  <1>2. ASSUME NEW k \in calls, AnswerTo(k)
        PROVE  SheetsInv'
    BY <1>2, AnsweredKeeps, FailedKeeps DEF AnswerTo
  <1>3. ASSUME NEW j \in sent, JobDone(j)
        PROVE  SheetsInv'
    <2>1. sent' = sent \ {j} /\ UNCHANGED <<arg, seq, form, asking>>
      BY <1>3 DEF JobDone
    <2>2. ready' \in BOOLEAN
      BY <1>3 DEF JobDone, SheetsInv, SheetsTyped
    <2> QED
      BY <1>3, <2>1, <2>2, SucceededKeeps, NotDoneKeeps DEF JobDone
  <1>4. CASE UNCHANGED sheets_vars
    <2>1. UNCHANGED <<there, banned, top, sheet, addr, arg, form, asking, sent, busy, calls, seq, ready>>
      BY <1>4 DEF sheets_vars, server_vars, close_vars
    <2>2. TopInv' /\ SentInv' /\ OneSubmit'
      BY <2>1, SameTop, SentSame DEF SheetsInv
    <2> QED
      BY <2>1, <2>2 DEF SheetsInv, SheetsTyped, AskingInv, AboutIts, CallsInv
  <1> QED
    BY <1>1, <1>2, <1>3, <1>4 DEF Next, SheetsNext, desk_vars

LEMMA SheetsTrue ==
    ASSUME SheetsInv, SheetInv
    PROVE  SheetsHold
  <1>1. \A i \in DOMAIN top : top[i] \in Dialogs
    BY DEF SheetsInv, TopInv
  <1>2. ConfirmOnTop /\ FormsFilled
    BY DEF ConfirmOnTop, FormsFilled, SheetsInv, TopInv
  <1>3. SheetsTypeOK
    BY <1>1 DEF SheetsTypeOK, SheetsInv, SheetsTyped, SheetRecs, AddrRecs, Shows
  <1>4. LimitsOfCur /\ OffWhileSent
    BY DEF LimitsOfCur, OffWhileSent, SheetsInv, SentInv
  <1> QED
    BY <1>2, <1>3, <1>4 DEF SheetsHold, SheetsInv, SheetInv

\* The sheets and dialogs hold for any containers, addresses, clicks and
\* losses: a confirmation lies on top and has its question, an open form has its
\* subject, facts are of the title, limits go to the container they are of, and
\* a form has one submission out, with its button off (app.js).
THEOREM SheetsAlwaysHold == Spec => []SheetsHold
  <1>1. Init => PlanInv /\ SheetInv /\ SheetsInv
    <2>1. Init => SheetInv
      BY SheetsAssumption DEF Init, SheetsInit, SheetInv, FactsAreOfTitle
    <2>2. Init => SheetsInv
      BY SheetsFirst DEF Init
    <2> QED
      BY <2>1, <2>2, PlanInit
  <1>2. PlanInv /\ SheetInv /\ SheetsInv /\ [Next]_desk_vars => (PlanInv /\ SheetInv /\ SheetsInv)'
    BY PlanStep, SheetStep, SheetsStep
  <1>3. SheetsInv /\ SheetInv => SheetsHold
    BY SheetsTrue
  <1> QED
    BY <1>1, <1>2, <1>3, PTL DEF Spec

-----------------------------------------------------------------------------
(* The map.                                                                *)

\* A device that stays on the map is moved only by hand.
Put == \A id \in DOMAIN pos \cap DOMAIN pos' :
         pos'[id] # pos[id] =>
             \/ drag.kind = "node" /\ drag.of = id /\ UNCHANGED data
             \/ pinned' = {}

LEMMA SamePlaces ==
    ASSUME UNCHANGED pos
    PROVE  Put
  BY DEF Put

LEMMA DrawnPut ==
    ASSUME NEW d, NEW o, NEW x, RenderMap(d, o, x)
    PROVE  Put
  BY DEF RenderMap, PosOf, Put

LEMMA HandsPut ==
    ASSUME Hands
    PROVE  Put
  <1>1. ASSUME NEW at \in Spots, DragNode(at)
        PROVE  Put
    <2>1. pos' = pos \/ pos' = [pos EXCEPT ![drag.of] = at]
      BY <1>1 DEF DragNode
    <2>2. drag.kind = "node" /\ UNCHANGED data
      BY <1>1 DEF DragNode, page_vars
    <2> QED
      BY <2>1, <2>2 DEF Put
  <1>2. CASE GrabHandle \/ CableFromCard \/ SecondFinger \/ PullCable \/ Pan \/ Escape
    BY <1>2, SamePlaces DEF GrabHandle, CableFromCard, SecondFinger, PullCable, Pan, Escape, map_vars
  <1>3. CASE DownSomewhere
    BY <1>3, SamePlaces DEF DownSomewhere, Down, map_vars
  <1>4. CASE Up
    BY <1>4, SamePlaces DEF Up, UpCable, UpMoved, UpClick, UpNothing, map_vars
  <1> QED
    BY <1>1, <1>2, <1>3, <1>4 DEF Hands

LEMMA ButtonsPut ==
    ASSUME Buttons
    PROVE  Put
  <1>1. CASE Relayout
    BY <1>1 DEF Relayout, Put
  <1>2. ASSUME NEW o, NEW x, Redraw(o, x)
        PROVE  Put
    BY <1>2, DrawnPut DEF Redraw
  <1>3. CASE (\E o \in {"all", "running"} : ShowOnly(o)) \/ Expand \/ Collapse
    BY <1>2, <1>3 DEF ShowOnly, Expand, Collapse
  <1>4. CASE (\E c \in Touched : StartPatch(c)) \/ DropPatch \/ (\E c \in Touched, n \in Nets : Jack(c, n))
             \/ Press \/ DeleteNetwork \/ InDialog \/ (\E c \in Touched : Focus(c)) \/ Navigate
    BY <1>4, SamePlaces DEF StartPatch, DropPatch, Jack, Press, DeleteNetwork, InDialog, Focus,
       Navigate, map_vars
  <1> QED
    BY <1>1, <1>3, <1>4 DEF Buttons

LEMMA MapPut ==
    ASSUME MapNext
    PROVE  Put
  <1>1. CASE Answer
    BY <1>1, DrawnPut, SamePlaces DEF Answer, map_vars
  <1>2. CASE (\E j \in jobs : Finish(j)) \/ Tick \/ Elsewhere
    BY <1>2, SamePlaces DEF Finish, Tick, Elsewhere, map_vars
  <1>3. CASE Reload
    BY <1>3 DEF Reload, Nowhere, Put
  <1> QED
    BY <1>1, <1>2, <1>3, HandsPut, ButtonsPut DEF MapNext

\* No answer, filter or fold shifts a device that stays on the map: only the
\* operator's pointer and "Arrange again" do.
THEOREM DevicesStay == Spec => StaysPut
  <1>1. [Next]_desk_vars => [Put]_networkmap_vars
    BY MapPut DEF Next, desk_vars
  <1> QED
    BY <1>1, PTL DEF Spec, StaysPut, Put

-----------------------------------------------------------------------------
(* The map's devices, cables and requests.                                 *)

LEMMA Kinds ==
    /\ \A c : IsCt(Ct(c)) /\ ~IsNet(Ct(c)) /\ ~IsStack(Ct(c)) /\ Ct(c)[2] = c
    /\ \A n : IsNet(Net(n)) /\ ~IsCt(Net(n)) /\ ~IsStack(Net(n)) /\ Net(n)[2] = n
    /\ \A k : IsStack(Stack(k)) /\ ~IsCt(Stack(k)) /\ ~IsNet(Stack(k)) /\ Stack(k)[2] = k
    /\ ~IsCt(Host) /\ ~IsNet(Host) /\ ~IsStack(Host)
    /\ ~IsCt(NoNode) /\ ~IsNet(NoNode) /\ ~IsStack(NoNode)
  BY DEF IsCt, IsNet, IsStack, Ct, Net, Stack, Host, NoNode

LEMMA ShownIs ==
    ASSUME NEW d, IsListing(d), NEW o
    PROVE  Shown(d, o) \subseteq d.there /\ \A c \in d.there : d.on[c] \subseteq d.nets
  BY DEF IsListing, Shown

\* A device of the map is a network of the answer or a container that is shown.
LEMMA NodeIs ==
    ASSUME NEW d, NEW o, NEW x, NEW id \in Nodes(d, o, x)
    PROVE  /\ IsNet(id) => id[2] \in d.nets /\ id = Net(id[2])
           /\ IsCt(id) => id[2] \in Shown(d, o) /\ id = Ct(id[2])
           /\ id # NoNode
  <1> DEFINE folds == Folds(d, o, x)
             single == Shown(d, o) \ UNION {Replicas(d, o, k) : k \in folds}
  <1>1. id \in {Net(n) : n \in d.nets} \cup {Stack(k) : k \in folds} \cup {Ct(c) : c \in single}
               \cup {Host : c \in HostMode \cap single}
    BY DEF Nodes
  <1>2. single \subseteq Shown(d, o)
    OBVIOUS
  <1> HIDE DEF folds, single
  <1>3. \/ \E n \in d.nets : id = Net(n)
        \/ \E k \in folds : id = Stack(k)
        \/ \E c \in single : id = Ct(c)
        \/ id = Host
    BY <1>1
  <1>4. CASE \E n \in d.nets : id = Net(n)
    BY <1>4, Kinds
  <1>5. CASE \E k \in folds : id = Stack(k)
    BY <1>5, Kinds
  <1>6. CASE \E c \in single : id = Ct(c)
    BY <1>2, <1>6, Kinds
  <1>7. CASE id = Host
    BY <1>7, Kinds DEF Host, NoNode
  <1> QED
    BY <1>3, <1>4, <1>5, <1>6, <1>7

\* Every container that is shown has its device, with all of its cables.
LEMMA NoneLost ==
    ASSUME NEW d, IsListing(d), NEW o, NEW x, NEW ns, ns = Nodes(d, o, x), NEW c \in Shown(d, o),
           NEW v, v = IF Ct(c) \in ns THEN Ct(c) ELSE Stack(Sig(d, c))
    PROVE  v \in ns /\ {n \in d.nets : <<v, n>> \in Edges(d, o, ns)} = d.on[c]
  <1> DEFINE folds == Folds(d, o, x)
             single == Shown(d, o) \ UNION {Replicas(d, o, k) : k \in folds}
  <1>1. ns = {Net(n) : n \in d.nets} \cup {Stack(k) : k \in folds} \cup {Ct(b) : b \in single}
             \cup {Host : b \in HostMode \cap single}
    BY DEF Nodes
  <1>2. d.on[c] \subseteq d.nets
    BY ShownIs
  <1>3. ASSUME NEW n \in d.nets, v \in ns
        PROVE  <<v, n>> \in Edges(d, o, ns) <=>
                   \/ IsCt(v) /\ n \in d.on[v[2]]
                   \/ IsStack(v) /\ n \in d.on[CHOOSE b \in Replicas(d, o, v[2]) : TRUE]
    <2>1. <<v, n>> \in ns \X d.nets /\ <<v, n>>[1] = v /\ <<v, n>>[2] = n
      BY <1>3
    <2> QED
      BY <2>1 DEF Edges
  <1>4. CASE Ct(c) \in ns
    <2>1. v = Ct(c) /\ v \in ns /\ IsCt(v) /\ ~IsStack(v) /\ v[2] = c
      BY <1>4, Kinds
    <2>2. \A n \in d.nets : <<v, n>> \in Edges(d, o, ns) <=> n \in d.on[c]
      BY <1>3, <2>1
    <2> QED
      BY <1>2, <2>1, <2>2
  <1>5. CASE Ct(c) \notin ns
    <2>1. c \notin single
      BY <1>1, <1>5
    <2>2. PICK k \in folds : c \in Replicas(d, o, k)
      BY <2>1
    <2>3. Sig(d, c) = k
      BY <2>2 DEF Replicas
    <2>4. v = Stack(k) /\ v \in ns /\ IsStack(v) /\ ~IsCt(v) /\ v[2] = k
      BY <1>1, <1>5, <2>2, <2>3, Kinds
    <2> DEFINE r == CHOOSE b \in Replicas(d, o, k) : TRUE
    <2>5. r \in Replicas(d, o, k)
      BY <2>2
    <2>6. Sig(d, r) = k
      BY <2>5 DEF Replicas
    <2>7. d.on[r] = d.on[c]
      BY <2>3, <2>6 DEF Sig
    <2>8. \A n \in d.nets : <<v, n>> \in Edges(d, o, ns) <=> n \in d.on[r]
      BY <1>3, <2>4
    <2> QED
      BY <1>2, <2>4, <2>7, <2>8
  <1> QED
    BY <1>4, <1>5

Spaces == Spots \cup {Home}
PlacesInv ==
    /\ IsListing(data)
    /\ pos \in [Nodes(data, only, expanded) -> Spaces] /\ saved \in [DOMAIN saved -> Spaces]

\* A gesture is under way while a pointer is down; the device under it is where
\* it was put, as long as no answer has redrawn it.
GestureInv ==
    /\ ptrs \in 0..2 /\ (drag.kind # "none" => ptrs > 0)
    /\ drag = [kind |-> drag.kind, of |-> drag.of, net |-> drag.net, live |-> drag.live, moved |-> drag.moved]
    /\ drag.live \in BOOLEAN /\ drag.moved \in BOOLEAN
    /\ drag.kind = "node" /\ drag.live => drag.of \in DOMAIN pos
    /\ drag.kind = "node" /\ drag.live /\ drag.moved =>
           drag.of \in Handled /\ drag.of \in pinned /\ pos[drag.of] = left[drag.of]

\* What the operator moved is remembered; on the map it is pinned there.
KeptInv ==
    /\ left \in [Handled -> Spaces]
    /\ \A id \in Handled \ (loose \cup forgotten) : left[id] # Home =>
          /\ id \in DOMAIN saved /\ saved[id] = left[id]
          /\ id \in DOMAIN pos => pos[id] = left[id] /\ id \in pinned
CardInv == card.up \in BOOLEAN /\ CardIsCurrent

\* A cable hangs from an open device and ends at what it may plug into.
CableInv ==
    /\ cable = [from |-> cable.from, target |-> cable.target, armed |-> cable.armed]
    /\ cable # NoCable => Open(cable.from)
    /\ cable.target # NoNode =>
           cable # NoCable /\ (IsNet(cable.target) => cable.target[2] \in Nets \ Closed)
    /\ patch # NoCt => Open(Ct(patch))

Ops == {"start", "stop", "delete", "disconnect", "connect", "pair", "pair again"}
Joins == {"connect", "pair", "pair again"}
GoodJob(j) ==
    /\ ~readOnly /\ j.op \in Ops
    /\ j.op \in Joins => j.c \notin Locked /\ j.n \in Nets \ Closed
    /\ j.op = "pair" /\ j.next # NoCt => j.next \notin Locked
    /\ j.op \in {"start", "stop"} => j.c \notin Self
    /\ j.op = "delete" => j.n \notin Builtin
DialogInv ==
    /\ dialog.kind \in {"none", "confirm", "connect"}
    /\ dialog.kind = "confirm" => GoodJob(dialog.job)
    /\ dialog.kind = "connect" =>
           ~readOnly /\ dialog.from \notin Locked /\ dialog.to \notin Locked /\ dialog.join \subseteq Nets \ Closed
JobsInv == \A j \in jobs : GoodJob(j)
WorldInv == IsListing(server) /\ asks \in 0..MaxAsks
MapInv ==
    /\ WorldInv /\ PlacesInv /\ GestureInv /\ KeptInv /\ CardInv
    /\ CableInv /\ DialogInv /\ JobsInv

\* What a step leaves alone.
LEMMA MapSame ==
    ASSUME MapInv
    PROVE  /\ UNCHANGED <<server, asks>> => WorldInv'
           /\ UNCHANGED <<data, only, expanded, pos, saved>> => PlacesInv'
           /\ UNCHANGED <<ptrs, drag, pos, pinned, left>> => GestureInv'
           /\ UNCHANGED <<pos, pinned, saved, left, loose, forgotten>> => KeptInv'
           /\ UNCHANGED <<card, data>> => CardInv'
           /\ UNCHANGED <<cable, patch, readOnly>> => CableInv'
           /\ UNCHANGED <<dialog, readOnly>> => DialogInv'
           /\ UNCHANGED <<jobs, readOnly>> => JobsInv'
  <1>1. UNCHANGED <<server, asks>> => WorldInv'
    BY DEF MapInv, WorldInv, IsListing
  <1>2. UNCHANGED <<data, only, expanded, pos, saved>> => PlacesInv'
    BY DEF MapInv, PlacesInv, IsListing
  <1>3. UNCHANGED <<ptrs, drag, pos, pinned, left>> => GestureInv'
    BY DEF MapInv, GestureInv
  <1>4. UNCHANGED <<pos, pinned, saved, left, loose, forgotten>> => KeptInv'
    BY DEF MapInv, KeptInv
  <1>5. UNCHANGED <<card, data>> => CardInv'
    BY DEF MapInv, CardInv, CardIsCurrent
  <1>6. UNCHANGED <<cable, patch, readOnly>> => CableInv'
    BY DEF MapInv, CableInv, Open
  <1>7. UNCHANGED <<dialog, readOnly>> => DialogInv'
    BY DEF MapInv, DialogInv, GoodJob
  <1>8. UNCHANGED <<jobs, readOnly>> => JobsInv'
    BY DEF MapInv, JobsInv, GoodJob
  <1> QED
    BY <1>1, <1>2, <1>3, <1>4, <1>5, <1>6, <1>7, <1>8

LEMMA CardIs ==
    ASSUME NEW id, NEW d, NEW ns, NEW k, k = CardOf(id, d, ns)
    PROVE  /\ k.up \in BOOLEAN
           /\ IsCt(k.of) => k.of[2] \in d.there /\ (k.up <=> k.of[2] \in d.up)
  <1>1. CASE k = [of |-> id, up |-> IsCt(id) /\ id[2] \in d.up] /\ (IsCt(id) => id[2] \in d.there)
    <2>1. k.of = id /\ k.up = (IsCt(id) /\ id[2] \in d.up)
      BY <1>1
    <2> QED
      BY <1>1, <2>1
  <1>2. CASE k = NoCard
    BY <1>2, Kinds DEF NoCard
  <1> QED
    BY <1>1, <1>2 DEF CardOf

\* renderMap, whatever of the answer and the filters has changed.
LEMMA RenderMapKeeps ==
    ASSUME MapInv, NEW d, IsListing(d), NEW o, NEW x, RenderMap(d, o, x),
           data' = d, only' = o, expanded' = x, UNCHANGED <<ptrs, left, loose, forgotten>>
    PROVE  PlacesInv' /\ GestureInv' /\ KeptInv' /\ CardInv'
  <1> DEFINE ns == Nodes(d, o, x)
  <1>0. pos \in [Nodes(data, only, expanded) -> Spaces] /\ saved \in [DOMAIN saved -> Spaces]
    BY DEF MapInv, PlacesInv
  <1>1. /\ pos' = [id \in ns |-> PosOf(id)] /\ pinned' = pinned \cup (DOMAIN saved \cap ns)
        /\ card' = CardOf(sel', d, ns) /\ drag' = [drag EXCEPT !.live = FALSE] /\ UNCHANGED saved
    BY DEF RenderMap
  <1>2. \A id : PosOf(id) \in Spaces
    BY <1>0 DEF PosOf, Spaces
  <1> HIDE DEF ns
  <1>3. pos' \in [ns -> Spaces] /\ DOMAIN pos' = ns
    BY <1>1, <1>2
  <1>4. PlacesInv'
    BY <1>0, <1>1, <1>3 DEF PlacesInv, ns
  <1>5. GestureInv'
    BY <1>1 DEF MapInv, GestureInv
  <1>6. ASSUME NEW id \in Handled \ (loose \cup forgotten), left[id] # Home
        PROVE  /\ id \in DOMAIN saved /\ saved[id] = left[id]
               /\ id \in ns => PosOf(id) = left[id] /\ id \in pinned'
    <2>1. /\ id \in DOMAIN saved /\ saved[id] = left[id]
          /\ id \in DOMAIN pos => pos[id] = left[id] /\ id \in pinned
      BY <1>6 DEF MapInv, KeptInv
    <2> QED
      BY <1>1, <2>1 DEF PosOf
  <1>7. KeptInv'
    BY <1>1, <1>3, <1>6 DEF MapInv, KeptInv
  <1>8. CardInv'
    BY <1>1, CardIs DEF CardInv, CardIsCurrent
  <1> QED
    BY <1>4, <1>5, <1>7, <1>8

LEMMA AnswerKeepsMap ==
    ASSUME MapInv, Answer
    PROVE  MapInv'
  <1>1. UNCHANGED <<server, readOnly, cable, ptrs, patch, only, expanded, dialog, jobs, left, loose, forgotten>>
    BY DEF Answer, history_vars
  <1>2. WorldInv'
    <2>1. asks \in 0..MaxAsks /\ asks > 0 /\ asks' = asks - 1 /\ MaxAsks \in Nat
      BY NetworkMapAssumption DEF Answer, MapInv, WorldInv
    <2> QED
      BY <1>1, <2>1 DEF MapInv, WorldInv, IsListing
  <1>3. CASE data' = server /\ RenderMap(server, only, expanded)
    <2>1. IsListing(server)
      BY DEF MapInv, WorldInv
    <2> QED
      BY <1>1, <1>2, <1>3, <2>1, RenderMapKeeps, MapSame DEF MapInv
  <1>4. CASE UNCHANGED <<data, map_vars, drag>>
    BY <1>1, <1>2, <1>4, MapSame DEF MapInv, map_vars
  <1> QED
    BY <1>3, <1>4 DEF Answer

-----------------------------------------------------------------------------
LEMMA CableStarts ==
    ASSUME MapInv, GrabHandle \/ CableFromCard
    PROVE  MapInv'
  <1>1. UNCHANGED <<server, asks, data, only, expanded, pos, pinned, saved, card, left, loose, forgotten,
                    patch, readOnly, dialog, jobs>>
    BY DEF GrabHandle, CableFromCard, map_vars, page_vars, history_vars
  <1>2. PICK id : Open(id) /\ (cable' = [NoCable EXCEPT !.from = id]
                               \/ cable' = [[NoCable EXCEPT !.from = id] EXCEPT !.armed = TRUE])
    BY DEF GrabHandle, CableFromCard, HandleShown
  <1>3. cable' = [from |-> id, target |-> NoNode, armed |-> FALSE]
        \/ cable' = [from |-> id, target |-> NoNode, armed |-> TRUE]
    BY <1>2 DEF NoCable
  <1>4. CableInv'
    BY <1>1, <1>2, <1>3 DEF MapInv, CableInv, Open
  <1>5. CASE GrabHandle
    <2>1. ptrs' = 1 /\ drag' = Drag("cable", NoNode, NoNet)
      BY <1>5 DEF GrabHandle
    <2>2. /\ drag' = [kind |-> drag'.kind, of |-> drag'.of, net |-> drag'.net, live |-> drag'.live, moved |-> drag'.moved]
          /\ drag'.kind = "cable" /\ drag'.live = TRUE /\ drag'.moved = FALSE
      BY <2>1 DEF Drag
    <2>3. ptrs' \in 0..2 /\ ptrs' > 0
      BY <2>1
    <2>4. GestureInv'
      <3> HIDE DEF Drag
      <3> QED
        BY <2>2, <2>3, Zenon DEF GestureInv
    <2> QED
      BY <1>1, <1>4, <2>4, MapSame DEF MapInv
  <1>6. CASE CableFromCard
    <2>1. UNCHANGED <<drag, ptrs>>
      BY <1>6 DEF CableFromCard
    <2> QED
      BY <1>1, <1>4, <2>1, MapSame DEF MapInv
  <1> QED
    BY <1>5, <1>6

LEMMA DownKeeps ==
    ASSUME MapInv, DownSomewhere \/ SecondFinger \/ Pan
    PROVE  MapInv'
  <1>1. UNCHANGED <<server, asks, data, only, expanded, pos, pinned, saved, card, left, loose, forgotten,
                    cable, patch, readOnly, dialog, jobs>>
    BY DEF DownSomewhere, Down, SecondFinger, Pan, map_vars, page_vars, history_vars
  <1>2. GestureInv'
    <2>1. CASE SecondFinger
      BY <1>1, <2>1 DEF SecondFinger, MapInv, GestureInv, Drag
    <2>2. CASE Pan
      <3>1. drag' = [drag EXCEPT !.moved = TRUE] /\ drag.kind \in {"pan", "edge"} /\ UNCHANGED ptrs
        BY <2>2 DEF Pan
      <3> QED
        BY <1>1, <3>1 DEF MapInv, GestureInv
    <2>3. ASSUME NEW d, Down(d), d.kind = "node" => d.of \in DOMAIN pos,
                 \E kind, id, n : d = Drag(kind, id, n)
          PROVE  GestureInv'
      <3>1. ptrs' = 1 /\ (drag' = drag \/ drag' = d)
        BY <2>3 DEF Down
      <3>2. PICK kind, id, n : d = Drag(kind, id, n)
        BY <2>3
      <3>3. CASE drag' = drag
        BY <1>1, <3>1, <3>3 DEF MapInv, GestureInv
      <3>4. CASE drag' = d
        BY <1>1, <2>3, <3>1, <3>2, <3>4 DEF GestureInv, Drag
      <3> QED
        BY <3>1, <3>3, <3>4
    <2>4. CASE DownSomewhere
      <3>1. ASSUME NEW id \in DOMAIN pos, Down(Drag("node", id, NoNet))
            PROVE  GestureInv'
        <4>1. Drag("node", id, NoNet).of = id
          BY DEF Drag
        <4> QED
          BY <2>3, <3>1, <4>1
      <3>2. ASSUME NEW e, Down(Drag("edge", e[1], e[2]))
            PROVE  GestureInv'
        <4>1. Drag("edge", e[1], e[2]).kind = "edge"
          BY DEF Drag
        <4> QED
          BY <2>3, <3>2, <4>1
      <3>3. ASSUME Down(Drag("pan", NoNode, NoNet))
            PROVE  GestureInv'
        <4>1. Drag("pan", NoNode, NoNet).kind = "pan"
          BY DEF Drag
        <4> QED
          BY <2>3, <3>3, <4>1
      <3> QED
        BY <2>4, <3>1, <3>2, <3>3 DEF DownSomewhere
    <2> QED
      BY <2>1, <2>2, <2>4
  <1> QED
    BY <1>1, <1>2, MapSame DEF MapInv

\* A request that is well chosen.
LEMMA PostKeeps ==
    ASSUME JobsInv, NEW j, GoodJob(j), Post(j), UNCHANGED readOnly
    PROVE  JobsInv'
  BY DEF JobsInv, GoodJob, Post

LEMMA AskedKeeps ==
    ASSUME NEW j, GoodJob(j), dialog' = Confirm(j), UNCHANGED readOnly
    PROVE  DialogInv'
  <1>1. dialog'.kind = "confirm" /\ dialog'.job = j
    BY DEF Confirm
  <1> QED
    BY <1>1 DEF DialogInv, GoodJob

LEMMA ClosedKeeps ==
    ASSUME dialog' = NoDialog
    PROVE  DialogInv'
  BY DEF DialogInv, NoDialog

LEMMA ConnectIs ==
    ASSUME IsListing(data), ~readOnly, NEW a, a \notin Locked, NEW b,
           dialog' = ConnectDialog(a, b), UNCHANGED readOnly
    PROVE  DialogInv'
  <1>1. CASE dialog' = NoDialog
    BY <1>1, ClosedKeeps
  <1>2. CASE /\ b \in data.there /\ b \notin Locked
             /\ dialog' = [kind |-> "connect", from |-> a, to |-> b, join |-> Joinable(a, b)]
    <2>1. data.on[b] \subseteq Nets
      BY <1>2 DEF IsListing
    <2>2. Joinable(a, b) \subseteq Nets \ Closed
      BY <2>1 DEF Joinable
    <2>3. dialog'.kind = "connect" /\ dialog'.from = a /\ dialog'.to = b /\ dialog'.join = Joinable(a, b)
      BY <1>2
    <2> QED
      BY <1>2, <2>2, <2>3 DEF DialogInv
  <1> QED
    BY <1>1, <1>2 DEF ConnectDialog

LEMMA PlugKeeps ==
    ASSUME MapInv, ~readOnly, NEW from, from \notin Locked,
           NEW t, IsNet(t) => t[2] \in Nets \ Closed, Plug(from, t), UNCHANGED readOnly
    PROVE  DialogInv' /\ JobsInv'
  <1>1. CASE IsNet(t)
    <2> DEFINE j == Job("connect", from, t[2], NoCt)
    <2>1. Post(j) /\ UNCHANGED dialog
      BY <1>1 DEF Plug
    <2>2. GoodJob(j)
      BY <1>1 DEF GoodJob, Job, Ops, Joins
    <2> HIDE DEF j
    <2> QED
      BY <2>1, <2>2, PostKeeps, MapSame DEF MapInv
  <1>2. CASE ~IsNet(t)
    <2>1. dialog' = ConnectDialog(from, t[2]) /\ UNCHANGED jobs
      BY <1>2 DEF Plug
    <2>2. IsListing(data)
      BY DEF MapInv, PlacesInv
    <2>3. DialogInv'
      BY <2>1, <2>2, ConnectIs
    <2> QED
      BY <2>1, <2>3, MapSame DEF MapInv
  <1> QED
    BY <1>1, <1>2

LEMMA DisconnectKeeps ==
    ASSUME MapInv, NEW c, NEW n, Disconnect(c, n), UNCHANGED readOnly
    PROVE  DialogInv'
  <1>1. CASE UNCHANGED dialog
    BY <1>1, MapSame
  <1>2. CASE ~readOnly /\ dialog' = Confirm(Job("disconnect", c, n, NoCt))
    <2>1. GoodJob(Job("disconnect", c, n, NoCt))
      BY <1>2 DEF GoodJob, Job, Ops, Joins
    <2> QED
      BY <1>2, <2>1, AskedKeeps
  <1> QED
    BY <1>1, <1>2 DEF Disconnect

LEMMA PullCableKeeps ==
    ASSUME MapInv, PullCable
    PROVE  MapInv'
  <1>1. UNCHANGED <<server, asks, data, only, expanded, pos, pinned, saved, card, left, loose, forgotten,
                    ptrs, patch, readOnly, dialog, jobs>>
    BY DEF PullCable, map_vars, page_vars, history_vars
  <1>2. PICK t \in {id \in DOMAIN pos : MayPlug(id)} \cup {NoNode} : cable' = [cable EXCEPT !.target = t]
    BY DEF PullCable
  <1>3. cable' = [from |-> cable.from, target |-> t, armed |-> cable.armed]
    BY <1>2 DEF MapInv, CableInv
  <1>4. Open(cable.from) /\ cable.from # NoNode /\ cable' # NoCable
    <2>1. Open(cable.from)
      BY DEF PullCable, MapInv, CableInv
    <2>2. cable.from # NoNode
      BY <2>1, Kinds DEF Open
    <2> QED
      BY <1>3, <2>1, <2>2 DEF NoCable
  <1>5. ASSUME t # NoNode, IsNet(t)
        PROVE  t[2] \in Nets \ Closed
    <2>1. t \in DOMAIN pos /\ MayPlug(t)
      BY <1>2, <1>5
    <2>2. ~Open(t)
      BY <1>5 DEF Open, IsCt, IsNet
    <2>3. t[2] \notin Closed
      BY <2>1, <2>2 DEF MayPlug
    <2>4. t \in Nodes(data, only, expanded)
      BY <2>1 DEF MapInv, PlacesInv
    <2>5. t[2] \in data.nets
      BY <1>5, <2>4, NodeIs
    <2>6. data.nets \subseteq Nets
      BY DEF MapInv, PlacesInv, IsListing
    <2> QED
      BY <2>3, <2>5, <2>6
  <1>6. CableInv'
    BY <1>1, <1>3, <1>4, <1>5 DEF MapInv, CableInv, Open
  <1>7. GestureInv'
    <2>1. CASE drag' = drag
      BY <1>1, <2>1, MapSame
    <2>2. CASE drag.kind = "cable" /\ drag' = [drag EXCEPT !.moved = TRUE]
      BY <1>1, <2>2 DEF MapInv, GestureInv
    <2> QED
      BY <2>1, <2>2 DEF PullCable
  <1> QED
    BY <1>1, <1>6, <1>7, MapSame DEF MapInv

LEMMA DragKeeps ==
    ASSUME MapInv, NEW at \in Spots, DragNode(at)
    PROVE  MapInv'
  <1> DEFINE of == drag.of
  <1>1. UNCHANGED <<server, asks, data, only, expanded, saved, card, cable, ptrs, patch, readOnly, dialog, jobs>>
    BY DEF DragNode, page_vars
  <1>2. /\ drag.kind = "node" /\ of \in Handled
        /\ drag' = [drag EXCEPT !.moved = TRUE]
        /\ pinned' = pinned \cup {of}
        /\ pos' = IF drag.live THEN [pos EXCEPT ![of] = at] ELSE pos
        /\ left' = [left EXCEPT ![of] = at]
        /\ forgotten' = forgotten \ {of} /\ loose' = loose \cup {of}
    BY DEF DragNode
  <1>3. /\ pos \in [Nodes(data, only, expanded) -> Spaces] /\ left \in [Handled -> Spaces] /\ at \in Spaces
        /\ drag.live \in BOOLEAN /\ (drag.live => of \in DOMAIN pos)
    BY <1>2 DEF MapInv, PlacesInv, KeptInv, GestureInv, Spaces
  <1>4. /\ drag'.kind = "node" /\ drag'.of = of /\ drag'.live = drag.live
        /\ drag' = [kind |-> drag'.kind, of |-> drag'.of, net |-> drag'.net, live |-> drag'.live, moved |-> TRUE]
    BY <1>2 DEF MapInv, GestureInv
  <1> HIDE DEF of
  <1>5. /\ pos' \in [Nodes(data, only, expanded) -> Spaces] /\ left' \in [Handled -> Spaces]
        /\ DOMAIN pos' = DOMAIN pos /\ left'[of] = at /\ (drag.live => pos'[of] = at)
        /\ \A id \in DOMAIN pos \ {of} : pos'[id] = pos[id]
        /\ \A id \in Handled \ {of} : left'[id] = left[id]
    BY <1>2, <1>3
  <1>6. PlacesInv'
    BY <1>1, <1>5 DEF MapInv, PlacesInv, IsListing
  <1>7. GestureInv'
    <2>1. ptrs' \in 0..2 /\ ptrs' > 0
      BY <1>1, <1>2 DEF MapInv, GestureInv
    <2> QED
      BY <1>2, <1>3, <1>4, <1>5, <2>1 DEF GestureInv
  <1>8. KeptInv'
    <2>1. ASSUME NEW id \in Handled \ (loose' \cup forgotten'), left'[id] # Home
          PROVE  /\ id \in DOMAIN saved' /\ saved'[id] = left'[id]
                 /\ id \in DOMAIN pos' => pos'[id] = left'[id] /\ id \in pinned'
      <3>1. id # of /\ id \in Handled \ (loose \cup forgotten) /\ left[id] # Home
        BY <1>2, <1>5, <2>1
      <3>2. /\ id \in DOMAIN saved /\ saved[id] = left[id]
            /\ id \in DOMAIN pos => pos[id] = left[id] /\ id \in pinned
        BY <3>1 DEF MapInv, KeptInv
      <3> QED
        BY <1>1, <1>2, <1>5, <3>1, <3>2
    <2> QED
      BY <1>5, <2>1 DEF KeptInv
  <1> QED
    BY <1>1, <1>6, <1>7, <1>8, MapSame DEF MapInv

\* pointerup.
LEMMA CableEnds ==
    ASSUME MapInv, UpCable, UNCHANGED <<readOnly, patch>>
    PROVE  CableInv' /\ DialogInv' /\ JobsInv'
  <1>1. CASE cable' = [cable EXCEPT !.armed = TRUE] /\ UNCHANGED <<dialog, jobs>>
    <2>1. cable' = [from |-> cable.from, target |-> cable.target, armed |-> TRUE]
      BY <1>1 DEF MapInv, CableInv
    <2>2. cable # NoCable /\ Open(cable.from)
      BY DEF UpCable, MapInv, CableInv
    <2>3. cable' # NoCable
      BY <2>1 DEF NoCable
    <2>4. CableInv'
      BY <2>1, <2>2, <2>3 DEF MapInv, CableInv, Open
    <2> QED
      BY <1>1, <2>4, MapSame
  <1>2. CASE EndCable
    <2>1. cable' = NoCable
      BY <1>2 DEF EndCable
    <2>2. CableInv'
      BY <2>1 DEF MapInv, CableInv, NoCable, Open
    <2>3. CASE cable.target # NoNode /\ Plug(cable.from[2], cable.target)
      <3>1. ~readOnly /\ cable.from[2] \notin Locked
        BY <2>3 DEF MapInv, CableInv, Open
      <3>2. IsNet(cable.target) => cable.target[2] \in Nets \ Closed
        BY <2>3 DEF MapInv, CableInv
      <3> QED
        BY <2>2, <2>3, <3>1, <3>2, PlugKeeps
    <2>4. CASE UNCHANGED <<dialog, jobs>>
      BY <2>2, <2>4, MapSame
    <2> QED
      BY <1>2, <2>3, <2>4 DEF EndCable
  <1> QED
    BY <1>1, <1>2 DEF UpCable

LEMMA MovedIsKept ==
    ASSUME MapInv, UpMoved, UNCHANGED <<data, only, expanded>>
    PROVE  PlacesInv' /\ KeptInv'
  <1>1. /\ saved' = [id \in pinned \cap DOMAIN pos |-> pos[id]]
        /\ forgotten' = forgotten \cup (DOMAIN saved \ DOMAIN pos)
        /\ loose' = (IF drag.live THEN loose \ {drag.of} ELSE loose)
        /\ drag.kind = "node" /\ drag.moved
        /\ UNCHANGED <<pos, pinned, left>>
    BY DEF UpMoved, Save
  <1>2. PlacesInv'
    BY <1>1 DEF MapInv, PlacesInv, IsListing
  <1>3. ASSUME NEW id \in Handled \ (loose' \cup forgotten'), left[id] # Home
        PROVE  id \in pinned \cap DOMAIN pos /\ pos[id] = left[id]
    <2>1. CASE id \notin loose
      <3>1. id \notin forgotten /\ (id \in DOMAIN saved => id \in DOMAIN pos)
        BY <1>1, <1>3
      <3> QED
        BY <1>3, <2>1, <3>1 DEF MapInv, KeptInv
    <2>2. CASE id \in loose
      <3>1. drag.live /\ id = drag.of
        BY <1>1, <1>3, <2>2
      <3> QED
        BY <1>1, <3>1 DEF MapInv, GestureInv
    <2> QED
      BY <2>1, <2>2
  <1>4. KeptInv'
    BY <1>1, <1>3 DEF MapInv, KeptInv
  <1> QED
    BY <1>2, <1>4

LEMMA UpKeeps ==
    ASSUME MapInv, Up
    PROVE  MapInv'
  <1>1. UNCHANGED <<server, asks, data, only, expanded, patch, readOnly>>
    BY DEF Up
  <1>2. GestureInv'
    <2>1. ptrs' \in 0..2 /\ drag' = NoDrag
      BY DEF Up, MapInv, GestureInv
    <2> QED
      BY <2>1 DEF GestureInv, NoDrag
  <1>3. CASE UpCable
    <2>1. UNCHANGED <<pos, pinned, saved, card, left, loose, forgotten>>
      BY <1>3 DEF UpCable, map_vars, history_vars
    <2> QED
      BY <1>1, <1>2, <1>3, <2>1, CableEnds, MapSame DEF MapInv
  <1>4. CASE UpMoved
    <2>1. UNCHANGED <<card, cable, dialog, jobs>>
      BY <1>4 DEF UpMoved
    <2> QED
      BY <1>1, <1>2, <1>4, <2>1, MovedIsKept, MapSame DEF MapInv
  <1>5. CASE UpClick
    <2>1. UNCHANGED <<pos, pinned, saved, cable, jobs, left, loose, forgotten>>
      BY <1>5 DEF UpClick, history_vars
    <2>2. DialogInv'
      <3>1. CASE Disconnect(drag.of[2], drag.net)
        BY <1>1, <3>1, DisconnectKeeps
      <3>2. CASE UNCHANGED dialog
        BY <1>1, <3>2, MapSame
      <3> QED
        BY <1>5, <3>1, <3>2 DEF UpClick
    <2>3. CardInv'
      <3>1. CASE UNCHANGED card
        BY <1>1, <3>1, MapSame
      <3>2. ASSUME NEW id, card' = CardOf(id, data, DOMAIN pos)
            PROVE  CardInv'
        BY <1>1, <3>2, CardIs DEF CardInv, CardIsCurrent
      <3> QED
        BY <1>5, <3>1, <3>2 DEF UpClick, Select
    <2> QED
      BY <1>1, <1>2, <2>1, <2>2, <2>3, MapSame DEF MapInv
  <1>6. CASE UpNothing
    <2>1. UNCHANGED <<pos, pinned, saved, card, left, loose, forgotten, cable, dialog, jobs>>
      BY <1>6 DEF UpNothing, map_vars, history_vars
    <2> QED
      BY <1>1, <1>2, <2>1, MapSame DEF MapInv
  <1> QED
    BY <1>3, <1>4, <1>5, <1>6 DEF Up

LEMMA PatchKeeps ==
    ASSUME MapInv, Escape \/ (\E c \in Touched : StartPatch(c)) \/ DropPatch
    PROVE  MapInv'
  <1>1. UNCHANGED <<server, asks, data, only, expanded, pos, pinned, saved, card, left, loose, forgotten,
                    ptrs, drag, readOnly>>
    BY DEF Escape, StartPatch, DropPatch, map_vars, page_vars, history_vars
  <1>2. CableInv' /\ DialogInv' /\ JobsInv'
    <2>1. CASE Escape
      <3>1. cable' = NoCable /\ patch' = NoCt /\ UNCHANGED <<dialog, jobs>>
        BY <2>1 DEF Escape, page_vars
      <3>2. CableInv'
        BY <3>1 DEF CableInv, NoCable
      <3> QED
        BY <1>1, <3>1, <3>2, MapSame
    <2>2. ASSUME NEW c \in Touched, StartPatch(c)
          PROVE  CableInv' /\ DialogInv' /\ JobsInv'
      <3>1. patch' = c /\ Open(Ct(c)) /\ UNCHANGED <<cable, dialog, jobs>>
        BY <2>2 DEF StartPatch, page_vars
      <3>2. CableInv'
        BY <1>1, <3>1 DEF MapInv, CableInv, Open
      <3> QED
        BY <1>1, <3>1, <3>2, MapSame
    <2>3. CASE DropPatch
      <3>1. patch # NoCt /\ patch' = NoCt /\ UNCHANGED cable
        BY <2>3 DEF DropPatch
      <3>2. CableInv'
        BY <1>1, <3>1 DEF MapInv, CableInv, Open
      <3>3. CASE UNCHANGED <<dialog, jobs>>
        BY <1>1, <3>2, <3>3, MapSame
      <3>4. ASSUME NEW t \in PatchTargets, Plug(patch, t)
            PROVE  DialogInv' /\ JobsInv'
        <4>1. ~readOnly /\ patch \notin Locked
          BY <3>1, Kinds DEF MapInv, CableInv, Open
        <4>2. \/ \E c \in data.there : t = Ct(c)
              \/ \E n \in data.nets \ Closed : t = Net(n)
          BY <3>4 DEF PatchTargets
        <4>3. IsNet(t) => t[2] \in Nets \ Closed
          <5>1. data.nets \subseteq Nets
            BY DEF MapInv, PlacesInv, IsListing
          <5> QED
            BY <4>2, <5>1, Kinds
        <4> QED
          BY <1>1, <3>4, <4>1, <4>3, PlugKeeps
      <3> QED
        BY <2>3, <3>2, <3>3, <3>4 DEF DropPatch
    <2> QED
      BY <2>1, <2>2, <2>3
  <1> QED
    BY <1>1, <1>2, MapSame DEF MapInv

\* The buttons of the cards, the jacks and the dialogs.
LEMMA CardsKeep ==
    ASSUME MapInv, (\E c \in Touched, n \in Nets : Jack(c, n)) \/ Press \/ DeleteNetwork \/ InDialog
    PROVE  MapInv'
  <1>1. UNCHANGED <<server, asks, data, only, expanded, pos, pinned, saved, card, left, loose, forgotten,
                    ptrs, drag, cable, patch, readOnly>>
    BY DEF Jack, Press, DeleteNetwork, InDialog, map_vars, hand_vars, history_vars
  <1>2. CASE UNCHANGED jobs /\ DialogInv'
    BY <1>1, <1>2, MapSame DEF MapInv
  <1>3. CASE JobsInv' /\ (DialogInv' \/ UNCHANGED dialog)
    BY <1>1, <1>3, MapSame DEF MapInv
  <1>4. JobsInv
    BY DEF MapInv
  <1>5. ASSUME NEW j, Post(j), GoodJob(j)
        PROVE  JobsInv'
    BY <1>1, <1>4, <1>5, PostKeeps
  <1>6. ASSUME NEW j, dialog' = Confirm(j), GoodJob(j)
        PROVE  DialogInv'
    BY <1>1, <1>6, AskedKeeps
  <1>7. ASSUME NEW c \in Touched, NEW n \in Nets, Jack(c, n)
        PROVE  MapInv'
    <2>1. c \notin Locked /\ n \notin Closed /\ ~readOnly
      BY <1>7 DEF Jack
    <2>2. CASE Disconnect(c, n) /\ UNCHANGED jobs
      BY <1>1, <1>2, <2>2, DisconnectKeeps
    <2>3. CASE Post(Job("connect", c, n, NoCt)) /\ UNCHANGED dialog
      <3>1. GoodJob(Job("connect", c, n, NoCt))
        BY <2>1 DEF GoodJob, Job, Ops, Joins
      <3> QED
        BY <1>3, <1>5, <2>3, <3>1
    <2> QED
      BY <1>7, <2>2, <2>3 DEF Jack
  <1>8. CASE Press
    <2>1. card.of[2] \notin Self /\ ~readOnly
      BY <1>8 DEF Press
    <2>2. CASE dialog' = Confirm(Job("stop", card.of[2], NoNet, NoCt)) /\ UNCHANGED jobs
      <3>1. GoodJob(Job("stop", card.of[2], NoNet, NoCt))
        BY <2>1 DEF GoodJob, Job, Ops, Joins
      <3> QED
        BY <1>2, <1>6, <2>2, <3>1
    <2>3. CASE Post(Job("start", card.of[2], NoNet, NoCt)) /\ UNCHANGED dialog
      <3>1. GoodJob(Job("start", card.of[2], NoNet, NoCt))
        BY <2>1 DEF GoodJob, Job, Ops, Joins
      <3> QED
        BY <1>3, <1>5, <2>3, <3>1
    <2> QED
      BY <1>8, <2>2, <2>3 DEF Press
  <1>9. CASE DeleteNetwork
    <2>1. dialog' = Confirm(Job("delete", NoCt, card.of[2], NoCt)) /\ UNCHANGED jobs
          /\ ~readOnly /\ card.of[2] \notin Builtin
      BY <1>9 DEF DeleteNetwork
    <2>2. GoodJob(Job("delete", NoCt, card.of[2], NoCt))
      BY <2>1 DEF GoodJob, Job, Ops, Joins
    <2> QED
      BY <1>2, <1>6, <2>1, <2>2
  <1>10. CASE Cancel
    BY <1>2, <1>10, ClosedKeeps DEF Cancel
  <1>11. CASE Confirmed
    <2>1. dialog' = NoDialog /\ Post(dialog.job) /\ GoodJob(dialog.job)
      BY <1>11 DEF Confirmed, MapInv, DialogInv
    <2> QED
      BY <1>3, <1>5, <2>1, ClosedKeeps
  <1>12. CASE SubmitConnect
    <2>1. /\ ~readOnly /\ dialog.from \notin Locked /\ dialog.to \notin Locked /\ dialog.join \subseteq Nets \ Closed
          /\ UNCHANGED dialog
      BY <1>12 DEF SubmitConnect, MapInv, DialogInv
    <2>2. NewNet \in Nets \ Closed
      BY NetworkMapAssumption
    <2>3. ASSUME NEW n \in Nets \ Closed, NEW next, next # NoCt => next \notin Locked
          PROVE  GoodJob(Job("pair", dialog.from, n, next))
      BY <2>1, <2>3 DEF GoodJob, Job, Ops, Joins
    <2>4. PICK n, next : /\ n \in Nets \ Closed /\ (next # NoCt => next \notin Locked)
                        /\ Post(Job("pair", dialog.from, n, next))
      BY <1>12, <2>1, <2>2 DEF SubmitConnect
    <2> QED
      BY <1>3, <1>5, <2>1, <2>3, <2>4
  <1> QED
    BY <1>7, <1>8, <1>9, <1>10, <1>11, <1>12 DEF InDialog

LEMMA RedrawKeeps ==
    ASSUME MapInv, NEW o, NEW x, Redraw(o, x)
    PROVE  MapInv'
  <1>1. /\ RenderMap(data, o, x) /\ only' = o /\ expanded' = x
        /\ UNCHANGED <<server, readOnly, cable, ptrs, patch, data, asks, dialog, jobs, left, loose, forgotten>>
    BY DEF Redraw, history_vars
  <1>2. IsListing(data)
    BY DEF MapInv, PlacesInv
  <1> QED
    BY <1>1, <1>2, RenderMapKeeps, MapSame DEF MapInv

LEMMA FocusKeeps ==
    ASSUME MapInv, NEW c \in Touched, Focus(c)
    PROVE  MapInv'
  <1>1. /\ card' = CardOf(Ct(c), data, DOMAIN pos)
        /\ UNCHANGED <<server, asks, data, only, expanded, pos, pinned, saved, left, loose, forgotten,
                       ptrs, drag, cable, patch, readOnly, dialog, jobs>>
    BY DEF Focus, hand_vars, page_vars, history_vars
  <1>2. CardInv'
    BY <1>1, CardIs DEF CardInv, CardIsCurrent
  <1> QED
    BY <1>1, <1>2, MapSame DEF MapInv

LEMMA RelayoutKeeps ==
    ASSUME MapInv, Relayout
    PROVE  MapInv'
  <1>1. /\ saved' = [id \in {} |-> Home] /\ pos' = [id \in DOMAIN pos |-> Home] /\ left' = [id \in Handled |-> Home]
        /\ UNCHANGED <<server, asks, data, only, expanded, card, ptrs, drag, cable, patch, readOnly, dialog, jobs>>
        /\ ptrs = 0
    BY DEF Relayout, Idle, Nowhere, hand_vars, page_vars
  <1>2. Home \in Spaces
    BY DEF Spaces
  <1>3. PlacesInv'
    BY <1>1, <1>2 DEF MapInv, PlacesInv, IsListing
  <1>4. GestureInv'
    <2>1. drag.kind = "none"
      BY <1>1 DEF MapInv, GestureInv
    <2> QED
      BY <1>1, <2>1 DEF MapInv, GestureInv
  <1>5. KeptInv'
    BY <1>1, <1>2 DEF KeptInv
  <1> QED
    BY <1>1, <1>3, <1>4, <1>5, MapSame DEF MapInv

LEMMA AskKeeps ==
    ASSUME MapInv, UNCHANGED asks \/ Ask, IsListing(server')
    PROVE  WorldInv'
  <1>1. asks \in 0..MaxAsks /\ MaxAsks \in Nat
    BY NetworkMapAssumption DEF MapInv, WorldInv
  <1>2. asks' \in 0..MaxAsks
    BY <1>1 DEF Ask
  <1> QED
    BY <1>2 DEF WorldInv, IsListing

LEMMA ScreenKeeps ==
    ASSUME MapInv, Navigate \/ Tick
    PROVE  MapInv'
  <1>1. /\ UNCHANGED asks \/ Ask
        /\ UNCHANGED <<server, data, only, expanded, pos, pinned, saved, card, left, loose, forgotten,
                       ptrs, drag, cable, patch, readOnly, dialog, jobs>>
    BY DEF Navigate, Tick, map_vars, hand_vars, history_vars
  <1>2. WorldInv'
    BY <1>1, AskKeeps DEF MapInv, WorldInv
  <1> QED
    BY <1>1, <1>2, MapSame DEF MapInv

-----------------------------------------------------------------------------
\* The engine's listing.
LEMMA ListingIs ==
    ASSUME NEW s, IsListing(s)
    PROVE  /\ s = [there |-> s.there, up |-> s.up, nets |-> s.nets, on |-> s.on]
           /\ s.there \subseteq Cts /\ s.up \subseteq s.there /\ s.nets \subseteq Nets
           /\ s.on \in [s.there -> SUBSET s.nets]
  BY DEF IsListing

LEMMA ListingOf ==
    ASSUME NEW T, NEW U, NEW M, NEW F, T \subseteq Cts, U \subseteq T, M \subseteq Nets, F \in [T -> SUBSET M]
    PROVE  IsListing([there |-> T, up |-> U, nets |-> M, on |-> F])
  BY DEF IsListing

LEMMA OnNetsIs ==
    ASSUME IsListing(server), NEW c \in server.there, NEW N, NEW M, N \subseteq M, server.nets \subseteq M, M \subseteq Nets
    PROVE  /\ OnNets(c, N) = [there |-> server.there, up |-> server.up, nets |-> server.nets,
                              on |-> [server.on EXCEPT ![c] = N]]
           /\ [server.on EXCEPT ![c] = N] \in [server.there -> SUBSET M]
  <1>1. OnNets(c, N) = [there |-> server.there, up |-> server.up, nets |-> server.nets,
                        on |-> [server.on EXCEPT ![c] = N]]
    BY ListingIs DEF OnNets
  <1>2. [server.on EXCEPT ![c] = N] \in [server.there -> SUBSET M]
    BY ListingIs
  <1> QED
    BY <1>1, <1>2

LEMMA AppliedIs ==
    ASSUME IsListing(server), NEW j, GoodJob(j), ~Refused(j)
    PROVE  IsListing(Applied(j))
  <1> DEFINE s == server
  <1>0. IsListing(s) /\ j.op \in Ops
    BY DEF GoodJob
  <1>1. ASSUME j.op # "delete" PROVE j.c \in s.there
    BY <1>1 DEF Refused
  <1>2. CASE j.op = "start"
    <2>1. Applied(j) = [s EXCEPT !.up = s.up \cup {j.c}]
      BY <1>2 DEF Applied
    <2>2. Applied(j) = [there |-> s.there, up |-> s.up \cup {j.c}, nets |-> s.nets, on |-> s.on]
      BY <1>0, <2>1, ListingIs
    <2> QED
      BY <1>0, <1>1, <1>2, <2>2, ListingIs, ListingOf
  <1>3. CASE j.op = "stop"
    <2>1. Applied(j) = [s EXCEPT !.up = s.up \ {j.c}]
      BY <1>3 DEF Applied
    <2>2. Applied(j) = [there |-> s.there, up |-> s.up \ {j.c}, nets |-> s.nets, on |-> s.on]
      BY <1>0, <2>1, ListingIs
    <2> QED
      BY <1>0, <2>2, ListingIs, ListingOf
  <1>4. CASE j.op = "delete"
    <2>1. Applied(j) = [s EXCEPT !.nets = s.nets \ {j.n}]
      BY <1>4 DEF Applied
    <2>2. Applied(j) = [there |-> s.there, up |-> s.up, nets |-> s.nets \ {j.n}, on |-> s.on]
      BY <1>0, <2>1, ListingIs
    <2>3. \A c \in s.there : j.n \notin s.on[c]
      BY <1>4 DEF Refused
    <2>4. s.on \in [s.there -> SUBSET (s.nets \ {j.n})]
      BY <1>0, <2>3, ListingIs
    <2> QED
      BY <1>0, <2>2, <2>4, ListingIs, ListingOf
  <1>5. CASE j.op = "disconnect"
    <2>1. Applied(j) = OnNets(j.c, s.on[j.c] \ {j.n})
      BY <1>5 DEF Applied
    <2>2. s.on[j.c] \ {j.n} \subseteq s.nets
      BY <1>0, <1>1, <1>5, ListingIs
    <2> DEFINE N == s.on[j.c] \ {j.n}
               F == [s.on EXCEPT ![j.c] = N]
    <2>3. s.nets \subseteq Nets /\ j.c \in s.there
      BY <1>0, <1>1, <1>5, ListingIs
    <2>4. /\ Applied(j) = [there |-> s.there, up |-> s.up, nets |-> s.nets, on |-> F]
          /\ F \in [s.there -> SUBSET s.nets]
      <3>1. N \subseteq s.nets /\ s.nets \subseteq s.nets
        BY <2>2
      <3> HIDE DEF N
      <3>2. Applied(j) = OnNets(j.c, N)
        BY <2>1 DEF N
      <3> QED
        BY <1>0, <2>3, <3>1, <3>2, OnNetsIs
    <2> HIDE DEF F
    <2> QED
      BY <1>0, <2>4, ListingIs, ListingOf
  <1>6. CASE j.op \in Joins
    <2> DEFINE N == s.on[j.c] \cup {j.n}
               M == s.nets \cup {j.n}
    <2>1. Applied(j) = [OnNets(j.c, N) EXCEPT !.nets = OnNets(j.c, N).nets \cup {j.n}]
      BY <1>6 DEF Applied, Joins
    <2>2. j.c \in s.there /\ j.n \in Nets
      BY <1>1, <1>6 DEF Joins, GoodJob
    <2>3. N \subseteq M /\ s.nets \subseteq M /\ M \subseteq Nets
      BY <1>0, <2>2, ListingIs
    <2> DEFINE F == [s.on EXCEPT ![j.c] = N]
    <2>4. /\ OnNets(j.c, N) = [there |-> s.there, up |-> s.up, nets |-> s.nets, on |-> F]
          /\ F \in [s.there -> SUBSET M]
      BY <1>0, <2>2, <2>3, OnNetsIs
    <2> HIDE DEF N, F
    <2>5. Applied(j) = [there |-> s.there, up |-> s.up, nets |-> M, on |-> F]
      BY <2>1, <2>4
    <2> HIDE DEF M
    <2> QED
      BY <1>0, <2>3, <2>4, <2>5, ListingIs, ListingOf
  <1> QED
    BY <1>0, <1>2, <1>3, <1>4, <1>5, <1>6 DEF Ops, Joins

LEMMA FinishKeeps ==
    ASSUME MapInv, NEW j \in jobs, Finish(j)
    PROVE  MapInv'
  <1>1. UNCHANGED <<data, only, expanded, pos, pinned, saved, left, loose, forgotten, ptrs, drag, cable, patch, readOnly>>
    BY DEF Finish, hand_vars, history_vars
  <1>2. IsListing(server) /\ GoodJob(j) /\ \A i \in jobs : GoodJob(i)
    BY DEF MapInv, WorldInv, JobsInv
  <1>3. IsListing(server')
    BY <1>2, AppliedIs DEF Finish
  <1>4. WorldInv'
    BY <1>3, AskKeeps DEF Finish
  <1>5. CASE dialog' = NoDialog \/ UNCHANGED dialog
    <2>1. DialogInv'
      BY <1>1, <1>5, ClosedKeeps, MapSame
    <2>2. CardInv'
      <3>1. CASE UNCHANGED card
        BY <1>1, <3>1, MapSame
      <3>2. CASE card' = NoCard
        BY <3>2, Kinds DEF CardInv, CardIsCurrent, NoCard
      <3> QED
        BY <3>1, <3>2 DEF Finish
    <2>3. JobsInv'
      <3>1. CASE jobs' = jobs \ {j}
        BY <1>1, <1>2, <3>1 DEF JobsInv, GoodJob
      <3>2. CASE /\ j.op = "pair" /\ j.next # NoCt
                 /\ jobs' = (jobs \ {j}) \cup {Job("pair again", j.next, j.n, NoCt)}
        <4>1. GoodJob(Job("pair again", j.next, j.n, NoCt))
          BY <1>2, <3>2 DEF GoodJob, Job, Ops, Joins
        <4>2. \A i \in jobs' : GoodJob(i)
          BY <1>2, <3>2, <4>1
        <4> QED
          BY <1>1, <4>2 DEF JobsInv, GoodJob
      <3> QED
        BY <3>1, <3>2 DEF Finish
    <2> QED
      BY <1>1, <1>4, <2>1, <2>2, <2>3, MapSame DEF MapInv
  <1> QED
    BY <1>5 DEF Finish

LEMMA ElsewhereKeeps ==
    ASSUME MapInv, Elsewhere
    PROVE  MapInv'
  <1> DEFINE s == server
  <1>1. UNCHANGED <<asks, data, only, expanded, pos, pinned, saved, card, left, loose, forgotten,
                    ptrs, drag, cable, patch, readOnly, dialog, jobs>>
    BY DEF Elsewhere, map_vars, hand_vars, page_vars, history_vars
  <1>2. IsListing(s)
    BY DEF MapInv, WorldInv
  <1>3. PICK c \in s.there :
            \/ server' = [s EXCEPT !.up = IF c \in s.up THEN s.up \ {c} ELSE s.up \cup {c}]
            \/ server' = [there |-> s.there \ {c}, up |-> s.up \ {c}, nets |-> s.nets,
                          on |-> [e \in s.there \ {c} |-> s.on[e]]]
            \/ \E n \in s.on[c] : server' = OnNets(c, s.on[c] \ {n})
    BY DEF Elsewhere
  <1>4. IsListing(server')
    <2>1. ASSUME NEW U, server' = [s EXCEPT !.up = U], U \subseteq s.there
          PROVE  IsListing(server')
      <3>1. server' = [there |-> s.there, up |-> U, nets |-> s.nets, on |-> s.on]
        BY <1>2, <2>1, ListingIs
      <3> QED
        BY <1>2, <2>1, <3>1, ListingIs, ListingOf
    <2>2. CASE server' = [s EXCEPT !.up = IF c \in s.up THEN s.up \ {c} ELSE s.up \cup {c}]
      <3>1. (IF c \in s.up THEN s.up \ {c} ELSE s.up \cup {c}) \subseteq s.there
        BY <1>2, ListingIs
      <3> QED
        BY <2>1, <2>2, <3>1
    <2>3. CASE server' = [there |-> s.there \ {c}, up |-> s.up \ {c}, nets |-> s.nets,
                          on |-> [e \in s.there \ {c} |-> s.on[e]]]
      <3>1. [e \in s.there \ {c} |-> s.on[e]] \in [s.there \ {c} -> SUBSET s.nets]
        BY <1>2, ListingIs
      <3>2. s.there \ {c} \subseteq Cts /\ s.up \ {c} \subseteq s.there \ {c} /\ s.nets \subseteq Nets
        BY <1>2, ListingIs
      <3> QED
        BY <2>3, <3>1, <3>2, ListingOf
    <2>4. ASSUME NEW n \in s.on[c], server' = OnNets(c, s.on[c] \ {n})
          PROVE  IsListing(server')
      <3>1. s.on[c] \ {n} \subseteq s.nets
        BY <1>2, ListingIs
      <3> QED
        BY <1>2, <2>4, <3>1, OnNetsIs, ListingIs, ListingOf
    <2> QED
      BY <1>3, <2>2, <2>3, <2>4
  <1>5. WorldInv'
    BY <1>1, <1>4, AskKeeps
  <1> QED
    BY <1>1, <1>5, MapSame DEF MapInv

\* The page starts empty.
LEMMA NothingLoaded == IsListing(NoData) /\ Nodes(NoData, "all", {}) = {}
  <1>1. NoData = [there |-> {}, up |-> {}, nets |-> {}, on |-> [c \in {} |-> {}]]
    BY DEF NoData
  <1>2. [c \in {} |-> {}] \in [{} -> SUBSET {}]
    OBVIOUS
  <1>3. IsListing(NoData)
    BY <1>1, <1>2, ListingOf
  <1>4. Shown(NoData, "all") = {} /\ NoData.nets = {}
    BY <1>1 DEF Shown
  <1>5. Folds(NoData, "all", {}) = {}
    BY <1>4 DEF Folds
  <1>6. Nodes(NoData, "all", {}) = {}
    BY <1>4, <1>5 DEF Nodes
  <1> QED
    BY <1>3, <1>6

LEMMA ReloadKeepsMap ==
    ASSUME MapInv, Reload
    PROVE  MapInv'
  <1>1. /\ asks' = 1 /\ data' = NoData /\ only' = "all" /\ expanded' = {}
        /\ pos' = [id \in {} |-> Home] /\ card' = NoCard
        /\ cable' = NoCable /\ drag' = NoDrag /\ ptrs' = 0 /\ patch' = NoCt /\ dialog' = NoDialog
        /\ UNCHANGED <<server, readOnly, saved, left, loose, forgotten, jobs>>
    BY DEF Reload, Nowhere, history_vars
  <1>2. WorldInv'
    <2>1. 1 \in 0..MaxAsks
      BY NetworkMapAssumption
    <2>2. IsListing(server')
      BY <1>1 DEF MapInv, WorldInv
    <2> QED
      BY <1>1, <2>1, <2>2 DEF WorldInv, IsListing
  <1>3. PlacesInv'
    <2>1. IsListing(data') /\ Nodes(data', only', expanded') = {}
      BY <1>1, NothingLoaded
    <2>2. pos' \in [{} -> Spaces] /\ saved' \in [DOMAIN saved' -> Spaces]
      BY <1>1 DEF MapInv, PlacesInv
    <2> QED
      BY <2>1, <2>2 DEF PlacesInv, IsListing
  <1>4. GestureInv'
    BY <1>1 DEF GestureInv, NoDrag
  <1>5. KeptInv'
    BY <1>1 DEF MapInv, KeptInv
  <1>6. CardInv'
    BY <1>1, Kinds DEF CardInv, CardIsCurrent, NoCard
  <1>7. CableInv'
    BY <1>1 DEF CableInv, NoCable
  <1>8. DialogInv' /\ JobsInv'
    BY <1>1, ClosedKeeps, MapSame
  <1> QED
    BY <1>2, <1>3, <1>4, <1>5, <1>6, <1>7, <1>8 DEF MapInv

LEMMA MapStarts ==
    ASSUME MapInit
    PROVE  MapInv
  <1>1. /\ server \in Servers /\ asks = 1 /\ data = NoData /\ only = "all" /\ expanded = {}
        /\ pos = [id \in {} |-> Home] /\ saved \in Remembered /\ card = NoCard
        /\ cable = NoCable /\ drag = NoDrag /\ ptrs = 0 /\ patch = NoCt /\ dialog = NoDialog /\ jobs = {}
        /\ left = [id \in Handled |-> IF id \in DOMAIN saved THEN saved[id] ELSE Home]
    BY DEF MapInit, Nowhere
  <1>2. WorldInv
    <2>1. 1 \in 0..MaxAsks
      BY NetworkMapAssumption
    <2> QED
      BY <1>1, <2>1, ServersAssumption DEF WorldInv
  <1>3. saved \in [DOMAIN saved -> Spaces]
    BY <1>1, NetworkMapAssumption DEF Spaces
  <1>4. PlacesInv
    <2>1. pos \in [{} -> Spaces]
      BY <1>1
    <2> QED
      BY <1>1, <1>3, <2>1, NothingLoaded DEF PlacesInv
  <1>5. GestureInv
    BY <1>1 DEF GestureInv, NoDrag
  <1>6. KeptInv
    <2>1. Home \in Spaces
      BY DEF Spaces
    <2> QED
      BY <1>1, <1>3, <2>1 DEF KeptInv
  <1>7. CardInv
    BY <1>1, Kinds DEF CardInv, CardIsCurrent, NoCard
  <1>8. CableInv
    BY <1>1 DEF CableInv, NoCable
  <1>9. DialogInv /\ JobsInv
    BY <1>1 DEF DialogInv, JobsInv, NoDialog
  <1> QED
    BY <1>2, <1>4, <1>5, <1>6, <1>7, <1>8, <1>9 DEF MapInv

LEMMA MapFollows ==
    ASSUME MapInv
    PROVE  MapHolds
  <1>1. IsListing(data)
    BY DEF MapInv, PlacesInv
  <1>2. MapTypeOK
    <2>1. data.up \subseteq data.there /\ DOMAIN data.on = data.there
      BY <1>1 DEF IsListing
    <2>2. /\ DOMAIN pos = Nodes(data, only, expanded)
          /\ \A id \in DOMAIN pos : pos[id] \in Spots \cup {Home}
          /\ \A id \in DOMAIN saved : saved[id] \in Spots \cup {Home}
      BY DEF MapInv, PlacesInv, Spaces
    <2>3. /\ ptrs \in 0..2 /\ (drag.kind # "none" => ptrs > 0)
          /\ asks \in 0..MaxAsks /\ dialog.kind \in {"none", "confirm", "connect"}
      BY DEF MapInv, GestureInv, WorldInv, DialogInv
    <2>4. cable.target # NoNode => cable.from # NoNode
      BY Kinds DEF MapInv, CableInv, Open
    <2> QED
      BY <2>1, <2>2, <2>3, <2>4 DEF MapTypeOK
  <1>3. NoCableLost
    <2>1. DOMAIN pos = Nodes(data, only, expanded)
      BY DEF MapInv, PlacesInv
    <2>2. ASSUME NEW c \in Shown(data, only),
                 NEW v, v = IF Ct(c) \in DOMAIN pos THEN Ct(c) ELSE Stack(Sig(data, c))
          PROVE  v \in DOMAIN pos /\ {n \in data.nets : <<v, n>> \in Edges(data, only, DOMAIN pos)} = data.on[c]
      BY <1>1, <2>1, <2>2, NoneLost
    <2> QED
      BY <2>2 DEF NoCableLost
  <1>4. CardIsCurrent
    BY DEF MapInv, CardInv
  <1>5. OnlyOpenDevices
    BY DEF MapInv, JobsInv, GoodJob, Joins, OnlyOpenDevices
  <1>6. RememberedIfShown
    BY DEF MapInv, KeptInv, RememberedIfShown
  <1> QED
    BY <1>2, <1>3, <1>4, <1>5, <1>6 DEF MapHolds

LEMMA MapSteps ==
    ASSUME MapInv, MapNext
    PROVE  MapInv'
  <1>1. CASE Hands
    BY <1>1, CableStarts, DownKeeps, PullCableKeeps, DragKeeps, UpKeeps, PatchKeeps DEF Hands
  <1>2. CASE Buttons
    <2>1. CASE Expand \/ Collapse \/ \E o \in {"all", "running"} : ShowOnly(o)
      BY <2>1, RedrawKeeps DEF Expand, Collapse, ShowOnly
    <2> QED
      BY <1>2, <2>1, PatchKeeps, CardsKeep, FocusKeeps, RelayoutKeeps, ScreenKeeps DEF Buttons
  <1>3. CASE Answer \/ (\E j \in jobs : Finish(j)) \/ Tick \/ Elsewhere \/ Reload
    BY <1>3, AnswerKeepsMap, FinishKeeps, ScreenKeeps, ElsewhereKeeps, ReloadKeepsMap
  <1> QED
    BY <1>1, <1>2, <1>3 DEF MapNext

\* The map holds: whatever answers come while the operator drags a device,
\* pulls a cable or reads a dialog, with pages reloaded and requests refused,
\* the map draws the containers and filters of the last answer with none of
\* their networks lost, the card is current, nothing is sent for a container
\* or network that is locked, SkyGuard's own or built in, or in read-only
\* mode, and what the operator moved stands where it was left, but for what a
\* pinch, a redraw or a reload cut off and what was off the map when another
\* device was saved (topology.js; app.js, the containers screen).
THEOREM MapAlwaysHolds == Spec => []MapHolds
  <1>1. Init => MapInv
    BY MapStarts DEF Init
  <1>2. MapInv /\ [Next]_desk_vars => MapInv'
    <2> SUFFICES ASSUME MapInv, [Next]_desk_vars
                 PROVE  MapInv'
      OBVIOUS
    <2>1. CASE MapNext
      BY <2>1, MapSteps
    <2>2. CASE UNCHANGED networkmap_vars
      <3>1. UNCHANGED <<server, asks, data, only, expanded, pos, pinned, saved, card, left, loose, forgotten,
                        ptrs, drag, cable, patch, readOnly, dialog, jobs>>
        BY <2>2 DEF networkmap_vars, map_vars, hand_vars, page_vars, history_vars
      <3> QED
        BY <3>1, MapSame DEF MapInv
    <2> QED
      BY <2>1, <2>2 DEF Next, desk_vars
  <1>3. MapInv => MapHolds
    BY MapFollows
  <1> QED
    BY <1>1, <1>2, <1>3, PTL DEF Spec
=============================================================================
