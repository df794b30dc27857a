------------------------------- MODULE Readings -------------------------------
(***************************************************************************)
(* Pure functions of the dashboard that put a number or a version into     *)
(* words or onto an axis, each compared over bounded inputs with what the  *)
(* words mean: the times, the update card and the order of versions        *)
(* (app.js, against update/version.go and update/manager.go), and the      *)
(* ticks of an axis (charts.js).  TLC evaluates the assumptions; times and *)
(* versions are proved for all of them (Panels_proofs).                    *)
(***************************************************************************)
EXTENDS Integers, Sequences, FiniteSets, FiniteSetsExt

-----------------------------------------------------------------------------
(* Times, in seconds.  A reading is a number of units; Math.round rounds a *)
(* half up.                                                                *)

Rounded(s, unit) == (2 * s + unit) \div (2 * unit)
Reading(s, unit) == [n |-> Rounded(s, unit), unit |-> unit]
Minutes == 60
HoursUnit == 3600
Days == 86400
UnitOf(s) == IF s < HoursUnit THEN Minutes ELSE IF s < Days THEN HoursUnit ELSE Days

ago(s) == IF s < Minutes THEN [n |-> 0, unit |-> Minutes] ELSE Reading(s, UnitOf(s))
until(s) ==
    IF s <= 0 THEN [n |-> 0, unit |-> Minutes]
    ELSE IF s < HoursUnit THEN [n |-> Max({1, Rounded(s, Minutes)}), unit |-> Minutes]
    ELSE Reading(s, UnitOf(s))

Seconds(r) == r.n * r.unit
Near(s, r) ==
    LET half == IF s < Minutes THEN r.unit ELSE r.unit \div 2 IN Seconds(r) \in s - half..s + half
SomeTimes == -90..7300 \cup 84000..88000 \cup 214000..218000

\* A time is told to within half of its unit ("just now" and "in 1 min" to
\* within one), a later one never sounds earlier, and what is still to come
\* is never told as now or as zero.
TimesTold(times) ==
    \A s \in times :
        /\ s >= 0 => Near(s, ago(s)) /\ Near(s, until(s))
        /\ s >= 0 /\ s + 1 \in times =>
               Seconds(ago(s)) <= Seconds(ago(s + 1)) /\ Seconds(until(s)) <= Seconds(until(s + 1))
        /\ until(s).n = 0 <=> s <= 0
ASSUME TimesAreTold == TimesTold(SomeTimes)

-----------------------------------------------------------------------------
(* Versions: three numbers and a pre-release, a sequence of identifiers;   *)
(* a build that is no release has none.  An identifier is its rank among   *)
(* those compared, numbers before words (in SomeVersions words from ten    *)
(* on); semver allows a number no leading zeros.                           *)

Unreleased == [n |-> <<>>, pre |-> <<>>]
Versions == {Unreleased} \cup [n : [1..3 -> Nat], pre : Seq(Nat)]
SomeVersions ==
    {Unreleased} \cup [n : {<<0, 0, 0>>, <<0, 9, 10>>, <<1, 0, 0>>, <<1, 2, 0>>, <<1, 2, 3>>, <<1, 10, 0>>},
                       pre : {<<>>, <<1>>, <<2>>, <<11>>, <<11, 1>>, <<11, 2>>, <<12>>}]
Sign(n) == IF n < 0 THEN -1 ELSE IF n > 0 THEN 1 ELSE 0

\* The first place where two sequences differ decides.
FirstGap(a, b) == {i \in DOMAIN a \cap DOMAIN b : a[i] # b[i] /\ \A j \in 1..i - 1 : a[j] = b[j]}
OrderOf(a, b) == IF FirstGap(a, b) = {} THEN 0 ELSE LET i == Min(FirstGap(a, b)) IN Sign(a[i] - b[i])

\* The server: a release is newer than what is none, and than its own
\* pre-releases; numbers sort before words, a prefix before the rest.
comparePre(a, b) == IF FirstGap(a, b) # {} THEN OrderOf(a, b) ELSE Sign(Len(a) - Len(b))
CompareVersions(a, b) ==
    IF a.n = <<>> \/ b.n = <<>> THEN Sign(Len(a.n) - Len(b.n))
    ELSE IF a.n # b.n THEN OrderOf(a.n, b.n)
    ELSE IF a.pre = <<>> \/ b.pre = <<>> THEN Sign(Len(b.pre) - Len(a.pre))
    ELSE comparePre(a.pre, b.pre)

\* The page: the numbers only, and zeros for what is none.
NumbersOf(v) == IF v.n = <<>> THEN <<0, 0, 0>> ELSE v.n
ComparePage(a, b) == OrderOf(NumbersOf(a), NumbersOf(b))

\* The update card for an answer: an offer, or what is running and perhaps
\* that it is newer than anything published.
Card(running, latest) ==
    IF CompareVersions(latest, running) > 0 THEN "offer"
    ELSE IF ComparePage(running, latest) > 0 THEN "newer than published" ELSE "newest"

\* The server's order is an order, the page never calls a version newer that
\* the server does not, and never one of another number that the server does
\* call newer just the newest; a build that is no release counts as 0.0.0 there.
VersionsOrdered(versions) ==
    /\ \A a, b \in versions :
           /\ CompareVersions(a, b) = -CompareVersions(b, a)
           /\ CompareVersions(a, b) = 0 => a = b
           /\ Card(a, b) = "newer than published" => CompareVersions(a, b) > 0
           /\ Card(a, b) = "newest" => NumbersOf(a) = NumbersOf(b)
    /\ \A a, b, c \in versions :
           CompareVersions(a, b) > 0 /\ CompareVersions(b, c) > 0 => CompareVersions(a, c) > 0
ASSUME VersionsAgree == VersionsOrdered(SomeVersions)

\* The button of the offer, and Manager.Apply on the same state.
Phases == <<"downloading", "verifying", "testing", "backing-up", "restarting", "done">>
ReleaseStates ==
    [newer : BOOLEAN, phase : {Phases[i] : i \in DOMAIN Phases} \cup {"idle", "failed"}, signedOnly : BOOLEAN, signed : BOOLEAN,
     asset : BOOLEAN, trial : BOOLEAN, waiting : BOOLEAN]
Busy(v) == v.phase \notin {"idle", "failed"}
Offered(v) == v.newer /\ ~(Busy(v) \/ (v.signedOnly /\ ~v.signed))
Accepted(v) == v.phase \in {"idle", "failed"} /\ v.newer /\ v.asset /\ ~v.trial
\* install verifies the signature when the build trusts a key.
Installed(v) == Accepted(v) /\ (v.signedOnly => v.signed)

\* The list of steps: those before the present one are done.
At(v) == IF v.waiting THEN 5 ELSE IF \E i \in DOMAIN Phases : Phases[i] = v.phase
                                  THEN CHOOSE i \in DOMAIN Phases : Phases[i] = v.phase ELSE 0
StepClass(v, i) ==
    IF v.phase = "failed" THEN (IF i = 1 THEN "bad" ELSE "") ELSE
    IF i < At(v) THEN "done" ELSE IF i = At(v) THEN "now" ELSE ""

\* The button is there for exactly what the server would take and install,
\* but for a release without a file for this machine or a trial of port rules
\* that is running, which only the answer to the click tells; and a step is
\* shown as done only when the ones before it are.
ASSUME CardIsServed ==
    \A v \in ReleaseStates :
        /\ Installed(v) => Offered(v)
        /\ Offered(v) /\ v.asset /\ ~v.trial => Installed(v)
        /\ \A i, j \in DOMAIN Phases : i < j /\ StepClass(v, j) \in {"done", "now"} => StepClass(v, i) = "done"

-----------------------------------------------------------------------------
(* The ticks of an axis from zero, in thousandths: steps of 1, 2, 2.5 or 5 *)
(* times a power of ten.                                                   *)

PowersOfTen == {1, 10, 100, 1000, 10000, 100000, 1000000}
TickStep(max) ==
    LET raw == 250 * max  \* four steps
        mag == Max({p \in PowersOfTen : p <= raw})
    IN Min({s \in {mag, 2 * mag, (5 * mag) \div 2, 5 * mag, 10 * mag} : s >= raw})
TopTick(max) ==
    LET hi == -((-1000 * max) \div TickStep(max)) * TickStep(max)
    IN IF hi <= 1000 * max THEN hi + TickStep(max) ELSE hi
ticks(max) == {n * TickStep(max) : n \in 0..TopTick(max) \div TickStep(max)}

\* The top tick is above the largest value, by no more than a step, and there
\* are three to six of them.
ASSUME TicksCover ==
    \A max \in 1..400 :
        /\ Max(ticks(max)) > 1000 * max /\ Max(ticks(max)) <= 1000 * max + TickStep(max)
        /\ Cardinality(ticks(max)) \in 3..6
===============================================================================
