------------------------------ MODULE PortRules ------------------------------
(***************************************************************************)
(* The port access rules: Manager of internal/portrules, with the firewall *)
(* (PortGuard), the database and the trial timers it drives.               *)
(*                                                                         *)
(* A change that restricts a protected port (SSH, the dashboard) is put in *)
(* force at once but stored only when it is confirmed; a timer undoes it   *)
(* otherwise.  Every operation runs under Manager.mu, but reads the        *)
(* server's addresses before it takes the lock, a timer that has fired     *)
(* waits for that lock, and putting rules in force takes several calls     *)
(* between which the process can die.                                      *)
(***************************************************************************)
EXTENDS Naturals, FiniteSets

CONSTANTS
    None,           \* no rules at all
    Choices,        \* the rule sets an operator may ask for, None perhaps among them
    Gone,           \* "the chain does not exist"
    Ports,          \* the ports that are always protected
    Cover,          \* rule set -> port -> the rules that cover it, {} if none
    Addrs,          \* addresses the host may forward
    Families,       \* the guard's address families, "v4" among them
    Operators,      \* concurrent dashboard requests
    Ops,            \* what they ask for: subset of {"set", "settle", "follow"}
    Janitor,        \* Start, then the maintenance goroutine
    Free,           \* "nobody holds Manager.mu"
    MaxTrials,      \* bound on the trials in one life of the process
    InitialStored,  \* rule sets an earlier life may have stored
    MaxMoves,       \* bound on changes of the forwarded addresses
    Budget          \* bound on each kind of upset

RuleSets == Choices \cup {None}
Trials == 1..MaxTrials
Procs  == Operators \cup Trials \cup {Janitor}
Upsets == {"db", "fw", "crash", "flush", "wipe"}
Scopes == [follow : SUBSET Addrs, own : SUBSET Addrs]
NoScope == [follow |-> {}, own |-> {}]
ChainState == [rules : RuleSets \cup {Gone}, scope : Scopes, hooked : BOOLEAN]

ASSUME GuardAssumption == "v4" \in Families /\ Families \subseteq {"v4", "v6"}
ASSUME RulesAssumption ==
    /\ Gone \notin RuleSets
    /\ InitialStored \subseteq RuleSets
    /\ Cover[None] = [p \in Ports |-> {}]
ASSUME ProcsAssumption ==
    /\ MaxTrials \in Nat /\ MaxMoves \in Nat
    /\ Janitor \notin Operators \cup Trials /\ Operators \cap Trials = {}
    /\ Free \notin Procs
    /\ Budget \in [Upsets -> Nat]

VARIABLES
    saved,      \* Manager.saved
    active,     \* Manager.active: what it believes the firewall enforces
    follow,     \* Manager.follow
    scope,      \* Manager.scope: what the firewall was given with active
    trial,      \* Manager.trial, 0 = nil
    timer,      \* each trial's timer: "unused", "armed", "fired", "done"
    mu,         \* who holds Manager.mu between two steps
    proc,       \* each goroutine's place and local variables
    stored,     \* the settings row port_rules: rules and followed addresses
    kernel,     \* SKYGUARD-PORTS and -FWD per family, content and jumps
    forwarded,  \* the addresses the host forwards now
    moves,      \* how often they changed
    budget      \* upsets left

mgr   == <<saved, active, follow, scope, trial, timer>>
world == <<forwarded, moves>>
vars  == <<mgr, mu, proc, stored, kernel, world, budget>>

-----------------------------------------------------------------------------
Upset(k) == budget[k] > 0 /\ budget' = [budget EXCEPT ![k] = @ - 1]

scopeOf(addrs, fol) == [follow |-> addrs \cap fol, own |-> addrs \ fol]

\* The protected ports that `next` restricts, other than `before` did.
riskyPorts(before, next) == {p \in Ports : Cover[next][p] \notin {{}, Cover[before][p]}}

(***************************************************************************)
(* PortGuard.Apply: v4 first, then v6.  A family's chains are replaced in  *)
(* one iptables-restore and then hooked in; an error in either call        *)
(* returns, so the family it hit may or may not have the new content.      *)
(***************************************************************************)
Earlier(f) == IF f = "v6" THEN {"v4"} ELSE {}

Applied(rs, sc) == [f \in Families |-> [rules |-> rs, scope |-> sc, hooked |-> TRUE]]

Apply(rs, sc, ok) ==
    \/ /\ ok /\ kernel' = Applied(rs, sc) /\ UNCHANGED budget
    \/ /\ ~ok /\ Upset("fw")
       /\ \E f \in Families, reached \in BOOLEAN :
            kernel' = [g \in Families |->
                         IF g \in Earlier(f) THEN Applied(rs, sc)[g]
                         ELSE IF g = f /\ reached
                              THEN [rules |-> rs, scope |-> sc, hooked |-> kernel[g].hooked]
                              ELSE kernel[g]]

\* PortGuard.Remove ignores every error: a family it cannot reach stays.
GoneChain == [rules |-> Gone, scope |-> NoScope, hooked |-> FALSE]
Remove ==
    \/ kernel' = [f \in Families |-> GoneChain] /\ UNCHANGED budget
    \/ /\ Upset("fw")
       /\ \E f \in Families :
            kernel' = [g \in Families |-> IF g = f THEN kernel[g] ELSE GoneChain]

\* PortGuard.Ensure: only the chains' existence and their jumps are looked at.
IntactV4 == kernel["v4"].rules # Gone    \* mutant: ip6tables is not looked at
Intact == \A f \in Families : kernel[f].rules # Gone
Ensure(rs, sc) ==
    \/ /\ Intact /\ UNCHANGED budget
       /\ kernel' = [f \in Families |-> [kernel[f] EXCEPT !.hooked = TRUE]]
    \/ ~Intact /\ \E ok \in BOOLEAN : Apply(rs, sc, ok)
    \/ Upset("fw") /\ UNCHANGED kernel

\* SavePortRules is one statement.
Persist(rs, fol, ok) ==
    \/ ok /\ stored' = [rules |-> rs, follow |-> fol] /\ UNCHANGED budget
    \/ ~ok /\ Upset("db") /\ UNCHANGED stored

-----------------------------------------------------------------------------
Idle == [pc |-> "idle", kind |-> "set", want |-> None, addrs |-> {}, ip |-> Janitor, on |-> FALSE]
Kinds == {"set", "follow", "undo"}
PCs == {"idle", "start", "locked", "enforce", "restore", "finish", "maintain"}
ProcState == [pc : PCs, kind : Kinds, want : RuleSets, addrs : SUBSET Addrs,
              ip : Addrs \cup {Janitor}, on : BOOLEAN]

Goto(p, label) == proc' = [proc EXCEPT ![p].pc = label]
Finished(p) == proc' = [proc EXCEPT ![p] = Idle] /\ mu' = Free

\* Requests come in once Start has run.
Ready(o, op) == op \in Ops /\ proc[o].pc = "idle" /\ proc[Janitor].pc # "start"

Stopped(t) == IF t = 0 \/ timer[t] # "armed" THEN timer ELSE [timer EXCEPT ![t] = "done"]
stopTrial == trial' = 0 /\ timer' = Stopped(trial)

-----------------------------------------------------------------------------
(* enforce: the firewall first, then the fields that describe it           *)

EnforceSteps(p) ==
    LET want == proc[p].want
        sc   == scopeOf(proc[p].addrs, follow)
        done == IF proc[p].kind = "set" THEN Goto(p, "finish") /\ UNCHANGED mu ELSE Finished(p)
    IN  \/ /\ want = None
           /\ IF active = None THEN UNCHANGED <<kernel, budget>> ELSE Remove
           /\ active' = None /\ done
           /\ UNCHANGED scope
        \/ /\ want # None /\ Apply(want, sc, TRUE)
           /\ active' = want /\ scope' = sc /\ done
        \/ /\ want # None /\ Apply(want, sc, FALSE)
           /\ Goto(p, "restore")
           /\ UNCHANGED <<active, scope, mu>>

Enforce(p) ==
    /\ proc[p].pc = "enforce" /\ mu = p
    /\ EnforceSteps(p)
    /\ UNCHANGED <<saved, follow, trial, timer, stored, world>>

\* The firewall refused: put back what it had, ignoring a second error.
NoRestore(p) ==     \* mutant: the refused rules are simply reported
    /\ proc[p].pc = "restore" /\ mu = p
    /\ Finished(p)
    /\ UNCHANGED <<mgr, stored, kernel, world, budget>>

Restore(p) ==
    /\ proc[p].pc = "restore" /\ mu = p
    /\ IF active = None THEN Remove ELSE \E ok \in BOOLEAN : Apply(active, scope, ok)
    /\ Finished(p)
    /\ UNCHANGED <<mgr, stored, world>>

-----------------------------------------------------------------------------
(* Set                                                                     *)

SetBegin(o, rs) ==
    /\ Ready(o, "set")
    /\ proc' = [proc EXCEPT ![o] = [Idle EXCEPT !.pc = "locked", !.want = rs, !.addrs = forwarded]]
    /\ UNCHANGED <<mgr, mu, stored, kernel, world, budget>>

\* MaxTrials bounds the changes that would need one trial more.
SetLock(o) ==
    /\ proc[o].pc = "locked" /\ proc[o].kind = "set" /\ mu = Free
    /\ \E t \in Trials : timer[t] = "unused"
    /\ mu' = o /\ Goto(o, "enforce")
    /\ UNCHANGED <<mgr, stored, kernel, world, budget>>

\* Nothing risky: save at once.  Otherwise a new trial replaces a running one.
NothingRisky(before, next) == FALSE    \* mutant: every change is saved at once
Risky(before, next) == riskyPorts(before, next) # {}
SetFinish(o) ==
    LET want == proc[o].want IN
    /\ proc[o].pc = "finish" /\ mu = o
    /\ \/ /\ ~Risky(saved, want) /\ stopTrial
          /\ \E ok \in BOOLEAN : /\ Persist(want, follow, ok)
                                 /\ saved' = IF ok THEN want ELSE saved
       \/ /\ Risky(saved, want)
          /\ LET t == CHOOSE n \in Trials : timer[n] = "unused"
             IN  trial' = t /\ timer' = [Stopped(trial) EXCEPT ![t] = "armed"]
          /\ UNCHANGED <<saved, stored, budget>>
    /\ Finished(o)
    /\ UNCHANGED <<active, follow, scope, kernel, world>>

-----------------------------------------------------------------------------
(* Confirm, Revert and the timer                                           *)

\* Mutant: what was confirmed is stored, but Manager.saved is forgotten.
ConfirmNotSaved(o) ==
    /\ Ready(o, "settle") /\ mu = Free /\ trial # 0
    /\ Persist(active, follow, TRUE) /\ stopTrial
    /\ UNCHANGED <<saved, active, follow, scope, mu, proc, kernel, world>>

\* Stored first: an error leaves the trial running.
Confirm(o) ==
    /\ Ready(o, "settle") /\ mu = Free /\ trial # 0
    /\ \/ Persist(active, follow, TRUE) /\ stopTrial /\ saved' = active
       \/ Persist(active, follow, FALSE) /\ UNCHANGED <<saved, trial, timer>>
    /\ UNCHANGED <<active, follow, scope, mu, proc, kernel, world>>

UndoUnlocked(p) ==     \* mutant: the lock is not taken
    /\ UNCHANGED mu
    /\ proc' = [proc EXCEPT ![p] = [Idle EXCEPT !.pc = "enforce", !.kind = "undo",
                                      !.want = saved, !.addrs = forwarded]]
UndoActive(p) ==       \* mutant: the rules in force are put back, not the saved ones
    /\ mu' = p
    /\ proc' = [proc EXCEPT ![p] = [Idle EXCEPT !.pc = "enforce", !.kind = "undo",
                                      !.want = active, !.addrs = forwarded]]

\* enforce(saved) by whoever ended the trial.
Undo(p) == /\ mu' = p
           /\ proc' = [proc EXCEPT ![p] = [Idle EXCEPT !.pc = "enforce", !.kind = "undo",
                                             !.want = saved, !.addrs = forwarded]]

Revert(o) ==
    /\ Ready(o, "settle") /\ mu = Free /\ trial # 0
    /\ stopTrial /\ Undo(o)
    /\ UNCHANGED <<saved, active, follow, scope, stored, kernel, world, budget>>

\* The two minutes are over: the timer's goroutine starts and wants the lock.
Fire(t) ==
    /\ timer[t] = "armed"
    /\ timer' = [timer EXCEPT ![t] = "fired"]
    /\ UNCHANGED <<saved, active, follow, scope, trial, mu, proc, stored, kernel, world, budget>>

\* ... confirmed, reverted or replaced meanwhile: nothing to do.
AnyTimer(t) == trial # 0    \* mutant: whichever trial runs now
Mine(t) == trial = t
Expire(t) ==
    /\ timer[t] = "fired" /\ mu = Free
    /\ timer' = [timer EXCEPT ![t] = "done"]
    /\ \/ Mine(t) /\ trial' = 0 /\ Undo(t)
       \/ ~Mine(t) /\ UNCHANGED <<trial, mu, proc>>
    /\ UNCHANGED <<saved, active, follow, scope, stored, kernel, world, budget>>

-----------------------------------------------------------------------------
(* SetFollow                                                               *)

FollowBegin(o, ip, on) ==
    /\ Ready(o, "follow") /\ ip \in forwarded
    /\ proc' = [proc EXCEPT ![o] = [Idle EXCEPT !.pc = "locked", !.kind = "follow", !.ip = ip,
                                      !.on = on, !.addrs = forwarded]]
    /\ UNCHANGED <<mgr, mu, stored, kernel, world, budget>>

\* A refusal leaves the field as it was, but not the family already changed.
SetFollow(o) ==
    LET fol == IF proc[o].on THEN follow \cup {proc[o].ip} ELSE follow \ {proc[o].ip}
        sc  == scopeOf(proc[o].addrs, fol)
    IN
    /\ proc[o].pc = "locked" /\ proc[o].kind = "follow" /\ mu = Free
    /\ \/ /\ active = None
          /\ follow' = fol /\ \E ok \in BOOLEAN : Persist(saved, fol, ok)
          /\ UNCHANGED <<scope, kernel>>
       \/ /\ active # None /\ kernel' = Applied(active, sc) /\ scope' = sc
          /\ follow' = fol /\ \E ok \in BOOLEAN : Persist(saved, fol, ok)
       \/ /\ active # None /\ Apply(active, sc, FALSE)
          /\ UNCHANGED <<follow, scope, stored>>
    /\ Finished(o)
    /\ UNCHANGED <<saved, active, trial, timer, world>>

-----------------------------------------------------------------------------
(* Start and Maintain                                                      *)

\* A reading error leaves the manager without rules; with no rules stored the
\* firewall is not touched; a refusal leaves active nil.
Start ==
    LET sc == scopeOf(forwarded, stored.follow) IN
    /\ proc[Janitor].pc = "start"
    /\ \/ Upset("db") /\ UNCHANGED <<mgr, kernel>>
       \/ /\ saved' = stored.rules /\ follow' = stored.follow
          /\ \/ stored.rules = None /\ UNCHANGED <<active, scope, kernel, budget>>
             \/ /\ stored.rules # None /\ Apply(stored.rules, sc, TRUE)
                /\ active' = stored.rules /\ scope' = sc
             \/ /\ stored.rules # None /\ Apply(stored.rules, sc, FALSE)
                /\ UNCHANGED <<active, scope>>
          /\ UNCHANGED <<trial, timer>>
    /\ Goto(Janitor, "idle")
    /\ UNCHANGED <<mu, stored, world>>

MaintainBegin ==
    /\ proc[Janitor].pc = "idle"
    /\ proc' = [proc EXCEPT ![Janitor].pc = "maintain", ![Janitor].addrs = forwarded]
    /\ UNCHANGED <<mgr, mu, stored, kernel, world, budget>>

Maintain ==
    LET sc == scopeOf(proc[Janitor].addrs, follow) IN
    /\ proc[Janitor].pc = "maintain" /\ mu = Free
    /\ \/ active = None /\ UNCHANGED <<scope, kernel, budget>>
       \/ active # None /\ sc # scope /\ Apply(active, sc, TRUE) /\ scope' = sc
       \/ active # None /\ sc # scope /\ Apply(active, sc, FALSE) /\ UNCHANGED scope
       \/ active # None /\ sc = scope /\ Ensure(active, scope) /\ UNCHANGED scope
    /\ Goto(Janitor, "idle")
    /\ UNCHANGED <<saved, active, follow, trial, timer, mu, stored, world>>

-----------------------------------------------------------------------------
(* The world around the process                                            *)

\* An instance gets or loses an address.
Move(ip) ==
    /\ moves < MaxMoves /\ moves' = moves + 1
    /\ forwarded' = IF ip \in forwarded THEN forwarded \ {ip} ELSE forwarded \cup {ip}
    /\ UNCHANGED <<mgr, mu, proc, stored, kernel, budget>>

\* A reload takes the jumps or the chains; "iptables -F" (upset "wipe") takes
\* jumps and rules and leaves the chains.
Flush(f) ==
    /\ kernel[f].rules # Gone
    /\ \/ Upset("flush") /\ kernel' = [kernel EXCEPT ![f].hooked = FALSE]
       \/ Upset("flush") /\ kernel' = [kernel EXCEPT ![f] = GoneChain]
       \/ Upset("wipe") /\ kernel' = [kernel EXCEPT ![f] = [GoneChain EXCEPT !.rules = None]]
    /\ UNCHANGED <<mgr, mu, proc, stored, world>>

Fresh == [p \in Procs |-> IF p = Janitor THEN [Idle EXCEPT !.pc = "start"] ELSE Idle]

\* The process dies and starts again; the kernel's rules survive unless the
\* machine reboots.
Restart(reboot) ==
    /\ Upset("crash")
    /\ saved' = None /\ active' = None /\ follow' = {} /\ scope' = NoScope
    /\ trial' = 0 /\ timer' = [t \in Trials |-> "unused"]
    /\ mu' = Free /\ proc' = Fresh
    /\ kernel' = IF reboot THEN [f \in Families |-> GoneChain] ELSE kernel
    /\ UNCHANGED <<stored, world>>

Init ==
    /\ saved = None /\ active = None /\ follow = {} /\ scope = NoScope
    /\ trial = 0 /\ timer = [t \in Trials |-> "unused"]
    /\ mu = Free /\ proc = Fresh
    /\ stored \in [rules : InitialStored, follow : {{}}]
    /\ kernel = [f \in Families |-> GoneChain]
    /\ forwarded \in SUBSET Addrs /\ moves = 0
    /\ budget = Budget

Holder(p) == Enforce(p) \/ Restore(p)
OperatorStep(o) ==
    \/ \E rs \in Choices : SetBegin(o, rs)
    \/ SetLock(o) \/ SetFinish(o) \/ Confirm(o) \/ Revert(o) \/ SetFollow(o)
    \/ \E ip \in Addrs, on \in BOOLEAN : FollowBegin(o, ip, on)
    \/ Holder(o)
TimerStep(t) == Fire(t) \/ Expire(t) \/ Holder(t)
JanitorStep == Start \/ MaintainBegin \/ Maintain
World ==
    \/ \E ip \in Addrs : Move(ip)
    \/ \E f \in Families : Flush(f)
    \/ \E reboot \in BOOLEAN : Restart(reboot)

Next ==
    \/ \E o \in Operators : OperatorStep(o)
    \/ \E t \in Trials : TimerStep(t)
    \/ JanitorStep
    \/ World

Spec == Init /\ [][Next]_vars

(***************************************************************************)
(* Timers fire; a goroutine that wants the lock gets it (sync.Mutex does   *)
(* not starve) and a request in progress goes on; the minute ticker keeps  *)
(* ticking.  Nobody has to send a request.                                 *)
(***************************************************************************)
FairSpec ==
    /\ Spec
    /\ \A t \in Trials : WF_vars(Fire(t)) /\ SF_vars(Expire(t)) /\ WF_vars(Holder(t))
    /\ \A o \in Operators : WF_vars(Holder(o)) /\ WF_vars(SetFinish(o))
    /\ WF_vars(Start) /\ WF_vars(MaintainBegin) /\ SF_vars(Maintain)

(***************************************************************************)
(* Properties                                                              *)
(***************************************************************************)

\* Every variable keeps its type, and only one goroutine is past the lock.
TypeOK ==
    /\ saved \in RuleSets /\ active \in RuleSets
    /\ follow \subseteq Addrs /\ scope \in Scopes
    /\ trial \in 0..MaxTrials
    /\ timer \in [Trials -> {"unused", "armed", "fired", "done"}]
    /\ mu \in Procs \cup {Free}
    /\ proc \in [Procs -> ProcState]
    /\ \A p \in Procs : proc[p].pc \in {"enforce", "restore", "finish"} <=> mu = p
    /\ stored \in [rules : RuleSets, follow : SUBSET Addrs]
    /\ kernel \in [Families -> ChainState]
    /\ forwarded \subseteq Addrs /\ moves \in 0..MaxMoves
    /\ budget \in [Upsets -> Nat]

\* A restriction of a protected port gets into the database only out of the
\* trial of those very rules, through failing calls, restarts and a stale
\* memory of what was stored (Set: "saved only by Confirm").
StoredWasOnTrial ==
    [][riskyPorts(stored.rules, stored'.rules) # {} =>
         trial # 0 /\ trial' = 0 /\ active = stored'.rules]_vars

\* A trial that no request ends is ended by its own timer, after its whole
\* time: the goroutine of a replaced or confirmed trial, already waiting for
\* the lock, never undoes a later one (expire).
EndedByOwnTimer ==
    [][(trial # 0 /\ trial' = 0 /\ \A o \in Operators : proc'[o] = proc[o] /\ saved' = saved)
         => timer[trial] = "fired" \/ proc' = Fresh]_vars

\* The firewall holds a restriction of a protected port that is not stored
\* only while a timer is there to undo it, or somebody is just doing so: the
\* administrator cannot be locked out for good.
InForce(f) == IF kernel[f].hooked /\ kernel[f].rules # Gone THEN kernel[f].rules ELSE None
Unconfirmed == \E f \in Families : riskyPorts(stored.rules, InForce(f)) # {}
LockoutHasTimer ==
    Unconfirmed => \/ trial # 0 /\ timer[trial] \in {"armed", "fired"}
                   \/ mu # Free
                   \/ proc[Janitor].pc = "start"

\* Between two operations, with no trial running, what is in force is what is
\* saved and what is stored, so a restart changes nothing.
SettledIsStored ==
    mu = Free /\ trial = 0 /\ proc[Janitor].pc # "start" =>
      /\ active = saved
      /\ stored = [rules |-> saved, follow |-> follow]

\* When no operation is half way, the manager knows which rules the firewall
\* holds, unless something outside flushed them: a change that was refused is
\* put back, also when only one family took it (enforce).  Which addresses they
\* cover is not said: SetFollow does not put that back.
KernelIsActive ==
    mu = Free /\ active # None =>
      \A f \in Families : kernel[f].rules \in {active, Gone, None}

\* An unconfirmed restriction ends up confirmed or undone, whatever the
\* operators do meanwhile.
LockoutEnds == Unconfirmed ~> ~Unconfirmed

\* The saved rules end up in force, for the addresses forwarded now, on every
\* family, whatever was reloaded and however often the process restarted.
RulesHealed ==
    (trial = 0 /\ saved # None) ~>
      \/ trial # 0 \/ saved = None
      \/ kernel = Applied(saved, scopeOf(forwarded, follow))

-----------------------------------------------------------------------------
(* What all of this promises: ConfirmedChange.  A set of rules counts as put *)
(* once enforce has put it in force, and as undone once the trial is over,   *)
(* though the firewall is called after that; a start brings back the kept.   *)

PuttingIn == \E p \in Procs : proc[p].pc = "finish"
GoingBack ==
    proc[Janitor].pc = "start" \/ \E p \in Procs : proc[p].pc = "enforce" /\ proc[p].kind = "undo"
RiskyPairs == {c \in RuleSets \X RuleSets : riskyPorts(c[1], c[2]) # {}}
Running == IF GoingBack THEN stored.rules ELSE active
Phase == IF PuttingIn THEN "put" ELSE IF trial # 0 THEN "trial" ELSE "settled"

Change == INSTANCE ConfirmedChange WITH
    Rules <- RuleSets, First <- InitialStored, Restricting <- RiskyPairs,
    kept <- stored.rules, running <- Running, phase <- Phase

\* As long as no call fails, the manager with its lock, timers, crashes and
\* starts is a ConfirmedChange: rules are kept only when harmless beside what
\* was kept, or when those in force are confirmed, and all others give way.
\* In force is what the Manager holds active, or is about to put back;
\* KernelIsActive says when the firewall has it.
KeepsConfirmed == Change!Spec
=============================================================================
