-------------------------- MODULE PortRules_proofs --------------------------
(***************************************************************************)
(* What is proved of PortRules for any number of operators, trials,        *)
(* protected ports, addresses and upsets.                                  *)
(***************************************************************************)
EXTENDS PortRules, TLAPS

\* A change that still has to be judged finds a trial that was not used yet.
TrialLeft ==
    \A p \in Procs :
        proc[p].pc = "finish" \/ (proc[p].pc = "enforce" /\ proc[p].kind = "set")
            => \E t \in Trials : timer[t] = "unused"

\* A request to follow an address names one.
FollowNamed ==
    \A p \in Procs : proc[p].pc = "locked" /\ proc[p].kind = "follow" => proc[p].ip \in Addrs

TypeInv == TypeOK /\ TrialLeft /\ FollowNamed

-----------------------------------------------------------------------------
(* The types of what the helpers write                                     *)

LEMMA UpsetType ==
    ASSUME NEW k \in Upsets, budget \in [Upsets -> Nat], Upset(k)
    PROVE  budget' \in [Upsets -> Nat]
  BY DEF Upset

LEMMA ScopeType ==
    ASSUME NEW addrs \in SUBSET Addrs, NEW fol \in SUBSET Addrs
    PROVE  scopeOf(addrs, fol) \in Scopes
  BY DEF scopeOf, Scopes

LEMMA AppliedType ==
    ASSUME NEW rs \in RuleSets, NEW sc \in Scopes
    PROVE  Applied(rs, sc) \in [Families -> ChainState]
  BY DEF Applied, ChainState

LEMMA ApplyType ==
    ASSUME TypeOK, NEW rs \in RuleSets, NEW sc \in Scopes, NEW ok \in BOOLEAN, Apply(rs, sc, ok)
    PROVE  kernel' \in [Families -> ChainState] /\ budget' \in [Upsets -> Nat]
  <1>1. CASE ok
    BY <1>1, AppliedType DEF Apply, TypeOK
  <1>2. CASE ~ok
    <2>1. budget' \in [Upsets -> Nat]
      BY <1>2, UpsetType DEF Apply, TypeOK, Upsets
    <2>2. PICK f \in Families, reached \in BOOLEAN :
            kernel' = [g \in Families |->
                         IF g \in Earlier(f) THEN Applied(rs, sc)[g]
                         ELSE IF g = f /\ reached
                              THEN [rules |-> rs, scope |-> sc, hooked |-> kernel[g].hooked]
                              ELSE kernel[g]]
      BY <1>2 DEF Apply
    <2>3. ASSUME NEW g \in Families
          PROVE  [rules |-> rs, scope |-> sc, hooked |-> kernel[g].hooked] \in ChainState
      BY DEF TypeOK, ChainState
    <2>4. Applied(rs, sc) \in [Families -> ChainState] /\ kernel \in [Families -> ChainState]
      BY AppliedType DEF TypeOK
    <2> QED
      BY <2>1, <2>2, <2>3, <2>4
  <1> QED
    BY <1>1, <1>2

LEMMA GoneType == GoneChain \in ChainState
  BY DEF GoneChain, ChainState, NoScope, Scopes

LEMMA RemoveType ==
    ASSUME TypeOK, Remove
    PROVE  kernel' \in [Families -> ChainState] /\ budget' \in [Upsets -> Nat]
  <1>1. budget' \in [Upsets -> Nat]
    BY UpsetType DEF Remove, TypeOK, Upsets
  <1>2. kernel' \in [Families -> ChainState]
    BY GoneType DEF Remove, TypeOK
  <1> QED
    BY <1>1, <1>2

LEMMA EnsureType ==
    ASSUME TypeOK, NEW rs \in RuleSets, NEW sc \in Scopes, Ensure(rs, sc)
    PROVE  kernel' \in [Families -> ChainState] /\ budget' \in [Upsets -> Nat]
  <1>1. CASE UNCHANGED budget /\ kernel' = [f \in Families |-> [kernel[f] EXCEPT !.hooked = TRUE]]
    BY <1>1 DEF TypeOK, ChainState
  <1>2. CASE \E ok \in BOOLEAN : Apply(rs, sc, ok)
    BY <1>2, ApplyType
  <1>3. CASE Upset("fw") /\ UNCHANGED kernel
    BY <1>3, UpsetType DEF TypeOK, Upsets
  <1> QED
    BY <1>1, <1>2, <1>3 DEF Ensure

LEMMA PersistType ==
    ASSUME TypeOK, NEW rs \in RuleSets, NEW fol \in SUBSET Addrs, NEW ok \in BOOLEAN,
           Persist(rs, fol, ok)
    PROVE  stored' \in [rules : RuleSets, follow : SUBSET Addrs] /\ budget' \in [Upsets -> Nat]
  BY UpsetType DEF Persist, TypeOK, Upsets

LEMMA IdleType == Idle \in ProcState
  BY DEF Idle, ProcState, PCs, Kinds, RuleSets

LEMMA TimerType ==
    ASSUME TypeOK, NEW t \in 0..MaxTrials
    PROVE  Stopped(t) \in [Trials -> {"unused", "armed", "fired", "done"}]
  BY DEF Stopped, TypeOK, Trials

-----------------------------------------------------------------------------
(* Type correctness, action by action                                      *)

\* A step that leaves mu alone and moves one goroutine between places that are
\* not behind the lock.
LEMMA OutsideLock ==
    ASSUME TypeInv, NEW p \in Procs, NEW st \in ProcState,
           proc' = [proc EXCEPT ![p] = st], UNCHANGED <<mu, timer>>,
           proc[p].pc \notin {"enforce", "restore", "finish"},
           st.pc \notin {"enforce", "restore", "finish"},
           st.pc = "locked" /\ st.kind = "follow" => st.ip \in Addrs
    PROVE  /\ mu' \in Procs \cup {Free}
           /\ proc' \in [Procs -> ProcState]
           /\ \A q \in Procs : proc'[q].pc \in {"enforce", "restore", "finish"} <=> mu' = q
           /\ TrialLeft' /\ FollowNamed'
  BY DEF TypeInv, TypeOK, TrialLeft, FollowNamed

\* A step that takes the free lock.
LEMMA TakesLock ==
    ASSUME TypeInv, NEW p \in Procs, NEW st \in ProcState,
           mu = Free, mu' = p, proc' = [proc EXCEPT ![p] = st],
           st.pc = "enforce",
           st.kind = "set" => \E t \in Trials : timer'[t] = "unused"
    PROVE  /\ mu' \in Procs \cup {Free}
           /\ proc' \in [Procs -> ProcState]
           /\ \A q \in Procs : proc'[q].pc \in {"enforce", "restore", "finish"} <=> mu' = q
           /\ TrialLeft' /\ FollowNamed'
  BY ProcsAssumption DEF TypeInv, TypeOK, TrialLeft, FollowNamed

\* A step of the holder that keeps the lock.
LEMMA KeepsLock ==
    ASSUME TypeInv, NEW p \in Procs, NEW l \in {"restore", "finish"},
           mu = p, UNCHANGED <<mu, timer>>, Goto(p, l),
           l = "finish" => proc[p].pc = "enforce" /\ proc[p].kind = "set"
    PROVE  /\ mu' \in Procs \cup {Free}
           /\ proc' \in [Procs -> ProcState]
           /\ \A q \in Procs : proc'[q].pc \in {"enforce", "restore", "finish"} <=> mu' = q
           /\ TrialLeft' /\ FollowNamed'
  <1>1. proc' = [proc EXCEPT ![p] = [proc[p] EXCEPT !.pc = l]] /\ proc[p] \in ProcState
    BY DEF Goto, TypeInv, TypeOK
  <1>2. [proc[p] EXCEPT !.pc = l] \in ProcState /\ [proc[p] EXCEPT !.pc = l].pc = l
        /\ [proc[p] EXCEPT !.pc = l].kind = proc[p].kind
    BY <1>1 DEF ProcState, PCs
  <1>3. proc' \in [Procs -> ProcState] /\ proc'[p].pc = l /\ \A q \in Procs \ {p} : proc'[q] = proc[q]
    BY <1>1, <1>2 DEF TypeInv, TypeOK
  <1> QED
    BY <1>3, ProcsAssumption DEF TypeInv, TypeOK, TrialLeft, FollowNamed

\* A step that gives the lock back, or never had to take it.
LEMMA GivesBack ==
    ASSUME TypeInv, NEW p \in Procs, Finished(p), mu \in {p, Free}
    PROVE  /\ mu' \in Procs \cup {Free}
           /\ proc' \in [Procs -> ProcState]
           /\ \A q \in Procs : proc'[q].pc \in {"enforce", "restore", "finish"} <=> mu' = q
           /\ TrialLeft' /\ FollowNamed'
  <1>1. proc' \in [Procs -> ProcState] /\ proc'[p].pc = "idle" /\ \A q \in Procs \ {p} : proc'[q] = proc[q]
    BY IdleType DEF Finished, TypeInv, TypeOK, Idle
  <1>2. \A q \in Procs : proc'[q].pc \notin {"enforce", "restore", "finish"}
    BY <1>1, ProcsAssumption DEF TypeInv, TypeOK
  <1>3. mu' = Free /\ Free \notin Procs
    BY ProcsAssumption DEF Finished
  <1> QED
    BY <1>1, <1>2, <1>3 DEF TypeInv, TypeOK, TrialLeft, FollowNamed

LEMMA RequestType ==
    ASSUME TypeInv, NEW o \in Operators,
           (\E rs \in Choices : SetBegin(o, rs)) \/ (\E ip \in Addrs, on \in BOOLEAN : FollowBegin(o, ip, on))
    PROVE  TypeInv'
  <1>0. o \in Procs /\ forwarded \subseteq Addrs
    BY DEF Procs, TypeInv, TypeOK
  <1>1. ASSUME NEW rs \in Choices, SetBegin(o, rs)
        PROVE  TypeInv'
    <2> DEFINE st == [Idle EXCEPT !.pc = "locked", !.want = rs, !.addrs = forwarded]
    <2>1. st \in ProcState /\ st.pc = "locked" /\ st.kind = "set"
      BY <1>0 DEF Idle, ProcState, PCs, Kinds, RuleSets
    <2>2. proc' = [proc EXCEPT ![o] = st] /\ proc[o].pc = "idle"
          /\ UNCHANGED <<mgr, mu, stored, kernel, world, budget>>
      BY <1>1 DEF SetBegin, Ready
    <2> HIDE DEF st
    <2> QED
      BY <1>0, <2>1, <2>2, OutsideLock DEF mgr, world, TypeInv, TypeOK
  <1>2. ASSUME NEW ip \in Addrs, NEW on \in BOOLEAN, FollowBegin(o, ip, on)
        PROVE  TypeInv'
    <2> DEFINE st == [Idle EXCEPT !.pc = "locked", !.kind = "follow", !.ip = ip, !.on = on, !.addrs = forwarded]
    <2>1. st \in ProcState /\ st.pc = "locked" /\ st.ip \in Addrs
      BY <1>0 DEF Idle, ProcState, PCs, Kinds, RuleSets
    <2>2. proc' = [proc EXCEPT ![o] = st] /\ proc[o].pc = "idle"
          /\ UNCHANGED <<mgr, mu, stored, kernel, world, budget>>
      BY <1>2 DEF FollowBegin, Ready
    <2> HIDE DEF st
    <2> QED
      BY <1>0, <2>1, <2>2, OutsideLock DEF mgr, world, TypeInv, TypeOK
  <1> QED
    BY <1>1, <1>2

LEMMA SetLockType ==
    ASSUME TypeInv, NEW o \in Operators, SetLock(o)
    PROVE  TypeInv'
  <1>1. o \in Procs /\ proc[o] \in ProcState
    BY DEF Procs, TypeInv, TypeOK
  <1> DEFINE st == [proc[o] EXCEPT !.pc = "enforce"]
  <1>2. st \in ProcState /\ st.pc = "enforce"
    BY <1>1 DEF ProcState, PCs
  <1>3. proc' = [proc EXCEPT ![o] = st] /\ mu = Free /\ mu' = o
        /\ (\E t \in Trials : timer'[t] = "unused")
        /\ UNCHANGED <<mgr, stored, kernel, world, budget>>
    BY DEF SetLock, Goto, mgr
  <1> HIDE DEF st
  <1> QED
    BY <1>1, <1>2, <1>3, TakesLock DEF mgr, world, TypeInv, TypeOK

LEMMA EnforceType ==
    ASSUME TypeInv, NEW p \in Procs, Enforce(p)
    PROVE  TypeInv'
  <1> DEFINE want == proc[p].want
             sc == scopeOf(proc[p].addrs, follow)
             done == IF proc[p].kind = "set" THEN Goto(p, "finish") /\ UNCHANGED mu ELSE Finished(p)
  <1>1. want \in RuleSets /\ proc[p].addrs \subseteq Addrs /\ follow \subseteq Addrs
    BY DEF TypeInv, TypeOK, ProcState
  <1>2. sc \in Scopes
    BY <1>1, ScopeType
  <1>3. proc[p].pc = "enforce" /\ mu = p /\ UNCHANGED <<saved, follow, trial, timer, stored, world>>
    BY DEF Enforce
  <1>4. ASSUME done
        PROVE  /\ mu' \in Procs \cup {Free}
               /\ proc' \in [Procs -> ProcState]
               /\ \A q \in Procs : proc'[q].pc \in {"enforce", "restore", "finish"} <=> mu' = q
               /\ TrialLeft' /\ FollowNamed'
    BY <1>3, <1>4, KeepsLock, GivesBack
  <1>5. CASE /\ want = None
             /\ IF active = None THEN UNCHANGED <<kernel, budget>> ELSE Remove
             /\ active' = None /\ done
             /\ UNCHANGED scope
    <2>1. kernel' \in [Families -> ChainState] /\ budget' \in [Upsets -> Nat]
      BY <1>5, RemoveType DEF TypeInv, TypeOK
    <2>2. active' \in RuleSets
      BY <1>5 DEF RuleSets
    <2> HIDE DEF want, sc, done
    <2> QED
      BY <1>3, <1>4, <1>5, <2>1, <2>2 DEF TypeInv, TypeOK, world
  <1>6. CASE /\ want # None /\ Apply(want, sc, TRUE)
             /\ active' = want /\ scope' = sc /\ done
    <2>1. kernel' \in [Families -> ChainState] /\ budget' \in [Upsets -> Nat]
      BY <1>1, <1>2, <1>6, ApplyType DEF TypeInv
    <2> HIDE DEF want, sc, done
    <2> QED
      BY <1>1, <1>2, <1>3, <1>4, <1>6, <2>1 DEF TypeInv, TypeOK, world
  <1>7. CASE /\ want # None /\ Apply(want, sc, FALSE)
             /\ Goto(p, "restore")
             /\ UNCHANGED <<active, scope, mu>>
    <2>1. kernel' \in [Families -> ChainState] /\ budget' \in [Upsets -> Nat]
      BY <1>1, <1>2, <1>7, ApplyType DEF TypeInv
    <2>2. /\ mu' \in Procs \cup {Free}
          /\ proc' \in [Procs -> ProcState]
          /\ \A q \in Procs : proc'[q].pc \in {"enforce", "restore", "finish"} <=> mu' = q
          /\ TrialLeft' /\ FollowNamed'
      BY <1>3, <1>7, KeepsLock
    <2> HIDE DEF want, sc, done
    <2> QED
      BY <1>3, <1>7, <2>1, <2>2 DEF TypeInv, TypeOK, world
  <1>8. EnforceSteps(p)
    BY DEF Enforce
  <1> QED
    BY <1>5, <1>6, <1>7, <1>8 DEF EnforceSteps

LEMMA RestoreType ==
    ASSUME TypeInv, NEW p \in Procs, Restore(p)
    PROVE  TypeInv'
  <1>1. mu = p /\ Finished(p) /\ UNCHANGED <<mgr, stored, world>>
        /\ (Remove \/ \E ok \in BOOLEAN : Apply(active, scope, ok))
    BY DEF Restore
  <1>2. kernel' \in [Families -> ChainState] /\ budget' \in [Upsets -> Nat]
    BY <1>1, RemoveType, ApplyType DEF TypeInv, TypeOK
  <1> QED
    BY <1>1, <1>2, GivesBack DEF TypeInv, TypeOK, mgr, world

LEMMA SetFinishType ==
    ASSUME TypeInv, NEW o \in Operators, SetFinish(o)
    PROVE  TypeInv'
  <1>1. o \in Procs /\ proc[o].pc = "finish" /\ mu = o /\ Finished(o)
        /\ UNCHANGED <<active, follow, scope, kernel, world>>
    BY DEF SetFinish, Procs
  <1>2. proc[o].want \in RuleSets /\ trial \in 0..MaxTrials
    BY <1>1 DEF TypeInv, TypeOK, ProcState
  <1>3. CASE /\ stopTrial
             /\ \E ok \in BOOLEAN : /\ Persist(proc[o].want, follow, ok)
                                    /\ saved' = IF ok THEN proc[o].want ELSE saved
    <2>1. trial' \in 0..MaxTrials /\ timer' \in [Trials -> {"unused", "armed", "fired", "done"}]
      BY <1>2, <1>3, TimerType, ProcsAssumption DEF stopTrial, TypeInv
    <2>2. saved' \in RuleSets
      BY <1>2, <1>3 DEF TypeInv, TypeOK
    <2>3. stored' \in [rules : RuleSets, follow : SUBSET Addrs] /\ budget' \in [Upsets -> Nat]
      BY <1>2, <1>3, PersistType DEF TypeInv, TypeOK
    <2> QED
      BY <1>1, <2>1, <2>2, <2>3, GivesBack DEF TypeInv, TypeOK, world
  <1>4. CASE /\ LET t == CHOOSE n \in Trials : timer[n] = "unused"
                IN  trial' = t /\ timer' = [Stopped(trial) EXCEPT ![t] = "armed"]
             /\ UNCHANGED <<saved, stored, budget>>
    <2> DEFINE t == CHOOSE n \in Trials : timer[n] = "unused"
    <2>1. \E n \in Trials : timer[n] = "unused"
      BY <1>1 DEF TypeInv, TrialLeft
    <2>2. t \in Trials
      BY <2>1
    <2>3. trial' = t /\ timer' = [Stopped(trial) EXCEPT ![t] = "armed"]
      BY <1>4
    <2> HIDE DEF t
    <2>4. trial' \in 0..MaxTrials /\ timer' \in [Trials -> {"unused", "armed", "fired", "done"}]
      BY <1>2, <2>2, <2>3, TimerType, ProcsAssumption DEF TypeInv, Trials
    <2> QED
      BY <1>1, <1>4, <2>4, GivesBack DEF TypeInv, TypeOK, world
  <1> QED
    BY <1>3, <1>4 DEF SetFinish

\* What the requests that end a trial leave of the timers.
LEMMA StopKeepsUnused ==
    ASSUME TypeInv, NEW t \in Trials, stopTrial, timer[t] = "unused"
    PROVE  timer'[t] = "unused"
  BY DEF stopTrial, Stopped, TypeInv, TypeOK

LEMMA ConfirmType ==
    ASSUME TypeInv, NEW o \in Operators, Confirm(o)
    PROVE  TypeInv'
  <1>1. UNCHANGED <<active, follow, scope, mu, proc, kernel, world>> /\ mu = Free
    BY DEF Confirm
  <1>2. (\E ok \in BOOLEAN : Persist(active, follow, ok)) /\ saved' \in {saved, active}
        /\ (stopTrial \/ UNCHANGED <<trial, timer>>)
    BY DEF Confirm
  <1>3. stored' \in [rules : RuleSets, follow : SUBSET Addrs] /\ budget' \in [Upsets -> Nat]
    BY <1>2, PersistType DEF TypeInv, TypeOK
  <1>4. trial' \in 0..MaxTrials /\ timer' \in [Trials -> {"unused", "armed", "fired", "done"}]
    BY <1>2, TimerType, ProcsAssumption DEF stopTrial, TypeInv, TypeOK
  <1>5. TrialLeft' /\ FollowNamed'
    BY <1>1, ProcsAssumption DEF TypeInv, TypeOK, TrialLeft, FollowNamed
  <1> QED
    BY <1>1, <1>2, <1>3, <1>4, <1>5 DEF TypeInv, TypeOK, world

LEMMA UndoType ==
    ASSUME TypeInv, NEW p \in Procs, mu = Free, Undo(p)
    PROVE  /\ mu' \in Procs \cup {Free}
           /\ proc' \in [Procs -> ProcState]
           /\ \A q \in Procs : proc'[q].pc \in {"enforce", "restore", "finish"} <=> mu' = q
           /\ TrialLeft' /\ FollowNamed'
  <1> DEFINE st == [Idle EXCEPT !.pc = "enforce", !.kind = "undo", !.want = saved, !.addrs = forwarded]
  <1>1. st \in ProcState /\ st.pc = "enforce" /\ st.kind = "undo"
    BY DEF Idle, ProcState, PCs, Kinds, RuleSets, TypeInv, TypeOK
  <1>2. mu' = p /\ proc' = [proc EXCEPT ![p] = st]
    BY DEF Undo
  <1> HIDE DEF st
  <1> QED
    BY <1>1, <1>2, TakesLock

LEMMA RevertType ==
    ASSUME TypeInv, NEW o \in Operators, Revert(o)
    PROVE  TypeInv'
  <1>1. o \in Procs /\ mu = Free /\ stopTrial /\ Undo(o)
        /\ UNCHANGED <<saved, active, follow, scope, stored, kernel, world, budget>>
    BY DEF Revert, Procs
  <1>2. trial' \in 0..MaxTrials /\ timer' \in [Trials -> {"unused", "armed", "fired", "done"}]
    BY <1>1, TimerType, ProcsAssumption DEF stopTrial, TypeInv, TypeOK
  <1> QED
    BY <1>1, <1>2, UndoType DEF TypeInv, TypeOK, world

LEMMA TimerStepType ==
    ASSUME TypeInv, NEW t \in Trials, Fire(t) \/ Expire(t)
    PROVE  TypeInv'
  <1>0. t \in Procs
    BY DEF Procs
  <1>1. CASE Fire(t)
    <2>1. timer' \in [Trials -> {"unused", "armed", "fired", "done"}]
          /\ \A n \in Trials : timer[n] = "unused" => timer'[n] = "unused"
      BY <1>1 DEF Fire, TypeInv, TypeOK
    <2> QED
      BY <1>1, <2>1 DEF Fire, TypeInv, TypeOK, TrialLeft, FollowNamed, world
  <1>2. CASE Expire(t)
    <2>1. timer' \in [Trials -> {"unused", "armed", "fired", "done"}]
          /\ \A n \in Trials : timer[n] = "unused" => timer'[n] = "unused"
      BY <1>2 DEF Expire, TypeInv, TypeOK
    <2>2. mu = Free /\ UNCHANGED <<saved, active, follow, scope, stored, kernel, world, budget>>
      BY <1>2 DEF Expire
    <2>3. CASE trial' = 0 /\ Undo(t)
      BY <1>0, <2>1, <2>2, <2>3, UndoType, ProcsAssumption DEF TypeInv, TypeOK, world
    <2>4. CASE UNCHANGED <<trial, mu, proc>>
      BY <2>1, <2>2, <2>4 DEF TypeInv, TypeOK, TrialLeft, FollowNamed, world
    <2> QED
      BY <1>2, <2>3, <2>4 DEF Expire
  <1> QED
    BY <1>1, <1>2

LEMMA SetFollowType ==
    ASSUME TypeInv, NEW o \in Operators, SetFollow(o)
    PROVE  TypeInv'
  <1> DEFINE fol == IF proc[o].on THEN follow \cup {proc[o].ip} ELSE follow \ {proc[o].ip}
             sc == scopeOf(proc[o].addrs, fol)
  <1>1. o \in Procs /\ mu = Free /\ Finished(o) /\ UNCHANGED <<saved, active, trial, timer, world>>
    BY DEF SetFollow, Procs
  <1>2. proc[o].ip \in Addrs /\ proc[o].addrs \subseteq Addrs
    BY <1>1 DEF SetFollow, TypeInv, TypeOK, FollowNamed, ProcState
  <1>3. fol \in SUBSET Addrs /\ sc \in Scopes
    BY <1>2, ScopeType DEF TypeInv, TypeOK
  <1>4. ASSUME follow' = fol /\ \E ok \in BOOLEAN : Persist(saved, fol, ok)
        PROVE  /\ follow' \subseteq Addrs
               /\ stored' \in [rules : RuleSets, follow : SUBSET Addrs] /\ budget' \in [Upsets -> Nat]
    BY <1>3, <1>4, PersistType DEF TypeInv, TypeOK
  <1>5. CASE /\ follow' = fol /\ \E ok \in BOOLEAN : Persist(saved, fol, ok)
             /\ UNCHANGED <<scope, kernel>>
    <2> HIDE DEF fol, sc
    <2> QED
      BY <1>1, <1>4, <1>5, GivesBack DEF TypeInv, TypeOK, world
  <1>6. CASE /\ kernel' = Applied(active, sc) /\ scope' = sc
             /\ follow' = fol /\ \E ok \in BOOLEAN : Persist(saved, fol, ok)
    <2>1. kernel' \in [Families -> ChainState]
      BY <1>3, <1>6, AppliedType DEF TypeInv, TypeOK
    <2> HIDE DEF fol, sc
    <2> QED
      BY <1>1, <1>3, <1>4, <1>6, <2>1, GivesBack DEF TypeInv, TypeOK, world
  <1>7. CASE Apply(active, sc, FALSE) /\ UNCHANGED <<follow, scope, stored>>
    <2>1. kernel' \in [Families -> ChainState] /\ budget' \in [Upsets -> Nat]
      BY <1>3, <1>7, ApplyType DEF TypeInv, TypeOK
    <2> HIDE DEF fol, sc
    <2> QED
      BY <1>1, <1>7, <2>1, GivesBack DEF TypeInv, TypeOK, world
  <1> QED
    BY <1>5, <1>6, <1>7 DEF SetFollow

\* A step of Start or of the maintenance goroutine.
LEMMA JanitorMoves ==
    ASSUME TypeInv, proc[Janitor].pc \in {"start", "idle", "maintain"},
           NEW l \in {"idle", "maintain"}, Goto(Janitor, l), UNCHANGED <<mu, timer>>
    PROVE  /\ mu' \in Procs \cup {Free}
           /\ proc' \in [Procs -> ProcState]
           /\ \A q \in Procs : proc'[q].pc \in {"enforce", "restore", "finish"} <=> mu' = q
           /\ TrialLeft' /\ FollowNamed'
  <1> DEFINE st == [proc[Janitor] EXCEPT !.pc = l]
  <1>1. Janitor \in Procs /\ proc[Janitor] \in ProcState
    BY DEF Procs, TypeInv, TypeOK
  <1>2. st \in ProcState /\ st.pc = l /\ proc' = [proc EXCEPT ![Janitor] = st]
    BY <1>1 DEF ProcState, PCs, Goto
  <1> HIDE DEF st
  <1> QED
    BY <1>1, <1>2, OutsideLock

LEMMA StartType ==
    ASSUME TypeInv, Start
    PROVE  TypeInv'
  <1> DEFINE sc == scopeOf(forwarded, stored.follow)
             unread == Upset("db") /\ UNCHANGED mgr /\ UNCHANGED kernel
             none == /\ saved' = stored.rules /\ follow' = stored.follow
                     /\ UNCHANGED active /\ UNCHANGED scope /\ UNCHANGED kernel
                     /\ UNCHANGED budget /\ UNCHANGED trial /\ UNCHANGED timer
             applied == /\ saved' = stored.rules /\ follow' = stored.follow
                        /\ Apply(stored.rules, sc, TRUE)
                        /\ active' = stored.rules /\ scope' = sc
                        /\ UNCHANGED trial /\ UNCHANGED timer
             refused == /\ saved' = stored.rules /\ follow' = stored.follow
                        /\ Apply(stored.rules, sc, FALSE)
                        /\ UNCHANGED active /\ UNCHANGED scope
                        /\ UNCHANGED trial /\ UNCHANGED timer
  <1>1. stored.rules \in RuleSets /\ stored.follow \in SUBSET Addrs /\ sc \in Scopes
    BY ScopeType DEF TypeInv, TypeOK
  <1>2. proc[Janitor].pc = "start" /\ Goto(Janitor, "idle")
        /\ UNCHANGED mu /\ UNCHANGED stored /\ UNCHANGED world
    BY DEF Start
  <1>3. CASE unread
    BY <1>2, <1>3, JanitorMoves, UpsetType DEF TypeInv, TypeOK, mgr, world, Upsets
  <1>4. CASE none
    BY <1>1, <1>2, <1>4, JanitorMoves DEF TypeInv, TypeOK, world
  <1>5. CASE applied \/ refused
    <2>1. kernel' \in [Families -> ChainState] /\ budget' \in [Upsets -> Nat]
      BY <1>1, <1>5, ApplyType DEF TypeInv
    <2>2. active' \in RuleSets /\ scope' \in Scopes
      BY <1>1, <1>5 DEF TypeInv, TypeOK
    <2>3. /\ saved' = stored.rules /\ follow' = stored.follow
          /\ UNCHANGED trial /\ UNCHANGED timer
      BY <1>5
    <2> HIDE DEF applied, refused, sc
    <2> QED
      BY <1>1, <1>2, <2>1, <2>2, <2>3, JanitorMoves DEF TypeInv, TypeOK, world
  <1>6. unread \/ none \/ applied \/ refused
    BY DEF Start
  <1> HIDE DEF unread, none, applied, refused
  <1> QED
    BY <1>3, <1>4, <1>5, <1>6

LEMMA MaintainType ==
    ASSUME TypeInv, MaintainBegin \/ Maintain
    PROVE  TypeInv'
  <1>1. CASE MaintainBegin
    <2> DEFINE st == [proc[Janitor] EXCEPT !.pc = "maintain", !.addrs = forwarded]
    <2>1. Janitor \in Procs /\ proc[Janitor] \in ProcState /\ forwarded \subseteq Addrs
      BY DEF Procs, TypeInv, TypeOK
    <2>2. st \in ProcState /\ st.pc = "maintain"
      BY <2>1 DEF ProcState, PCs
    <2>3. proc' = [proc EXCEPT ![Janitor] = st] /\ proc[Janitor].pc = "idle"
          /\ UNCHANGED <<mgr, mu, stored, kernel, world, budget>>
      BY <1>1, <2>1 DEF MaintainBegin, TypeInv, TypeOK
    <2> HIDE DEF st
    <2> QED
      BY <2>1, <2>2, <2>3, OutsideLock DEF TypeInv, TypeOK, mgr, world
  <1>2. CASE Maintain
    <2> DEFINE sc == scopeOf(proc[Janitor].addrs, follow)
    <2>1. sc \in Scopes
      BY ScopeType DEF TypeInv, TypeOK, Procs, ProcState
    <2>2. proc[Janitor].pc = "maintain" /\ Goto(Janitor, "idle")
          /\ UNCHANGED <<saved, active, follow, trial, timer, mu, stored, world>>
      BY <1>2 DEF Maintain
    <2>3. kernel' \in [Families -> ChainState] /\ budget' \in [Upsets -> Nat] /\ scope' \in Scopes
      BY <1>2, <2>1, ApplyType, EnsureType DEF Maintain, TypeInv, TypeOK
    <2> QED
      BY <2>2, <2>3, JanitorMoves DEF TypeInv, TypeOK, world
  <1> QED
    BY <1>1, <1>2

LEMMA FreshType ==
    /\ Fresh \in [Procs -> ProcState]
    /\ \A p \in Procs : Fresh[p].pc \in {"start", "idle"}
    /\ Free \notin Procs
  <1>1. [Idle EXCEPT !.pc = "start"] \in ProcState /\ Idle.pc = "idle"
        /\ [Idle EXCEPT !.pc = "start"].pc = "start"
    BY IdleType DEF Idle, ProcState, PCs
  <1> QED
    BY <1>1, IdleType, ProcsAssumption DEF Fresh

LEMMA WorldType ==
    ASSUME TypeInv, World
    PROVE  TypeInv'
  <1>1. ASSUME NEW ip \in Addrs, Move(ip)
        PROVE  TypeInv'
    <2>1. forwarded' \subseteq Addrs /\ moves' \in 0..MaxMoves
      BY <1>1, ProcsAssumption DEF Move, TypeInv, TypeOK
    <2> QED
      BY <1>1, <2>1 DEF Move, TypeInv, TypeOK, TrialLeft, FollowNamed, mgr
  <1>2. ASSUME NEW f \in Families, Flush(f)
        PROVE  TypeInv'
    <2>1. kernel' \in [Families -> ChainState]
      <3>1. [GoneChain EXCEPT !.rules = None] \in ChainState
        BY GoneType DEF ChainState, RuleSets
      <3>2. [kernel[f] EXCEPT !.hooked = FALSE] \in ChainState
        BY DEF ChainState, TypeInv, TypeOK
      <3> QED
        BY <1>2, <3>1, <3>2, GoneType DEF Flush, TypeInv, TypeOK
    <2>2. budget' \in [Upsets -> Nat]
      BY <1>2, UpsetType DEF Flush, TypeInv, TypeOK, Upsets
    <2> QED
      BY <1>2, <2>1, <2>2 DEF Flush, TypeInv, TypeOK, TrialLeft, FollowNamed, mgr, world
  <1>3. ASSUME NEW reboot \in BOOLEAN, Restart(reboot)
        PROVE  TypeInv'
    <2>1. kernel' \in [Families -> ChainState] /\ budget' \in [Upsets -> Nat]
      BY <1>3, GoneType, UpsetType DEF Restart, TypeInv, TypeOK, Upsets
    <2>2. saved' \in RuleSets /\ active' \in RuleSets /\ follow' \subseteq Addrs /\ scope' \in Scopes
          /\ trial' \in 0..MaxTrials /\ timer' \in [Trials -> {"unused", "armed", "fired", "done"}]
      BY <1>3, ProcsAssumption DEF Restart, RuleSets, NoScope, Scopes
    <2>3. mu' = Free /\ proc' = Fresh /\ UNCHANGED <<stored, world>>
      BY <1>3 DEF Restart
    <2> QED
      BY <2>1, <2>2, <2>3, FreshType DEF TypeInv, TypeOK, TrialLeft, FollowNamed, world
  <1> QED
    BY <1>1, <1>2, <1>3 DEF World

LEMMA TypeStep ==
    ASSUME TypeInv, [Next]_vars
    PROVE  TypeInv'
  <1>1. ASSUME NEW o \in Operators, OperatorStep(o)
        PROVE  TypeInv'
    <2>1. o \in Procs
      BY DEF Procs
    <2> QED
      BY <1>1, <2>1, RequestType, SetLockType, SetFinishType, ConfirmType, RevertType, SetFollowType,
         EnforceType, RestoreType DEF OperatorStep, Holder
  <1>2. ASSUME NEW t \in Trials, TimerStep(t)
        PROVE  TypeInv'
    BY <1>2, TimerStepType, EnforceType, RestoreType DEF TimerStep, Holder, Procs
  <1>3. CASE JanitorStep
    BY <1>3, StartType, MaintainType DEF JanitorStep
  <1>4. CASE UNCHANGED vars
    BY <1>4 DEF TypeInv, TypeOK, TrialLeft, FollowNamed, vars, mgr, world
  <1> QED
    BY <1>1, <1>2, <1>3, <1>4, WorldType DEF Next

LEMMA TypeInit == Init => TypeInv
  <1> SUFFICES ASSUME Init PROVE TypeInv
    OBVIOUS
  <1>1. kernel \in [Families -> ChainState]
    BY GoneType DEF Init
  <1>2. stored \in [rules : RuleSets, follow : SUBSET Addrs]
    BY RulesAssumption DEF Init
  <1>3. scope \in Scopes /\ saved \in RuleSets /\ active \in RuleSets /\ budget \in [Upsets -> Nat]
        /\ moves \in 0..MaxMoves /\ trial \in 0..MaxTrials
    BY ProcsAssumption DEF Init, NoScope, Scopes, RuleSets
  <1> QED
    BY <1>1, <1>2, <1>3, FreshType DEF Init, TypeInv, TypeOK, TrialLeft, FollowNamed

\* Every variable keeps its type and at most one goroutine is past the lock of
\* the Manager, through failing calls, timers and restarts.
THEOREM PortsTypeCorrect == Spec => []TypeOK
  <1>1. TypeInv /\ [Next]_vars => TypeInv'
    BY TypeStep
  <1>2. TypeInv => TypeOK
    BY DEF TypeInv
  <1> QED
    BY TypeInit, <1>1, <1>2, PTL DEF Spec

-----------------------------------------------------------------------------
(* What is stored                                                          *)

\* The Manager knows the stored rules or, after a reading error, none.
SavedKnown == saved \in {None, stored.rules}

\* Rules are no restriction to themselves, and what is none against no rules is
\* none against any.
LEMMA RiskIsNew ==
    /\ \A r : riskyPorts(r, r) = {}
    /\ \A r, n : riskyPorts(None, n) = {} => riskyPorts(r, n) = {}
    /\ \A r : riskyPorts(r, None) = {}
  BY RulesAssumption DEF riskyPorts

\* Storing the saved rules again, with other addresses, restricts nothing.
LEMMA SavedAgain ==
    ASSUME SavedKnown, NEW fol, NEW ok \in BOOLEAN, Persist(saved, fol, ok)
    PROVE  /\ riskyPorts(stored.rules, stored'.rules) = {}
           /\ saved' = saved => SavedKnown'
  BY RiskIsNew DEF Persist, SavedKnown

\* One step keeps what the Manager knows, and stores no restriction but that of
\* the trial it ends.
StoresTried == riskyPorts(stored.rules, stored'.rules) # {} =>
                 trial # 0 /\ trial' = 0 /\ active = stored'.rules

LEMMA StoredStep ==
    ASSUME TypeInv, SavedKnown, [Next]_vars
    PROVE  SavedKnown' /\ StoresTried
  <1>1. ASSUME UNCHANGED stored, saved' \in {saved, None, stored.rules}
        PROVE  SavedKnown' /\ StoresTried
    BY <1>1, RiskIsNew DEF SavedKnown, StoresTried
  <1>2. ASSUME NEW o \in Operators, OperatorStep(o)
        PROVE  SavedKnown' /\ StoresTried
    <2>1. CASE SetFinish(o)
      <3>1. CASE ~Risky(saved, proc[o].want)
        <4>1. PICK ok \in BOOLEAN : /\ Persist(proc[o].want, follow, ok)
                                    /\ saved' = IF ok THEN proc[o].want ELSE saved
          BY <2>1, <3>1 DEF SetFinish
        <4> QED
          BY <3>1, <4>1, RiskIsNew DEF Persist, Risky, SavedKnown, StoresTried
      <3>2. CASE Risky(saved, proc[o].want)
        BY <1>1, <2>1, <3>2 DEF SetFinish
      <3> QED
        BY <3>1, <3>2
    <2>2. CASE Confirm(o)
      <3>1. CASE Persist(active, follow, TRUE) /\ stopTrial /\ saved' = active
        BY <2>2, <3>1 DEF Confirm, Persist, stopTrial, SavedKnown, StoresTried
      <3>2. CASE Persist(active, follow, FALSE) /\ UNCHANGED <<saved, trial, timer>>
        BY <1>1, <3>2 DEF Persist
      <3> QED
        BY <2>2, <3>1, <3>2 DEF Confirm
    <2>3. CASE SetFollow(o)
      <3> DEFINE fol == IF proc[o].on THEN follow \cup {proc[o].ip} ELSE follow \ {proc[o].ip}
      <3>1. saved' = saved
        BY <2>3 DEF SetFollow
      <3>2. UNCHANGED stored \/ \E ok \in BOOLEAN : Persist(saved, fol, ok)
        BY <2>3 DEF SetFollow
      <3> QED
        BY <1>1, <3>1, <3>2, SavedAgain DEF StoresTried
    <2>4. CASE \/ \E rs \in Choices : SetBegin(o, rs)
               \/ SetLock(o) \/ Revert(o) \/ Holder(o)
               \/ \E ip \in Addrs, on \in BOOLEAN : FollowBegin(o, ip, on)
      BY <1>1, <2>4 DEF SetBegin, SetLock, Revert, Holder, Enforce, Restore, FollowBegin, mgr
    <2> QED
      BY <1>2, <2>1, <2>2, <2>3, <2>4 DEF OperatorStep
  <1>3. ASSUME NEW t \in Trials, TimerStep(t)
        PROVE  SavedKnown' /\ StoresTried
    BY <1>1, <1>3 DEF TimerStep, Fire, Expire, Holder, Enforce, Restore, mgr
  <1>4. CASE JanitorStep
    BY <1>1, <1>4 DEF JanitorStep, Start, MaintainBegin, Maintain, mgr
  <1>5. CASE World
    BY <1>1, <1>5 DEF World, Move, Flush, Restart, mgr
  <1>6. CASE UNCHANGED vars
    BY <1>1, <1>6 DEF vars, mgr
  <1> QED
    BY <1>2, <1>3, <1>4, <1>5, <1>6 DEF Next

\* A restriction of a protected port gets into the database only out of the
\* trial of those very rules, whatever fails and whenever the process dies.
THEOREM StoredOnTrial == Spec => StoredWasOnTrial
  <1>1. Init => TypeInv /\ SavedKnown
    BY TypeInit DEF Init, SavedKnown
  <1>2. TypeInv /\ SavedKnown /\ [Next]_vars => (TypeInv /\ SavedKnown)'
    BY TypeStep, StoredStep
  <1>3. TypeInv /\ SavedKnown /\ [Next]_vars => [StoresTried]_vars
    BY StoredStep
  <1> QED
    BY <1>1, <1>2, <1>3, PTL DEF Spec, StoredWasOnTrial, StoresTried

-----------------------------------------------------------------------------
(* Who ends a trial                                                        *)

\* Until Start has run nothing else does.
StartAlone ==
    proc[Janitor].pc = "start" =>
        /\ trial = 0 /\ timer = [t \in Trials |-> "unused"]
        /\ \A p \in Procs \ {Janitor} : proc[p].pc = "idle"

\* A trial runs for rules that are in force and not the saved ones; who undoes
\* one has ended it.
TrialDiffers == trial # 0 /\ (\A p \in Procs : proc[p].pc # "finish") => active # saved
FinishInForce == \A p \in Procs : proc[p].pc = "finish" => active = proc[p].want
UndoEnded == \A p \in Procs : proc[p].pc = "enforce" /\ proc[p].kind # "set" => trial = 0

TrialInv == StartAlone /\ TrialDiffers /\ FinishInForce /\ UndoEnded

\* A step of p that leaves the rules and the trial alone.
LEMMA Elsewhere ==
    ASSUME TypeInv, TrialInv, NEW p \in Procs, NEW st,
           proc[Janitor].pc # "start", st.pc \notin {"finish", "start"}, proc[p].pc # "finish",
           st.pc = "enforce" => st.kind = "set",
           proc' = [proc EXCEPT ![p] = st], UNCHANGED <<saved, active, trial>>
    PROVE  TrialInv'
  <1>1. \A q \in Procs : proc'[q] = IF q = p THEN st ELSE proc[q]
    BY DEF TypeInv, TypeOK
  <1>2. Janitor \in Procs
    BY DEF Procs
  <1>3. StartAlone'
    BY <1>1, <1>2 DEF StartAlone
  <1>4. (\A q \in Procs : proc'[q].pc # "finish") => \A q \in Procs : proc[q].pc # "finish"
    BY <1>1
  <1>5. TrialDiffers' /\ FinishInForce' /\ UndoEnded'
    BY <1>1, <1>4 DEF TrialInv, TrialDiffers, FinishInForce, UndoEnded
  <1> QED
    BY <1>3, <1>5 DEF TrialInv

\* A step that leaves p, who alone may be past the lock, the only one there and
\* no trial running.
LEMMA NoTrial ==
    ASSUME TypeInv, NEW p \in Procs, mu \in {p, Free}, proc[Janitor].pc # "start",
           NEW st, st.pc \notin {"finish", "start"}, proc' = [proc EXCEPT ![p] = st], trial' = 0
    PROVE  TrialInv'
  <1>1. \A q \in Procs : proc'[q] = IF q = p THEN st ELSE proc[q]
    BY DEF TypeInv, TypeOK
  <1>2. \A q \in Procs \ {p} : proc[q].pc # "finish"
    BY ProcsAssumption DEF TypeInv, TypeOK
  <1>3. Janitor \in Procs
    BY DEF Procs
  <1> QED
    BY <1>1, <1>2, <1>3 DEF TrialInv, StartAlone, TrialDiffers, FinishInForce, UndoEnded

\* Whoever is not idle, or a timer that runs, says that Start has run.
LEMMA Started ==
    ASSUME TypeInv, TrialInv
    PROVE  /\ \A p \in Procs : proc[p].pc \notin {"idle", "start"} => proc[Janitor].pc # "start"
           /\ \A t \in Trials : timer[t] # "unused" => proc[Janitor].pc # "start"
           /\ trial # 0 => proc[Janitor].pc # "start"
  BY DEF TypeInv, TypeOK, TrialInv, StartAlone, Procs

LEMMA HolderTrial ==
    ASSUME TypeInv, TrialInv, NEW p \in Procs, Holder(p)
    PROVE  TrialInv'
  <1>1. mu = p /\ proc[p].pc \in {"enforce", "restore"} /\ UNCHANGED <<saved, trial, timer>>
    BY DEF Holder, Enforce, Restore, mgr
  <1>2. proc[Janitor].pc # "start"
    BY <1>1, Started
  <1>3. Idle.pc = "idle"
    BY DEF Idle
  <1>4. CASE Restore(p)
    BY <1>2, <1>3, <1>4, Elsewhere DEF Restore, Finished, mgr
  <1>5. CASE Enforce(p)
    <2>1. CASE Goto(p, "restore") /\ UNCHANGED active
      <3> DEFINE st == [proc[p] EXCEPT !.pc = "restore"]
      <3>1. proc' = [proc EXCEPT ![p] = st] /\ st.pc = "restore"
        BY <2>1 DEF Goto, TypeInv, TypeOK, ProcState
      <3> HIDE DEF st
      <3> QED
        BY <1>1, <1>2, <2>1, <3>1, Elsewhere
    <2>2. CASE proc[p].kind = "set" /\ Goto(p, "finish") /\ active' = proc[p].want
      <3>1. proc'[p].pc = "finish" /\ proc'[p].want = proc[p].want
            /\ \A q \in Procs \ {p} : proc'[q] = proc[q] /\ proc[q].pc \notin {"finish", "enforce"}
        BY <1>1, <2>2 DEF Goto, TypeInv, TypeOK, ProcState
      <3> QED
        BY <1>2, <2>2, <3>1 DEF TrialInv, StartAlone, TrialDiffers, FinishInForce, UndoEnded, Procs
    <2>3. CASE proc[p].kind # "set" /\ Finished(p)
      <3>1. proc[p].pc = "enforce" /\ trial = 0
        BY <1>5, <2>3 DEF Enforce, TrialInv, UndoEnded
      <3> QED
        BY <1>1, <1>2, <1>3, <2>3, <3>1, NoTrial DEF Finished
    <2> QED
      BY <1>5, <2>1, <2>2, <2>3 DEF Enforce, EnforceSteps
  <1> QED
    BY <1>4, <1>5 DEF Holder

LEMMA SetFinishTrial ==
    ASSUME TypeInv, TrialInv, NEW o \in Operators, SetFinish(o)
    PROVE  TrialInv'
  <1>1. o \in Procs /\ mu = o /\ proc[o].pc = "finish" /\ Finished(o) /\ UNCHANGED active
    BY DEF SetFinish, Procs
  <1>2. proc[Janitor].pc # "start"
    BY <1>1, Started
  <1>3. CASE stopTrial
    BY <1>1, <1>2, <1>3, NoTrial DEF stopTrial, Finished, Idle
  <1>4. CASE Risky(saved, proc[o].want) /\ saved' = saved
    <2>1. active # saved
      BY <1>1, <1>4, RiskIsNew DEF Risky, TrialInv, FinishInForce
    <2>2. proc'[o].pc = "idle" /\ \A q \in Procs \ {o} : proc'[q] = proc[q] /\ proc[q].pc \notin {"finish", "enforce"}
      BY <1>1 DEF Finished, Idle, TypeInv, TypeOK
    <2>3. Janitor \in Procs /\ o # Janitor
      BY ProcsAssumption DEF Procs
    <2> QED
      BY <1>1, <1>2, <1>4, <2>1, <2>2, <2>3
      DEF TrialInv, StartAlone, TrialDiffers, FinishInForce, UndoEnded
  <1> QED
    BY <1>3, <1>4 DEF SetFinish

\* The goroutine that undoes a trial has ended it.
LEMMA UndoTrial ==
    ASSUME TypeInv, NEW p \in Procs, mu = Free, proc[Janitor].pc # "start",
           Undo(p), trial' = 0
    PROVE  TrialInv'
  <1> DEFINE st == [Idle EXCEPT !.pc = "enforce", !.kind = "undo", !.want = saved, !.addrs = forwarded]
  <1>1. st.pc = "enforce" /\ proc' = [proc EXCEPT ![p] = st]
    BY DEF Undo, Idle
  <1> HIDE DEF st
  <1> QED
    BY <1>1, NoTrial

LEMMA OperatorTrial ==
    ASSUME TypeInv, TrialInv, NEW o \in Operators, OperatorStep(o)
    PROVE  TrialInv'
  <1>1. o \in Procs
    BY DEF Procs
  <1>2. ASSUME NEW rs \in Choices, SetBegin(o, rs)
        PROVE  TrialInv'
    <2> DEFINE st == [Idle EXCEPT !.pc = "locked", !.want = rs, !.addrs = forwarded]
    <2>1. st.pc = "locked" /\ proc' = [proc EXCEPT ![o] = st] /\ proc[o].pc = "idle"
          /\ proc[Janitor].pc # "start" /\ UNCHANGED <<saved, active, trial>>
      BY <1>2 DEF SetBegin, Ready, Idle, mgr
    <2> HIDE DEF st
    <2> QED
      BY <1>1, <2>1, Elsewhere
  <1>3. ASSUME NEW ip \in Addrs, NEW on \in BOOLEAN, FollowBegin(o, ip, on)
        PROVE  TrialInv'
    <2> DEFINE st == [Idle EXCEPT !.pc = "locked", !.kind = "follow", !.ip = ip,
                                  !.on = on, !.addrs = forwarded]
    <2>1. st.pc = "locked" /\ proc' = [proc EXCEPT ![o] = st] /\ proc[o].pc = "idle"
          /\ proc[Janitor].pc # "start" /\ UNCHANGED <<saved, active, trial>>
      BY <1>3 DEF FollowBegin, Ready, Idle, mgr
    <2> HIDE DEF st
    <2> QED
      BY <1>1, <2>1, Elsewhere
  <1>4. CASE SetLock(o)
    <2> DEFINE st == [proc[o] EXCEPT !.pc = "enforce"]
    <2>1. proc[o] \in ProcState /\ proc[o].pc = "locked" /\ proc[o].kind = "set"
          /\ Goto(o, "enforce") /\ UNCHANGED <<saved, active, trial>>
      BY <1>1, <1>4 DEF SetLock, mgr, TypeInv, TypeOK
    <2>2. st.pc = "enforce" /\ st.kind = "set" /\ proc' = [proc EXCEPT ![o] = st]
      BY <1>1, <2>1 DEF Goto, ProcState, TypeInv, TypeOK
    <2> HIDE DEF st
    <2> QED
      BY <1>1, <2>1, <2>2, Elsewhere, Started
  <1>5. CASE SetFollow(o)
    BY <1>1, <1>5, Elsewhere, Started DEF SetFollow, Finished, Idle
  <1>6. CASE Confirm(o)
    <2>1. proc' = proc /\ active' = active /\ mu = Free /\ proc[Janitor].pc # "start"
      BY <1>6 DEF Confirm, Ready
    <2>2. trial' = 0 \/ (trial' = trial /\ saved' = saved)
      BY <1>6 DEF Confirm, stopTrial
    <2> QED
      BY <2>1, <2>2 DEF TrialInv, StartAlone, TrialDiffers, FinishInForce, UndoEnded
  <1>7. CASE Revert(o)
    BY <1>1, <1>7, UndoTrial DEF Revert, Ready, stopTrial
  <1> QED
    BY <1>1, <1>2, <1>3, <1>4, <1>5, <1>6, <1>7, SetFinishTrial, HolderTrial DEF OperatorStep

LEMMA TimerTrial ==
    ASSUME TypeInv, TrialInv, NEW t \in Trials, TimerStep(t)
    PROVE  TrialInv'
  <1>1. t \in Procs
    BY DEF Procs
  <1>2. CASE Fire(t)
    BY <1>2, Started DEF Fire, TrialInv, StartAlone, TrialDiffers, FinishInForce, UndoEnded
  <1>3. CASE Expire(t)
    <2>1. mu = Free /\ proc[Janitor].pc # "start"
      BY <1>3, Started DEF Expire
    <2>2. CASE trial' = 0 /\ Undo(t)
      BY <1>1, <2>1, <2>2, UndoTrial
    <2>3. CASE UNCHANGED <<trial, mu, proc>>
      BY <1>3, <2>1, <2>3 DEF Expire, TrialInv, StartAlone, TrialDiffers, FinishInForce, UndoEnded
    <2> QED
      BY <1>3, <2>2, <2>3 DEF Expire
  <1> QED
    BY <1>1, <1>2, <1>3, HolderTrial DEF TimerStep

LEMMA JanitorTrial ==
    ASSUME TypeInv, TrialInv, JanitorStep
    PROVE  TrialInv'
  <1>1. Janitor \in Procs /\ proc[Janitor] \in ProcState
    BY DEF Procs, TypeInv, TypeOK
  <1>2. CASE Start
    <2>1. proc[Janitor].pc = "start" /\ Goto(Janitor, "idle") /\ UNCHANGED trial
      BY <1>2 DEF Start, mgr
    <2>2. \A q \in Procs : proc'[q].pc = "idle"
      BY <1>1, <2>1 DEF Goto, ProcState, TypeInv, TypeOK, TrialInv, StartAlone
    <2>3. trial' = 0
      BY <2>1 DEF TrialInv, StartAlone
    <2> QED
      BY <1>1, <2>2, <2>3 DEF TrialInv, StartAlone, TrialDiffers, FinishInForce, UndoEnded
  <1>3. CASE MaintainBegin
    <2> DEFINE st == [proc[Janitor] EXCEPT !.pc = "maintain", !.addrs = forwarded]
    <2>1. st.pc = "maintain" /\ proc' = [proc EXCEPT ![Janitor] = st] /\ proc[Janitor].pc = "idle"
          /\ UNCHANGED <<saved, active, trial>>
      BY <1>1, <1>3 DEF MaintainBegin, mgr, ProcState, TypeInv, TypeOK
    <2> HIDE DEF st
    <2> QED
      BY <1>1, <2>1, Elsewhere
  <1>4. CASE Maintain
    <2> DEFINE st == [proc[Janitor] EXCEPT !.pc = "idle"]
    <2>1. st.pc = "idle" /\ proc' = [proc EXCEPT ![Janitor] = st] /\ proc[Janitor].pc = "maintain"
          /\ UNCHANGED <<saved, active, trial>>
      BY <1>1, <1>4 DEF Maintain, Goto, ProcState, TypeInv, TypeOK
    <2> HIDE DEF st
    <2> QED
      BY <1>1, <2>1, Elsewhere
  <1> QED
    BY <1>2, <1>3, <1>4 DEF JanitorStep

LEMMA FreshTrial ==
    ASSUME trial = 0, timer = [t \in Trials |-> "unused"], proc = Fresh
    PROVE  TrialInv
  <1>1. \A p \in Procs : proc[p].pc \in {"start", "idle"} /\ (p # Janitor => proc[p].pc = "idle")
    BY IdleType DEF Fresh, Idle, ProcState
  <1> QED
    BY <1>1 DEF TrialInv, StartAlone, TrialDiffers, FinishInForce, UndoEnded

LEMMA TrialStep ==
    ASSUME TypeInv, TrialInv, [Next]_vars
    PROVE  TrialInv'
  <1>1. CASE UNCHANGED <<mgr, proc>>
    BY <1>1 DEF mgr, TrialInv, StartAlone, TrialDiffers, FinishInForce, UndoEnded
  <1>2. CASE World
    <2>1. ASSUME NEW reboot \in BOOLEAN, Restart(reboot)
          PROVE  TrialInv'
      <3>1. trial' = 0 /\ timer' = [t \in Trials |-> "unused"] /\ proc' = Fresh
        BY <2>1 DEF Restart
      <3>2. \A p \in Procs : Fresh[p].pc \in {"start", "idle"} /\ (p # Janitor => Fresh[p].pc = "idle")
        BY IdleType DEF Fresh, Idle, ProcState
      <3> QED
        BY <3>1, <3>2 DEF TrialInv, StartAlone, TrialDiffers, FinishInForce, UndoEnded
    <2> QED
      BY <1>1, <1>2, <2>1 DEF World, Move, Flush
  <1> QED
    BY <1>1, <1>2, OperatorTrial, TimerTrial, JanitorTrial DEF Next, vars

\* The step that ends a trial nobody's request ends.
EndsItself == (trial # 0 /\ trial' = 0 /\ \A o \in Operators : proc'[o] = proc[o] /\ saved' = saved)
                => timer[trial] = "fired" \/ proc' = Fresh

LEMMA EndsItselfStep ==
    ASSUME TypeInv, TrialInv, Next
    PROVE  EndsItself
  <1> SUFFICES ASSUME trial # 0, trial' = 0,
                      \A o \in Operators : proc'[o] = proc[o] /\ saved' = saved
               PROVE  timer[trial] = "fired" \/ proc' = Fresh
    BY DEF EndsItself
  <1>1. ASSUME NEW o \in Operators, OperatorStep(o)
        PROVE  FALSE
    <2>1. o \in Procs /\ proc'[o] = proc[o] /\ saved' = saved
      BY <1>1 DEF Procs
    <2>2. CASE Confirm(o)
      <3>1. active = saved /\ mu = Free
        BY <2>1, <2>2 DEF Confirm
      <3> QED
        BY <3>1, ProcsAssumption DEF TypeInv, TypeOK, TrialInv, TrialDiffers
    <2>3. CASE SetFinish(o)
      BY <2>1, <2>3 DEF SetFinish, Finished, Idle, TypeInv, TypeOK
    <2>4. CASE Revert(o)
      BY <2>1, <2>4 DEF Revert, Ready, Undo, Idle, TypeInv, TypeOK
    <2>5. CASE trial' = trial
      BY <2>5
    <2> QED
      BY <1>1, <2>2, <2>3, <2>4, <2>5
      DEF OperatorStep, SetBegin, SetLock, SetFollow, FollowBegin, Holder, Enforce, Restore, mgr
  <1>2. ASSUME NEW t \in Trials, TimerStep(t)
        PROVE  timer[trial] = "fired"
    BY <1>2 DEF TimerStep, Fire, Expire, Mine, Holder, Enforce, Restore, mgr
  <1>3. CASE JanitorStep
    BY <1>3 DEF JanitorStep, Start, MaintainBegin, Maintain, mgr, TrialInv, StartAlone
  <1>4. CASE World
    BY <1>4 DEF World, Move, Flush, Restart, mgr
  <1> QED
    BY <1>1, <1>2, <1>3, <1>4 DEF Next

\* A trial that no request ends is ended by its own timer: that of a replaced or
\* a confirmed one, waiting for the lock, never undoes a later trial.
THEOREM TrialEndsByTimer == Spec => EndedByOwnTimer
  <1>1. Init => TypeInv /\ TrialInv
    BY TypeInit, FreshTrial DEF Init
  <1>2. TypeInv /\ TrialInv /\ [Next]_vars => (TypeInv /\ TrialInv)'
    BY TypeStep, TrialStep
  <1>3. TypeInv /\ TrialInv /\ [Next]_vars => [EndsItself]_vars
    BY EndsItselfStep
  <1> QED
    BY <1>1, <1>2, <1>3, PTL DEF Spec, EndedByOwnTimer, EndsItself

-----------------------------------------------------------------------------
(* When no call fails                                                      *)

\* Without failing calls the firewall never refuses, what is saved is what is
\* stored, and whoever undoes a trial goes back to it.
Faultless == budget["db"] = 0 /\ budget["fw"] = 0
SavedIsStored == proc[Janitor].pc # "start" => stored = [rules |-> saved, follow |-> follow]
NothingAtStart == proc[Janitor].pc = "start" => active = None
UndoesToSaved == \A p \in Procs : proc[p].pc = "enforce" /\ proc[p].kind # "set" => proc[p].want = saved
NeverRefused == \A p \in Procs : proc[p].pc # "restore"
FreeIsSaved == mu = Free /\ trial = 0 /\ proc[Janitor].pc # "start" => active = saved

SettledInv == Faultless /\ SavedIsStored /\ NothingAtStart /\ UndoesToSaved /\ NeverRefused /\ FreeIsSaved

LEMMA NoUpset ==
    ASSUME TypeInv, Faultless
    PROVE  /\ ~Upset("db") /\ ~Upset("fw")
           /\ \A rs, sc : ~Apply(rs, sc, FALSE)
           /\ \A rs, fol : ~Persist(rs, fol, FALSE)
           /\ \A rs, fol : \A ok \in BOOLEAN : Persist(rs, fol, ok) =>
                 ok /\ stored' = [rules |-> rs, follow |-> fol] /\ UNCHANGED budget
           /\ \A rs, sc : \A ok \in BOOLEAN : Apply(rs, sc, ok) => UNCHANGED budget
  <1>1. ~Upset("db") /\ ~Upset("fw")
    BY DEF Faultless, Upset
  <1> QED
    BY <1>1 DEF Apply, Persist

\* The upsets that are left take nothing from the two.
LEMMA OtherUpset ==
    ASSUME TypeInv, Faultless, NEW k \in {"crash", "flush", "wipe"}, Upset(k)
    PROVE  Faultless'
  BY DEF Faultless, Upset, TypeInv, TypeOK, Upsets

\* A step that leaves the rules, what is stored and who holds the lock, and
\* moves p to a place where nothing is undone.
LEMMA Unsettling ==
    ASSUME TypeInv, SettledInv, NEW p \in Procs, NEW st,
           proc' = [proc EXCEPT ![p] = st], st.pc \notin {"restore", "start"},
           st.pc = "enforce" => st.kind = "set", proc[Janitor].pc # "start",
           UNCHANGED <<saved, active, follow, stored, trial, budget>>, mu' # Free \/ mu' = mu
    PROVE  SettledInv'
  <1>1. \A q \in Procs : proc'[q] = IF q = p THEN st ELSE proc[q]
    BY DEF TypeInv, TypeOK
  <1>2. Janitor \in Procs
    BY DEF Procs
  <1> QED
    BY <1>1, <1>2 DEF SettledInv, Faultless, SavedIsStored, NothingAtStart, UndoesToSaved,
       NeverRefused, FreeIsSaved

\* A step that gives the lock back, or leaves it free.
LEMMA Settling ==
    ASSUME TypeInv, SettledInv, NEW p \in Procs, Finished(p), mu \in {p, Free},
           proc[Janitor].pc # "start", Faultless', trial' = 0 => active' = saved',
           stored' = [rules |-> saved', follow |-> follow']
    PROVE  SettledInv'
  <1>1. \A q \in Procs : proc'[q] = IF q = p THEN Idle ELSE proc[q]
    BY DEF Finished, TypeInv, TypeOK
  <1>2. Janitor \in Procs /\ Idle.pc = "idle"
    BY DEF Procs, Idle
  <1>3. \A q \in Procs : proc'[q].pc # "enforce"
    BY <1>1, <1>2, ProcsAssumption DEF TypeInv, TypeOK
  <1> QED
    BY <1>1, <1>2, <1>3 DEF SettledInv, SavedIsStored, NothingAtStart, UndoesToSaved, NeverRefused, FreeIsSaved

\* Whoever ends a trial to undo it will put back what is saved.
LEMMA UndoSettled ==
    ASSUME TypeInv, SettledInv, NEW p \in Procs, mu = Free, proc[Janitor].pc # "start", Undo(p),
           UNCHANGED <<saved, follow, stored, budget>>
    PROVE  SettledInv'
  <1> DEFINE st == [Idle EXCEPT !.pc = "enforce", !.kind = "undo", !.want = saved, !.addrs = forwarded]
  <1>1. st.pc = "enforce" /\ st.want = saved /\ proc' = [proc EXCEPT ![p] = st] /\ mu' = p
    BY DEF Undo, Idle
  <1> HIDE DEF st
  <1>2. \A q \in Procs : proc'[q] = IF q = p THEN st ELSE proc[q]
    BY <1>1 DEF TypeInv, TypeOK
  <1>3. Janitor \in Procs /\ p # Free
    BY ProcsAssumption DEF Procs
  <1> QED
    BY <1>1, <1>2, <1>3 DEF SettledInv, Faultless, SavedIsStored, NothingAtStart, UndoesToSaved,
       NeverRefused, FreeIsSaved

LEMMA HolderSettled ==
    ASSUME TypeInv, TrialInv, SettledInv, NEW p \in Procs, Holder(p)
    PROVE  SettledInv'
  <1>1. /\ Enforce(p) /\ mu = p /\ proc[p].pc = "enforce" /\ proc[Janitor].pc # "start"
        /\ UNCHANGED <<saved, follow, trial, stored>>
    BY Started DEF Holder, Enforce, Restore, SettledInv, NeverRefused
  <1>2. active' = proc[p].want /\ Faultless'
        /\ IF proc[p].kind = "set" THEN Goto(p, "finish") /\ UNCHANGED mu ELSE Finished(p)
    <2>1. CASE proc[p].want = None
      <3>1. UNCHANGED budget
        BY <1>1, <2>1, NoUpset DEF Enforce, EnforceSteps, Apply, Remove, SettledInv
      <3> QED
        BY <1>1, <2>1, <3>1 DEF Enforce, EnforceSteps, SettledInv, Faultless
    <2>2. CASE proc[p].want # None
      BY <1>1, <2>2, NoUpset DEF Enforce, EnforceSteps, SettledInv, Faultless
    <2> QED
      BY <2>1, <2>2
  <1>3. CASE proc[p].kind = "set"
    <2> DEFINE st == [proc[p] EXCEPT !.pc = "finish"]
    <2>1. proc' = [proc EXCEPT ![p] = st] /\ st.pc = "finish"
      BY <1>2, <1>3 DEF Goto, TypeInv, TypeOK, ProcState
    <2> HIDE DEF st
    <2>2. \A q \in Procs : proc'[q] = IF q = p THEN st ELSE proc[q]
      BY <2>1 DEF TypeInv, TypeOK
    <2>3. Janitor \in Procs /\ p # Free /\ mu' = p
      BY <1>1, <1>2, <1>3, ProcsAssumption DEF Procs
    <2> QED
      BY <1>1, <1>2, <2>1, <2>2, <2>3 DEF SettledInv, SavedIsStored, NothingAtStart, UndoesToSaved,
         NeverRefused, FreeIsSaved
  <1>4. CASE proc[p].kind # "set"
    <2>1. proc[p].want = saved /\ stored = [rules |-> saved, follow |-> follow]
      BY <1>1, <1>4 DEF SettledInv, UndoesToSaved, SavedIsStored
    <2> QED
      BY <1>1, <1>2, <1>4, <2>1, Settling
  <1> QED
    BY <1>3, <1>4

LEMMA OperatorSettled ==
    ASSUME TypeInv, TrialInv, SettledInv, NEW o \in Operators, OperatorStep(o)
    PROVE  SettledInv'
  <1>1. o \in Procs
    BY DEF Procs
  <1>2. ASSUME NEW rs \in Choices, SetBegin(o, rs)
        PROVE  SettledInv'
    <2> DEFINE st == [Idle EXCEPT !.pc = "locked", !.want = rs, !.addrs = forwarded]
    <2>1. st.pc = "locked" /\ proc' = [proc EXCEPT ![o] = st] /\ proc[Janitor].pc # "start"
          /\ UNCHANGED <<saved, active, follow, stored, trial, budget, mu>>
      BY <1>2 DEF SetBegin, Ready, Idle, mgr
    <2> HIDE DEF st
    <2> QED
      BY <1>1, <2>1, Unsettling
  <1>3. ASSUME NEW ip \in Addrs, NEW on \in BOOLEAN, FollowBegin(o, ip, on)
        PROVE  SettledInv'
    <2> DEFINE st == [Idle EXCEPT !.pc = "locked", !.kind = "follow", !.ip = ip,
                                  !.on = on, !.addrs = forwarded]
    <2>1. st.pc = "locked" /\ proc' = [proc EXCEPT ![o] = st] /\ proc[Janitor].pc # "start"
          /\ UNCHANGED <<saved, active, follow, stored, trial, budget, mu>>
      BY <1>3 DEF FollowBegin, Ready, Idle, mgr
    <2> HIDE DEF st
    <2> QED
      BY <1>1, <2>1, Unsettling
  <1>4. CASE SetLock(o)
    <2> DEFINE st == [proc[o] EXCEPT !.pc = "enforce"]
    <2>1. proc[o] \in ProcState /\ proc[o].pc = "locked" /\ proc[o].kind = "set" /\ mu' = o
          /\ Goto(o, "enforce") /\ UNCHANGED <<saved, active, follow, stored, trial, budget>>
      BY <1>1, <1>4 DEF SetLock, mgr, TypeInv, TypeOK
    <2>2. st.pc = "enforce" /\ st.kind = "set" /\ proc' = [proc EXCEPT ![o] = st]
      BY <1>1, <2>1 DEF Goto, ProcState, TypeInv, TypeOK
    <2>3. proc[Janitor].pc # "start" /\ mu' # Free
      BY <1>1, <2>1, Started, ProcsAssumption
    <2> HIDE DEF st
    <2> QED
      BY <1>1, <2>1, <2>2, <2>3, Unsettling
  <1>5. CASE SetFinish(o)
    <2>1. proc[o].pc = "finish" /\ active = proc[o].want /\ mu = o /\ Finished(o)
          /\ UNCHANGED <<active, follow>> /\ proc[Janitor].pc # "start"
      BY <1>1, <1>5, Started DEF SetFinish, TrialInv, FinishInForce
    <2>2. CASE \E ok \in BOOLEAN : /\ Persist(proc[o].want, follow, ok)
                                   /\ saved' = IF ok THEN proc[o].want ELSE saved
      <3>1. saved' = proc[o].want /\ stored' = [rules |-> proc[o].want, follow |-> follow]
            /\ UNCHANGED budget
        BY <2>2, NoUpset DEF SettledInv
      <3> QED
        BY <1>1, <2>1, <3>1, Settling DEF SettledInv, Faultless
    <2>3. CASE trial' \in Trials /\ UNCHANGED <<saved, stored, budget>>
      <3>1. trial' # 0
        BY <2>3, ProcsAssumption DEF Trials
      <3> QED
        BY <1>1, <2>1, <2>3, <3>1, Settling DEF SettledInv, Faultless, SavedIsStored
    <2>4. (CHOOSE n \in Trials : timer[n] = "unused") \in Trials
      BY <1>1, <2>1 DEF TypeInv, TrialLeft
    <2> QED
      BY <1>5, <2>2, <2>3, <2>4 DEF SetFinish
  <1>6. CASE Confirm(o)
    <2>1. /\ stored' = [rules |-> active, follow |-> follow] /\ saved' = active /\ UNCHANGED budget
          /\ UNCHANGED <<active, follow, mu, proc>>
      BY <1>6, NoUpset DEF Confirm, SettledInv
    <2> QED
      BY <1>6, <2>1, ProcsAssumption DEF Confirm, TypeInv, TypeOK, SettledInv, Faultless, SavedIsStored,
         NothingAtStart, UndoesToSaved, NeverRefused, FreeIsSaved
  <1>7. CASE Revert(o)
    BY <1>1, <1>7, UndoSettled DEF Revert, Ready
  <1>8. CASE SetFollow(o)
    <2> DEFINE fol == IF proc[o].on THEN follow \cup {proc[o].ip} ELSE follow \ {proc[o].ip}
    <2>1. /\ mu = Free /\ Finished(o) /\ UNCHANGED <<saved, active, trial>>
          /\ proc[Janitor].pc # "start"
      BY <1>1, <1>8, Started DEF SetFollow
    <2>2. follow' = fol /\ \E ok \in BOOLEAN : Persist(saved, fol, ok)
      BY <1>8, NoUpset DEF SetFollow, SettledInv
    <2> HIDE DEF fol
    <2>3. stored' = [rules |-> saved, follow |-> fol] /\ UNCHANGED budget
      BY <2>2, NoUpset DEF SettledInv
    <2> QED
      BY <1>1, <2>1, <2>2, <2>3, Settling DEF SettledInv, Faultless, FreeIsSaved
  <1> QED
    BY <1>1, <1>2, <1>3, <1>4, <1>5, <1>6, <1>7, <1>8, HolderSettled DEF OperatorStep

LEMMA JanitorSettled ==
    ASSUME TypeInv, TrialInv, SettledInv, JanitorStep
    PROVE  SettledInv'
  <1>1. Janitor \in Procs /\ proc[Janitor] \in ProcState
    BY DEF Procs, TypeInv, TypeOK
  <1>2. CASE Start
    <2>1. proc[Janitor].pc = "start" /\ Goto(Janitor, "idle") /\ UNCHANGED <<mu, stored>>
      BY <1>2 DEF Start
    <2>2. \A q \in Procs : proc'[q].pc = "idle"
      BY <1>1, <2>1 DEF Goto, ProcState, TypeInv, TypeOK, TrialInv, StartAlone
    <2>3. saved' = stored.rules /\ follow' = stored.follow
      BY <1>2, NoUpset DEF Start, SettledInv
    <2>4. active' = stored.rules
      BY <1>2, <2>1, NoUpset DEF Start, SettledInv, NothingAtStart
    <2>5. UNCHANGED budget
      BY <1>2, NoUpset DEF Start, SettledInv
    <2>6. stored' = [rules |-> saved', follow |-> follow']
      BY <2>1, <2>3 DEF TypeInv, TypeOK
    <2> QED
      BY <1>1, <2>2, <2>3, <2>4, <2>5, <2>6 DEF SettledInv, Faultless, SavedIsStored, NothingAtStart,
         UndoesToSaved, NeverRefused, FreeIsSaved
  <1>3. CASE MaintainBegin
    <2> DEFINE st == [proc[Janitor] EXCEPT !.pc = "maintain", !.addrs = forwarded]
    <2>1. st.pc = "maintain" /\ proc' = [proc EXCEPT ![Janitor] = st] /\ proc[Janitor].pc = "idle"
          /\ UNCHANGED <<saved, active, follow, stored, trial, budget, mu>>
      BY <1>1, <1>3 DEF MaintainBegin, mgr, ProcState, TypeInv, TypeOK
    <2> HIDE DEF st
    <2> QED
      BY <1>1, <2>1, Unsettling
  <1>4. CASE Maintain
    <2> DEFINE st == [proc[Janitor] EXCEPT !.pc = "idle"]
    <2>1. st.pc = "idle" /\ proc' = [proc EXCEPT ![Janitor] = st] /\ proc[Janitor].pc = "maintain"
          /\ UNCHANGED <<saved, active, follow, stored, trial, mu>>
      BY <1>1, <1>4 DEF Maintain, Goto, ProcState, TypeInv, TypeOK
    <2>2. UNCHANGED budget
      BY <1>4, NoUpset DEF Maintain, Ensure, SettledInv
    <2> HIDE DEF st
    <2> QED
      BY <1>1, <2>1, <2>2, Unsettling
  <1> QED
    BY <1>2, <1>3, <1>4 DEF JanitorStep

LEMMA SettledStep ==
    ASSUME TypeInv, TrialInv, SettledInv, [Next]_vars
    PROVE  SettledInv'
  <1>1. ASSUME UNCHANGED <<mgr, mu, proc, stored>>, Faultless'
        PROVE  SettledInv'
    BY <1>1 DEF mgr, SettledInv, SavedIsStored, NothingAtStart, UndoesToSaved, NeverRefused, FreeIsSaved
  <1>2. ASSUME NEW t \in Trials, TimerStep(t)
        PROVE  SettledInv'
    <2>1. t \in Procs
      BY DEF Procs
    <2>2. CASE Fire(t)
      BY <2>2 DEF Fire, SettledInv, Faultless, SavedIsStored, NothingAtStart, UndoesToSaved,
         NeverRefused, FreeIsSaved
    <2>3. CASE Expire(t)
      <3>1. mu = Free /\ proc[Janitor].pc # "start" /\ UNCHANGED <<saved, active, follow, stored, budget>>
        BY <2>3, Started DEF Expire
      <3>2. CASE Undo(t)
        BY <2>1, <3>1, <3>2, UndoSettled
      <3>3. CASE UNCHANGED <<trial, mu, proc>>
        BY <3>1, <3>3 DEF SettledInv, Faultless, SavedIsStored, NothingAtStart, UndoesToSaved,
           NeverRefused, FreeIsSaved
      <3> QED
        BY <2>3, <3>2, <3>3 DEF Expire
    <2> QED
      BY <1>2, <2>1, <2>2, <2>3, HolderSettled DEF TimerStep
  <1>3. CASE World
    <2>1. ASSUME NEW ip \in Addrs, Move(ip)
          PROVE  SettledInv'
      BY <1>1, <2>1 DEF Move, SettledInv, Faultless
    <2>2. ASSUME NEW f \in Families, Flush(f)
          PROVE  SettledInv'
      BY <1>1, <2>2, OtherUpset DEF Flush, SettledInv
    <2>3. ASSUME NEW reboot \in BOOLEAN, Restart(reboot)
          PROVE  SettledInv'
      <3>1. Faultless' /\ active' = None /\ proc' = Fresh
        BY <2>3, OtherUpset DEF Restart, SettledInv
      <3>2. Fresh[Janitor].pc = "start" /\ \A p \in Procs : Fresh[p].pc \in {"start", "idle"}
        BY FreshType, IdleType DEF Fresh, Procs, Idle, ProcState
      <3>3. Janitor \in Procs
        BY DEF Procs
      <3> QED
        BY <3>1, <3>2, <3>3 DEF SettledInv, SavedIsStored, NothingAtStart, UndoesToSaved, NeverRefused, FreeIsSaved
    <2> QED
      BY <1>3, <2>1, <2>2, <2>3 DEF World
  <1>4. CASE UNCHANGED vars
    BY <1>1, <1>4 DEF vars, SettledInv, Faultless
  <1> QED
    BY <1>2, <1>3, <1>4, OperatorSettled, JanitorSettled DEF Next

LEMMA SettledInit ==
    ASSUME Budget["db"] = 0, Budget["fw"] = 0
    PROVE  Init => TypeInv /\ TrialInv /\ SettledInv
  <1> SUFFICES ASSUME Init PROVE SettledInv
    BY TypeInit, FreshTrial DEF Init
  <1>1. proc[Janitor].pc = "start" /\ \A p \in Procs : proc[p].pc \in {"start", "idle"}
    BY FreshType, IdleType DEF Init, Fresh, Procs, Idle, ProcState
  <1> QED
    BY <1>1 DEF Init, SettledInv, Faultless, SavedIsStored, NothingAtStart, UndoesToSaved,
       NeverRefused, FreeIsSaved

\* As long as no call of the firewall or the database fails, what is in force
\* between two operations with no trial running is what is saved and what is
\* stored, however often the process dies: a restart changes nothing.
THEOREM SettledWhenFaultless ==
    ASSUME Budget["db"] = 0, Budget["fw"] = 0
    PROVE  Spec => []SettledIsStored
  <1>1. Init => TypeInv /\ TrialInv /\ SettledInv
    BY SettledInit
  <1>2. TypeInv /\ TrialInv /\ SettledInv /\ [Next]_vars => (TypeInv /\ TrialInv /\ SettledInv)'
    BY TypeStep, TrialStep, SettledStep
  <1>3. SettledInv => SettledIsStored
    BY DEF SettledInv, SettledIsStored, FreeIsSaved, SavedIsStored
  <1> QED
    BY <1>1, <1>2, <1>3, PTL DEF Spec

-----------------------------------------------------------------------------
(* The manager implements ConfirmedChange                                  *)

shown == <<stored.rules, Running, Phase>>

\* A step that moves p between places that count for nothing.
LEMMA Unseen ==
    ASSUME TypeInv, NEW p \in Procs, NEW st, proc' = [proc EXCEPT ![p] = st],
           st.pc \notin {"finish", "start"}, st.pc = "enforce" => st.kind = "set",
           proc[p].pc \notin {"finish", "start"}, proc[p].pc = "enforce" => proc[p].kind = "set",
           stored'.rules = stored.rules, UNCHANGED <<active, trial>>
    PROVE  UNCHANGED shown
  <1>1. \A q \in Procs : proc'[q] = IF q = p THEN st ELSE proc[q]
    BY DEF TypeInv, TypeOK
  <1>2. PuttingIn' <=> PuttingIn
    BY <1>1 DEF PuttingIn
  <1>3. Janitor \in Procs
    BY DEF Procs
  <1>4. GoingBack' <=> GoingBack
    BY <1>1, <1>3 DEF GoingBack
  <1> QED
    BY <1>2, <1>4 DEF shown, Running, Phase

\* What shows while p is past the lock, once Start has run, and while nobody is.
LEMMA HeldShows ==
    ASSUME TypeInv, NEW p \in Procs, mu = p, proc[Janitor].pc # "start"
    PROVE  /\ PuttingIn <=> proc[p].pc = "finish"
           /\ GoingBack <=> proc[p].pc = "enforce" /\ proc[p].kind = "undo"
  <1>1. \A q \in Procs \ {p} : proc[q].pc \notin {"enforce", "restore", "finish"}
    BY DEF TypeInv, TypeOK
  <1> QED
    BY <1>1 DEF PuttingIn, GoingBack
LEMMA FreeShows ==
    ASSUME TypeInv, mu = Free
    PROVE  ~PuttingIn /\ (GoingBack <=> proc[Janitor].pc = "start")
  <1>1. \A q \in Procs : proc[q].pc \notin {"enforce", "restore", "finish"}
    BY ProcsAssumption DEF TypeInv, TypeOK
  <1> QED
    BY <1>1 DEF PuttingIn, GoingBack

\* What is kept, and known as such.
LEMMA KeptRules ==
    ASSUME TypeInv, SettledInv
    PROVE  /\ stored.rules \in RuleSets /\ active \in RuleSets /\ saved \in RuleSets
           /\ proc[Janitor].pc # "start" => stored.rules = saved
           /\ \A r \in RuleSets : <<saved, r>> \in RiskyPairs <=> Risky(saved, r)
  <1>1. stored.rules \in RuleSets /\ active \in RuleSets /\ saved \in RuleSets
    BY DEF TypeInv, TypeOK
  <1>2. proc[Janitor].pc # "start" => stored.rules = saved
    BY DEF SettledInv, SavedIsStored
  <1>3. ASSUME NEW r \in RuleSets
        PROVE  <<saved, r>> \in RiskyPairs <=> Risky(saved, r)
    BY <1>1 DEF RiskyPairs, Risky
  <1> QED
    BY <1>1, <1>2, <1>3

\* Putting rules in force is a Put, going back was done when the trial ended.
LEMMA HolderShown ==
    ASSUME TypeInv, TypeInv', TrialInv, SettledInv, NEW p \in Procs, Holder(p)
    PROVE  Change!Next
  <1>1. /\ Enforce(p) /\ mu = p /\ proc[p].pc = "enforce" /\ proc[Janitor].pc # "start"
        /\ UNCHANGED <<saved, follow, trial, stored>>
    BY Started DEF Holder, Enforce, Restore, SettledInv, NeverRefused
  <1>2. active' = proc[p].want /\ proc[p].want \in RuleSets
        /\ IF proc[p].kind = "set" THEN Goto(p, "finish") /\ UNCHANGED mu ELSE Finished(p)
    BY <1>1, NoUpset DEF Enforce, EnforceSteps, SettledInv, TypeInv, TypeOK, ProcState
  <1>3. Janitor \in Procs /\ Idle.pc = "idle"
    BY DEF Procs, Idle
  <1>4. ~PuttingIn
    BY <1>1, HeldShows
  <1>5. CASE proc[p].kind = "set"
    <2>1. proc'[p].pc = "finish" /\ mu' = p /\ proc'[Janitor].pc # "start"
      BY <1>1, <1>2, <1>3, <1>5 DEF Goto, TypeInv, TypeOK, ProcState
    <2>2. PuttingIn' /\ ~GoingBack'
      BY <2>1 DEF PuttingIn, GoingBack, TypeInv, TypeOK
    <2>3. Change!Put(proc[p].want)
      BY <1>1, <1>2, <1>4, <2>2 DEF Change!Put, Running, Phase
    <2> QED
      BY <1>2, <2>3 DEF Change!Next
  <1>6. CASE proc[p].kind # "set"
    <2>1. proc[p].want = saved /\ stored.rules = saved /\ trial = 0
      BY <1>1, <1>6, KeptRules DEF SettledInv, UndoesToSaved, TrialInv, UndoEnded
    <2>2. mu' = Free /\ proc'[Janitor].pc # "start"
      BY <1>1, <1>2, <1>3, <1>6 DEF Finished, TypeInv, TypeOK
    <2>3. ~PuttingIn' /\ ~GoingBack'
      BY <2>2, ProcsAssumption DEF PuttingIn, GoingBack, TypeInv, TypeOK
    <2>4. Change!Return
      BY <1>1, <1>2, <2>1, <2>3 DEF Change!Return, Running, Phase
    <2> QED
      BY <2>4 DEF Change!Next
  <1> QED
    BY <1>5, <1>6

\* What Set does at its end: it keeps the rules or puts them on trial.
LEMMA SetFinishShown ==
    ASSUME TypeInv, TypeInv', TrialInv, SettledInv, NEW o \in Operators, SetFinish(o)
    PROVE  Change!Next
  <1>1. o \in Procs /\ Janitor \in Procs /\ Idle.pc = "idle"
    BY DEF Procs, Idle
  <1>2. proc[o].pc = "finish" /\ active = proc[o].want /\ mu = o /\ Finished(o)
        /\ UNCHANGED <<active, follow>> /\ proc[Janitor].pc # "start"
    BY <1>1, Started DEF SetFinish, TrialInv, FinishInForce
  <1>3. PuttingIn /\ ~GoingBack
    BY <1>1, <1>2, HeldShows
  <1>4. mu' = Free /\ proc'[Janitor].pc # "start"
    BY <1>1, <1>2 DEF Finished, TypeInv, TypeOK
  <1>5. ~PuttingIn' /\ ~GoingBack'
    BY <1>4, ProcsAssumption DEF PuttingIn, GoingBack, TypeInv, TypeOK
  <1>6. stored.rules = saved /\ (<<stored.rules, active>> \in RiskyPairs <=> Risky(saved, proc[o].want))
    BY <1>2, KeptRules
  <1>7. Running = active /\ Phase = "put" /\ Running' = active
    BY <1>2, <1>3, <1>5 DEF Running, Phase
  <1>8. CASE ~Risky(saved, proc[o].want)
    <2>1. trial' = 0 /\ \E ok \in BOOLEAN : Persist(proc[o].want, follow, ok)
      BY <1>8 DEF SetFinish, stopTrial
    <2>2. stored' = [rules |-> proc[o].want, follow |-> follow]
      BY <2>1, NoUpset DEF SettledInv
    <2>3. Phase' = "settled"
      BY <1>5, <2>1 DEF Phase
    <2>4. Change!Keep
      BY <1>2, <1>6, <1>7, <1>8, <2>2, <2>3 DEF Change!Keep
    <2> QED
      BY <2>4 DEF Change!Next
  <1>9. CASE Risky(saved, proc[o].want)
    <2>1. trial' = (CHOOSE n \in Trials : timer[n] = "unused") /\ UNCHANGED stored
      BY <1>9 DEF SetFinish
    <2>2. trial' \in Trials
      BY <1>1, <1>2, <2>1 DEF TypeInv, TrialLeft
    <2>3. Phase' = "trial"
      BY <1>5, <2>2, ProcsAssumption DEF Phase, Trials
    <2>4. Change!Try
      BY <1>6, <1>7, <1>9, <2>1, <2>3 DEF Change!Try
    <2> QED
      BY <2>4 DEF Change!Next
  <1> QED
    BY <1>8, <1>9

\* Whoever ends a trial to undo it goes back to what is kept.
LEMMA UndoShown ==
    ASSUME TypeInv, TypeInv', SettledInv, NEW p \in Procs, mu = Free, proc[Janitor].pc # "start",
           Undo(p), trial' = 0, UNCHANGED stored
    PROVE  Change!Next
  <1>1. proc'[p].pc = "enforce" /\ proc'[p].kind = "undo" /\ mu' = p
    BY DEF Undo, Idle, TypeInv, TypeOK
  <1>2. GoingBack' /\ ~PuttingIn'
    BY <1>1 DEF GoingBack, PuttingIn, TypeInv, TypeOK
  <1>3. Change!Return
    BY <1>2 DEF Change!Return, Running, Phase
  <1> QED
    BY <1>3 DEF Change!Next

LEMMA OperatorShown ==
    ASSUME TypeInv, TypeInv', TrialInv, SettledInv, NEW o \in Operators, OperatorStep(o)
    PROVE  [Change!Next]_shown
  <1>1. o \in Procs /\ o # Janitor
    BY ProcsAssumption DEF Procs
  <1>2. ASSUME NEW st, proc' = [proc EXCEPT ![o] = st], st.pc \in {"idle", "locked", "enforce"},
               st.pc = "enforce" => st.kind = "set", proc[o].pc \in {"idle", "locked"},
               stored'.rules = stored.rules, UNCHANGED <<active, trial>>
        PROVE  UNCHANGED shown
    BY <1>1, <1>2, Unseen
  <1>3. ASSUME NEW rs \in Choices, SetBegin(o, rs)
        PROVE  UNCHANGED shown
    <2> DEFINE st == [Idle EXCEPT !.pc = "locked", !.want = rs, !.addrs = forwarded]
    <2>1. proc' = [proc EXCEPT ![o] = st] /\ proc[o].pc = "idle" /\ UNCHANGED <<active, trial, stored>>
      BY <1>3 DEF SetBegin, Ready, mgr
    <2>2. st.pc = "locked"
      BY DEF Idle
    <2> HIDE DEF st
    <2> QED
      BY <1>2, <2>1, <2>2
  <1>4. ASSUME NEW ip \in Addrs, NEW on \in BOOLEAN, FollowBegin(o, ip, on)
        PROVE  UNCHANGED shown
    <2> DEFINE st == [Idle EXCEPT !.pc = "locked", !.kind = "follow", !.ip = ip, !.on = on, !.addrs = forwarded]
    <2>1. proc' = [proc EXCEPT ![o] = st] /\ proc[o].pc = "idle" /\ UNCHANGED <<active, trial, stored>>
      BY <1>4 DEF FollowBegin, Ready, mgr
    <2>2. st.pc = "locked"
      BY DEF Idle
    <2> HIDE DEF st
    <2> QED
      BY <1>2, <2>1, <2>2
  <1>5. CASE SetLock(o)
    <2> DEFINE st == [proc[o] EXCEPT !.pc = "enforce"]
    <2>1. proc[o] \in ProcState /\ proc[o].pc = "locked" /\ proc[o].kind = "set"
          /\ Goto(o, "enforce") /\ UNCHANGED <<active, stored, trial>>
      BY <1>1, <1>5 DEF SetLock, mgr, TypeInv, TypeOK
    <2>2. st.pc = "enforce" /\ st.kind = "set" /\ proc' = [proc EXCEPT ![o] = st]
      BY <1>1, <2>1 DEF Goto, ProcState, TypeInv, TypeOK
    <2> HIDE DEF st
    <2> QED
      BY <1>2, <2>1, <2>2
  <1>6. CASE Confirm(o)
    <2>1. /\ stored' = [rules |-> active, follow |-> follow] /\ UNCHANGED <<active, mu, proc>>
          /\ mu = Free /\ proc[Janitor].pc # "start" /\ trial # 0 /\ trial' = 0
      BY <1>6, NoUpset DEF Confirm, Ready, SettledInv, stopTrial
    <2>2. ~PuttingIn /\ ~GoingBack
      BY <2>1, FreeShows
    <2>3. ~PuttingIn' /\ ~GoingBack'
      BY <2>1, <2>2 DEF PuttingIn, GoingBack
    <2>4. Change!Confirm
      BY <2>1, <2>2, <2>3 DEF Change!Confirm, Running, Phase
    <2> QED
      BY <2>4 DEF Change!Next
  <1>7. CASE Revert(o)
    BY <1>1, <1>7, UndoShown DEF Revert, Ready, stopTrial
  <1>8. CASE SetFollow(o)
    <2> DEFINE fol == IF proc[o].on THEN follow \cup {proc[o].ip} ELSE follow \ {proc[o].ip}
    <2>1. /\ Finished(o) /\ UNCHANGED <<active, trial>> /\ proc[o].pc = "locked" /\ proc[Janitor].pc # "start"
      BY <1>1, <1>8, Started DEF SetFollow
    <2>2. \E ok \in BOOLEAN : Persist(saved, fol, ok)
      BY <1>8, NoUpset DEF SetFollow, SettledInv
    <2>3. stored'.rules = stored.rules
      BY <2>1, <2>2, NoUpset, KeptRules DEF SettledInv
    <2>4. Idle.pc = "idle"
      BY DEF Idle
    <2> QED
      BY <1>2, <2>1, <2>3, <2>4 DEF Finished
  <1>9. CASE SetFinish(o)
    BY <1>9, SetFinishShown
  <1> QED
    BY <1>1, <1>3, <1>4, <1>5, <1>6, <1>7, <1>8, <1>9, HolderShown DEF OperatorStep

LEMMA JanitorShown ==
    ASSUME TypeInv, TypeInv', TrialInv, SettledInv, JanitorStep
    PROVE  UNCHANGED shown
  <1>1. Janitor \in Procs /\ proc[Janitor] \in ProcState
    BY DEF Procs, TypeInv, TypeOK
  <1>2. CASE Start
    <2>1. proc[Janitor].pc = "start" /\ Goto(Janitor, "idle") /\ UNCHANGED <<mu, stored>>
      BY <1>2 DEF Start
    <2>2. \A q \in Procs : proc[q].pc \in {"idle", "start"} /\ proc'[q].pc = "idle"
      BY <1>1, <2>1 DEF Goto, ProcState, TypeInv, TypeOK, TrialInv, StartAlone
    <2>3. active' = stored.rules
      BY <1>2, <2>1, NoUpset DEF Start, SettledInv, NothingAtStart
    <2>4. trial = 0 /\ trial' = 0
      BY <1>2, <2>1 DEF Start, mgr, TrialInv, StartAlone
    <2> QED
      BY <1>1, <2>1, <2>2, <2>3, <2>4 DEF shown, Running, Phase, PuttingIn, GoingBack
  <1>3. CASE MaintainBegin
    <2> DEFINE st == [proc[Janitor] EXCEPT !.pc = "maintain", !.addrs = forwarded]
    <2>1. st.pc = "maintain" /\ proc' = [proc EXCEPT ![Janitor] = st] /\ proc[Janitor].pc = "idle"
          /\ UNCHANGED <<active, stored, trial>>
      BY <1>1, <1>3 DEF MaintainBegin, mgr, ProcState, TypeInv, TypeOK
    <2> HIDE DEF st
    <2> QED
      BY <1>1, <2>1, Unseen
  <1>4. CASE Maintain
    <2> DEFINE st == [proc[Janitor] EXCEPT !.pc = "idle"]
    <2>1. st.pc = "idle" /\ proc' = [proc EXCEPT ![Janitor] = st] /\ proc[Janitor].pc = "maintain"
          /\ UNCHANGED <<active, stored, trial>>
      BY <1>1, <1>4 DEF Maintain, Goto, ProcState, TypeInv, TypeOK
    <2> HIDE DEF st
    <2> QED
      BY <1>1, <2>1, Unseen
  <1> QED
    BY <1>2, <1>3, <1>4 DEF JanitorStep

LEMMA ChangeStep ==
    ASSUME TypeInv, TypeInv', TrialInv, SettledInv, [Next]_vars
    PROVE  [Change!Next]_shown
  <1>1. ASSUME UNCHANGED <<active, trial, proc, stored>>
        PROVE  UNCHANGED shown
    BY <1>1 DEF shown, Running, Phase, PuttingIn, GoingBack
  <1>2. ASSUME NEW t \in Trials, TimerStep(t)
        PROVE  [Change!Next]_shown
    <2>1. t \in Procs
      BY DEF Procs
    <2>2. CASE Fire(t)
      BY <1>1, <2>2 DEF Fire
    <2>3. CASE Expire(t)
      <3>1. mu = Free /\ proc[Janitor].pc # "start" /\ UNCHANGED <<active, stored>>
        BY <2>3, Started DEF Expire
      <3>2. CASE Undo(t) /\ trial' = 0
        BY <2>1, <3>1, <3>2, UndoShown
      <3>3. CASE UNCHANGED <<trial, mu, proc>>
        BY <1>1, <3>1, <3>3
      <3> QED
        BY <2>3, <3>2, <3>3 DEF Expire
    <2> QED
      BY <1>2, <2>1, <2>2, <2>3, HolderShown DEF TimerStep
  <1>3. CASE World
    <2>1. ASSUME NEW reboot \in BOOLEAN, Restart(reboot)
          PROVE  Change!Next
      <3>1. proc' = Fresh /\ trial' = 0 /\ UNCHANGED stored
        BY <2>1 DEF Restart
      <3>2. Fresh[Janitor].pc = "start" /\ \A p \in Procs : Fresh[p].pc \in {"start", "idle"}
        BY FreshType, IdleType DEF Fresh, Procs, Idle, ProcState
      <3>3. GoingBack' /\ ~PuttingIn'
        BY <3>1, <3>2 DEF GoingBack, PuttingIn
      <3>4. Change!Return
        BY <3>1, <3>3 DEF Change!Return, Running, Phase
      <3> QED
        BY <3>4 DEF Change!Next
    <2> QED
      BY <1>1, <1>3, <2>1 DEF World, Move, Flush, mgr
  <1>4. CASE UNCHANGED vars
    BY <1>1, <1>4 DEF vars, mgr
  <1> QED
    BY <1>2, <1>3, <1>4, OperatorShown, JanitorShown DEF Next

\* As long as no call of the firewall or the database fails, the manager keeps
\* its promise (ConfirmedChange), whatever the operators, the timers, the
\* maintenance and reloads do in which order, and through crashes: what could
\* lock the administrator out is stored only out of its trial by a confirmation,
\* and what is not stored gives way to what is.
THEOREM ChangesAreConfirmed ==
    ASSUME Budget["db"] = 0, Budget["fw"] = 0
    PROVE  Spec => KeepsConfirmed
  <1>1. Init => TypeInv /\ TrialInv /\ SettledInv
    BY SettledInit
  <1>2. TypeInv /\ TrialInv /\ SettledInv /\ [Next]_vars => (TypeInv /\ TrialInv /\ SettledInv)'
    BY TypeStep, TrialStep, SettledStep
  <1>3. Init => Change!Init
    <2> SUFFICES ASSUME Init PROVE Change!Init
      OBVIOUS
    <2>1. proc[Janitor].pc = "start" /\ \A p \in Procs : proc[p].pc \in {"start", "idle"}
      BY FreshType, IdleType DEF Init, Fresh, Procs, Idle, ProcState
    <2>2. GoingBack /\ ~PuttingIn /\ trial = 0
      BY <2>1 DEF GoingBack, PuttingIn, Init
    <2> QED
      BY <2>2 DEF Change!Init, Running, Phase, Init
  <1>4. TypeInv /\ TypeInv' /\ TrialInv /\ SettledInv /\ [Next]_vars => [Change!Next]_<<stored.rules, Running, Phase>>
    BY ChangeStep DEF shown
  <1> QED
    BY <1>1, <1>2, <1>3, <1>4, PTL DEF Spec, KeepsConfirmed, Change!Spec

-----------------------------------------------------------------------------
(* The lockout                                                             *)

\* The timer of the trial that runs has not been stopped; the firewall holds the
\* rules the Manager believes in or none; and there are rules, stored, in force
\* and asked for.
TrialTimed == trial # 0 => timer[trial] \in {"armed", "fired"}
KernelKnown == proc[Janitor].pc # "start" => \A f \in Families : kernel[f].rules \in {active, None, Gone}
ChosenWant ==
    \A p \in Procs : proc[p].kind = "set" /\ proc[p].pc \in {"locked", "enforce", "finish"}
                        => proc[p].want # None
RulesStored == stored.rules # None /\ (proc[Janitor].pc # "start" => active # None)

LockInv == TrialTimed /\ KernelKnown /\ ChosenWant /\ RulesStored

\* The timer is that of the trial.
LEMMA TimedStep ==
    ASSUME TypeInv, TrialTimed, [Next]_vars
    PROVE  TrialTimed'
  <1>1. CASE UNCHANGED <<trial, timer>> \/ trial' = 0
    BY <1>1 DEF TrialTimed
  <1>2. ASSUME NEW o \in Operators, OperatorStep(o)
        PROVE  TrialTimed'
    <2>1. CASE SetFinish(o)
      <3>1. (CHOOSE n \in Trials : timer[n] = "unused") \in Trials
        BY <2>1 DEF SetFinish, TypeInv, TrialLeft, Procs
      <3>2. ASSUME NEW t \in Trials, trial' = t, timer' = [Stopped(trial) EXCEPT ![t] = "armed"]
            PROVE  TrialTimed'
        <4>1. Stopped(trial) \in [Trials -> {"unused", "armed", "fired", "done"}]
          BY TimerType DEF TypeInv, TypeOK
        <4> QED
          BY <3>2, <4>1 DEF TrialTimed
      <3> QED
        BY <1>1, <2>1, <3>1, <3>2 DEF SetFinish, stopTrial
    <2>2. CASE Confirm(o) \/ Revert(o)
      BY <1>1, <2>2 DEF Confirm, Revert, stopTrial
    <2>3. CASE UNCHANGED <<trial, timer>>
      BY <1>1, <2>3
    <2> QED
      BY <1>2, <2>1, <2>2, <2>3
      DEF OperatorStep, SetBegin, SetLock, SetFollow, FollowBegin, Holder, Enforce, Restore, mgr
  <1>3. ASSUME NEW t \in Trials, TimerStep(t)
        PROVE  TrialTimed'
    <2>1. CASE Fire(t)
      BY <2>1 DEF Fire, TrialTimed, TypeInv, TypeOK, Trials
    <2>2. CASE Expire(t)
      BY <2>2 DEF Expire, Mine, TrialTimed, TypeInv, TypeOK, Trials
    <2> QED
      BY <1>1, <1>3, <2>1, <2>2 DEF TimerStep, Holder, Enforce, Restore, mgr
  <1> QED
    BY <1>1, <1>2, <1>3 DEF Next, JanitorStep, Start, MaintainBegin, Maintain, World, Move, Flush,
       Restart, vars, mgr

\* What the firewall gets, and what the Manager then believes.
LEMMA Enforced ==
    ASSUME TypeInv, TrialInv, SettledInv, LockInv, NEW p \in Procs, Holder(p)
    PROVE  /\ active' = proc[p].want /\ active' # None
           /\ \A f \in Families : kernel'[f].rules \in {active', None, Gone}
           /\ UNCHANGED stored
  <1>1. Enforce(p) /\ mu = p /\ proc[p].pc = "enforce" /\ UNCHANGED stored
    BY DEF Holder, Enforce, Restore, SettledInv, NeverRefused
  <1>2. proc[p].want # None
    <2>1. CASE proc[p].kind = "set"
      BY <1>1, <2>1 DEF LockInv, ChosenWant
    <2>2. CASE proc[p].kind # "set"
      <3>1. proc[p].want = saved /\ proc[Janitor].pc # "start"
        BY <1>1, <2>2, Started DEF SettledInv, UndoesToSaved
      <3> QED
        BY <3>1 DEF SettledInv, SavedIsStored, LockInv, RulesStored
    <2> QED
      BY <2>1, <2>2
  <1>3. Apply(proc[p].want, scopeOf(proc[p].addrs, follow), TRUE) /\ active' = proc[p].want
    BY <1>1, <1>2, NoUpset DEF Enforce, EnforceSteps, SettledInv
  <1>4. \A f \in Families : kernel'[f].rules = proc[p].want
    BY <1>3 DEF Apply, Applied
  <1> QED
    BY <1>1, <1>2, <1>3, <1>4

\* The rest of LockInv, but for what a change wants.
RulesKnown == KernelKnown /\ RulesStored

LEMMA RulesKept ==
    ASSUME LockInv, UNCHANGED <<active, stored, kernel>>,
           proc'[Janitor].pc = "start" <=> proc[Janitor].pc = "start"
    PROVE  RulesKnown'
  BY DEF LockInv, RulesKnown, KernelKnown, RulesStored

\* The firewall holds the rules it was given, or those that are in force.
LEMMA Given ==
    ASSUME TypeInv, NEW rs, NEW sc
    PROVE  /\ Apply(rs, sc, TRUE) => \A f \in Families : kernel'[f].rules = rs
           /\ (SettledInv /\ Ensure(rs, sc)) =>
                \A f \in Families : kernel'[f].rules \in {rs, kernel[f].rules}
  <1>1. Apply(rs, sc, TRUE) => \A f \in Families : kernel'[f].rules = rs
    BY DEF Apply, Applied
  <1>2. ASSUME SettledInv, Ensure(rs, sc)
        PROVE  \A f \in Families : kernel'[f].rules \in {rs, kernel[f].rules}
    <2>1. CASE Apply(rs, sc, TRUE)
      BY <1>1, <2>1
    <2>2. CASE kernel' = [f \in Families |-> [kernel[f] EXCEPT !.hooked = TRUE]]
      BY <2>2 DEF TypeInv, TypeOK, ChainState
    <2> QED
      BY <1>2, <2>1, <2>2, NoUpset DEF Ensure, SettledInv
  <1> QED
    BY <1>1, <1>2

LEMMA RulesStep ==
    ASSUME None \notin Choices \cup InitialStored,
           TypeInv, TrialInv, SettledInv, LockInv, TypeInv', SettledInv', [Next]_vars
    PROVE  RulesKnown'
  <1>1. ASSUME NEW p \in Procs, Holder(p)
        PROVE  RulesKnown'
    <2>1. proc[Janitor].pc # "start"
      BY <1>1, Started DEF Holder, Enforce, Restore
    <2> QED
      BY <1>1, <2>1, Enforced DEF RulesKnown, KernelKnown, RulesStored, LockInv
  <1>2. ASSUME NEW o \in Operators, OperatorStep(o)
        PROVE  RulesKnown'
    <2>1. o \in Procs
      BY DEF Procs
    <2>2. CASE SetFinish(o)
      <3>1. active # None /\ UNCHANGED <<active, kernel>> /\ proc[Janitor].pc # "start"
        BY <2>1, <2>2, Started DEF SetFinish, LockInv, RulesStored
      <3>2. active = proc[o].want
        BY <2>1, <2>2 DEF SetFinish, TrialInv, FinishInForce
      <3>3. stored' = stored \/ stored'.rules = proc[o].want
        BY <2>2, NoUpset DEF SetFinish, SettledInv
      <3> QED
        BY <3>1, <3>2, <3>3 DEF RulesKnown, KernelKnown, RulesStored, LockInv
    <2>3. CASE Confirm(o)
      <3>1. active # None /\ UNCHANGED <<active, kernel>> /\ proc[Janitor].pc # "start"
        BY <2>3 DEF Confirm, Ready, LockInv, RulesStored
      <3>2. stored' = [rules |-> active, follow |-> follow]
        BY <2>3, NoUpset DEF Confirm, SettledInv
      <3> QED
        BY <3>1, <3>2 DEF RulesKnown, KernelKnown, RulesStored, LockInv
    <2>4. CASE SetFollow(o)
      <3> DEFINE fol == IF proc[o].on THEN follow \cup {proc[o].ip} ELSE follow \ {proc[o].ip}
                 sc == scopeOf(proc[o].addrs, fol)
      <3>1. active # None /\ UNCHANGED active /\ proc[Janitor].pc # "start"
        BY <2>1, <2>4, Started DEF SetFollow, LockInv, RulesStored
      <3>2. kernel' = Applied(active, sc) /\ \E ok \in BOOLEAN : Persist(saved, fol, ok)
        BY <2>4, <3>1, NoUpset DEF SetFollow, SettledInv
      <3> HIDE DEF fol, sc
      <3>3. stored' = [rules |-> saved, follow |-> fol]
        BY <3>2, NoUpset DEF SettledInv
      <3>4. saved # None
        BY <3>1 DEF SettledInv, SavedIsStored, LockInv, RulesStored
      <3>5. \A f \in Families : kernel'[f].rules = active
        BY <3>2 DEF Applied
      <3> QED
        BY <3>1, <3>3, <3>4, <3>5 DEF RulesKnown, KernelKnown, RulesStored
    <2>5. CASE SetLock(o) \/ Revert(o) \/ (\E rs \in Choices : SetBegin(o, rs))
               \/ \E ip \in Addrs, on \in BOOLEAN : FollowBegin(o, ip, on)
      <3>1. UNCHANGED <<active, stored, kernel>>
        BY <2>5 DEF SetLock, Revert, SetBegin, FollowBegin, mgr
      <3>2. \A q \in Procs \ {o} : proc'[q] = proc[q]
        BY <2>1, <2>5 DEF SetLock, Revert, Undo, SetBegin, FollowBegin, Goto, TypeInv, TypeOK
      <3>3. Janitor \in Procs \ {o}
        BY ProcsAssumption DEF Procs
      <3> QED
        BY <3>1, <3>2, <3>3, RulesKept
    <2> QED
      BY <1>1, <1>2, <2>1, <2>2, <2>3, <2>4, <2>5 DEF OperatorStep
  <1>3. ASSUME NEW t \in Trials, TimerStep(t)
        PROVE  RulesKnown'
    <2>1. t \in Procs /\ Janitor \in Procs \ {t}
      BY ProcsAssumption DEF Procs
    <2>2. CASE Fire(t)
      BY <2>2, RulesKept DEF Fire
    <2>3. CASE Expire(t)
      <3>1. proc'[Janitor] = proc[Janitor] /\ UNCHANGED <<active, stored, kernel>>
        BY <2>1, <2>3 DEF Expire, Undo, TypeInv, TypeOK
      <3> QED
        BY <3>1, RulesKept
    <2> QED
      BY <1>1, <1>3, <2>1, <2>2, <2>3 DEF TimerStep
  <1>4. CASE JanitorStep
    <2>1. CASE Start
      <3>1. stored.rules # None /\ UNCHANGED stored
        BY <2>1 DEF Start, LockInv, RulesStored
      <3>2. active' = stored.rules /\ \A f \in Families : kernel'[f].rules = stored.rules
        BY <2>1, <3>1, NoUpset, Given DEF Start, SettledInv
      <3> QED
        BY <3>1, <3>2 DEF RulesKnown, KernelKnown, RulesStored
    <2>2. CASE MaintainBegin
      <3>1. proc[Janitor].pc = "idle" /\ proc'[Janitor].pc # "start"
        BY <2>2 DEF MaintainBegin, TypeInv, TypeOK, Procs, ProcState
      <3> QED
        BY <2>2, <3>1, RulesKept DEF MaintainBegin, mgr
    <2>3. CASE Maintain
      <3>1. proc[Janitor].pc = "maintain" /\ UNCHANGED <<active, stored>> /\ active # None
        BY <2>3 DEF Maintain, LockInv, RulesStored
      <3>2. \A f \in Families : kernel'[f].rules \in {active, kernel[f].rules}
        BY <2>3, <3>1, NoUpset, Given DEF Maintain, SettledInv
      <3> QED
        BY <3>1, <3>2 DEF RulesKnown, KernelKnown, RulesStored, LockInv
    <2> QED
      BY <1>4, <2>1, <2>2, <2>3 DEF JanitorStep
  <1>5. CASE World
    <2>1. ASSUME NEW ip \in Addrs, Move(ip)
          PROVE  RulesKnown'
      BY <2>1, RulesKept DEF Move, mgr
    <2>2. ASSUME NEW f \in Families, Flush(f)
          PROVE  RulesKnown'
      <3>1. UNCHANGED <<active, stored, proc>>
        BY <2>2 DEF Flush, mgr
      <3>2. \A g \in Families : kernel'[g].rules \in {kernel[g].rules, None, Gone}
        BY <2>2 DEF Flush, GoneChain, TypeInv, TypeOK, ChainState
      <3> QED
        BY <3>1, <3>2 DEF RulesKnown, KernelKnown, RulesStored, LockInv
    <2>3. ASSUME NEW reboot \in BOOLEAN, Restart(reboot)
          PROVE  RulesKnown'
      <3>1. stored' = stored /\ proc'[Janitor].pc = "start"
        BY <2>3, IdleType DEF Restart, Fresh, Procs, Idle, ProcState
      <3> QED
        BY <3>1 DEF RulesKnown, KernelKnown, RulesStored, LockInv
    <2> QED
      BY <1>5, <2>1, <2>2, <2>3 DEF World
  <1>6. CASE UNCHANGED vars
    BY <1>6, RulesKept DEF vars, mgr
  <1> QED
    BY <1>2, <1>3, <1>4, <1>5, <1>6 DEF Next

\* What a change wants is one of the rule sets that may be asked for.
LEMMA WantStep ==
    ASSUME None \notin Choices, TypeInv, TrialInv, SettledInv, ChosenWant, [Next]_vars
    PROVE  ChosenWant'
  <1>1. ASSUME NEW p \in Procs, NEW st, proc' = [proc EXCEPT ![p] = st],
               st.kind = "set" /\ st.pc \in {"locked", "enforce", "finish"} => st.want # None
        PROVE  ChosenWant'
    BY <1>1 DEF ChosenWant, TypeInv, TypeOK
  <1>2. ASSUME NEW p \in Procs, NEW l \in PCs, Goto(p, l),
               l \in {"locked", "enforce", "finish"} => proc[p].pc \in {"locked", "enforce"}
        PROVE  ChosenWant'
    <2> DEFINE st == [proc[p] EXCEPT !.pc = l]
    <2>1. /\ proc' = [proc EXCEPT ![p] = st] /\ st.pc = l
          /\ st.kind = proc[p].kind /\ st.want = proc[p].want
      BY <1>2 DEF Goto, TypeInv, TypeOK, ProcState
    <2> HIDE DEF st
    <2> QED
      BY <1>1, <1>2, <2>1 DEF ChosenWant
  <1>3. ASSUME NEW p \in Procs, Finished(p) \/ Undo(p) \/ UNCHANGED proc
        PROVE  ChosenWant'
    <2>1. CASE Finished(p)
      BY <1>1, <2>1 DEF Finished, Idle
    <2>2. CASE Undo(p)
      <3> DEFINE st == [Idle EXCEPT !.pc = "enforce", !.kind = "undo", !.want = saved, !.addrs = forwarded]
      <3>1. proc' = [proc EXCEPT ![p] = st] /\ st.kind = "undo"
        BY <2>2 DEF Undo, Idle
      <3> HIDE DEF st
      <3> QED
        BY <1>1, <3>1
    <2> QED
      BY <1>3, <2>1, <2>2 DEF ChosenWant
  <1>4. ASSUME NEW p \in Procs, Holder(p)
        PROVE  ChosenWant'
    <2>1. (Goto(p, "finish") /\ proc[p].pc = "enforce") \/ Goto(p, "restore") \/ Finished(p)
      BY <1>4 DEF Holder, Enforce, EnforceSteps, Restore
    <2> QED
      BY <1>2, <1>3, <2>1 DEF PCs
  <1>5. ASSUME NEW o \in Operators, OperatorStep(o)
        PROVE  ChosenWant'
    <2>1. o \in Procs
      BY DEF Procs
    <2>2. ASSUME NEW rs \in Choices, SetBegin(o, rs)
          PROVE  ChosenWant'
      <3> DEFINE st == [Idle EXCEPT !.pc = "locked", !.want = rs, !.addrs = forwarded]
      <3>1. proc' = [proc EXCEPT ![o] = st] /\ st.want = rs
        BY <2>2 DEF SetBegin, Idle
      <3> HIDE DEF st
      <3> QED
        BY <1>1, <2>1, <3>1
    <2>3. ASSUME NEW ip \in Addrs, NEW on \in BOOLEAN, FollowBegin(o, ip, on)
          PROVE  ChosenWant'
      <3> DEFINE st == [Idle EXCEPT !.pc = "locked", !.kind = "follow", !.ip = ip,
                                    !.on = on, !.addrs = forwarded]
      <3>1. proc' = [proc EXCEPT ![o] = st] /\ st.kind = "follow"
        BY <2>3 DEF FollowBegin, Idle
      <3> HIDE DEF st
      <3> QED
        BY <1>1, <2>1, <3>1
    <2>4. CASE SetLock(o)
      BY <1>2, <2>1, <2>4 DEF SetLock, PCs
    <2>5. CASE SetFinish(o) \/ Confirm(o) \/ Revert(o) \/ SetFollow(o)
      BY <1>3, <2>1, <2>5 DEF SetFinish, Confirm, Revert, SetFollow
    <2> QED
      BY <1>4, <1>5, <2>1, <2>2, <2>3, <2>4, <2>5 DEF OperatorStep
  <1>6. ASSUME NEW t \in Trials, TimerStep(t)
        PROVE  ChosenWant'
    <2>1. t \in Procs
      BY DEF Procs
    <2> QED
      BY <1>3, <1>4, <1>6, <2>1 DEF TimerStep, Fire, Expire
  <1>7. CASE JanitorStep
    <2>1. Janitor \in Procs /\ proc[Janitor] \in ProcState
      BY DEF Procs, TypeInv, TypeOK
    <2>2. CASE Start \/ Maintain
      BY <1>2, <2>1, <2>2 DEF Start, Maintain, PCs
    <2>3. CASE MaintainBegin
      <3> DEFINE st == [proc[Janitor] EXCEPT !.pc = "maintain", !.addrs = forwarded]
      <3>1. proc' = [proc EXCEPT ![Janitor] = st] /\ st.pc = "maintain"
        BY <2>1, <2>3 DEF MaintainBegin, ProcState, TypeInv, TypeOK
      <3> HIDE DEF st
      <3> QED
        BY <1>1, <2>1, <3>1
    <2> QED
      BY <1>7, <2>2, <2>3 DEF JanitorStep
  <1>8. CASE World
    <2>1. ASSUME proc' = Fresh
          PROVE  ChosenWant'
      <3>1. \A p \in Procs : Fresh[p].pc \in {"start", "idle"}
        BY IdleType DEF Fresh, Idle, ProcState
      <3> QED
        BY <2>1, <3>1 DEF ChosenWant
    <2> QED
      BY <1>3, <1>8, <2>1 DEF World, Move, Flush, Restart, ChosenWant
  <1>9. CASE UNCHANGED vars
    BY <1>9 DEF vars, ChosenWant
  <1> QED
    BY <1>5, <1>6, <1>7, <1>8, <1>9 DEF Next

\* The firewall never holds a restriction of a protected port that is not stored
\* without a timer that will undo it, or somebody undoing it: as long as no call
\* fails, nobody can be locked out for good, whatever is flushed and however
\* often the process dies.
THEOREM LockoutIsTimed ==
    ASSUME Budget["db"] = 0, Budget["fw"] = 0, None \notin Choices \cup InitialStored
    PROVE  Spec => []LockoutHasTimer
  <1>1. Init => TypeInv /\ TrialInv /\ SettledInv /\ LockInv
    <2> SUFFICES ASSUME Init PROVE SettledInv /\ LockInv
      BY TypeInit, FreshTrial DEF Init
    <2>1. proc[Janitor].pc = "start" /\ \A p \in Procs : proc[p].pc \in {"start", "idle"}
      BY FreshType, IdleType DEF Init, Fresh, Procs, Idle, ProcState
    <2>2. SettledInv
      BY <2>1 DEF Init, SettledInv, Faultless, SavedIsStored, NothingAtStart, UndoesToSaved,
         NeverRefused, FreeIsSaved
    <2> QED
      BY <2>1, <2>2 DEF Init, LockInv, TrialTimed, KernelKnown, ChosenWant, RulesStored
  <1>2. TypeInv /\ TrialInv /\ SettledInv /\ LockInv /\ [Next]_vars
          => (TypeInv /\ TrialInv /\ SettledInv /\ LockInv)'
    BY TypeStep, TrialStep, SettledStep, TimedStep, RulesStep, WantStep DEF LockInv, RulesKnown
  <1>3. TypeInv /\ SettledInv /\ LockInv => LockoutHasTimer
    <2> SUFFICES ASSUME TypeInv, SettledInv, LockInv, Unconfirmed, mu = Free, proc[Janitor].pc # "start"
                 PROVE  trial # 0 /\ timer[trial] \in {"armed", "fired"}
      BY DEF LockoutHasTimer
    <2>1. PICK f \in Families : riskyPorts(stored.rules, InForce(f)) # {}
      BY DEF Unconfirmed
    <2>2. InForce(f) \in {active, None}
      BY DEF InForce, LockInv, KernelKnown
    <2>3. active # stored.rules
      BY <2>1, <2>2, RiskIsNew
    <2>4. trial # 0
      BY <2>3 DEF SettledInv, FreeIsSaved, SavedIsStored
    <2> QED
      BY <2>4 DEF LockInv, TrialTimed
  <1> QED
    BY <1>1, <1>2, <1>3, PTL DEF Spec

-----------------------------------------------------------------------------
(* The manager knows what the firewall holds.                              *)

\* What every family holds are the rules that are in force, or what a reload
\* left; while a refused change is put back, the failing call is spent.
Refusing == \E p \in Procs : proc[p].pc = "restore"
KernelHolds == \A f \in Families : kernel[f].rules \in {active, Gone, None}
KernelInv ==
    /\ budget["fw"] <= 1
    /\ Refusing => budget["fw"] = 0
    /\ ~Refusing /\ active # None => KernelHolds

\* An upset leaves at most the calls that could fail before, one less if it is
\* a call of the firewall.
LEMMA UpsetLeaves ==
    ASSUME TypeInv, NEW k \in Upsets, Upset(k)
    PROVE  /\ budget'["fw"] <= budget["fw"]
           /\ k = "fw" => budget["fw"] > 0 /\ budget'["fw"] = budget["fw"] - 1
  BY DEF Upset, Upsets, TypeInv, TypeOK

LEMMA FwLeaves ==
    ASSUME TypeInv
    PROVE  /\ \A rs, sc : Apply(rs, sc, TRUE) => UNCHANGED budget
           /\ \A rs, sc : Apply(rs, sc, FALSE) =>
                 budget["fw"] > 0 /\ budget'["fw"] = budget["fw"] - 1
           /\ Remove => budget'["fw"] <= budget["fw"]
           /\ \A rs, sc : Ensure(rs, sc) => budget'["fw"] <= budget["fw"]
  <1>0. "fw" \in Upsets /\ budget["fw"] \in Nat
    BY DEF Upsets, TypeInv, TypeOK
  <1>1. Upset("fw") => budget["fw"] > 0 /\ budget'["fw"] = budget["fw"] - 1 /\ budget'["fw"] <= budget["fw"]
    BY <1>0, UpsetLeaves
  <1>2. ASSUME NEW rs, NEW sc, Apply(rs, sc, TRUE) PROVE UNCHANGED budget
    BY <1>2 DEF Apply
  <1>3. ASSUME NEW rs, NEW sc, Apply(rs, sc, FALSE) PROVE Upset("fw")
    BY <1>3 DEF Apply
  <1>4. Remove => budget'["fw"] <= budget["fw"]
    BY <1>0, <1>1 DEF Remove
  <1>5. ASSUME NEW rs, NEW sc, Ensure(rs, sc) PROVE budget'["fw"] <= budget["fw"]
    BY <1>0, <1>1, <1>5 DEF Ensure, Apply
  <1> QED
    BY <1>0, <1>1, <1>2, <1>3, <1>4, <1>5, Zenon

LEMMA PersistLeaves ==
    ASSUME TypeInv, NEW rs, NEW fol, NEW ok, Persist(rs, fol, ok)
    PROVE  budget'["fw"] <= budget["fw"]
  BY UpsetLeaves DEF Persist, Upsets, TypeInv, TypeOK

\* Applying rules puts them, family by family, in the place of what was there.
LEMMA ApplyHolds ==
    ASSUME TypeInv, NEW rs, NEW sc, NEW ok, Apply(rs, sc, ok)
    PROVE  \A f \in Families : /\ kernel'[f].rules \in {rs, kernel[f].rules}
                               /\ ok => kernel'[f].rules = rs
  BY DEF Apply, Applied

LEMMA EnsureHolds ==
    ASSUME TypeInv, NEW rs, NEW sc, Ensure(rs, sc)
    PROVE  \A f \in Families : kernel'[f].rules \in {rs, kernel[f].rules}
  <1>1. CASE kernel' = [f \in Families |-> [kernel[f] EXCEPT !.hooked = TRUE]]
    BY <1>1 DEF TypeInv, TypeOK, ChainState
  <1> QED
    BY <1>1, ApplyHolds DEF Ensure

\* The places of the goroutines, and who may be putting rules back.
LEMMA RefusingHolds ==
    ASSUME TypeInv, NEW p \in Procs, mu \in {p, Free}, NEW st, proc' = [proc EXCEPT ![p] = st]
    PROVE  /\ Refusing' <=> st.pc = "restore"
           /\ Refusing <=> proc[p].pc = "restore"
  BY ProcsAssumption DEF TypeInv, TypeOK, Refusing

LEMMA RefusingElsewhere ==
    ASSUME TypeInv, NEW p \in Procs, NEW st, proc' = [proc EXCEPT ![p] = st],
           proc[p].pc # "restore", st.pc # "restore"
    PROVE  Refusing' <=> Refusing
  BY DEF TypeInv, TypeOK, Refusing

\* A step that has nothing to do with what is in force.
LEMMA KernelKept ==
    ASSUME KernelInv, UNCHANGED active, TypeInv, TypeInv', Refusing' <=> Refusing,
           budget'["fw"] <= budget["fw"],
           \A f \in Families : kernel'[f].rules \in {kernel[f].rules, active, Gone, None}
    PROVE  KernelInv'
  BY DEF KernelInv, KernelHolds, TypeInv, TypeOK, Upsets

LEMMA HolderKernel ==
    ASSUME TypeInv, TypeInv', KernelInv, NEW p \in Procs, Holder(p)
    PROVE  KernelInv'
  <1>0. mu = p /\ Idle.pc = "idle" /\ budget["fw"] \in Nat /\ budget'["fw"] \in Nat
    BY DEF Holder, Enforce, Restore, Idle, TypeInv, TypeOK, Upsets
  <1>1. CASE Restore(p)
    <2>1. Refusing /\ proc[p].pc = "restore" /\ budget["fw"] = 0
      BY <1>1 DEF Restore, Refusing, KernelInv
    <2>2. ~Refusing' /\ UNCHANGED active
      BY <1>0, <1>1, RefusingHolds DEF Restore, Finished, mgr
    <2>3. CASE active = None
      <3>1. Remove
        BY <1>1, <2>3 DEF Restore
      <3>2. budget'["fw"] <= budget["fw"]
        BY <3>1, FwLeaves
      <3> QED
        BY <1>0, <2>1, <2>2, <2>3, <3>2 DEF KernelInv
    <2>4. CASE active # None
      <3>1. Apply(active, scope, TRUE) \/ Apply(active, scope, FALSE)
        <4>1. \E ok \in BOOLEAN : Apply(active, scope, ok)
          BY <1>1, <2>4 DEF Restore
        <4> QED
          BY <4>1, Zenon
      <3>2. Apply(active, scope, TRUE) /\ UNCHANGED budget
        <4>1. /\ Apply(active, scope, TRUE) => UNCHANGED budget
              /\ Apply(active, scope, FALSE) => budget["fw"] > 0
          BY FwLeaves, Zenon
        <4>2. ~(budget["fw"] > 0)
          BY <2>1
        <4> QED
          BY <3>1, <4>1, <4>2, Zenon
      <3>3. \A f \in Families : kernel'[f].rules = active
        BY <3>2, ApplyHolds
      <3> QED
        BY <2>1, <2>2, <3>2, <3>3 DEF KernelInv, KernelHolds
    <2> QED
      BY <2>3, <2>4
  <1>2. CASE Enforce(p)
    <2> DEFINE want == proc[p].want
               sc == scopeOf(proc[p].addrs, follow)
    <2>1. proc[p].pc = "enforce" /\ ~Refusing /\ budget["fw"] <= 1
      <3>1. proc[p].pc = "enforce" /\ \A q \in Procs \ {p} : proc[q].pc # "restore"
        BY <1>0, <1>2 DEF Enforce, TypeInv, TypeOK
      <3> QED
        BY <3>1 DEF Refusing, KernelInv
    <2>2. ASSUME Goto(p, "finish") \/ Finished(p)
          PROVE  ~Refusing'
      <3>1. CASE Goto(p, "finish")
        <4>1. proc' = [proc EXCEPT ![p] = [proc[p] EXCEPT !.pc = "finish"]]
              /\ [proc[p] EXCEPT !.pc = "finish"].pc = "finish"
          BY <3>1 DEF Goto, TypeInv, TypeOK, ProcState
        <4> QED
          BY <1>0, <4>1, RefusingHolds
      <3>2. CASE Finished(p)
        BY <1>0, <3>2, RefusingHolds DEF Finished
      <3> QED
        BY <2>2, <3>1, <3>2
    <2>3. CASE /\ want = None /\ active' = None
               /\ Goto(p, "finish") \/ Finished(p)
               /\ Remove \/ UNCHANGED budget
      <3>1. budget'["fw"] <= budget["fw"]
        <4>1. Remove => budget'["fw"] <= budget["fw"]
          BY FwLeaves
        <4> QED
          BY <1>0, <2>3, <4>1
      <3> QED
        BY <1>0, <2>1, <2>2, <2>3, <3>1 DEF KernelInv
    <2>4. CASE /\ Apply(want, sc, TRUE) /\ active' = want
               /\ Goto(p, "finish") \/ Finished(p)
      <3>1. KernelHolds'
        <4>1. \A f \in Families : kernel'[f].rules = want
          BY <2>4, ApplyHolds
        <4> QED
          BY <2>4, <4>1 DEF KernelHolds
      <3>2. budget'["fw"] <= budget["fw"]
        <4>1. UNCHANGED budget
          BY <2>4, FwLeaves, Zenon
        <4> QED
          BY <1>0, <4>1
      <3> QED
        BY <1>0, <2>1, <2>2, <2>4, <3>1, <3>2 DEF KernelInv
    <2>5. CASE Apply(want, sc, FALSE) /\ Goto(p, "restore")
      <3>1. budget'["fw"] = 0
        <4>1. budget["fw"] > 0 /\ budget'["fw"] = budget["fw"] - 1
          BY <2>5, FwLeaves, Zenon
        <4> QED
          BY <1>0, <2>1, <4>1
      <3>2. Refusing'
        BY <2>5 DEF Goto, Refusing, TypeInv, TypeOK, ProcState
      <3> QED
        BY <3>1, <3>2 DEF KernelInv
    <2> QED
      BY <1>2, <2>3, <2>4, <2>5 DEF Enforce, EnforceSteps
  <1> QED
    BY <1>1, <1>2 DEF Holder
LEMMA KernelStep ==
    ASSUME TypeInv, TrialInv, NothingAtStart, TypeInv', KernelInv, [Next]_vars
    PROVE  KernelInv'
  <1>0. budget["fw"] \in Nat /\ \A f \in Families : kernel[f] \in ChainState
    BY DEF TypeInv, TypeOK, Upsets
  <1>1. ASSUME NEW p \in Procs, NEW st, proc' = [proc EXCEPT ![p] = st],
               proc[p].pc # "restore", st.pc # "restore",
               UNCHANGED active, budget'["fw"] <= budget["fw"],
               \A f \in Families : kernel'[f].rules \in {kernel[f].rules, active}
        PROVE  KernelInv'
    BY <1>1, KernelKept, RefusingElsewhere
  <1>9. ASSUME NEW p \in Procs, NEW st, proc' = [proc EXCEPT ![p] = st],
               proc[p].pc # "restore", st.pc # "restore", UNCHANGED <<active, kernel, budget>>
        PROVE  KernelInv'
    <2>1. budget'["fw"] <= budget["fw"]
      BY <1>0, <1>9
    <2>2. \A f \in Families : kernel'[f].rules \in {kernel[f].rules, active}
      BY <1>9
    <2> QED
      BY <1>1, <1>9, <2>1, <2>2
  <1>2. ASSUME UNCHANGED <<active, proc>>, budget'["fw"] <= budget["fw"],
               \A f \in Families : kernel'[f].rules \in {kernel[f].rules, Gone, None}
        PROVE  KernelInv'
    BY <1>2, KernelKept DEF Refusing
  <1>3. ASSUME NEW p \in Procs, NEW l \in PCs, proc[p].pc # "restore", l # "restore",
               Goto(p, l), UNCHANGED active, budget'["fw"] <= budget["fw"],
               \A f \in Families : kernel'[f].rules \in {kernel[f].rules, active}
        PROVE  KernelInv'
    <2> DEFINE st == [proc[p] EXCEPT !.pc = l]
    <2>1. proc' = [proc EXCEPT ![p] = st] /\ st.pc = l
      BY <1>3 DEF Goto, TypeInv, TypeOK, ProcState
    <2> HIDE DEF st
    <2> QED
      BY <1>1, <1>3, <2>1
  <1>4. ASSUME NEW o \in Operators, OperatorStep(o)
        PROVE  KernelInv'
    <2>0. o \in Procs
      BY DEF Procs
    <2>1. ASSUME NEW rs \in Choices, SetBegin(o, rs)
          PROVE  KernelInv'
      <3> DEFINE st == [Idle EXCEPT !.pc = "locked", !.want = rs, !.addrs = forwarded]
      <3>1. proc' = [proc EXCEPT ![o] = st] /\ st.pc = "locked" /\ proc[o].pc = "idle"
            /\ UNCHANGED <<active, kernel, budget>>
        BY <2>1 DEF SetBegin, Ready, Idle, mgr
      <3> HIDE DEF st
      <3> QED
        BY <1>9, <2>0, <3>1
    <2>2. ASSUME NEW ip \in Addrs, NEW on \in BOOLEAN, FollowBegin(o, ip, on)
          PROVE  KernelInv'
      <3> DEFINE st == [Idle EXCEPT !.pc = "locked", !.kind = "follow", !.ip = ip,
                                    !.on = on, !.addrs = forwarded]
      <3>1. proc' = [proc EXCEPT ![o] = st] /\ st.pc = "locked" /\ proc[o].pc = "idle"
            /\ UNCHANGED <<active, kernel, budget>>
        BY <2>2 DEF FollowBegin, Ready, Idle, mgr
      <3> HIDE DEF st
      <3> QED
        BY <1>9, <2>0, <3>1
    <2>3. CASE SetLock(o)
      <3>1. proc[o].pc = "locked" /\ Goto(o, "enforce") /\ UNCHANGED <<active, kernel, budget>>
        BY <2>3 DEF SetLock, mgr
      <3> QED
        BY <1>0, <1>3, <2>0, <3>1 DEF PCs
    <2>4. CASE SetFinish(o)
      <3>1. /\ proc[o].pc = "finish" /\ proc' = [proc EXCEPT ![o] = Idle] /\ Idle.pc = "idle"
            /\ UNCHANGED <<active, kernel>>
        BY <2>4 DEF SetFinish, Finished, Idle
      <3>2. budget'["fw"] <= budget["fw"]
        <4>1. CASE UNCHANGED budget
          BY <1>0, <4>1
        <4>2. CASE \E ok \in BOOLEAN : Persist(proc[o].want, follow, ok)
          BY <4>2, PersistLeaves
        <4> QED
          BY <2>4, <4>1, <4>2 DEF SetFinish
      <3> QED
        BY <1>0, <1>1, <2>0, <3>1, <3>2
    <2>5. CASE Confirm(o)
      <3>1. UNCHANGED <<active, proc, kernel>> /\ \E ok \in BOOLEAN : Persist(active, follow, ok)
        BY <2>5 DEF Confirm
      <3>2. budget'["fw"] <= budget["fw"]
        BY <3>1, PersistLeaves
      <3> QED
        BY <1>0, <1>2, <3>1, <3>2
    <2>6. CASE Revert(o)
      <3> DEFINE st == [Idle EXCEPT !.pc = "enforce", !.kind = "undo", !.want = saved, !.addrs = forwarded]
      <3>1. proc' = [proc EXCEPT ![o] = st] /\ st.pc = "enforce" /\ proc[o].pc = "idle"
            /\ UNCHANGED <<active, kernel, budget>>
        BY <2>6 DEF Revert, Undo, Ready, Idle
      <3> HIDE DEF st
      <3> QED
        BY <1>9, <2>0, <3>1
    <2>7. CASE SetFollow(o)
      <3> DEFINE fol == IF proc[o].on THEN follow \cup {proc[o].ip} ELSE follow \ {proc[o].ip}
                 sc == scopeOf(proc[o].addrs, fol)
      <3>1. /\ proc[o].pc = "locked" /\ proc' = [proc EXCEPT ![o] = Idle] /\ Idle.pc = "idle"
            /\ UNCHANGED active
        BY <2>7 DEF SetFollow, Finished, Idle
      <3>2. \/ UNCHANGED kernel /\ \E ok \in BOOLEAN : Persist(saved, fol, ok)
            \/ kernel' = Applied(active, sc) /\ \E ok \in BOOLEAN : Persist(saved, fol, ok)
            \/ Apply(active, sc, FALSE)
        BY <2>7 DEF SetFollow
      <3> HIDE DEF fol, sc
      <3>3. budget'["fw"] <= budget["fw"]
        <4>1. Apply(active, sc, FALSE) => budget'["fw"] = budget["fw"] - 1
          BY FwLeaves, Zenon
        <4>2. CASE Apply(active, sc, FALSE)
          BY <1>0, <4>1, <4>2
        <4>3. CASE \E ok \in BOOLEAN : Persist(saved, fol, ok)
          BY <4>3, PersistLeaves
        <4> QED
          BY <3>2, <4>2, <4>3
      <3>4. \A f \in Families : kernel'[f].rules \in {kernel[f].rules, active}
        <4>1. CASE kernel' = Applied(active, sc)
          BY <4>1 DEF Applied
        <4> QED
          BY <3>2, <4>1, ApplyHolds
      <3> QED
        BY <1>1, <2>0, <3>1, <3>3, <3>4
    <2> QED
      BY <1>4, <2>0, <2>1, <2>2, <2>3, <2>4, <2>5, <2>6, <2>7, HolderKernel DEF OperatorStep
  <1>5. ASSUME NEW t \in Trials, TimerStep(t)
        PROVE  KernelInv'
    <2>0. t \in Procs
      BY DEF Procs
    <2>1. CASE Fire(t)
      BY <1>0, <1>2, <2>1 DEF Fire
    <2>2. CASE Expire(t)
      <3>1. mu = Free /\ UNCHANGED <<active, kernel, budget>> /\ (UNCHANGED proc \/ Undo(t))
        BY <2>2 DEF Expire
      <3>2. CASE Undo(t)
        <4> DEFINE st == [Idle EXCEPT !.pc = "enforce", !.kind = "undo", !.want = saved, !.addrs = forwarded]
        <4>1. proc' = [proc EXCEPT ![t] = st] /\ st.pc = "enforce" /\ proc[t].pc # "restore"
          BY <2>0, <3>1, <3>2, ProcsAssumption DEF Undo, Idle, TypeInv, TypeOK
        <4> HIDE DEF st
        <4> QED
          BY <1>9, <2>0, <3>1, <4>1
      <3> QED
        BY <1>0, <1>2, <3>1, <3>2
    <2> QED
      BY <1>5, <2>0, <2>1, <2>2, HolderKernel DEF TimerStep
  <1>6. CASE JanitorStep
    <2>0. Janitor \in Procs
      BY DEF Procs
    <2>1. CASE Start
      <3> DEFINE sc == scopeOf(forwarded, stored.follow)
      <3>1. proc[Janitor].pc = "start" /\ Goto(Janitor, "idle")
        BY <2>1 DEF Start
      <3>2. \/ Upset("db") /\ UNCHANGED <<active, kernel>>
            \/ UNCHANGED <<active, kernel, budget>>
            \/ Apply(stored.rules, sc, TRUE) /\ active' = stored.rules
            \/ Apply(stored.rules, sc, FALSE) /\ UNCHANGED active
        BY <2>1 DEF Start, mgr
      <3> HIDE DEF sc
      <3>3. CASE Upset("db") /\ UNCHANGED <<active, kernel>>
        <4>1. budget'["fw"] <= budget["fw"]
          BY <3>3, UpsetLeaves DEF Upsets
        <4> QED
          BY <1>3, <2>0, <3>1, <3>3, <4>1 DEF PCs
      <3>4. CASE UNCHANGED <<active, kernel, budget>>
        <4>1. budget'["fw"] <= budget["fw"]
          BY <1>0, <3>4
        <4> QED
          BY <1>3, <2>0, <3>1, <3>4, <4>1 DEF PCs
      <3>5. CASE Apply(stored.rules, sc, TRUE) /\ active' = stored.rules
        <4>1. UNCHANGED budget
          BY <3>5, FwLeaves, Zenon
        <4>2. KernelHolds'
          BY <3>5 DEF Apply, Applied, KernelHolds
        <4>3. ~Refusing' /\ budget["fw"] <= 1
          BY <2>0, <3>1 DEF TrialInv, StartAlone, Goto, Refusing, TypeInv, TypeOK, ProcState, KernelInv
        <4> QED
          BY <4>1, <4>2, <4>3 DEF KernelInv
      <3>6. CASE Apply(stored.rules, sc, FALSE) /\ UNCHANGED active
        <4>1. budget'["fw"] = budget["fw"] - 1
          BY <3>6, FwLeaves, Zenon
        <4>2. active = None
          BY <3>1 DEF NothingAtStart
        <4>3. ~Refusing'
          BY <2>0, <3>1 DEF TrialInv, StartAlone, Goto, Refusing, TypeInv, TypeOK, ProcState
        <4> QED
          BY <1>0, <3>6, <4>1, <4>2, <4>3 DEF KernelInv
      <3> QED
        BY <3>2, <3>3, <3>4, <3>5, <3>6
    <2>2. CASE MaintainBegin
      <3> DEFINE st == [proc[Janitor] EXCEPT !.pc = "maintain", !.addrs = forwarded]
      <3>1. /\ proc' = [proc EXCEPT ![Janitor] = st]
            /\ proc[Janitor].pc = "idle" /\ UNCHANGED <<active, kernel, budget>>
        <4>1. proc' = [proc EXCEPT ![Janitor].pc = "maintain", ![Janitor].addrs = forwarded]
              /\ proc[Janitor] \in ProcState
          BY <2>0, <2>2 DEF MaintainBegin, TypeInv, TypeOK
        <4> QED
          BY <2>0, <2>2, <4>1 DEF MaintainBegin, ProcState, TypeInv, TypeOK, mgr
      <3>2. st.pc = "maintain"
        BY <2>0 DEF ProcState, TypeInv, TypeOK
      <3> HIDE DEF st
      <3> QED
        BY <1>9, <2>0, <3>1, <3>2
    <2>3. CASE Maintain
      <3> DEFINE sc == scopeOf(proc[Janitor].addrs, follow)
      <3>1. proc[Janitor].pc = "maintain" /\ Goto(Janitor, "idle") /\ UNCHANGED active
        BY <2>3 DEF Maintain
      <3>2. \/ UNCHANGED <<kernel, budget>>
            \/ Apply(active, sc, TRUE)
            \/ Apply(active, sc, FALSE)
            \/ Ensure(active, scope)
        BY <2>3 DEF Maintain
      <3> HIDE DEF sc
      <3>3. budget'["fw"] <= budget["fw"]
        <4>1. /\ Apply(active, sc, TRUE) => UNCHANGED budget
              /\ Apply(active, sc, FALSE) => budget'["fw"] = budget["fw"] - 1
              /\ Ensure(active, scope) => budget'["fw"] <= budget["fw"]
          BY FwLeaves, Zenon
        <4>2. UNCHANGED budget => budget'["fw"] <= budget["fw"]
          BY <1>0
        <4>3. budget'["fw"] = budget["fw"] - 1 => budget'["fw"] <= budget["fw"]
          BY <1>0
        <4> QED
          BY <3>2, <4>1, <4>2, <4>3, Zenon
      <3>4. \A f \in Families : kernel'[f].rules \in {kernel[f].rules, active}
        BY <3>2, ApplyHolds, EnsureHolds
      <3> QED
        BY <1>3, <2>0, <3>1, <3>3, <3>4 DEF PCs
    <2> QED
      BY <1>6, <2>1, <2>2, <2>3 DEF JanitorStep
  <1>7. CASE World
    <2>1. ASSUME NEW ip \in Addrs, Move(ip)
          PROVE  KernelInv'
      BY <1>0, <1>2, <2>1 DEF Move, mgr
    <2>2. ASSUME NEW f \in Families, Flush(f)
          PROVE  KernelInv'
      <3>1. UNCHANGED <<active, proc>>
        BY <2>2 DEF Flush, mgr
      <3>2. \A g \in Families : kernel'[g].rules \in {kernel[g].rules, None, Gone}
        BY <2>2 DEF Flush, GoneChain, TypeInv, TypeOK, ChainState
      <3>3. budget'["fw"] <= budget["fw"]
        BY <2>2, UpsetLeaves DEF Flush, Upsets
      <3> QED
        BY <1>2, <3>1, <3>2, <3>3
    <2>3. ASSUME NEW reboot \in BOOLEAN, Restart(reboot)
          PROVE  KernelInv'
      <3>1. active' = None /\ proc' = Fresh /\ budget'["fw"] <= budget["fw"]
        BY <2>3, UpsetLeaves DEF Restart, Upsets
      <3>2. ~Refusing'
        BY <3>1, IdleType DEF Fresh, Idle, Refusing, ProcState
      <3> QED
        BY <1>0, <3>1, <3>2 DEF KernelInv, TypeInv, TypeOK, Upsets
    <2> QED
      BY <1>7, <2>1, <2>2, <2>3 DEF World
  <1>8. CASE UNCHANGED vars
    BY <1>0, <1>2, <1>8 DEF vars, mgr
  <1> QED
    BY <1>4, <1>5, <1>6, <1>7, <1>8 DEF Next

\* Before Start nothing is in force.
LEMMA StartStep ==
    ASSUME TypeInv, TrialInv, NothingAtStart, TypeInv', [Next]_vars
    PROVE  NothingAtStart'
  <1>1. CASE UNCHANGED <<active, proc>>
    BY <1>1 DEF NothingAtStart
  <1>2. ASSUME NEW p \in Procs, p # Janitor, NEW st, proc[p].pc # "idle" \/ UNCHANGED active,
               proc' = [proc EXCEPT ![p] = st]
        PROVE  NothingAtStart'
    BY <1>2 DEF NothingAtStart, TrialInv, StartAlone, TypeInv, TypeOK, Procs
  <1>3. ASSUME NEW st, proc' = [proc EXCEPT ![Janitor] = st], st.pc # "start"
        PROVE  NothingAtStart'
    BY <1>3 DEF NothingAtStart, TypeInv, TypeOK, Procs
  <1>4. ASSUME NEW o \in Operators, OperatorStep(o)
        PROVE  NothingAtStart'
    <2>1. o \in Procs /\ o # Janitor
      BY ProcsAssumption DEF Procs
    <2>2. /\ \E st : proc' = [proc EXCEPT ![o] = st]
          /\ UNCHANGED active \/ proc[o].pc = "enforce"
      <3>1. ASSUME NEW l, Goto(o, l) PROVE \E st : proc' = [proc EXCEPT ![o] = st]
        BY <2>1, <3>1 DEF Goto, TypeInv, TypeOK
      <3>2. ASSUME Finished(o) \/ Undo(o) \/ UNCHANGED proc PROVE \E st : proc' = [proc EXCEPT ![o] = st]
        <4>1. CASE UNCHANGED proc
          <5>1. proc' = [proc EXCEPT ![o] = proc[o]]
            BY <2>1, <4>1 DEF TypeInv, TypeOK
          <5> QED
            BY <5>1
        <4> QED
          BY <3>2, <4>1 DEF Finished, Undo
      <3>3. CASE \E rs \in Choices : SetBegin(o, rs)
        BY <3>3 DEF SetBegin, mgr
      <3>4. CASE \E ip \in Addrs, on \in BOOLEAN : FollowBegin(o, ip, on)
        BY <3>4 DEF FollowBegin, mgr
      <3>5. CASE SetLock(o) \/ Revert(o)
        BY <3>1, <3>2, <3>5 DEF SetLock, Revert, mgr
      <3>6. CASE SetFinish(o) \/ SetFollow(o)
        BY <3>2, <3>6 DEF SetFinish, SetFollow
      <3>7. CASE Confirm(o)
        BY <3>2, <3>7 DEF Confirm
      <3>8. CASE Holder(o)
        BY <3>1, <3>2, <3>8 DEF Holder, Enforce, EnforceSteps, Restore, mgr
      <3> QED
        BY <1>4, <3>3, <3>4, <3>5, <3>6, <3>7, <3>8 DEF OperatorStep
    <2>3. PICK st : proc' = [proc EXCEPT ![o] = st]
      BY <2>2
    <2>4. proc[o].pc # "idle" \/ UNCHANGED active
      BY <2>2
    <2> QED
      BY <1>2, <2>1, <2>3, <2>4
  <1>5. ASSUME NEW t \in Trials, TimerStep(t)
        PROVE  NothingAtStart'
    <2>1. t \in Procs /\ t # Janitor
      BY ProcsAssumption DEF Procs
    <2>2. /\ \E st : proc' = [proc EXCEPT ![t] = st]
          /\ UNCHANGED active \/ proc[t].pc = "enforce"
      <3>1. ASSUME NEW l, Goto(t, l) PROVE \E st : proc' = [proc EXCEPT ![t] = st]
        BY <2>1, <3>1 DEF Goto, TypeInv, TypeOK
      <3>2. ASSUME Finished(t) \/ Undo(t) \/ UNCHANGED proc PROVE \E st : proc' = [proc EXCEPT ![t] = st]
        <4>1. CASE UNCHANGED proc
          <5>1. proc' = [proc EXCEPT ![t] = proc[t]]
            BY <2>1, <4>1 DEF TypeInv, TypeOK
          <5> QED
            BY <5>1
        <4> QED
          BY <3>2, <4>1 DEF Finished, Undo
      <3>3. CASE Fire(t) \/ Expire(t)
        BY <3>2, <3>3 DEF Fire, Expire
      <3>4. CASE Holder(t)
        BY <3>1, <3>2, <3>4 DEF Holder, Enforce, EnforceSteps, Restore, mgr
      <3> QED
        BY <1>5, <3>3, <3>4 DEF TimerStep
    <2>3. PICK st : proc' = [proc EXCEPT ![t] = st]
      BY <2>2
    <2>4. proc[t].pc # "idle" \/ UNCHANGED active
      BY <2>2
    <2> QED
      BY <1>2, <2>1, <2>3, <2>4
  <1>6. CASE JanitorStep
    <2>1. proc'[Janitor].pc # "start"
      <3>1. proc \in [Procs -> ProcState] /\ Janitor \in Procs
        BY DEF TypeInv, TypeOK, Procs
      <3>2. CASE Start \/ Maintain
        BY <3>1, <3>2 DEF Start, Maintain, Goto, ProcState
      <3>3. CASE MaintainBegin
        <4>1. proc' = [proc EXCEPT ![Janitor] = [proc[Janitor] EXCEPT !.pc = "maintain", !.addrs = forwarded]]
          BY <3>1, <3>3 DEF MaintainBegin
        <4> QED
          BY <3>1, <4>1 DEF ProcState
      <3> QED
        BY <1>6, <3>2, <3>3 DEF JanitorStep
    <2> QED
      BY <2>1 DEF NothingAtStart
  <1>7. CASE World
    BY <1>1, <1>7 DEF World, Move, Flush, Restart, mgr, NothingAtStart
  <1> QED
    BY <1>1, <1>4, <1>5, <1>6, <1>7 DEF Next, vars, mgr

\* If no more than one call of the firewall fails, the manager knows between
\* two operations which rules the firewall holds, but for what a reload took:
\* a change that was refused is put back on every family, whatever the other
\* operators, the timers and the minute's maintenance do meanwhile.
THEOREM KernelKnownActive ==
    ASSUME Budget["fw"] <= 1
    PROVE  Spec => []KernelIsActive
  <1>1. Init => TypeInv /\ TrialInv /\ NothingAtStart /\ KernelInv
    <2> SUFFICES ASSUME Init PROVE NothingAtStart /\ KernelInv
      BY TypeInit, FreshTrial DEF Init
    <2>1. \A p \in Procs : proc[p].pc \in {"start", "idle"}
      BY FreshType, IdleType DEF Init, Fresh, Procs, Idle, ProcState
    <2> QED
      BY <2>1 DEF Init, KernelInv, KernelHolds, Refusing, NothingAtStart
  <1>2. TypeInv /\ TrialInv /\ NothingAtStart /\ KernelInv /\ [Next]_vars
          => (TypeInv /\ TrialInv /\ NothingAtStart /\ KernelInv)'
    BY TypeStep, TrialStep, StartStep, KernelStep
  <1>3. TypeInv /\ KernelInv => KernelIsActive
    BY ProcsAssumption DEF TypeInv, TypeOK, KernelInv, KernelHolds, Refusing, KernelIsActive
  <1> QED
    BY <1>1, <1>2, <1>3, PTL DEF Spec

=============================================================================
